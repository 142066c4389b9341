---------------------------- MODULE PgVoteProofs ----------------------------
(***************************************************************************)
(* Proofs about PgVote for every set of tokens, voters and finalizers and  *)
(* every number of shards.  The argument: a voter between its lock and its *)
(* end holds its shard (LockInv), so a finalizer that has drained every    *)
(* shard runs alone, what it counts cannot change until it commits, and a  *)
(* voter admitted afterwards sees the poll finalized (FinalInv).  A key    *)
(* has at most one row, committed or not (RowInv).  A "closed" answer is   *)
(* given when no other transaction of the shard is past its lock, and      *)
(* later ones are late (ClosedInv).  Whoever is waited for is nearer to    *)
(* its last lock (RankFalls), so nobody waits in a circle.                 *)
(***************************************************************************)
EXTENDS PgVote, FiniteSetTheorems, WellFoundedInduction, TLAPS

Locked == {"admit", "lookup", "insert", "fetch", "commit"}

\* Who may hold what at the same time.
LockInv ==
    /\ \A v \in Voters : vpc[v] \in Locked <=> held[v] # "none"
    /\ \A v \in Voters : held[v] = "exclusive" <=> (held[v] # "none" /\ excl[v])
    /\ \A v, w \in Voters :
         v # w /\ held[v] = "exclusive" /\ held[w] # "none"
           => ShardOf[req[v].token] # ShardOf[req[w].token]
    /\ \A v \in Voters, f \in Finalizers :
         held[v] # "none" => ~ FinalizerHolds(f, ShardOf[req[v].token])
    /\ \A f, g \in Finalizers : f # g => drained[f] = 0 \/ drained[g] = 0
    /\ \A f \in Finalizers : HoldsPollRow(f) => drained[f] = NumShards

\* Past the point where record_vote will or did write a row.
Writing(v) == vpc[v] = "insert" \/ Inserted(v)

\* A finalizer's count stays exact until it commits, and for ever after.
FinalInv ==
    /\ finalized => \A v \in Voters : ~ Writing(v)
    /\ \A f \in Finalizers :
         /\ fpc[f] \in {"total", "counts", "commit"} => ~ finalized
         /\ fpc[f] \in {"counts", "commit"} => tally[f].total = TotalVotes
         /\ fpc[f] = "commit" => tally[f].options = OptionCounts
    /\ finalized => results = Stored(TotalVotes, OptionCounts)
    /\ ~ finalized => results = NoResults

\* At most one row per key, and every answer about a key names it.
RowInv ==
    /\ \A v \in Voters : Inserted(v) =>
         /\ out[v].row \in Rows
         /\ ~ Recorded(req[v].token)
         /\ \A w \in Voters :
              Inserted(w) /\ req[w].token = req[v].token => v = w
    /\ \A v \in Voters : vpc[v] = "fetch" => Recorded(req[v].token)
    /\ \A v \in Voters :
         vpc[v] = "commit" /\ out[v].status \in {"duplicate", "conflict"}
           => Recorded(req[v].token) /\ out[v].row = votes[req[v].token]
    /\ ReceiptsAgree

\* Nobody writes or will write a row for t.
Over(t) ==
    /\ ~ Recorded(t)
    /\ now >= EndsAt \/ finalized
    /\ \A v \in Voters : vpc[v] # "idle" /\ req[v].token = t => ~ Writing(v)

\* What justifies "closed".
ClosedInv ==
    /\ \A v \in Voters : vpc[v] = "lookup" =>
         /\ config[v] => finalized
         /\ admitted[v] <= now
    /\ \A v \in Voters : vpc[v] = "commit" /\ out[v].status = "closed"
         => Over(req[v].token)
    /\ \A t \in closedFor : Over(t)

-----------------------------------------------------------------------------
LEMMA CountsAreNat ==
    /\ TotalVotes \in Nat
    /\ OptionCounts \in [Options -> Nat]
<1>1. ASSUME NEW S \in SUBSET Tokens PROVE Cardinality(S) \in Nat
  BY TokensAssumption, FS_Subset, FS_CardinalityType
<1>2. {t \in Tokens : Recorded(t)} \in SUBSET Tokens
  OBVIOUS
<1>3. \A o \in Options : {t \in Tokens : o \in votes[t].choices} \in SUBSET Tokens
  OBVIOUS
<1> QED BY <1>1, <1>2, <1>3 DEF TotalVotes, OptionCounts

LEMMA TypeInit == Init => TypeOK
<1> SUFFICES ASSUME Init PROVE TypeOK OBVIOUS
<1>1. results \in [total : Nat, options : [Options -> Nat], stored : BOOLEAN]
  BY DEF Init, NoResults
<1>2. tally \in [Finalizers -> Tallies]
  BY DEF Init, Tallies, NoResults
<1>3. out \in [Voters -> Answers]
  BY DEF Init, Answers, NoAnswer, Statuses
<1>4. now \in Clock /\ faults \in 0 .. MaxFaults /\ admitted \in [Voters -> Clock]
  BY WindowAssumption, FaultAssumption DEF Init, Clock
<1>5. drained \in [Finalizers -> 0 .. NumShards]
  BY ShardAssumption DEF Init
<1>6. receipts \in [Tokens -> SUBSET (Rows \cup {NoRow})]
  BY Zenon DEF Init
<1> QED BY <1>1, <1>2, <1>3, <1>4, <1>5, <1>6 DEF Init, TypeOK

\* Leaving a transaction, by commit or abort, keeps the voter's state typed.
LEMMA TypeLeave ==
    ASSUME TypeOK, NEW v \in Voters, Leave(v)
    PROVE  /\ vpc' \in [Voters -> {"idle", "mode", "lock", "admit", "lookup",
                                   "insert", "fetch", "commit"}]
           /\ req' \in [Voters -> Request \cup {NoRequest}]
           /\ \A w \in Voters : vpc'[w] # "idle" => req'[w] \in Request
           /\ excl' \in [Voters -> BOOLEAN]
           /\ held' \in [Voters -> {"none", "shared", "exclusive"}]
           /\ config' \in [Voters -> BOOLEAN]
           /\ admitted' \in [Voters -> Clock]
           /\ out' \in [Voters -> Answers]
BY WindowAssumption DEF TypeOK, Leave, NoAnswer, Answers, Statuses, Clock

LEMMA TypeNext == TypeOK /\ [Next]_vars => TypeOK'
<1> SUFFICES ASSUME TypeOK, [Next]_vars PROVE TypeOK' OBVIOUS
<1> USE DEF db, voter, closer, clients
<1>1. ASSUME NEW v \in Voters, NEW t \in Tokens, NEW c \in Ballots, Call(v, t, c)
      PROVE  TypeOK'
  BY <1>1 DEF TypeOK, Call, Request
<1>2. ASSUME NEW v \in Voters, ChooseLock(v) PROVE TypeOK'
  BY <1>2 DEF TypeOK, ChooseLock
<1>3. ASSUME NEW v \in Voters, Lock(v) PROVE TypeOK'
  BY <1>3 DEF TypeOK, Lock
<1>4. ASSUME NEW v \in Voters, Admit(v) PROVE TypeOK'
  <2>1. Answer("invalid", NoRow) \in Answers
    BY DEF Answer, Answers, Statuses
  <2>2. out' \in [Voters -> Answers]
    BY <1>4, <2>1 DEF TypeOK, Admit
  <2> QED BY <1>4, <2>2 DEF TypeOK, Admit
<1>5. ASSUME NEW v \in Voters, Lookup(v) PROVE TypeOK'
  <2>1. req[v].token \in Tokens
    BY <1>5 DEF Lookup, TypeOK, Request
  <2>2. Compare(v) \in Answers
    BY <2>1 DEF TypeOK, Compare, Answer, Answers, Statuses
  <2>3. Answer(Absence(v), NoRow) \in Answers
    BY DEF Absence, Answer, Answers, Statuses
  <2> QED BY <1>5, <2>2, <2>3 DEF TypeOK, Lookup
<1>6. ASSUME NEW v \in Voters, Insert(v) PROVE TypeOK'
  <2>1. Answer("accepted", [choices |-> req[v].choices, at |-> admitted[v]])
          \in Answers
    BY <1>6 DEF Insert, TypeOK, Answer, Answers, Statuses, Rows, Request
  <2> QED BY <1>6, <2>1 DEF TypeOK, Insert
<1>7. ASSUME NEW v \in Voters, Fetch(v) PROVE TypeOK'
  <2>1. req[v].token \in Tokens
    BY <1>7 DEF Fetch, TypeOK, Request
  <2>2. Compare(v) \in Answers
    BY <2>1 DEF TypeOK, Compare, Answer, Answers, Statuses
  <2> QED BY <1>7, <2>2 DEF TypeOK, Fetch
<1>8. ASSUME NEW v \in Voters, Commit(v) PROVE TypeOK'
  <2>1. req[v].token \in Tokens /\ out[v] \in Answers
    BY <1>8 DEF Commit, TypeOK, Request
  <2>2. votes' \in [Tokens -> Rows \cup {NoRow}]
    BY <1>8, <2>1 DEF Commit, TypeOK, Answers
  <2>3. /\ receipts' \in [Tokens -> SUBSET (Rows \cup {NoRow})]
        /\ closedFor' \subseteq Tokens
    <3>1. CASE UNCHANGED clients
      BY <3>1 DEF TypeOK
    <3>2. CASE Tell(v)
      BY <3>2, <2>1 DEF TypeOK, Tell, Answers
    <3> QED BY <1>8, <3>1, <3>2 DEF Commit
  <2> QED BY <1>8, <2>2, <2>3, TypeLeave DEF TypeOK, Commit
<1>9. ASSUME NEW v \in Voters, Abort(v) PROVE TypeOK'
  BY <1>9, TypeLeave, FaultAssumption DEF TypeOK, Abort
<1>10. ASSUME NEW f \in Finalizers, Begin(f) PROVE TypeOK'
  BY <1>10 DEF TypeOK, Begin
<1>11. ASSUME NEW f \in Finalizers, Drain(f) PROVE TypeOK'
  BY <1>11, ShardAssumption DEF TypeOK, Drain, MoreShards
<1>12. ASSUME NEW f \in Finalizers, Reread(f) PROVE TypeOK'
  BY <1>12 DEF TypeOK, Reread
<1>13. ASSUME NEW f \in Finalizers, CountTotal(f) PROVE TypeOK'
  BY <1>13, CountsAreNat DEF TypeOK, CountTotal, Tallies
<1>14. ASSUME NEW f \in Finalizers, CountOptions(f) PROVE TypeOK'
  BY <1>14, CountsAreNat DEF TypeOK, CountOptions, Tallies
<1>15. ASSUME NEW f \in Finalizers, Finalize(f) PROVE TypeOK'
  BY <1>15, ShardAssumption DEF TypeOK, Finalize, Release, Stored, NoResults, Tallies
<1>16. ASSUME NEW f \in Finalizers, ReturnFalse(f) PROVE TypeOK'
  BY <1>16, ShardAssumption DEF TypeOK, ReturnFalse, Release, NoResults, Tallies
<1>17. ASSUME NEW f \in Finalizers, AbortFinalize(f) PROVE TypeOK'
  BY <1>17, ShardAssumption, FaultAssumption
  DEF TypeOK, AbortFinalize, Release, NoResults, Tallies
<1>18. CASE Tick
  BY <1>18, WindowAssumption DEF TypeOK, Tick, Clock
<1>19. CASE UNCHANGED vars
  BY <1>19 DEF TypeOK, vars
<1> QED BY <1>1, <1>2, <1>3, <1>4, <1>5, <1>6, <1>7, <1>8, <1>9, <1>10, <1>11,
           <1>12, <1>13, <1>14, <1>15, <1>16, <1>17, <1>18, <1>19
        DEF Next, VoterStep, FinalizerStep

\* The state is well typed in every behaviour, for every instance.
THEOREM TypeCorrect == Spec => []TypeOK
<1>1. Init => TypeOK
  BY TypeInit
<1>2. TypeOK /\ [Next]_vars => TypeOK'
  BY TypeNext
<1> QED BY <1>1, <1>2, PTL DEF Spec

-----------------------------------------------------------------------------
(* Locks                                                                   *)

LEMMA LockInit == Init => LockInv
BY ShardAssumption DEF Init, LockInv, Locked, HoldsPollRow

\* A transaction that ends releases what it held.
LEMMA LockLeave ==
    ASSUME TypeOK, LockInv, NEW v \in Voters, Leave(v), UNCHANGED closer
    PROVE  LockInv'
BY DEF TypeOK, LockInv, Leave, Locked, HoldsPollRow, FinalizerHolds, closer

LEMMA LockRelease ==
    ASSUME TypeOK, LockInv, NEW f \in Finalizers, Release(f), UNCHANGED voter
    PROVE  LockInv'
BY ShardAssumption, SMTT(30)
DEF TypeOK, LockInv, Release, Locked, HoldsPollRow, FinalizerHolds, voter, Request

LEMMA LockNext == TypeOK /\ LockInv /\ [Next]_vars => LockInv'
<1> SUFFICES ASSUME TypeOK, LockInv, [Next]_vars PROVE LockInv' OBVIOUS
<1> USE DEF db, voter, closer, clients, LockInv, HoldsPollRow, FinalizerHolds,
            Locked
<1>1. ASSUME NEW v \in Voters, NEW t \in Tokens, NEW c \in Ballots, Call(v, t, c)
      PROVE  LockInv'
  BY <1>1, SMTT(30) DEF TypeOK, Call
<1>2. ASSUME NEW v \in Voters, ChooseLock(v) PROVE LockInv'
  BY <1>2 DEF TypeOK, ChooseLock
<1>3. ASSUME NEW v \in Voters, Lock(v) PROVE LockInv'
  BY <1>3 DEF TypeOK, Lock, SharedFree, ExclusiveFree, VoterHolds
<1>4. ASSUME NEW v \in Voters, Admit(v) PROVE LockInv'
  BY <1>4 DEF TypeOK, Admit
<1>5. ASSUME NEW v \in Voters, Lookup(v) PROVE LockInv'
  BY <1>5 DEF TypeOK, Lookup
<1>6. ASSUME NEW v \in Voters, Insert(v) PROVE LockInv'
  BY <1>6 DEF TypeOK, Insert
<1>7. ASSUME NEW v \in Voters, Fetch(v) PROVE LockInv'
  BY <1>7 DEF TypeOK, Fetch
<1>8. ASSUME NEW v \in Voters, Commit(v) \/ Abort(v) PROVE LockInv'
  BY <1>8, LockLeave DEF Commit, Abort
<1>9. ASSUME NEW f \in Finalizers, Begin(f) PROVE LockInv'
  BY <1>9 DEF TypeOK, Begin
<1>10. ASSUME NEW f \in Finalizers, Drain(f) PROVE LockInv'
  <2>1. ~ HoldsPollRow(f) /\ fpc' = fpc
    BY <1>10 DEF Drain
  <2>2. \A v \in Voters : held[v] # "none" =>
          ShardOf[req[v].token] \in Nat /\ ShardOf[req[v].token] # drained[f]
    BY <1>10, ShardAssumption
    DEF Drain, ExclusiveFree, VoterHolds, TypeOK, Request
  <2>3. \A g \in Finalizers : g # f /\ drained[f] # 0 => drained[g] = 0
    OBVIOUS
  <2>4. \A g \in Finalizers : drained[g] \in Nat /\ (drained[f] = 0 => drained[g] = 0)
    BY <1>10 DEF Drain, ExclusiveFree, TypeOK
  <2>5. drained' = [drained EXCEPT ![f] = @ + 1] /\ UNCHANGED voter
    BY <1>10 DEF Drain
  <2>6. \A g, h \in Finalizers : g # h => drained'[g] = 0 \/ drained'[h] = 0
    BY <2>3, <2>4, <2>5 DEF TypeOK
  <2>7. \A v \in Voters, g \in Finalizers :
          held[v] # "none" => ~ (ShardOf[req[v].token] < drained'[g])
    <3> SUFFICES ASSUME NEW v \in Voters, NEW g \in Finalizers, held[v] # "none"
                 PROVE  ~ (ShardOf[req[v].token] < drained'[g])
      OBVIOUS
    <3>1. ~ (ShardOf[req[v].token] < drained[g])
      OBVIOUS
    <3>2. drained'[g] = IF g = f THEN drained[f] + 1 ELSE drained[g]
      BY <2>5 DEF TypeOK
    <3> HIDE DEF LockInv
    <3> QED BY <2>2, <2>4, <3>1, <3>2
  <2>8. \A g \in Finalizers : HoldsPollRow(g)' => drained'[g] = NumShards
    BY <2>1, <2>5 DEF TypeOK
  <2> QED BY <2>5, <2>6, <2>7, <2>8
<1>11. ASSUME NEW f \in Finalizers, Reread(f) PROVE LockInv'
  BY <1>11 DEF TypeOK, Reread, AllDrained
<1>12. ASSUME NEW f \in Finalizers, CountTotal(f) PROVE LockInv'
  BY <1>12 DEF TypeOK, CountTotal
<1>13. ASSUME NEW f \in Finalizers, CountOptions(f) PROVE LockInv'
  BY <1>13 DEF TypeOK, CountOptions
<1>14. ASSUME NEW f \in Finalizers, Finalize(f) \/ ReturnFalse(f) \/ AbortFinalize(f)
       PROVE  LockInv'
  BY <1>14, LockRelease DEF Finalize, ReturnFalse, AbortFinalize
<1>15. CASE Tick \/ UNCHANGED vars
  BY <1>15 DEF Tick, vars
<1> QED BY <1>1, <1>2, <1>3, <1>4, <1>5, <1>6, <1>7, <1>8, <1>9, <1>10, <1>11,
           <1>12, <1>13, <1>14, <1>15
        DEF Next, VoterStep, FinalizerStep

\* A finalizer that has drained every shard is alone past the locks.
LEMMA DrainedAlone ==
    ASSUME TypeOK, LockInv, NEW f \in Finalizers, drained[f] = NumShards
    PROVE  /\ \A v \in Voters : vpc[v] \notin Locked /\ ~ Writing(v)
           /\ \A g \in Finalizers : g # f => drained[g] = 0 /\ ~ HoldsPollRow(g)
<1>1. ASSUME NEW v \in Voters PROVE held[v] = "none" /\ vpc[v] \notin Locked
  <2>1. CASE held[v] # "none"
    <3>1. req[v].token \in Tokens
      BY <2>1 DEF LockInv, Locked, TypeOK, Request
    <3>2. ShardOf[req[v].token] < NumShards
      BY <3>1, ShardAssumption
    <3> QED BY <2>1, <3>2 DEF LockInv, FinalizerHolds
  <2> QED BY <2>1 DEF LockInv
<1>2. \A g \in Finalizers : g # f => drained[g] = 0 /\ ~ HoldsPollRow(g)
  BY ShardAssumption DEF LockInv
<1> QED BY <1>1, <1>2 DEF Writing, Inserted, Locked

-----------------------------------------------------------------------------
(* The published result                                                    *)

LEMMA CountsOfVotes ==
    ASSUME votes' = votes
    PROVE  TotalVotes' = TotalVotes /\ OptionCounts' = OptionCounts
BY DEF TotalVotes, OptionCounts, Recorded

LEMMA FinalInit == Init => FinalInv
BY DEF Init, FinalInv, Writing, Inserted, NoAnswer

\* A step that leaves the tables and the finalizers alone, and makes nobody
\* write who did not, keeps FinalInv.
LEMMA FinalVoterStep ==
    ASSUME TypeOK, FinalInv, UNCHANGED <<votes, finalized, results, fpc, tally>>,
           finalized => \A v \in Voters : Writing(v)' => Writing(v)
    PROVE  FinalInv'
BY CountsOfVotes DEF FinalInv

LEMMA FinalNext == TypeOK /\ LockInv /\ FinalInv /\ [Next]_vars => FinalInv'
<1> SUFFICES ASSUME TypeOK, LockInv, FinalInv, [Next]_vars PROVE FinalInv' OBVIOUS
<1> USE DEF db, voter, closer, clients
<1>1. ASSUME NEW v \in Voters, NEW t \in Tokens, NEW c \in Ballots, Call(v, t, c)
      PROVE  FinalInv'
  BY <1>1, FinalVoterStep DEF TypeOK, Call, Writing, Inserted
<1>2. ASSUME NEW v \in Voters, ChooseLock(v) PROVE FinalInv'
  BY <1>2, FinalVoterStep DEF TypeOK, ChooseLock, Writing, Inserted
<1>3. ASSUME NEW v \in Voters, Lock(v) PROVE FinalInv'
  BY <1>3, FinalVoterStep DEF TypeOK, Lock, Writing, Inserted
<1>4. ASSUME NEW v \in Voters, Admit(v) PROVE FinalInv'
  BY <1>4, FinalVoterStep DEF TypeOK, Admit, Outside, Writing, Inserted, Answer
<1>5. ASSUME NEW v \in Voters, Lookup(v) PROVE FinalInv'
  BY <1>5, FinalVoterStep
  DEF TypeOK, Lookup, Writing, Inserted, Answer, Compare, Absence
<1>6. ASSUME NEW v \in Voters, Insert(v) PROVE FinalInv'
  BY <1>6, FinalVoterStep DEF TypeOK, Insert, Writing, Inserted
<1>7. ASSUME NEW v \in Voters, Fetch(v) PROVE FinalInv'
  BY <1>7, FinalVoterStep DEF TypeOK, Fetch, Writing, Inserted, Compare, Answer
<1>8. ASSUME NEW v \in Voters, Leave(v), UNCHANGED <<finalized, results, closer>>,
             votes' = votes \/ (vpc[v] = "commit" /\ Inserted(v))
      PROVE  FinalInv'
  <2>1. CASE votes' = votes
    BY <1>8, <2>1, FinalVoterStep DEF Leave, Writing, Inserted, TypeOK
  <2>2. CASE vpc[v] = "commit" /\ Inserted(v)
    <3>1. ~ finalized
      BY <2>2 DEF FinalInv, Writing
    <3>2. \A f \in Finalizers : fpc[f] \notin {"counts", "commit"}
      BY <2>2, DrainedAlone DEF LockInv, HoldsPollRow, Locked
    <3> QED BY <1>8, <3>1, <3>2 DEF FinalInv
  <2> QED BY <1>8, <2>1, <2>2
<1>9. ASSUME NEW v \in Voters, Commit(v) \/ Abort(v) PROVE FinalInv'
  BY <1>8, <1>9 DEF Commit, Abort
<1>10. ASSUME NEW f \in Finalizers, Begin(f) \/ Drain(f) PROVE FinalInv'
  BY <1>10, CountsOfVotes DEF TypeOK, FinalInv, Begin, Drain, Writing, Inserted
<1>11. ASSUME NEW f \in Finalizers, Reread(f) PROVE FinalInv'
  BY <1>11, CountsOfVotes DEF TypeOK, FinalInv, Reread, Writing, Inserted
<1>12. ASSUME NEW f \in Finalizers, CountTotal(f) PROVE FinalInv'
  BY <1>12, CountsOfVotes DEF TypeOK, FinalInv, CountTotal, Writing, Inserted
<1>13. ASSUME NEW f \in Finalizers, CountOptions(f) PROVE FinalInv'
  BY <1>13, CountsOfVotes DEF TypeOK, FinalInv, CountOptions, Writing, Inserted
<1>14. ASSUME NEW f \in Finalizers, Finalize(f) PROVE FinalInv'
  <2>1. drained[f] = NumShards
    BY <1>14 DEF Finalize, LockInv, HoldsPollRow
  <2>2. \A v \in Voters : ~ Writing(v)'
    BY <1>14, <2>1, DrainedAlone DEF Finalize, Writing, Inserted
  <2>3. \A g \in Finalizers : fpc'[g] \notin {"total", "counts", "commit"}
    BY <1>14, <2>1, DrainedAlone DEF Finalize, Release, HoldsPollRow, TypeOK
  <2>4. results' = Stored(TotalVotes, OptionCounts)'
    BY <1>14, CountsOfVotes DEF Finalize, FinalInv, Stored
  <2> QED BY <1>14, <2>2, <2>3, <2>4 DEF Finalize, FinalInv
<1>15. ASSUME NEW f \in Finalizers, ReturnFalse(f) \/ AbortFinalize(f)
       PROVE  FinalInv'
  BY <1>15, CountsOfVotes
  DEF ReturnFalse, AbortFinalize, Release, FinalInv, Writing, Inserted, TypeOK
<1>16. CASE Tick \/ UNCHANGED vars
  BY <1>16, CountsOfVotes
  DEF Tick, vars, FinalInv, Writing, Inserted
<1> QED BY <1>1, <1>2, <1>3, <1>4, <1>5, <1>6, <1>7, <1>9, <1>10, <1>11, <1>12,
           <1>13, <1>14, <1>15, <1>16
        DEF Next, VoterStep, FinalizerStep

\* The published result equals the committed votes for ever, for any number of
\* voters, finalizers and shards, with aborts and even if the clock steps back.
THEOREM FinalResultIsExact == Spec => []FinalResultExact
<1> DEFINE Inv == TypeOK /\ LockInv /\ FinalInv
<1>1. Init => Inv
  BY TypeInit, LockInit, FinalInit
<1>2. Inv /\ [Next]_vars => Inv'
  BY TypeNext, LockNext, FinalNext
<1>3. Inv => FinalResultExact
  BY DEF FinalInv, FinalResultExact
<1> QED BY <1>1, <1>2, <1>3, PTL DEF Spec

-----------------------------------------------------------------------------
(* One row per key, and receipts that name it                              *)

LEMMA NoRowIsNoRow == \A r \in Rows : r # NoRow
BY BallotAssumption DEF Rows, NoRow

LEMMA RowInit == Init => RowInv
BY DEF Init, RowInv, ReceiptsAgree, Inserted

\* A step of v that changes neither tables nor receipts, where v neither has
\* nor gets an answer that names a row.
LEMMA RowQuietStep ==
    ASSUME TypeOK, RowInv, NEW v \in Voters, UNCHANGED <<votes, receipts>>,
           \A w \in Voters : w # v =>
             vpc'[w] = vpc[w] /\ req'[w] = req[w] /\ out'[w] = out[w],
           vpc'[v] # "fetch",
           vpc'[v] = "commit" =>
             out'[v].status \notin {"accepted", "duplicate", "conflict"}
    PROVE  RowInv'
BY DEF RowInv, Inserted, Recorded, ReceiptsAgree

LEMMA RowNext == TypeOK /\ RowInv /\ [Next]_vars => RowInv'
<1> SUFFICES ASSUME TypeOK, RowInv, [Next]_vars PROVE RowInv' OBVIOUS
<1> USE DEF db, voter, closer, clients
<1>1. ASSUME NEW v \in Voters, NEW t \in Tokens, NEW c \in Ballots, Call(v, t, c)
      PROVE  RowInv'
  BY <1>1, RowQuietStep DEF TypeOK, Call
<1>2. ASSUME NEW v \in Voters, ChooseLock(v) PROVE RowInv'
  BY <1>2, RowQuietStep DEF TypeOK, ChooseLock
<1>3. ASSUME NEW v \in Voters, Lock(v) PROVE RowInv'
  BY <1>3, RowQuietStep DEF TypeOK, Lock
<1>4. ASSUME NEW v \in Voters, Admit(v) PROVE RowInv'
  BY <1>4, RowQuietStep DEF TypeOK, Admit, Answer
<1>5. ASSUME NEW v \in Voters, Lookup(v) PROVE RowInv'
  <2>1. CASE Recorded(req[v].token)
    <3>1. out' = [out EXCEPT ![v] = Compare(v)]
      BY <1>5, <2>1 DEF Lookup
    <3> QED BY <1>5, <2>1, <3>1
            DEF TypeOK, Lookup, RowInv, Inserted, Recorded, ReceiptsAgree,
                Compare, Answer
  <2>2. CASE ~ Recorded(req[v].token)
    <3>1. out' = [out EXCEPT ![v] = Answer(Absence(v), NoRow)]
      BY <1>5, <2>2 DEF Lookup
    <3> QED BY <1>5, <3>1, RowQuietStep DEF TypeOK, Lookup, Answer, Absence
  <2> QED BY <2>1, <2>2
<1>6. ASSUME NEW v \in Voters, Insert(v) PROVE RowInv'
  <2>1. CASE ~ Recorded(req[v].token)
    <3>1. [choices |-> req[v].choices, at |-> admitted[v]] \in Rows
      BY <1>6 DEF Insert, TypeOK, Request, Rows
    <3>2. \A w \in Voters : Inserted(w) => req[w].token # req[v].token
      BY <1>6 DEF Insert, KeyFree
    <3>3. /\ out' = [out EXCEPT ![v] = Answer("accepted",
                      [choices |-> req[v].choices, at |-> admitted[v]])]
          /\ vpc' = [vpc EXCEPT ![v] = "commit"]
          /\ UNCHANGED <<votes, req, receipts>>
      BY <1>6, <2>1 DEF Insert
    <3> QED BY <2>1, <3>1, <3>2, <3>3
            DEF TypeOK, RowInv, Inserted, Recorded, ReceiptsAgree, Answer
  <2>2. CASE Recorded(req[v].token)
    BY <1>6, <2>2
    DEF TypeOK, Insert, RowInv, Inserted, Recorded, ReceiptsAgree
  <2> QED BY <2>1, <2>2
<1>7. ASSUME NEW v \in Voters, Fetch(v) PROVE RowInv'
  BY <1>7
  DEF TypeOK, Fetch, RowInv, Inserted, Recorded, ReceiptsAgree, Compare, Answer
<1>8. ASSUME NEW v \in Voters, Commit(v) PROVE RowInv'
  <2>1. CASE Inserted(v)
    <3> DEFINE t == req[v].token
    <3>1. /\ votes' = [votes EXCEPT ![t] = out[v].row]
          /\ t \in Tokens /\ ~ Recorded(t)
          /\ out[v].row \in Rows /\ out[v].row # NoRow
      BY <1>8, <2>1, NoRowIsNoRow DEF Commit, RowInv, TypeOK, Request, Inserted
    <3>2. receipts[t] = {}
      BY <3>1 DEF RowInv, ReceiptsAgree, TypeOK
    <3>3. /\ \A u \in Tokens \ {t} : receipts'[u] = receipts[u]
          /\ receipts'[t] \subseteq {out[v].row}
      BY <1>8, <2>1, <3>1, <3>2 DEF Commit, Tell, Inserted, TypeOK
    <3>4. ReceiptsAgree'
      BY <3>1, <3>3 DEF RowInv, ReceiptsAgree, Recorded, TypeOK
    <3>5. \A w \in Voters : Inserted(w)' =>
            Inserted(w) /\ w # v /\ req'[w] = req[w] /\ out'[w] = out[w]
      BY <1>8 DEF Commit, Leave, Inserted, TypeOK
    <3>6. \A u \in Tokens : u # t => votes'[u] = votes[u]
      BY <3>1 DEF TypeOK
    <3>7. \A w \in Voters : Inserted(w)' =>
            /\ out'[w].row \in Rows
            /\ ~ Recorded(req[w].token)'
            /\ \A x \in Voters :
                 Inserted(x)' /\ req'[x].token = req'[w].token => w = x
      <4> SUFFICES ASSUME NEW w \in Voters, Inserted(w)'
                   PROVE  /\ out'[w].row \in Rows
                          /\ ~ Recorded(req[w].token)'
                          /\ \A x \in Voters : Inserted(x)' /\
                               req'[x].token = req'[w].token => w = x
        OBVIOUS
      <4>1. Inserted(w) /\ w # v /\ req'[w] = req[w] /\ out'[w] = out[w]
        BY <3>5
      <4>2. req[w].token \in Tokens /\ req[w].token # t
        BY <4>1, <2>1 DEF RowInv, TypeOK, Inserted, Request
      <4>3. ~ Recorded(req[w].token)'
        BY <4>1, <4>2, <3>6 DEF RowInv, Recorded
      <4> QED BY <4>1, <4>3, <3>5 DEF RowInv
    <3>8. \A u \in Tokens : Recorded(u) => votes'[u] = votes[u] /\ Recorded(u)'
      BY <3>1, <3>6 DEF Recorded
    <3>9. \A w \in Voters :
            vpc'[w] # "idle" =>
              /\ vpc'[w] = vpc[w] /\ req'[w] = req[w] /\ out'[w] = out[w]
              /\ req[w].token \in Tokens
      BY <1>8 DEF Commit, Leave, TypeOK, Request
    <3> QED BY <3>4, <3>7, <3>8, <3>9 DEF RowInv
  <2>2. CASE ~ Inserted(v)
    <3>1. votes' = votes
      BY <1>8, <2>2 DEF Commit
    <3>2. req[v].token \in Tokens
      BY <1>8 DEF Commit, TypeOK, Request
    <3>3. ReceiptsAgree'
      BY <1>8, <2>2, <3>1, <3>2
      DEF Commit, Tell, Inserted, RowInv, ReceiptsAgree, Recorded, TypeOK
    <3> QED BY <1>8, <3>1, <3>3
            DEF Commit, Leave, TypeOK, RowInv, Inserted, Recorded
  <2> QED BY <2>1, <2>2
<1>9. ASSUME NEW v \in Voters, Abort(v) PROVE RowInv'
  BY <1>9, RowQuietStep DEF TypeOK, Abort, Leave
<1>10. CASE UNCHANGED <<votes, voter, receipts>>
  BY <1>10 DEF RowInv, Inserted, Recorded, ReceiptsAgree
<1>11. ASSUME NEW f \in Finalizers, FinalizerStep(f) PROVE RowInv'
  BY <1>10, <1>11 DEF FinalizerStep, Begin, Drain, Reread, CountTotal,
     CountOptions, Finalize, ReturnFalse, AbortFinalize
<1>12. CASE Tick \/ UNCHANGED vars
  BY <1>10, <1>12 DEF Tick, vars
<1> QED BY <1>1, <1>2, <1>3, <1>4, <1>5, <1>6, <1>7, <1>8, <1>9, <1>11, <1>12
        DEF Next, VoterStep

\* Whatever retries, conflicts, aborts and lost answers happen, all receipts of
\* a key name the same recorded row.
THEOREM AllReceiptsAgree == Spec => []ReceiptsAgree
<1> DEFINE Inv == TypeOK /\ RowInv
<1>1. Init => Inv
  BY TypeInit, RowInit
<1>2. Inv /\ [Next]_vars => Inv'
  BY TypeNext, RowNext
<1>3. Inv => ReceiptsAgree
  BY DEF RowInv
<1> QED BY <1>1, <1>2, <1>3, PTL DEF Spec

\* A committed vote never changes and a published result never changes.
THEOREM ResultsGrow == Spec => ResultsOnlyGrow
<1> DEFINE Inv == TypeOK /\ LockInv /\ FinalInv /\ RowInv
           Grow == /\ \A t \in Tokens : Recorded(t) => votes'[t] = votes[t]
                   /\ finalized => results' = results
<1>1. Init => Inv
  BY TypeInit, LockInit, FinalInit, RowInit
<1>2. Inv /\ [Next]_vars => Inv'
  BY TypeNext, LockNext, FinalNext, RowNext
<1>3. Inv /\ [Next]_vars => [Grow]_vars
  <2> SUFFICES ASSUME Inv, Next PROVE Grow OBVIOUS
  <2> USE DEF db, voter, closer, clients
  <2>1. ASSUME NEW v \in Voters, VoterStep(v) PROVE Grow
    <3>1. CASE Commit(v)
      BY <3>1 DEF Commit, RowInv, Recorded, TypeOK
    <3>2. CASE ~ Commit(v)
      BY <2>1, <3>2 DEF VoterStep, Call, ChooseLock, Lock, Admit, Lookup, Insert,
         Fetch, Abort
    <3> QED BY <3>1, <3>2
  <2>2. ASSUME NEW f \in Finalizers, FinalizerStep(f) PROVE Grow
    BY <2>2 DEF FinalizerStep, Begin, Drain, Reread, CountTotal, CountOptions,
       Finalize, ReturnFalse, AbortFinalize, FinalInv
  <2>3. CASE Tick
    BY <2>3 DEF Tick
  <2> QED BY <2>1, <2>2, <2>3 DEF Next
<1> QED BY <1>1, <1>2, <1>3, PTL DEF Spec, ResultsOnlyGrow

-----------------------------------------------------------------------------
(* "closed" is definitive                                                  *)

LEMMA ClosedInit == Init => ClosedInv
BY DEF Init, ClosedInv

\* With a clock that never steps back, a key that is over stays over.
LEMMA OverStable ==
    ASSUME TypeOK, [Next]_vars, ~ ClockMayStepBack, NEW t \in Tokens, Over(t)
    PROVE  Over(t)'
<1> USE DEF db, voter, closer, clients
<1>1. ASSUME NEW v \in Voters, NEW u \in Tokens, NEW c \in Ballots, Call(v, u, c)
      PROVE  Over(t)'
  BY <1>1 DEF TypeOK, Call, Over, Recorded, Writing, Inserted
<1>2. ASSUME NEW v \in Voters, ChooseLock(v) PROVE Over(t)'
  BY <1>2 DEF TypeOK, ChooseLock, Over, Recorded, Writing, Inserted
<1>3. ASSUME NEW v \in Voters, Lock(v) PROVE Over(t)'
  BY <1>3 DEF TypeOK, Lock, Over, Recorded, Writing, Inserted
<1>4. ASSUME NEW v \in Voters, Admit(v) PROVE Over(t)'
  BY <1>4 DEF TypeOK, Admit, Outside, Over, Recorded, Writing, Inserted, Answer
<1>5. ASSUME NEW v \in Voters, Lookup(v) PROVE Over(t)'
  <2>1. out'[v].status # "accepted"
    BY <1>5 DEF TypeOK, Lookup, Answer, Compare, Absence
  <2> QED BY <1>5, <2>1 DEF TypeOK, Lookup, Over, Recorded, Writing, Inserted
<1>6. ASSUME NEW v \in Voters, Insert(v) PROVE Over(t)'
  BY <1>6 DEF TypeOK, Insert, Over, Recorded, Writing, Inserted
<1>7. ASSUME NEW v \in Voters, Fetch(v) PROVE Over(t)'
  BY <1>7 DEF TypeOK, Fetch, Over, Recorded, Writing, Inserted, Compare, Answer
<1>8. ASSUME NEW v \in Voters, Commit(v) PROVE Over(t)'
  <2>1. votes'[t] = votes[t]
    BY <1>8 DEF Commit, Over, Writing, TypeOK
  <2> QED BY <1>8, <2>1 DEF TypeOK, Commit, Leave, Over, Recorded, Writing, Inserted
<1>9. ASSUME NEW v \in Voters, Abort(v) PROVE Over(t)'
  BY <1>9 DEF TypeOK, Abort, Leave, Over, Recorded, Writing, Inserted
<1>10. ASSUME NEW f \in Finalizers, FinalizerStep(f) PROVE Over(t)'
  BY <1>10 DEF FinalizerStep, Begin, Drain, Reread, CountTotal, CountOptions,
     Finalize, ReturnFalse, AbortFinalize, Over, Recorded, Writing, Inserted
<1>11. CASE Tick \/ UNCHANGED vars
  BY <1>11, WindowAssumption
  DEF Tick, vars, TypeOK, Clock, Over, Recorded, Writing, Inserted
<1> QED BY <1>1, <1>2, <1>3, <1>4, <1>5, <1>6, <1>7, <1>8, <1>9, <1>10, <1>11
        DEF Next, VoterStep

\* The answer "closed" is given only for a key that is over: because the poll
\* is final, or because the exclusive lock has drained the shard.
LEMMA LookupCloses ==
    ASSUME TypeOK, LockInv, FinalInv, ClosedInv, NEW v \in Voters, Lookup(v),
           out'[v].status = "closed"
    PROVE  Over(req[v].token)
<1> USE DEF Lookup
<1>1. ~ Recorded(req[v].token)
  BY DEF Compare, Answer, TypeOK
<1>2. Absence(v) = "closed"
  BY <1>1 DEF Answer, TypeOK
<1>3. CASE config[v]
  BY <1>1, <1>3 DEF ClosedInv, FinalInv, Over
<1>4. CASE ~ config[v] /\ admitted[v] >= EndsAt /\ excl[v]
  <2>1. now >= EndsAt
    BY <1>4, WindowAssumption DEF ClosedInv, TypeOK, Clock
  <2>2. held[v] = "exclusive"
    BY <1>4 DEF LockInv, Locked
  <2>3. \A w \in Voters : w # v /\ req[w].token = req[v].token => held[w] = "none"
    BY <2>2 DEF LockInv
  <2>4. \A w \in Voters : req[w].token = req[v].token => ~ Writing(w)
    BY <2>3 DEF LockInv, Locked, Writing, Inserted
  <2> QED BY <1>1, <2>1, <2>4 DEF Over
<1> QED BY <1>2, <1>3, <1>4 DEF Absence

LEMMA ClosedNext ==
    ASSUME ~ ClockMayStepBack
    PROVE  TypeOK /\ LockInv /\ FinalInv /\ ClosedInv /\ [Next]_vars => ClosedInv'
<1> SUFFICES ASSUME TypeOK, LockInv, FinalInv, ClosedInv, [Next]_vars
             PROVE  ClosedInv'
  OBVIOUS
<1> USE DEF db, voter, closer, clients
<1>1. /\ finalized => finalized'
      /\ now' >= now
  <2>1. now \in Nat
    BY DEF TypeOK, Clock
  <2>2. ASSUME NEW v \in Voters, VoterStep(v) PROVE UNCHANGED <<now, finalized>>
    BY <2>2 DEF VoterStep, Call, ChooseLock, Lock, Admit, Lookup, Insert, Fetch,
                Commit, Abort
  <2>3. ASSUME NEW f \in Finalizers, FinalizerStep(f)
        PROVE  now' = now /\ (finalized => finalized')
    BY <2>3 DEF FinalizerStep, Begin, Drain, Reread, CountTotal, CountOptions,
                Finalize, ReturnFalse, AbortFinalize
  <2>4. CASE Tick
    <3>1. now' = now + 1
      BY <2>4 DEF Tick
    <3> QED BY <2>1, <2>4, <3>1 DEF Tick
  <2>5. CASE UNCHANGED vars
    BY <2>1, <2>5 DEF vars
  <2> QED BY <2>1, <2>2, <2>3, <2>4, <2>5 DEF Next
<1>2. \A t \in Tokens : Over(t) => Over(t)'
  BY OverStable
<1>3. \A v \in Voters : vpc[v] # "idle" => req[v].token \in Tokens
  BY DEF TypeOK, Request
<1>4. TypeOK'
  BY TypeNext
<1>5. ASSUME NEW v \in Voters,
             \/ \E t \in Tokens, c \in Ballots : Call(v, t, c)
             \/ ChooseLock(v) \/ Lock(v) \/ Insert(v) \/ Fetch(v) \/ Abort(v)
      PROVE  ClosedInv'
  <2>1. vpc'[v] # "lookup" /\ (vpc'[v] = "commit" => out'[v].status # "closed")
    BY <1>5 DEF TypeOK, Call, ChooseLock, Lock, Insert, Fetch, Abort, Leave, Compare,
                Answer
  <2>2. \A w \in Voters : w # v =>
          /\ vpc'[w] = vpc[w] /\ req'[w] = req[w] /\ out'[w] = out[w]
          /\ config'[w] = config[w] /\ admitted'[w] = admitted[w]
    BY <1>5 DEF TypeOK, Call, ChooseLock, Lock, Insert, Fetch, Abort, Leave
  <2>3. closedFor' = closedFor
    BY <1>5 DEF Call, ChooseLock, Lock, Insert, Fetch, Abort
  <2> QED BY <1>1, <1>2, <1>3, <1>4, <2>1, <2>2, <2>3, SMTT(30) DEF ClosedInv, TypeOK, Clock
<1>6. ASSUME NEW v \in Voters, Admit(v) PROVE ClosedInv'
  <2>1. /\ vpc'[v] = "commit" => out'[v].status # "closed"
        /\ config'[v] => finalized'
        /\ admitted'[v] <= now'
    BY <1>6 DEF TypeOK, Clock, Admit, Answer
  <2>2. \A w \in Voters : w # v =>
          /\ vpc'[w] = vpc[w] /\ out'[w] = out[w]
          /\ config'[w] = config[w] /\ admitted'[w] = admitted[w]
    BY <1>6 DEF TypeOK, Admit
  <2>3. closedFor' = closedFor /\ req' = req
    BY <1>6 DEF Admit
  <2> QED BY <1>1, <1>2, <1>3, <1>4, <2>1, <2>2, <2>3 DEF ClosedInv, TypeOK, Clock
<1>7. ASSUME NEW v \in Voters, Lookup(v) PROVE ClosedInv'
  <2>1. vpc'[v] = "commit" /\ vpc[v] = "lookup"
    BY <1>7 DEF TypeOK, Lookup
  <2>2. \A w \in Voters : w # v =>
          /\ vpc'[w] = vpc[w] /\ out'[w] = out[w]
          /\ config'[w] = config[w] /\ admitted'[w] = admitted[w]
    BY <1>7 DEF TypeOK, Lookup
  <2>3. closedFor' = closedFor /\ req' = req
    BY <1>7 DEF Lookup
  <2>4. out'[v].status = "closed" => Over(req[v].token)
    BY <1>7, LookupCloses
  <2> QED BY <1>1, <1>2, <1>3, <1>4, <2>1, <2>2, <2>3, <2>4, SMTT(30)
          DEF ClosedInv, TypeOK, Clock
<1>8. ASSUME NEW v \in Voters, Commit(v) PROVE ClosedInv'
  <2>1. vpc'[v] = "idle"
    BY <1>8 DEF TypeOK, Commit, Leave
  <2>2. \A w \in Voters : w # v =>
          /\ vpc'[w] = vpc[w] /\ req'[w] = req[w] /\ out'[w] = out[w]
          /\ config'[w] = config[w] /\ admitted'[w] = admitted[w]
    BY <1>8 DEF TypeOK, Commit, Leave
  <2>3. \A t \in closedFor' : t \in Tokens /\ Over(t)
    <3>1. req[v].token \in Tokens
      BY <1>3, <1>8 DEF Commit
    <3>2. CASE UNCHANGED clients
      BY <3>2 DEF ClosedInv, TypeOK
    <3>3. CASE Tell(v)
      BY <1>8, <3>1, <3>3 DEF Tell, ClosedInv, Commit, TypeOK
    <3> QED BY <1>8, <3>2, <3>3 DEF Commit
  <2> QED BY <1>1, <1>2, <1>3, <1>4, <2>1, <2>2, <2>3 DEF ClosedInv, TypeOK, Clock
<1>9. CASE UNCHANGED <<voter, clients>>
  BY <1>1, <1>2, <1>3, <1>4, <1>9 DEF ClosedInv, TypeOK, Clock
<1>10. ASSUME NEW f \in Finalizers, FinalizerStep(f) PROVE ClosedInv'
  BY <1>9, <1>10 DEF FinalizerStep, Begin, Drain, Reread, CountTotal, CountOptions,
     Finalize, ReturnFalse, AbortFinalize
<1>11. CASE Tick \/ UNCHANGED vars
  BY <1>9, <1>11 DEF Tick, vars
<1> QED BY <1>5, <1>6, <1>7, <1>8, <1>10, <1>11 DEF Next, VoterStep

\* With a clock that never steps back, a key told "closed" never gets a vote.
THEOREM ClosedStaysClosed ==
    ASSUME ~ ClockMayStepBack
    PROVE  Spec => []ClosedIsDefinitive
<1> DEFINE Inv == TypeOK /\ LockInv /\ FinalInv /\ ClosedInv
<1>1. Init => Inv
  BY TypeInit, LockInit, FinalInit, ClosedInit
<1>2. Inv /\ [Next]_vars => Inv'
  BY TypeNext, LockNext, FinalNext, ClosedNext
<1>3. Inv => ClosedIsDefinitive
  BY DEF ClosedInv, ClosedIsDefinitive, Over
<1> QED BY <1>1, <1>2, <1>3, PTL DEF Spec

-----------------------------------------------------------------------------
(* Refinement                                                              *)

LEMMA ContractInit == Init => Contract!Init
BY DEF Init, Contract!Init, NoResults, Contract!Unpublished

\* A commit is a decision, a confirmation, a refusal, or nothing to the client.
LEMMA CommitRefines ==
    ASSUME TypeOK, FinalInv, RowInv, ClosedInv, NEW v \in Voters, Commit(v)
    PROVE  Contract!Next \/ UNCHANGED Contract!vars
<1> DEFINE t == req[v].token
<1>1. t \in Tokens /\ vpc[v] = "commit"
  BY DEF Commit, TypeOK, Request
<1>2. CASE Inserted(v)
  <2>1. out[v].row \in Rows /\ votes[t] = NoRow
    BY <1>2 DEF RowInv, Recorded
  <2>2. t \notin closedFor
    BY <1>1, <1>2 DEF ClosedInv, Over, Writing
  <2>3. ~ results.stored
    BY <1>2 DEF FinalInv, Writing, NoResults
  <2>4. /\ votes' = [votes EXCEPT ![t] = out[v].row]
        /\ UNCHANGED <<closedFor, results>>
        /\ \/ receipts' = [receipts EXCEPT ![t] = @ \cup {out[v].row}]
           \/ UNCHANGED receipts
    BY <1>2 DEF Commit, Tell, Inserted, clients
  <2>5. Contract!Decide(t, out[v].row)
    BY <2>1, <2>2, <2>3, <2>4 DEF Contract!Decide
  <2> QED BY <1>1, <2>1, <2>5 DEF Contract!Next
<1>3. CASE ~ Inserted(v)
  <2>1. UNCHANGED <<votes, results>>
    BY <1>3 DEF Commit
  <2>2. CASE UNCHANGED clients
    BY <2>1, <2>2 DEF Contract!vars, clients
  <2>3. CASE Tell(v) /\ out[v].status \in {"duplicate", "conflict"}
    <3>1. votes[t] # NoRow /\ out[v].row = votes[t]
      BY <1>1, <2>3 DEF RowInv, Recorded
    <3>2. Contract!Confirm(t)
      BY <2>1, <2>3, <3>1 DEF Tell, Contract!Confirm
    <3> QED BY <1>1, <3>2 DEF Contract!Next
  <2>4. CASE Tell(v) /\ out[v].status = "closed"
    <3>1. votes[t] = NoRow
      BY <1>1, <2>4 DEF ClosedInv, Over, Recorded
    <3>2. Contract!Close(t)
      BY <2>1, <2>4, <3>1 DEF Tell, Contract!Close
    <3> QED BY <1>1, <3>2 DEF Contract!Next
  <2>5. CASE /\ Tell(v)
             /\ out[v].status \notin {"accepted", "duplicate", "conflict", "closed"}
    BY <2>1, <2>5 DEF Tell, Contract!vars
  <2> QED BY <1>1, <1>3, <2>2, <2>3, <2>4, <2>5 DEF Commit, Inserted
<1> QED BY <1>2, <1>3

LEMMA FinalizeRefines ==
    ASSUME TypeOK, FinalInv, NEW f \in Finalizers, Finalize(f)
    PROVE  Contract!Next
<1>1. ~ results.stored
  BY DEF FinalInv, Finalize, NoResults
<1>2. results' = Stored(TotalVotes, OptionCounts)
  BY DEF FinalInv, Finalize
<1>3. results' =
        [total   |-> Cardinality({t \in Tokens : votes[t] # NoRow}),
         options |-> [o \in Options |->
                        Cardinality({t \in Tokens : o \in votes[t].choices})],
         stored  |-> TRUE]
  BY <1>2, Zenon DEF Stored, TotalVotes, OptionCounts, Recorded
<1>4. UNCHANGED <<votes, receipts, closedFor>>
  BY DEF Finalize, clients
<1>5. Contract!Publish
  <2>1. \A S : Contract!Cardinality(S) = Cardinality(S)
    BY Zenon DEF Contract!Cardinality, Cardinality, Contract!IsFiniteSet, IsFiniteSet
  <2> QED BY <1>1, <1>3, <1>4, <2>1, Zenon DEF Contract!Publish
<1> QED BY <1>5 DEF Contract!Next

\* record_vote and finalize_poll implement the poll's contract with its clients.
THEOREM PgVoteImplementsContract ==
    ASSUME ~ ClockMayStepBack
    PROVE  Spec => ImplementsContract
<1> DEFINE Inv == TypeOK /\ LockInv /\ FinalInv /\ RowInv /\ ClosedInv
<1>1. Init => Inv /\ Contract!Init
  BY TypeInit, LockInit, FinalInit, RowInit, ClosedInit, ContractInit
<1>2. Inv /\ [Next]_vars => Inv'
  BY TypeNext, LockNext, FinalNext, RowNext, ClosedNext
<1>3. Inv /\ [Next]_vars => [Contract!Next]_Contract!vars
  <2> SUFFICES ASSUME Inv, [Next]_vars PROVE Contract!Next \/ UNCHANGED Contract!vars
    OBVIOUS
  <2> USE DEF db, voter, closer, clients, Contract!vars
  <2>1. CASE UNCHANGED <<db, clients>>
    BY <2>1
  <2>2. ASSUME NEW v \in Voters, VoterStep(v)
        PROVE  Contract!Next \/ UNCHANGED Contract!vars
    <3>1. CASE Commit(v)
      BY <3>1, CommitRefines
    <3>2. CASE ~ Commit(v)
      BY <2>1, <2>2, <3>2 DEF VoterStep, Call, ChooseLock, Lock, Admit, Lookup,
         Insert, Fetch, Abort
    <3> QED BY <3>1, <3>2
  <2>3. ASSUME NEW f \in Finalizers, FinalizerStep(f)
        PROVE  Contract!Next \/ UNCHANGED Contract!vars
    <3>1. CASE Finalize(f)
      BY <3>1, FinalizeRefines
    <3>2. CASE ~ Finalize(f)
      BY <2>1, <2>3, <3>2 DEF FinalizerStep, Begin, Drain, Reread, CountTotal,
         CountOptions, ReturnFalse, AbortFinalize
    <3> QED BY <3>1, <3>2
  <2>4. CASE Tick \/ UNCHANGED vars
    BY <2>1, <2>4 DEF Tick, vars
  <2> QED BY <2>2, <2>3, <2>4 DEF Next
<1> QED BY <1>1, <1>2, <1>3, PTL DEF Spec, ImplementsContract, Contract!Spec

-----------------------------------------------------------------------------
(* Deadlock *)

\* How far a transaction is from having all its locks.
Rank(a) ==
    IF a \in Voters
    THEN IF vpc[a] = "lock" THEN NumShards + 4 ELSE IF vpc[a] = "insert" THEN 1 ELSE 0
    ELSE IF fpc[a] = "drain" THEN NumShards - drained[a] + 2 ELSE 0

\* Whoever is waited for is nearer to its end.
LEMMA RankFalls ==
    ASSUME TypeOK, LockInv, NEW a \in Voters \cup Finalizers, NEW b \in Voters \cup Finalizers,
           WaitsFor(a, b)
    PROVE  Rank(b) < Rank(a)
<1> USE ConnectionsDistinct, ShardAssumption
<1>1. /\ \A f \in Finalizers : drained[f] \in 0 .. NumShards
      /\ \A v \in Voters : vpc[v] = "insert" \/ vpc[v] = "lock" \/ Rank(v) = 0
      /\ \A f \in Finalizers : fpc[f] = "drain" \/ Rank(f) = 0
      /\ NumShards \in Nat
  BY DEF TypeOK, Rank
<1>2. ASSUME NEW v \in Voters, held[v] # "none" PROVE Rank(v) \in {0, 1}
  BY <1>2 DEF LockInv, Locked, Rank
<1>3. ASSUME NEW v \in Voters, Inserted(v) PROVE Rank(v) = 0
  BY <1>3 DEF Inserted, Rank
<1>4. ASSUME NEW f \in Finalizers, HoldsPollRow(f) PROVE Rank(f) = 0
  BY <1>4 DEF HoldsPollRow, Rank
<1>5. ASSUME NEW f \in Finalizers, NEW s \in Nat, FinalizerHolds(f, s)
      PROVE  Rank(f) = 0 \/ (Rank(f) = NumShards - drained[f] + 2 /\ s < drained[f])
  BY <1>1, <1>5 DEF FinalizerHolds, Rank
<1>6. CASE a \in Voters /\ vpc[a] = "lock"
  <2>1. Rank(a) = NumShards + 4
    BY <1>6 DEF Rank
  <2>2. \/ b \in Voters /\ held[b] # "none"
        \/ b \in Finalizers
    BY <1>6 DEF WaitsFor, VoterHolds
  <2>3. b \in Finalizers => Rank(b) = 0 \/ Rank(b) = NumShards - drained[b] + 2
    BY <1>1 DEF Rank
  <2> QED
    BY <1>1, <1>2, <2>1, <2>2, <2>3
<1>7. CASE a \in Voters /\ vpc[a] = "insert"
  <2>1. Rank(a) = 1
    BY <1>7 DEF Rank
  <2>2. Rank(b) = 0
    BY <1>3, <1>4, <1>7 DEF WaitsFor
  <2> QED
    BY <2>1, <2>2
<1>8. CASE a \in Finalizers /\ fpc[a] = "drain"
  <2>1. Rank(a) = NumShards - drained[a] + 2 /\ drained[a] \in 0 .. NumShards
    BY <1>1, <1>8 DEF Rank
  <2>2. CASE b \in Voters
    <3>1. Rank(b) \in {0, 1}
      BY <1>2, <1>3, <1>8, <2>2 DEF WaitsFor, VoterHolds
    <3> QED
      BY <2>1, <3>1
  <2>3. CASE b \in Finalizers /\ HoldsPollRow(b)
    BY <1>4, <2>1, <2>3
  <2>4. CASE b \in Finalizers /\ FinalizerHolds(b, drained[a])
    BY <1>1, <1>5, <2>1, <2>4
  <2> QED
    BY <1>8, <2>2, <2>3, <2>4 DEF WaitsFor
<1> QED
  BY <1>6, <1>7, <1>8 DEF WaitsFor

\* In no set of transactions, however large, does everyone wait for another of
\* them: shards are taken in one order, and the poll's row is locked by whoever
\* has them all (001_initial.sql, record_vote and finalize_poll).
THEOREM NobodyWaitsInACircle == Spec => []NoWaitCycle
<1> DEFINE Inv == TypeOK /\ LockInv
<1>1. Init => Inv
  BY TypeInit, LockInit
<1>2. Inv /\ [Next]_vars => Inv'
  BY TypeNext, LockNext
<1>3. Inv => NoWaitCycle
  <2> SUFFICES ASSUME Inv, NEW S \in (SUBSET (Voters \cup Finalizers)) \ {{}}
               PROVE  \E a \in S : \A b \in S : ~ WaitsFor(a, b)
    BY DEF NoWaitCycle
  <2>1. \A a \in S : Rank(a) \in Nat
    BY ShardAssumption DEF Rank, TypeOK
  <2>2. \A x, y \in Nat : x < y => <<x, y>> \in OpToRel(<, Nat)
    BY DEF OpToRel
  <2> DEFINE R == {Rank(a) : a \in S}
  <2>3. R \subseteq Nat /\ R # {} /\ S \subseteq Voters \cup Finalizers
    <3>1. S \subseteq Voters \cup Finalizers /\ S # {}
      OBVIOUS
    <3>2. PICK a : a \in S
      BY <3>1
    <3>3. Rank(a) \in R
      BY <3>2
    <3> QED
      BY <2>1, <3>1, <3>3
  <2>4. PICK n \in R : \A m \in R : <<m, n>> \notin OpToRel(<, Nat)
    BY <2>3, WFMin, NatLessThanWellFounded
  <2>5. PICK a \in S : Rank(a) = n
    BY <2>4
  <2>6. \A b \in S : ~ Rank(b) < Rank(a)
    BY <2>1, <2>2, <2>4, <2>5
  <2>7. \A b \in S : ~ WaitsFor(a, b)
    BY <2>3, <2>6, RankFalls
  <2> QED
    BY <2>7
<1> QED BY <1>1, <1>2, <1>3, PTL DEF Spec
=============================================================================
