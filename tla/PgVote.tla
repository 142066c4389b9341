------------------------------- MODULE PgVote -------------------------------
(***************************************************************************)
(* One poll of the production path: the PostgreSQL functions record_vote   *)
(* and finalize_poll (internal/postgres/migrations/001_initial.sql) run by *)
(* Store.Vote and Store.FinalizeDue (internal/postgres/store.go).          *)
(*                                                                         *)
(* A voter is a pooled connection running one record_vote transaction at a *)
(* time; a finalizer is a connection running finalize_poll.  One action is *)
(* one SQL statement of the function (READ COMMITTED: a fresh snapshot per *)
(* statement), so transactions interleave between statements.  Advisory    *)
(* transaction locks are held to commit or abort.  A transaction may abort *)
(* at any statement (lock_timeout, statement_timeout, dead backend), and   *)
(* the answer of one that committed may be lost on its way to the client,  *)
(* who then sends the same token again.                                    *)
(***************************************************************************)
EXTENDS Naturals, FiniteSets

CONSTANTS
    Tokens,            \* voting keys, random browser state
    Options,           \* option ids of the poll
    Kind,              \* polls.kind: "ab", "single" or "multiple"
    Ballots,           \* the choice sets clients send, valid or not
    Voters,            \* connections that run record_vote
    Finalizers,        \* connections that run finalize_poll
    NumShards,         \* 64 in the code
    ShardOf,           \* vote_lock_shard: token |-> shard
    StartsAt, EndsAt,  \* the poll's window [StartsAt, EndsAt)
    MaxClock,          \* bound on clock_timestamp()
    MaxFaults,         \* bound on aborted transactions
    ClockMayStepBack   \* TRUE if the server's wall clock can be set back

ASSUME TokensAssumption == IsFiniteSet(Tokens)
ASSUME ShardAssumption ==
    /\ NumShards \in Nat \ {0}
    /\ ShardOf \in [Tokens -> 0 .. NumShards - 1]
ASSUME WindowAssumption ==
    /\ StartsAt \in Nat /\ EndsAt \in Nat /\ StartsAt < EndsAt
    /\ MaxClock \in Nat /\ EndsAt <= MaxClock
ASSUME FaultAssumption == MaxFaults \in Nat /\ ClockMayStepBack \in BOOLEAN
ASSUME ConnectionsDistinct == Voters \cap Finalizers = {}
\* NormalizeChoices rejects an empty selection before the SQL call.
ASSUME BallotAssumption == {} \notin Ballots

VARIABLES
    now,        \* clock_timestamp() of the database server
    votes,      \* table votes, committed rows: token |-> row, or NoRow
    finalized,  \* polls.finalized_at IS NOT NULL
    results,    \* table poll_results: the row of this poll, or NoResults
    vpc,        \* voter |-> the next statement of its record_vote
    req,        \* voter |-> the token and choices it was called with
    excl,       \* voter |-> exclusive_receipt_lookup
    held,       \* voter |-> mode in which it holds its shard's lock
    config,     \* voter |-> config.finalized_at IS NOT NULL, as last read
    admitted,   \* voter |-> admitted_at
    out,        \* voter |-> the row record_vote is about to return
    fpc,        \* finalizer |-> the next statement of its finalize_poll
    drained,    \* finalizer |-> number of shards 0, 1, ... it has locked
    tally,      \* finalizer |-> total and counts
    receipts,   \* token |-> rows told to clients as recorded
    closedFor,  \* tokens whose client was told "closed"
    faults      \* transactions aborted so far

db      == <<votes, finalized, results>>
voter   == <<vpc, req, excl, held, config, admitted, out>>
closer  == <<fpc, drained, tally>>
clients == <<receipts, closedFor>>
vars    == <<now, db, voter, closer, clients, faults>>

Shards == 0 .. NumShards - 1
Clock  == 0 .. MaxClock
Rows   == [choices : Ballots, at : Clock]
NoRow  == [choices |-> {}, at |-> 0]
Request   == [token : Tokens, choices : Ballots]
NoRequest == [token |-> "no token", choices |-> {}]
Statuses == {"none", "accepted", "duplicate", "conflict", "closed", "unknown",
             "not_open", "invalid"}
NoAnswer == [status |-> "none", row |-> NoRow]
Answer(status, row) == [status |-> status, row |-> row]

-----------------------------------------------------------------------------
(* What the statements compute.                                            *)

\* Distinct option ids of this poll, exactly one unless kind is "multiple".
\* A sorted array without duplicates is the set of its elements.
ValidChoices(choices) ==
    /\ choices \subseteq Options
    /\ Kind # "multiple" => \E o \in Options : choices = {o}

Recorded(t) == votes[t] # NoRow

\* SELECT count(*) FROM votes, and calculate_option_counts.
TotalVotes == Cardinality({t \in Tokens : Recorded(t)})
OptionCounts ==
    [o \in Options |-> Cardinality({t \in Tokens : o \in votes[t].choices})]

NoResults == [total |-> 0, options |-> [o \in Options |-> 0], stored |-> FALSE]
Stored(total, options) ==
    [total |-> total, options |-> options, stored |-> TRUE]

\* A row of this transaction that others cannot see yet.
Inserted(v) == vpc[v] = "commit" /\ out[v].status = "accepted"

\* The unique index makes an INSERT wait for an uncommitted row of its key.
KeyFreeNoIndex(t) == TRUE  \* mutant: no unique (poll_id, token)
KeyFree(t) == \A w \in Voters : Inserted(w) => req[w].token # t

-----------------------------------------------------------------------------
(* Locks.  pg_advisory_xact_lock[_shared] on (poll, shard); the FOR UPDATE *)
(* row lock of finalize_poll against the key-share row lock that the       *)
(* foreign key of an inserted vote takes on its poll.                      *)

VoterHolds(v, s)     == held[v] # "none" /\ ShardOf[req[v].token] = s
FinalizerHolds(f, s) == s < drained[f]
\* mutant: the poll's row is locked before its voters are drained
HoldsPollRowEarly(f) == fpc[f] # "idle"
HoldsPollRow(f)      == fpc[f] \in {"total", "counts", "commit", "return"}

SharedFree(s) ==
    /\ \A v \in Voters : VoterHolds(v, s) => held[v] = "shared"
    /\ \A f \in Finalizers : ~ FinalizerHolds(f, s)
\* mutant: a late call does not drain the voters of its shard
ExclusiveFreeNoDrain(s) == \A f \in Finalizers : ~ FinalizerHolds(f, s)
ExclusiveFree(s) ==
    /\ \A v \in Voters : ~ VoterHolds(v, s)
    /\ \A f \in Finalizers : ~ FinalizerHolds(f, s)

-----------------------------------------------------------------------------
(* record_vote                                                             *)

\* First SELECT: the poll as it was before any lock.
Call(v, t, c) ==
    /\ vpc[v] = "idle"
    /\ vpc' = [vpc EXCEPT ![v] = "mode"]
    /\ req' = [req EXCEPT ![v] = [token |-> t, choices |-> c]]
    /\ config' = [config EXCEPT ![v] = finalized]
    /\ UNCHANGED <<now, db, excl, held, admitted, out, closer, clients, faults>>

\* A late call drains its shard with an exclusive lock, others share it.
ChooseLock(v) ==
    /\ vpc[v] = "mode"
    /\ excl' = [excl EXCEPT ![v] = now >= EndsAt \/ config[v]]
    /\ vpc' = [vpc EXCEPT ![v] = "lock"]
    /\ UNCHANGED <<now, db, req, held, config, admitted, out, closer, clients,
                   faults>>

\* The lock is granted.
Lock(v) ==
    LET s == ShardOf[req[v].token] IN
    /\ vpc[v] = "lock"
    /\ IF excl[v] THEN ExclusiveFree(s) ELSE SharedFree(s)
    /\ held' = [held EXCEPT ![v] = IF excl[v] THEN "exclusive" ELSE "shared"]
    /\ vpc' = [vpc EXCEPT ![v] = "admit"]
    /\ UNCHANGED <<now, db, req, excl, config, admitted, out, closer, clients,
                   faults>>

\* Second SELECT, validation and admitted_at.  Only finalize_poll writes the
\* poll, under every shard lock, so these statements need no step of their own.
Outside(v) == finalized \/ now >= EndsAt \/ now < StartsAt
Admit(v) ==
    /\ vpc[v] = "admit"
    /\ config' = [config EXCEPT ![v] = finalized]
    /\ admitted' = [admitted EXCEPT ![v] = now]
    /\ \/ /\ ~ ValidChoices(req[v].choices)
          /\ out' = [out EXCEPT ![v] = Answer("invalid", NoRow)]
          /\ vpc' = [vpc EXCEPT ![v] = "commit"]
       \/ /\ ValidChoices(req[v].choices)
          /\ Outside(v)
          /\ vpc' = [vpc EXCEPT ![v] = "lookup"]
          /\ UNCHANGED out
       \/ /\ ValidChoices(req[v].choices)
          /\ ~ Outside(v)
          /\ vpc' = [vpc EXCEPT ![v] = "insert"]
          /\ UNCHANGED out
    /\ UNCHANGED <<now, db, req, excl, held, closer, clients, faults>>

\* The recorded row decides between a duplicate and a conflict.
Compare(v) ==
    LET row == votes[req[v].token] IN
    Answer(IF row.choices = req[v].choices THEN "duplicate" ELSE "conflict", row)

\* Why a token without a row is outside the window.  A deadline that passed
\* while waiting for a shared lock leaves an earlier transaction possible.
AbsenceIgnoresMode(v) ==  \* mutant: no "unknown"
    IF config[v] \/ admitted[v] >= EndsAt THEN "closed" ELSE "not_open"
Absence(v) ==
    IF config[v] THEN "closed"
    ELSE IF admitted[v] >= EndsAt
         THEN (IF excl[v] THEN "closed" ELSE "unknown")
         ELSE "not_open"

\* Outside the window: the vote recorded earlier, or why there is none.
Lookup(v) ==
    /\ vpc[v] = "lookup"
    /\ out' = [out EXCEPT ![v] =
         IF Recorded(req[v].token) THEN Compare(v) ELSE Answer(Absence(v), NoRow)]
    /\ vpc' = [vpc EXCEPT ![v] = "commit"]
    /\ UNCHANGED <<now, db, req, excl, held, config, admitted, closer, clients,
                   faults>>

\* INSERT ... ON CONFLICT DO NOTHING waits for its key, and its foreign key for
\* a FOR UPDATE of the poll's row.
Insert(v) ==
    LET t == req[v].token IN
    /\ vpc[v] = "insert"
    /\ KeyFree(t)
    /\ \A f \in Finalizers : ~ HoldsPollRow(f)
    /\ \/ /\ ~ Recorded(t)
          /\ out' = [out EXCEPT ![v] =
               Answer("accepted", [choices |-> req[v].choices, at |-> admitted[v]])]
          /\ vpc' = [vpc EXCEPT ![v] = "commit"]
       \/ /\ Recorded(t)
          /\ vpc' = [vpc EXCEPT ![v] = "fetch"]
          /\ UNCHANGED out
    /\ UNCHANGED <<now, db, req, excl, held, config, admitted, closer, clients,
                   faults>>

\* SELECT INTO STRICT of the row that won.
Fetch(v) ==
    /\ vpc[v] = "fetch"
    /\ out' = [out EXCEPT ![v] = Compare(v)]
    /\ vpc' = [vpc EXCEPT ![v] = "commit"]
    /\ UNCHANGED <<now, db, req, excl, held, config, admitted, closer, clients,
                   faults>>

\* What the client learns when the answer of v reaches it.
Tell(v) ==
    LET t == req[v].token  a == out[v] IN
    /\ receipts' =
         IF a.status \in {"accepted", "duplicate", "conflict"}
         THEN [receipts EXCEPT ![t] = @ \cup {a.row}] ELSE receipts
    /\ closedFor' =
         IF a.status = "closed" THEN closedFor \cup {t} ELSE closedFor

Leave(v) ==
    /\ vpc' = [vpc EXCEPT ![v] = "idle"]
    /\ held' = [held EXCEPT ![v] = "none"]
    /\ out' = [out EXCEPT ![v] = NoAnswer]
    /\ req' = [req EXCEPT ![v] = NoRequest]
    /\ excl' = [excl EXCEPT ![v] = FALSE]
    /\ config' = [config EXCEPT ![v] = FALSE]
    /\ admitted' = [admitted EXCEPT ![v] = 0]

\* The implicit transaction commits; the answer arrives or is lost.
Commit(v) ==
    /\ vpc[v] = "commit"
    /\ votes' = IF Inserted(v)
                THEN [votes EXCEPT ![req[v].token] = out[v].row] ELSE votes
    /\ Tell(v) \/ UNCHANGED clients
    /\ Leave(v)
    /\ UNCHANGED <<now, finalized, results, closer, faults>>

\* lock_timeout, statement_timeout or the death of the backend.
Abort(v) ==
    /\ vpc[v] # "idle"
    /\ faults < MaxFaults
    /\ faults' = faults + 1
    /\ Leave(v)
    /\ UNCHANGED <<now, db, closer, clients>>

-----------------------------------------------------------------------------
(* finalize_poll                                                           *)

\* FinalizeDue found the poll due, and so does the first SELECT.
Begin(f) ==
    /\ fpc[f] = "idle"
    /\ ~ finalized /\ now >= EndsAt
    /\ fpc' = [fpc EXCEPT ![f] = "drain"]
    /\ UNCHANGED <<now, db, voter, drained, tally, clients, faults>>

\* The loop over the shards 0 .. 63 has more to lock, or has ended.
MoreShards(f) == drained[f] < NumShards
AllDrainedShort(f) == drained[f] >= NumShards - 1  \* mutant: 0..62
AllDrained(f) == drained[f] = NumShards

\* One round of the loop.
Drain(f) ==
    /\ fpc[f] = "drain"
    /\ MoreShards(f)
    /\ ExclusiveFree(drained[f])
    /\ drained' = [drained EXCEPT ![f] = @ + 1]
    /\ UNCHANGED <<now, db, voter, fpc, tally, clients, faults>>

\* SELECT ... FOR UPDATE: another finalizer may have been first.
Reread(f) ==
    /\ fpc[f] = "drain"
    /\ AllDrained(f)
    /\ \A v \in Voters : ~ Inserted(v)
    /\ \A g \in Finalizers : ~ HoldsPollRow(g)
    /\ fpc' = [fpc EXCEPT ![f] = IF finalized THEN "return" ELSE "total"]
    /\ UNCHANGED <<now, db, voter, drained, tally, clients, faults>>

CountTotal(f) ==
    /\ fpc[f] = "total"
    /\ tally' = [tally EXCEPT ![f] = [total |-> TotalVotes, options |-> @.options]]
    /\ fpc' = [fpc EXCEPT ![f] = "counts"]
    /\ UNCHANGED <<now, db, voter, drained, clients, faults>>

CountOptions(f) ==
    /\ fpc[f] = "counts"
    /\ tally' = [tally EXCEPT ![f] = [total |-> @.total, options |-> OptionCounts]]
    /\ fpc' = [fpc EXCEPT ![f] = "commit"]
    /\ UNCHANGED <<now, db, voter, drained, clients, faults>>

ReleaseKeepsLocks(f) ==  \* mutant: session locks instead of transaction locks
    /\ fpc' = [fpc EXCEPT ![f] = "idle"]
    /\ UNCHANGED <<drained, tally>>
Release(f) ==
    /\ fpc' = [fpc EXCEPT ![f] = "idle"]
    /\ drained' = [drained EXCEPT ![f] = 0]
    /\ tally' = [tally EXCEPT ![f] = [total |-> 0, options |-> NoResults.options]]

\* INSERT INTO poll_results, UPDATE polls and the commit of both.
Finalize(f) ==
    /\ fpc[f] = "commit"
    /\ results' = Stored(tally[f].total, tally[f].options)
    /\ finalized' = TRUE
    /\ Release(f)
    /\ UNCHANGED <<now, votes, voter, clients, faults>>

\* RETURN false commits nothing.
ReturnFalse(f) ==
    /\ fpc[f] = "return"
    /\ Release(f)
    /\ UNCHANGED <<now, db, voter, clients, faults>>

AbortFinalize(f) ==
    /\ fpc[f] # "idle"
    /\ faults < MaxFaults
    /\ faults' = faults + 1
    /\ Release(f)
    /\ UNCHANGED <<now, db, voter, clients>>

-----------------------------------------------------------------------------
\* Time passes; where ClockMayStepBack, the administrator or NTP may also set
\* the wall clock back.
Tick ==
    /\ now' \in {t \in Clock : t = now + 1 \/ (ClockMayStepBack /\ t + 1 = now)}
    /\ UNCHANGED <<db, voter, closer, clients, faults>>

Init ==
    /\ now = 0
    /\ votes = [t \in Tokens |-> NoRow]
    /\ finalized = FALSE
    /\ results = NoResults
    /\ vpc = [v \in Voters |-> "idle"]
    /\ req = [v \in Voters |-> NoRequest]
    /\ excl = [v \in Voters |-> FALSE]
    /\ held = [v \in Voters |-> "none"]
    /\ config = [v \in Voters |-> FALSE]
    /\ admitted = [v \in Voters |-> 0]
    /\ out = [v \in Voters |-> NoAnswer]
    /\ fpc = [f \in Finalizers |-> "idle"]
    /\ drained = [f \in Finalizers |-> 0]
    /\ tally = [f \in Finalizers |-> [total |-> 0, options |-> NoResults.options]]
    /\ receipts = [t \in Tokens |-> {}]
    /\ closedFor = {}
    /\ faults = 0

VoterStep(v) ==
    \/ \E t \in Tokens, c \in Ballots : Call(v, t, c)
    \/ ChooseLock(v) \/ Lock(v) \/ Admit(v) \/ Lookup(v) \/ Insert(v)
    \/ Fetch(v) \/ Commit(v) \/ Abort(v)
FinalizerStep(f) ==
    \/ Begin(f) \/ Drain(f) \/ Reread(f) \/ CountTotal(f) \/ CountOptions(f)
    \/ Finalize(f) \/ ReturnFalse(f) \/ AbortFinalize(f)

Next ==
    \/ \E v \in Voters : VoterStep(v)
    \/ \E f \in Finalizers : FinalizerStep(f)
    \/ Tick

Spec == Init /\ [][Next]_vars

(* A transaction runs on; the lock manager queues waiters, so a request    *)
(* that is grantable again and again is granted; the maintenance loop      *)
(* calls FinalizeDue every second; time passes.  Nothing makes a client    *)
(* call, and MaxFaults bounds the aborts.                                  *)
VoterRuns(v) ==
    ChooseLock(v) \/ Admit(v) \/ Lookup(v) \/ Insert(v) \/ Fetch(v) \/ Commit(v)
FinalizerRuns(f) ==
    \/ Begin(f) \/ Reread(f) \/ CountTotal(f) \/ CountOptions(f)
    \/ Finalize(f) \/ ReturnFalse(f)
LiveSpec ==
    /\ Spec
    /\ WF_vars(Tick)
    /\ \A v \in Voters : WF_vars(VoterRuns(v)) /\ SF_vars(Lock(v))
    /\ \A f \in Finalizers : WF_vars(FinalizerRuns(f)) /\ SF_vars(Drain(f))

-----------------------------------------------------------------------------
(* Properties                                                              *)

Answers == [status : Statuses, row : Rows \cup {NoRow}]
Tallies == [total : Nat, options : [Options -> Nat]]

\* The state is well typed.
TypeOK ==
    /\ now \in Clock
    /\ votes \in [Tokens -> Rows \cup {NoRow}]
    /\ finalized \in BOOLEAN
    /\ results \in [total : Nat, options : [Options -> Nat], stored : BOOLEAN]
    /\ vpc \in [Voters -> {"idle", "mode", "lock", "admit", "lookup", "insert",
                           "fetch", "commit"}]
    /\ req \in [Voters -> Request \cup {NoRequest}]
    /\ \A v \in Voters : vpc[v] # "idle" => req[v] \in Request
    /\ excl \in [Voters -> BOOLEAN]
    /\ held \in [Voters -> {"none", "shared", "exclusive"}]
    /\ config \in [Voters -> BOOLEAN]
    /\ admitted \in [Voters -> Clock]
    /\ out \in [Voters -> Answers]
    /\ fpc \in [Finalizers -> {"idle", "drain", "total", "counts", "commit",
                               "return"}]
    /\ drained \in [Finalizers -> 0 .. NumShards]
    /\ tally \in [Finalizers -> Tallies]
    /\ receipts \in [Tokens -> SUBSET (Rows \cup {NoRow})]
    /\ closedFor \subseteq Tokens
    /\ faults \in 0 .. MaxFaults

\* The published result counts exactly the committed votes, at every later
\* moment: no vote admitted before ends_at commits after the count, whatever
\* the wall clock does (finalize_poll drains all shards before counting).
FinalResultExact ==
    finalized => results = Stored(TotalVotes, OptionCounts)

\* "closed" is definitive: once a client was told that its key has no vote and
\* voting is over, no vote with that key ever becomes visible, although a
\* transaction of the same key may have been in flight when it asked.
ClosedIsDefinitive == \A t \in closedFor : ~ Recorded(t)

\* Every receipt a client was ever given for a key, by the winner or by a
\* retry that lost, names the one row that is recorded for it.
ReceiptsAgree ==
    \A t \in Tokens : \A r \in receipts[t] : Recorded(t) /\ votes[t] = r

\* Provisional results (Store.Results counts the votes itself until the poll
\* is final) never shrink, and final ones never change.
ResultsOnlyGrow ==
    [][/\ \A t \in Tokens : Recorded(t) => votes'[t] = votes[t]
       /\ finalized => results' = results]_vars

\* The transactions implement what the poll promises its clients: a commit is
\* the decision, and finalize_poll's commit is the publication.
Contract == INSTANCE PollContract
                WITH decided <- votes, closed <- closedFor, outcome <- results
ImplementsContract == Contract!Spec

\* Who waits for whom inside the database.
WaitsFor(a, b) ==
    /\ a # b
    /\ \/ /\ a \in Voters /\ vpc[a] = "lock"
          /\ LET s == ShardOf[req[a].token] IN
             \/ /\ b \in Voters /\ VoterHolds(b, s)
                /\ excl[a] \/ held[b] = "exclusive"
             \/ b \in Finalizers /\ FinalizerHolds(b, s)
       \/ /\ a \in Voters /\ vpc[a] = "insert"
          /\ \/ b \in Voters /\ Inserted(b) /\ req[b].token = req[a].token
             \/ b \in Finalizers /\ HoldsPollRow(b)
       \/ /\ a \in Finalizers /\ fpc[a] = "drain" /\ drained[a] < NumShards
          /\ \/ b \in Voters /\ VoterHolds(b, drained[a])
             \/ b \in Finalizers /\ FinalizerHolds(b, drained[a])
       \/ /\ a \in Finalizers /\ fpc[a] = "drain" /\ drained[a] = NumShards
          /\ \/ b \in Voters /\ Inserted(b)
             \/ b \in Finalizers /\ HoldsPollRow(b)

\* No set of transactions waits for itself in a circle: shards are taken in
\* one order, a voter takes one shard and never upgrades, and the poll's row is
\* locked only after its voters are drained.
NoWaitCycle ==
    \A S \in (SUBSET (Voters \cup Finalizers)) \ {{}} :
        \E a \in S : \A b \in S : ~ WaitsFor(a, b)

\* A started record_vote ends, although its shard is contended by other
\* voters of both modes and by finalizers.
EveryCallEnds == \A v \in Voters : vpc[v] # "idle" ~> vpc[v] = "idle"

\* The poll becomes final although clients keep calling for ever.
EventuallyFinal == <>finalized
=============================================================================
