--------------------------- MODULE VoteCoreProofs ---------------------------
(***************************************************************************)
(* Proofs about VoteCore for any number of tokens, shards, submitters and  *)
(* sealers.  The inductive invariant has four parts, each proved from the  *)
(* earlier ones: TypeInv (types, and who can be where), MutexInv (who is   *)
(* in a critical section owns the mutex), SealInv (a shard that a Seal has *)
(* added has no submitter left that can still store) and CountInv (the     *)
(* counters and partial snapshots are cardinalities of sets of tokens).    *)
(***************************************************************************)
EXTENDS VoteCore, FiniteSetTheorems, TLAPS

Inside == {"sealed", "clock", "close", "store", "unlock"}

PlaceInv ==
    /\ \A c \in Submitters :
         /\ pc[c] \in {"idle", "lock"} \cup Inside
         /\ pc[c] # "idle" => input[c] \in [token : Tokens, choice : Choices]
    /\ \A k \in Sealers : pc[k] \in {"idle", "seal", "add", "done"}

SealPlaceInv ==
    \A k \in Sealers :
        /\ pc[k] \in {"idle", "seal"} => at[k] = 0
        /\ pc[k] = "add" => at[k] < NumShards
        /\ pc[k] = "done" => at[k] = NumShards

\* What a submitter is about to report is the recorded choice.
ReportInv ==
    \A c \in Submitters : pc[c] = "unlock" /\ Reported(c) =>
        answer[c].choice = votes[input[c].token] /\ answer[c].choice # {}

TypeInv == TypeOK /\ PlaceInv /\ SealPlaceInv /\ ReportInv

MutexInv == \A c \in Submitters : pc[c] \in Inside => owner[SShard(c)] = c

SealInv ==
    \A k \in Sealers : pc[k] \in {"add", "done"} =>
        /\ sealed
        /\ \A c \in Submitters : pc[c] \in {"clock", "store"} => SShard(c) >= at[k]

-----------------------------------------------------------------------------
Statuses == {"none", "accepted", "duplicate", "closed", "not_open",
             "capacity_exceeded"}
Places == {"idle", "lock", "sealed", "clock", "close", "store", "unlock", "seal",
           "add", "done"}

\* New starts in a well-typed state.
LEMMA InitTypeInv == Init => TypeInv
<1> SUFFICES ASSUME Init PROVE TypeInv
  OBVIOUS
<1> USE DEF Init, Shards, Actors
<1>1. TypeOK
  <2>1. snapshot \in [Sealers -> [total : Nat, counts : [Options -> Nat]]]
    BY DEF Empty
  <2>2. input \in [Submitters -> [token : Tokens, choice : Choices] \cup {NoInput}]
    OBVIOUS
  <2>3. answer \in [Submitters -> [status : Statuses, choice : Choices \cup {{}}]]
    BY DEF NoResult, Statuses
  <2>4. /\ votes \in [Tokens -> Choices \cup {{}}] /\ told \in [Tokens -> SUBSET Choices]
        /\ counts \in [Shards -> [Options -> Nat]]
        /\ owner \in [Shards -> Submitters \cup {Nobody}]
    OBVIOUS
  <2>5. at \in [Sealers -> 0 .. NumShards]
    BY EngineAssumption
  <2>6. QED
    BY <2>1, <2>2, <2>3, <2>4, <2>5 DEF TypeOK, Statuses
<1>2. PlaceInv /\ SealPlaceInv /\ ReportInv
  BY DEF PlaceInv, SealPlaceInv, ReportInv
<1>3. QED
  BY <1>1, <1>2 DEF TypeInv

\* A submitter that moves on, with an answer or without, keeps the types; its
\* answer need not be a reported one.
LEMMA MoveTypeInv ==
    ASSUME TypeInv, NEW c \in Submitters,
           pc[c] # "idle",
           NEW p \in {"lock"} \cup Inside, pc' = [pc EXCEPT ![c] = p],
           answer' \in [Submitters -> [status : Statuses, choice : Choices \cup {{}}]],
           \A d \in Submitters \ {c} : answer'[d] = answer[d],
           p = "unlock" /\ Reported(c)' =>
               answer'[c].choice = votes[input[c].token] /\ answer'[c].choice # {},
           sealed' \in BOOLEAN, owner' \in [Shards -> Submitters \cup {Nobody}],
           UNCHANGED <<now, votes, counts, input, at, snapshot, told>>
    PROVE  TypeInv'
<1> USE ActorAssumption DEF TypeInv
<1>1. c \in Actors /\ c \notin Sealers /\ pc \in [Actors -> Places] /\ p \in Places
  BY DEF Actors, TypeOK, Places, Inside
<1>2. /\ pc' \in [Actors -> Places] /\ pc'[c] = p
      /\ \A d \in Actors \ {c} : pc'[d] = pc[d]
  BY <1>1
<1>3. TypeOK'
  BY <1>2 DEF TypeOK, Statuses, Places
<1>4. PlaceInv'
  BY <1>1, <1>2 DEF PlaceInv, Actors, Inside
<1>5. SealPlaceInv'
  BY <1>1, <1>2 DEF SealPlaceInv, Actors
<1>6. ReportInv'
  <2> SUFFICES ASSUME NEW d \in Submitters, pc'[d] = "unlock", Reported(d)'
               PROVE  answer'[d].choice = votes'[input'[d].token] /\ answer'[d].choice # {}
    BY DEF ReportInv
  <2>1. CASE d = c
    BY <1>2, <2>1
  <2>2. CASE d # c
    BY <1>2, <2>2 DEF ReportInv, Reported, Actors
  <2>3. QED
    BY <2>1, <2>2
<1>7. QED
  BY <1>3, <1>4, <1>5, <1>6

\* The effect of Decide on the answers.
LEMMA DecideAnswer ==
    ASSUME TypeInv, NEW c \in Submitters, NEW status \in Statuses,
           NEW choice \in Choices \cup {{}}, Decide(c, status, choice)
    PROVE  /\ answer' \in [Submitters -> [status : Statuses, choice : Choices \cup {{}}]]
           /\ \A d \in Submitters \ {c} : answer'[d] = answer[d]
           /\ answer'[c] = [status |-> status, choice |-> choice]
           /\ pc' = [pc EXCEPT ![c] = "unlock"]
  BY DEF TypeInv, TypeOK, Statuses, Decide

LEMMA SealerTypeInv ==
    ASSUME TypeInv, NEW k \in Sealers,
           NEW p \in {"seal", "add", "done"}, pc' = [pc EXCEPT ![k] = p],
           sealed' \in BOOLEAN, at' \in [Sealers -> 0 .. NumShards],
           \A j \in Sealers \ {k} : at'[j] = at[j],
           snapshot' \in [Sealers -> [total : Nat, counts : [Options -> Nat]]],
           p = "seal" => at'[k] = 0, p = "add" => at'[k] < NumShards,
           p = "done" => at'[k] = NumShards,
           UNCHANGED <<now, votes, counts, owner, input, answer, told>>
    PROVE  TypeInv'
<1> USE ActorAssumption DEF TypeInv
<1>1. k \in Actors /\ k \notin Submitters /\ pc \in [Actors -> Places] /\ p \in Places
  BY DEF Actors, TypeOK, Places
<1>2. /\ pc' \in [Actors -> Places] /\ pc'[k] = p
      /\ \A d \in Actors \ {k} : pc'[d] = pc[d]
  BY <1>1
<1>3. TypeOK'
  BY <1>2 DEF TypeOK, Places
<1>4. PlaceInv' /\ ReportInv'
  BY <1>1, <1>2 DEF PlaceInv, ReportInv, Reported, Actors
<1>5. SealPlaceInv'
  BY <1>1, <1>2 DEF SealPlaceInv, Actors
<1>6. QED
  BY <1>3, <1>4, <1>5

\* Every step keeps the types, one case per action.
LEMMA NextTypeInv == TypeInv /\ [Next]_vars => TypeInv'
<1> SUFFICES ASSUME TypeInv, [Next]_vars PROVE TypeInv'
  OBVIOUS
<1>0. /\ answer \in [Submitters -> [status : Statuses, choice : Choices \cup {{}}]]
      /\ sealed \in BOOLEAN /\ owner \in [Shards -> Submitters \cup {Nobody}]
      /\ votes \in [Tokens -> Choices \cup {{}}]
      /\ pc \in [Actors -> Places]
      /\ at \in [Sealers -> 0 .. NumShards]
      /\ snapshot \in [Sealers -> [total : Nat, counts : [Options -> Nat]]]
      /\ counts \in [Shards -> [Options -> Nat]]
  BY DEF TypeInv, TypeOK, Statuses, Places
<1>a. ASSUME NEW c \in Submitters, pc[c] # "idle"
      PROVE  /\ input[c] \in [token : Tokens, choice : Choices]
             /\ SShard(c) \in Shards
  BY <1>a, EngineAssumption DEF TypeInv, PlaceInv, SShard, Shards
<1>1. CASE UNCHANGED vars
  BY <1>1 DEF vars, TypeInv, TypeOK, PlaceInv, SealPlaceInv, ReportInv, Reported
<1>2. ASSUME NEW c \in Submitters, NEW t \in Tokens, NEW choice \in Choices,
             Call(c, t, choice)
      PROVE TypeInv'
  <2>1. c \in Actors /\ c \notin Sealers
    BY ActorAssumption DEF Actors
  <2>2. /\ pc' \in [Actors -> Places] /\ pc'[c] = "lock"
        /\ \A d \in Actors \ {c} : pc'[d] = pc[d]
        /\ input'[c] = [token |-> t, choice |-> choice]
        /\ \A d \in Submitters \ {c} : input'[d] = input[d]
        /\ input' \in [Submitters -> [token : Tokens, choice : Choices] \cup {NoInput}]
    BY <1>0, <1>2, <2>1 DEF Call, Places, TypeInv, TypeOK
  <2>3. TypeOK'
    BY <1>2, <2>2 DEF Call, TypeInv, TypeOK, Places
  <2>4. PlaceInv' /\ SealPlaceInv'
    BY <1>2, <2>1, <2>2 DEF Call, TypeInv, PlaceInv, SealPlaceInv, Actors, Inside
  <2>5. ReportInv'
    BY <1>2, <2>2 DEF Call, TypeInv, ReportInv, Reported, Actors
  <2>6. QED
    BY <2>3, <2>4, <2>5 DEF TypeInv
<1>3. ASSUME NEW c \in Submitters, LockShard(c) PROVE TypeInv'
  <2>1. pc[c] # "idle" /\ pc' = [pc EXCEPT ![c] = "sealed"]
    BY <1>3 DEF LockShard
  <2>2. owner' \in [Shards -> Submitters \cup {Nobody}]
    BY <1>0, <1>3 DEF LockShard
  <2>3. QED
    BY <1>0, <1>3, <2>1, <2>2, MoveTypeInv DEF LockShard, Inside
<1>4. ASSUME NEW c \in Submitters, LoadSealed(c) PROVE TypeInv'
  <2>1. pc[c] # "idle"
    BY <1>4 DEF LoadSealed
  <2>2. CASE Decide(c, "closed", {})
    <3>1. /\ answer' \in [Submitters -> [status : Statuses, choice : Choices \cup {{}}]]
          /\ \A d \in Submitters \ {c} : answer'[d] = answer[d]
          /\ answer'[c] = [status |-> "closed", choice |-> {}]
          /\ pc' = [pc EXCEPT ![c] = "unlock"]
      BY <2>2, DecideAnswer DEF Statuses
    <3>2. ~ Reported(c)'
      BY <3>1 DEF Reported
    <3>3. QED
      BY <1>0, <1>4, <2>1, <3>1, <3>2, MoveTypeInv DEF LoadSealed, Inside
  <2>3. CASE pc' = [pc EXCEPT ![c] = "clock"] /\ UNCHANGED answer
    BY <1>0, <1>4, <2>1, <2>3, MoveTypeInv DEF LoadSealed, Inside
  <2>4. QED
    BY <1>4, <2>2, <2>3 DEF LoadSealed
<1>5. ASSUME NEW c \in Submitters, ReadClock(c) PROVE TypeInv'
  <2>1. pc[c] # "idle"
    BY <1>5 DEF ReadClock
  <2>2. CASE Decide(c, "not_open", {})
    <3>1. /\ answer' \in [Submitters -> [status : Statuses, choice : Choices \cup {{}}]]
          /\ \A d \in Submitters \ {c} : answer'[d] = answer[d]
          /\ answer'[c] = [status |-> "not_open", choice |-> {}]
          /\ pc' = [pc EXCEPT ![c] = "unlock"]
      BY <2>2, DecideAnswer DEF Statuses
    <3>2. ~ Reported(c)'
      BY <3>1 DEF Reported
    <3>3. QED
      BY <1>0, <1>5, <2>1, <3>1, <3>2, MoveTypeInv DEF ReadClock, Inside
  <2>3. ASSUME NEW p \in {"close", "store"},
               pc' = [pc EXCEPT ![c] = p], UNCHANGED answer
        PROVE TypeInv'
    BY <1>0, <1>5, <2>1, <2>3, MoveTypeInv DEF ReadClock, Inside
  <2>4. QED
    BY <1>5, <2>2, <2>3 DEF ReadClock
<1>6. ASSUME NEW c \in Submitters, SealBySubmit(c) PROVE TypeInv'
  <2>1. pc[c] # "idle" /\ sealed' \in BOOLEAN
    BY <1>6 DEF SealBySubmit
  <2>2. /\ answer' \in [Submitters -> [status : Statuses, choice : Choices \cup {{}}]]
        /\ \A d \in Submitters \ {c} : answer'[d] = answer[d]
        /\ answer'[c] = [status |-> "closed", choice |-> {}]
        /\ pc' = [pc EXCEPT ![c] = "unlock"]
    BY <1>6, DecideAnswer DEF SealBySubmit, Statuses
  <2>3. ~ Reported(c)'
    BY <2>2 DEF Reported
  <2>4. QED
    BY <1>0, <1>6, <2>1, <2>2, <2>3, MoveTypeInv DEF SealBySubmit, Inside
<1>7. ASSUME NEW c \in Submitters, Store(c) PROVE TypeInv'
  <2> DEFINE t == input[c].token  choice == input[c].choice  s == SShard(c)
  <2>1. /\ pc[c] = "store" /\ pc[c] # "idle" /\ t \in Tokens /\ choice \in Choices
        /\ s \in Shards /\ choice # {}
    BY <1>7, <1>a, ChoiceAssumption DEF Store
  <2>2. CASE HasEntry(t) /\ Decide(c, "duplicate", votes[t]) /\ UNCHANGED <<votes, counts>>
    <3>1. votes[t] \in Choices \cup {{}} /\ votes[t] # {}
      BY <1>0, <2>1, <2>2 DEF HasEntry
    <3>2. /\ answer' \in [Submitters -> [status : Statuses, choice : Choices \cup {{}}]]
          /\ \A d \in Submitters \ {c} : answer'[d] = answer[d]
          /\ answer'[c] = [status |-> "duplicate", choice |-> votes[t]]
          /\ pc' = [pc EXCEPT ![c] = "unlock"]
      BY <2>2, <3>1, DecideAnswer DEF Statuses
    <3>3. answer'[c].choice = votes[input[c].token] /\ answer'[c].choice # {}
      BY <3>1, <3>2
    <3>4. QED
      BY <1>0, <1>7, <2>1, <2>2, <3>2, <3>3, MoveTypeInv DEF Store, Inside
  <2>3. CASE Decide(c, "capacity_exceeded", {}) /\ UNCHANGED <<votes, counts>>
    <3>1. /\ answer' \in [Submitters -> [status : Statuses, choice : Choices \cup {{}}]]
          /\ \A d \in Submitters \ {c} : answer'[d] = answer[d]
          /\ answer'[c] = [status |-> "capacity_exceeded", choice |-> {}]
          /\ pc' = [pc EXCEPT ![c] = "unlock"]
      BY <2>3, DecideAnswer DEF Statuses
    <3>2. ~ Reported(c)'
      BY <3>1 DEF Reported
    <3>3. QED
      BY <1>0, <1>7, <2>1, <2>3, <3>1, <3>2, MoveTypeInv DEF Store, Inside
  <2>4. CASE /\ ~ HasEntry(t)
             /\ votes' = [votes EXCEPT ![t] = choice]
             /\ counts' = [counts EXCEPT ![s] =
                  [o \in Options |-> @[o] + (IF o \in choice THEN 1 ELSE 0)]]
             /\ Decide(c, "accepted", choice)
    <3>1. /\ answer' \in [Submitters -> [status : Statuses, choice : Choices \cup {{}}]]
          /\ \A d \in Submitters \ {c} : answer'[d] = answer[d]
          /\ answer'[c] = [status |-> "accepted", choice |-> choice]
          /\ pc' = [pc EXCEPT ![c] = "unlock"]
      BY <2>1, <2>4, DecideAnswer DEF Statuses
    <3>2. c \in Actors /\ c \notin Sealers
      BY ActorAssumption DEF Actors
    <3>3. /\ pc' \in [Actors -> Places] /\ pc'[c] = "unlock"
          /\ \A d \in Actors \ {c} : pc'[d] = pc[d]
      BY <1>0, <3>1, <3>2 DEF Places
    <3>4. votes' \in [Tokens -> Choices \cup {{}}] /\ votes'[t] = choice
      BY <1>0, <2>1, <2>4
    <3>5. counts' \in [Shards -> [Options -> Nat]]
      BY <1>0, <2>1, <2>4
    <3>6. UNCHANGED <<now, sealed, owner, input, at, snapshot, told>>
      BY <1>7 DEF Store
    <3>7. TypeOK'
      BY <3>1, <3>3, <3>4, <3>5, <3>6 DEF TypeInv, TypeOK, Statuses, Places
    <3>8. PlaceInv' /\ SealPlaceInv'
      BY <2>1, <3>2, <3>3, <3>6 DEF TypeInv, PlaceInv, SealPlaceInv, Actors, Inside
    <3>9. ReportInv'
      <4> SUFFICES ASSUME NEW d \in Submitters, pc'[d] = "unlock", Reported(d)'
                   PROVE  /\ answer'[d].choice = votes'[input'[d].token]
                          /\ answer'[d].choice # {}
        BY DEF ReportInv
      <4>1. CASE d = c
        BY <2>1, <3>1, <3>4, <3>6, <4>1
      <4>2. CASE d # c
        <5>1. pc[d] = "unlock" /\ answer'[d] = answer[d] /\ Reported(d)
          BY <3>1, <3>3, <4>2 DEF Reported, Actors
        <5>2. answer[d].choice = votes[input[d].token] /\ answer[d].choice # {}
          BY <5>1 DEF TypeInv, ReportInv
        <5>3. input[d].token \in Tokens /\ input[d].token # t
          BY <1>a, <2>4, <5>1, <5>2 DEF HasEntry
        <5>4. votes'[input[d].token] = votes[input[d].token]
          BY <1>0, <2>1, <2>4, <5>3
        <5>5. QED
          BY <3>6, <5>1, <5>2, <5>4
      <4>3. QED
        BY <4>1, <4>2
    <3>10. QED
      BY <3>7, <3>8, <3>9 DEF TypeInv
  <2>5. QED
    BY <1>7, <2>2, <2>3, <2>4 DEF Store
<1>8. ASSUME NEW c \in Submitters, Unlock(c) PROVE TypeInv'
  <2>1. /\ pc[c] = "unlock" /\ input[c] \in [token : Tokens, choice : Choices]
        /\ SShard(c) \in Shards /\ c \in Actors /\ c \notin Sealers
    BY <1>8, <1>a, ActorAssumption DEF Unlock, Actors
  <2>2. /\ pc' \in [Actors -> Places] /\ pc'[c] = "idle"
        /\ \A d \in Actors \ {c} : pc'[d] = pc[d]
    BY <1>0, <1>8, <2>1 DEF Unlock, Places
  <2>3. told' \in [Tokens -> SUBSET Choices]
    <3>1. told \in [Tokens -> SUBSET Choices]
      BY DEF TypeInv, TypeOK
    <3>2. CASE Reported(c)
      <4>1. answer[c].choice \in Choices
        BY <1>0, <2>1, <3>2 DEF TypeInv, ReportInv
      <4>2. QED
        BY <1>8, <2>1, <3>1, <3>2, <4>1 DEF Unlock
    <3>3. CASE ~ Reported(c)
      BY <1>8, <3>1, <3>3 DEF Unlock
    <3>4. QED
      BY <3>2, <3>3
  <2>4. answer' \in [Submitters -> [status : Statuses, choice : Choices \cup {{}}]]
    BY <1>0, <1>8 DEF Unlock, NoResult, Statuses
  <2>5. /\ input' \in [Submitters -> [token : Tokens, choice : Choices] \cup {NoInput}]
        /\ \A d \in Submitters \ {c} : input'[d] = input[d] /\ answer'[d] = answer[d]
    BY <1>0, <1>8 DEF Unlock, TypeInv, TypeOK
  <2>6. owner' \in [Shards -> Submitters \cup {Nobody}]
    BY <1>0, <1>8, <2>1 DEF Unlock
  <2>7. UNCHANGED <<now, votes, counts, sealed, at, snapshot>>
    BY <1>8 DEF Unlock
  <2>8. TypeOK'
    BY <2>2, <2>3, <2>4, <2>5, <2>6, <2>7 DEF TypeInv, TypeOK, Statuses, Places
  <2>9. PlaceInv' /\ SealPlaceInv'
    BY <2>1, <2>2, <2>5, <2>7 DEF TypeInv, PlaceInv, SealPlaceInv, Actors
  <2>10. ReportInv'
    BY <2>2, <2>5, <2>7 DEF TypeInv, ReportInv, Reported, Actors
  <2>11. QED
    BY <2>8, <2>9, <2>10 DEF TypeInv
<1>9. ASSUME NEW k \in Sealers, StartSeal(k) PROVE TypeInv'
  <2>1. at[k] = 0
    BY <1>9 DEF StartSeal, TypeInv, SealPlaceInv
  <2>2. QED
    BY <1>0, <1>9, <2>1, SealerTypeInv DEF StartSeal
<1>10. ASSUME NEW k \in Sealers, StoreSealed(k) PROVE TypeInv'
  <2>1. at[k] = 0 /\ at[k] < NumShards /\ sealed' \in BOOLEAN
    BY <1>10, EngineAssumption DEF StoreSealed, TypeInv, SealPlaceInv
  <2>2. QED
    BY <1>0, <1>10, <2>1, SealerTypeInv DEF StoreSealed
<1>11. ASSUME NEW k \in Sealers, AddShard(k) PROVE TypeInv'
  <2> DEFINE s == at[k]
  <2>1. s \in Shards /\ s + 1 \in 0 .. NumShards /\ s < NumShards
    BY <1>0, <1>11, EngineAssumption DEF AddShard, TypeInv, SealPlaceInv, Shards
  <2>2. Cardinality(Stored(s)) \in Nat
    <3>1. IsFiniteSet(Stored(s))
      BY TokenAssumption, FS_Subset DEF Stored
    <3>2. QED
      BY <3>1, FS_CardinalityType
  <2>3. snapshot' \in [Sealers -> [total : Nat, counts : [Options -> Nat]]]
    <3>1. snapshot[k].total \in Nat /\ snapshot[k].counts \in [Options -> Nat]
      BY <1>0
    <3>2. [total  |-> snapshot[k].total + Cardinality(Stored(s)),
           counts |-> [o \in Options |-> snapshot[k].counts[o] + counts[s][o]]]
            \in [total : Nat, counts : [Options -> Nat]]
      BY <1>0, <2>1, <2>2, <3>1
    <3>3. QED
      BY <1>0, <1>11, <3>2 DEF AddShard
  <2>4. /\ at' \in [Sealers -> 0 .. NumShards] /\ at'[k] = s + 1
        /\ \A j \in Sealers \ {k} : at'[j] = at[j]
    BY <1>0, <1>11, <2>1 DEF AddShard
  <2>5. CASE s + 1 = NumShards
    BY <1>0, <1>11, <2>3, <2>4, <2>5, SealerTypeInv DEF AddShard
  <2>6. CASE s + 1 # NumShards
    <3>1. at'[k] < NumShards
      BY <2>1, <2>4, <2>6, EngineAssumption
    <3>2. QED
      BY <1>0, <1>11, <2>3, <2>4, <2>6, <3>1, SealerTypeInv DEF AddShard
  <2>7. QED
    BY <2>5, <2>6
<1>12. ASSUME NEW t \in Tokens, Lookup(t) PROVE TypeInv'
  <2>1. told' \in [Tokens -> SUBSET Choices]
    BY <1>0, <1>12 DEF Lookup, HasEntry, TypeInv, TypeOK
  <2>2. QED
    BY <1>12, <2>1
    DEF Lookup, TypeInv, TypeOK, PlaceInv, SealPlaceInv, ReportInv, Reported
<1>13. ASSUME NEW t \in Clock, SetClock(t) PROVE TypeInv'
  BY <1>13 DEF SetClock, TypeInv, TypeOK, PlaceInv, SealPlaceInv, ReportInv, Reported
<1>14. QED
  BY <1>1, <1>2, <1>3, <1>4, <1>5, <1>6, <1>7, <1>8, <1>9, <1>10, <1>11, <1>12, <1>13
  DEF Next, SubmitStep, SealStep

\* The state of the engine is well typed, and what a submitter is about to
\* report is what its shard holds.
THEOREM TypeCorrect == Spec => []TypeOK
<1>1. Spec => []TypeInv
  BY InitTypeInv, NextTypeInv, PTL DEF Spec
<1>2. TypeInv => TypeOK
  BY DEF TypeInv
<1>3. QED
  BY <1>1, <1>2, PTL

-----------------------------------------------------------------------------
(* Critical sections and seals *)

\* What moving one actor does to the program counters.
LEMMA PcOfSubmitter ==
    ASSUME TypeInv, NEW c \in Submitters, NEW p, pc' = [pc EXCEPT ![c] = p]
    PROVE  /\ pc'[c] = p
           /\ \A d \in Submitters \ {c} : pc'[d] = pc[d]
           /\ \A k \in Sealers : pc'[k] = pc[k]
  BY ActorAssumption DEF TypeInv, TypeOK, Actors

LEMMA PcOfSealer ==
    ASSUME TypeInv, NEW k \in Sealers, NEW p, pc' = [pc EXCEPT ![k] = p]
    PROVE  /\ pc'[k] = p
           /\ \A j \in Sealers \ {k} : pc'[j] = pc[j]
           /\ \A c \in Submitters : pc'[c] = pc[c]
  BY ActorAssumption DEF TypeInv, TypeOK, Actors

\* The next place of a submitter that has the mutex, for each action inside.
LEMMA InsideMoves ==
    ASSUME TypeInv, NEW c \in Submitters,
           LoadSealed(c) \/ ReadClock(c) \/ SealBySubmit(c) \/ Store(c)
    PROVE  /\ pc[c] \in Inside
           /\ pc' = [pc EXCEPT ![c] = pc'[c]] /\ pc'[c] \in Inside
           /\ pc'[c] \in {"clock", "store"} =>
                \/ pc[c] = "sealed" /\ ~ sealed
                \/ pc[c] \in {"clock", "store"}
           /\ sealed => sealed'
           /\ UNCHANGED <<owner, input, at, snapshot, told>>
<1> USE DEF Inside
<1>1. pc \in [Actors -> Places] /\ c \in Actors /\ sealed \in BOOLEAN
  BY DEF TypeInv, TypeOK, Places, Actors
<1>2. CASE LoadSealed(c)
  BY <1>1, <1>2 DEF LoadSealed, Decide
<1>3. CASE ReadClock(c)
  BY <1>1, <1>3 DEF ReadClock, Decide
<1>4. CASE SealBySubmit(c)
  BY <1>1, <1>4 DEF SealBySubmit, Decide
<1>5. CASE Store(c)
  BY <1>1, <1>5 DEF Store, Decide
<1>6. QED
  BY <1>2, <1>3, <1>4, <1>5

\* A mutex has one owner, so that a shard has one submitter inside, and a shard
\* once added by a Seal has no submitter that may still store.
LockInv == MutexInv /\ SealInv

LEMMA NextLockInv == TypeInv /\ LockInv /\ [Next]_vars => LockInv'
<1> SUFFICES ASSUME TypeInv, LockInv, [Next]_vars PROVE LockInv'
  OBVIOUS
<1> USE DEF LockInv
<1>0. owner \in [Shards -> Submitters \cup {Nobody}]
  BY DEF TypeInv, TypeOK
<1>a. ASSUME NEW c \in Submitters, pc[c] # "idle" PROVE SShard(c) \in Shards
  BY <1>a, EngineAssumption DEF TypeInv, PlaceInv, SShard, Shards
<1>1. CASE UNCHANGED vars
  BY <1>1 DEF vars, MutexInv, SealInv, SShard
<1>2. ASSUME NEW c \in Submitters, NEW t \in Tokens, NEW choice \in Choices,
             Call(c, t, choice)
      PROVE LockInv'
  <2>1. /\ pc'[c] = "lock"
        /\ \A d \in Submitters \ {c} : pc'[d] = pc[d]
        /\ \A k \in Sealers : pc'[k] = pc[k]
    BY <1>2, PcOfSubmitter DEF Call
  <2>2. \A d \in Submitters \ {c} : SShard(d)' = SShard(d)
    BY <1>2 DEF Call, SShard, TypeInv, TypeOK
  <2>3. MutexInv'
    BY <1>2, <2>1, <2>2 DEF Call, MutexInv, Inside
  <2>4. SealInv'
    BY <1>2, <2>1, <2>2 DEF Call, SealInv
  <2>5. QED
    BY <2>3, <2>4
<1>3. ASSUME NEW c \in Submitters, LockShard(c) PROVE LockInv'
  <2>1. /\ pc'[c] = "sealed"
        /\ \A d \in Submitters \ {c} : pc'[d] = pc[d]
        /\ \A k \in Sealers : pc'[k] = pc[k]
    BY <1>3, PcOfSubmitter DEF LockShard
  <2>2. \A d \in Submitters : SShard(d)' = SShard(d)
    BY <1>3 DEF LockShard, SShard
  <2>3. MutexInv'
    <3>1. SShard(c) \in Shards
      BY <1>3, <1>a DEF LockShard
    <3>2. owner'[SShard(c)] = c /\ owner[SShard(c)] = Nobody
      BY <1>0, <1>3, <3>1 DEF LockShard
    <3>3. ASSUME NEW d \in Submitters \ {c}, pc[d] \in Inside
          PROVE owner'[SShard(d)] = d
      <4>1. owner[SShard(d)] = d /\ d # Nobody
        BY <3>3, ActorAssumption DEF MutexInv, Nobody
      <4>2. SShard(d) \in Shards /\ SShard(d) # SShard(c)
        BY <1>a, <3>2, <3>3, <4>1 DEF Inside
      <4>3. QED
        BY <1>0, <1>3, <4>1, <4>2 DEF LockShard
    <3>4. QED
      BY <2>1, <2>2, <3>2, <3>3 DEF MutexInv
  <2>4. SealInv'
    BY <1>3, <2>1, <2>2 DEF LockShard, SealInv
  <2>5. QED
    BY <2>3, <2>4
<1>4. ASSUME NEW c \in Submitters,
             LoadSealed(c) \/ ReadClock(c) \/ SealBySubmit(c) \/ Store(c)
      PROVE LockInv'
  <2>1. /\ pc[c] \in Inside
        /\ pc' = [pc EXCEPT ![c] = pc'[c]] /\ pc'[c] \in Inside
        /\ pc'[c] \in {"clock", "store"} =>
             (pc[c] = "sealed" /\ ~ sealed) \/ pc[c] \in {"clock", "store"}
        /\ sealed => sealed'
        /\ UNCHANGED <<owner, input, at>>
    BY <1>4, InsideMoves
  <2>2. /\ \A d \in Submitters \ {c} : pc'[d] = pc[d]
        /\ \A k \in Sealers : pc'[k] = pc[k]
    BY <2>1, PcOfSubmitter
  <2>3. \A d \in Submitters : SShard(d)' = SShard(d)
    BY <2>1 DEF SShard
  <2>4. MutexInv'
    BY <2>1, <2>2, <2>3 DEF MutexInv
  <2>5. SealInv'
    BY <2>1, <2>2, <2>3 DEF SealInv
  <2>6. QED
    BY <2>4, <2>5
<1>5. ASSUME NEW c \in Submitters, Unlock(c) PROVE LockInv'
  <2>1. /\ pc'[c] = "idle"
        /\ \A d \in Submitters \ {c} : pc'[d] = pc[d]
        /\ \A k \in Sealers : pc'[k] = pc[k]
    BY <1>5, PcOfSubmitter DEF Unlock
  <2>2. \A d \in Submitters \ {c} : SShard(d)' = SShard(d)
    BY <1>5 DEF Unlock, SShard, TypeInv, TypeOK
  <2>3. pc[c] = "unlock" /\ owner[SShard(c)] = c
    BY <1>5 DEF Unlock, MutexInv, Inside
  <2>4. MutexInv'
    <3>1. ASSUME NEW d \in Submitters \ {c}, pc[d] \in Inside
          PROVE owner'[SShard(d)] = d
      <4>1. owner[SShard(d)] = d /\ SShard(d) # SShard(c)
        BY <2>3, <3>1 DEF MutexInv
      <4>2. SShard(d) \in Shards
        BY <1>a, <3>1 DEF Inside
      <4>3. QED
        BY <1>0, <1>5, <4>1, <4>2 DEF Unlock
    <3>2. QED
      BY <2>1, <2>2, <3>1 DEF MutexInv, Inside
  <2>5. SealInv'
    BY <1>5, <2>1, <2>2 DEF Unlock, SealInv
  <2>6. QED
    BY <2>4, <2>5
<1>6. ASSUME NEW k \in Sealers, StartSeal(k) PROVE LockInv'
  <2>1. /\ pc'[k] = "seal"
        /\ \A j \in Sealers \ {k} : pc'[j] = pc[j]
        /\ \A c \in Submitters : pc'[c] = pc[c]
    BY <1>6, PcOfSealer DEF StartSeal
  <2>2. QED
    BY <1>6, <2>1 DEF StartSeal, MutexInv, SealInv, SShard
<1>7. ASSUME NEW k \in Sealers, StoreSealed(k) PROVE LockInv'
  <2>1. /\ pc'[k] = "add"
        /\ \A j \in Sealers \ {k} : pc'[j] = pc[j]
        /\ \A c \in Submitters : pc'[c] = pc[c]
    BY <1>7, PcOfSealer DEF StoreSealed
  <2>2. at[k] = 0
    BY <1>7 DEF StoreSealed, TypeInv, SealPlaceInv
  <2>3. \A c \in Submitters : pc[c] \in {"clock", "store"} => SShard(c) >= 0
    BY <1>a DEF Shards
  <2>4. MutexInv'
    BY <1>7, <2>1 DEF StoreSealed, MutexInv, SShard
  <2>5. SealInv'
    BY <1>7, <2>1, <2>2, <2>3 DEF StoreSealed, SealInv, SShard
  <2>6. QED
    BY <2>4, <2>5
<1>8. ASSUME NEW k \in Sealers, AddShard(k) PROVE LockInv'
  <2> DEFINE p == IF at[k] + 1 = NumShards THEN "done" ELSE "add"
  <2>1. /\ pc'[k] = p
        /\ \A j \in Sealers \ {k} : pc'[j] = pc[j]
        /\ \A c \in Submitters : pc'[c] = pc[c]
    BY <1>8, PcOfSealer DEF AddShard
  <2>2. /\ at[k] \in 0 .. NumShards /\ at'[k] = at[k] + 1
        /\ \A j \in Sealers \ {k} : at'[j] = at[j]
    BY <1>8 DEF AddShard, TypeInv, TypeOK
  <2>3. pc[k] = "add" /\ owner[at[k]] = Nobody
    BY <1>8 DEF AddShard, MutexFree
  <2>4. ASSUME NEW c \in Submitters, pc[c] \in {"clock", "store"}
        PROVE SShard(c) >= at[k] + 1
    <3>1. SShard(c) >= at[k] /\ SShard(c) \in Shards
      BY <1>a, <2>3, <2>4 DEF SealInv
    <3>2. SShard(c) # at[k]
      BY <2>3, <2>4, ActorAssumption DEF MutexInv, Inside, Nobody
    <3>3. QED
      BY <2>2, <3>1, <3>2, EngineAssumption DEF Shards
  <2>5. MutexInv'
    BY <1>8, <2>1 DEF AddShard, MutexInv, SShard
  <2>6. SealInv'
    BY <1>8, <2>1, <2>2, <2>3, <2>4 DEF AddShard, SealInv, SShard
  <2>7. QED
    BY <2>5, <2>6
<1>9. ASSUME NEW t \in Tokens, Lookup(t) PROVE LockInv'
  BY <1>9 DEF Lookup, MutexInv, SealInv, SShard
<1>10. ASSUME NEW t \in Clock, SetClock(t) PROVE LockInv'
  BY <1>10 DEF SetClock, MutexInv, SealInv, SShard
<1>11. QED
  BY <1>1, <1>2, <1>3, <1>4, <1>5, <1>6, <1>7, <1>8, <1>9, <1>10
  DEF Next, SubmitStep, SealStep

\* The mutexes exclude, and added shards stay as they were added.
LEMMA Locked == Spec => [](TypeInv /\ LockInv)
<1>1. Init => LockInv
  BY ActorAssumption DEF Init, LockInv, MutexInv, SealInv, Actors, Inside
<1>2. QED
  BY <1>1, InitTypeInv, NextTypeInv, NextLockInv, PTL DEF Spec

-----------------------------------------------------------------------------
\* Which steps change the map, and how: only Store, and only where it had no
\* entry.
LEMMA OnlyStoreWrites ==
    ASSUME TypeInv, [Next]_vars
    PROVE  \/ UNCHANGED <<votes, counts>>
           \/ \E c \in Submitters : Store(c)
  BY DEF vars, Next, SubmitStep, SealStep, Call, LockShard, LoadSealed, ReadClock,
         SealBySubmit, Unlock, StartSeal, StoreSealed, AddShard, Lookup, SetClock

\* After a Seal returned, no Submit changes the map, whatever the clock does.
THEOREM SealFreezes == Spec => FrozenAfterSeal
<1>1. TypeInv /\ LockInv /\ [Next]_vars =>
        [(\E k \in Sealers : pc[k] = "done") => votes' = votes]_vars
  <2> SUFFICES ASSUME TypeInv, LockInv, [Next]_vars,
                      NEW k \in Sealers, pc[k] = "done"
               PROVE  votes' = votes
    OBVIOUS
  <2>1. ASSUME NEW c \in Submitters, Store(c) PROVE FALSE
    <3>1. pc[c] = "store" /\ SShard(c) \in Shards
      BY <2>1, EngineAssumption DEF Store, TypeInv, PlaceInv, SShard, Shards
    <3>2. at[k] = NumShards /\ SShard(c) >= at[k]
      BY <3>1 DEF TypeInv, SealPlaceInv, LockInv, SealInv
    <3>3. QED
      BY <3>1, <3>2, EngineAssumption DEF Shards
  <2>2. QED
    BY <2>1, OnlyStoreWrites
<1>2. QED
  BY <1>1, Locked, PTL DEF Spec, FrozenAfterSeal

-----------------------------------------------------------------------------
\* What a Store does to the map: nothing, or a first entry with its counts.
LEMMA StoreEffect ==
    ASSUME TypeInv, NEW c \in Submitters, Store(c)
    PROVE  \/ UNCHANGED <<votes, counts>>
           \/ \E t \in Tokens, choice \in Choices :
                /\ t = input[c].token /\ votes[t] = {} /\ choice # {}
                /\ votes' = [votes EXCEPT ![t] = choice]
                /\ counts' = [counts EXCEPT ![ShardOf[t]] =
                     [o \in Options |->
                        counts[ShardOf[t]][o] + (IF o \in choice THEN 1 ELSE 0)]]
<1>1. /\ input[c].token \in Tokens /\ input[c].choice \in Choices
      /\ input[c].choice # {} /\ SShard(c) \in Shards /\ counts \in [Shards -> [Options -> Nat]]
  BY ChoiceAssumption, EngineAssumption
  DEF Store, TypeInv, TypeOK, PlaceInv, SShard, Shards
<1>2. QED
  BY <1>1 DEF Store, HasEntry, SShard

\* What was told is what is recorded: every step keeps it.
LEMMA NextFirstChoice ==
    TypeInv /\ FirstChoiceFinal /\ [Next]_vars => FirstChoiceFinal'
<1> SUFFICES ASSUME TypeInv, FirstChoiceFinal, [Next]_vars, NEW t \in Tokens
             PROVE  told'[t] \subseteq {votes'[t]}
  BY DEF FirstChoiceFinal
<1>0. /\ told[t] \subseteq {votes[t]} /\ told[t] \subseteq Choices
      /\ votes \in [Tokens -> Choices \cup {{}}] /\ told \in [Tokens -> SUBSET Choices]
  BY DEF FirstChoiceFinal, TypeInv, TypeOK
<1>1. CASE UNCHANGED <<votes, told>>
  BY <1>0, <1>1
<1>2. ASSUME NEW c \in Submitters, Store(c) PROVE told'[t] \subseteq {votes'[t]}
  <2>1. told' = told
    BY <1>2 DEF Store
  <2>2. CASE UNCHANGED votes
    BY <1>0, <2>1, <2>2
  <2>3. ASSUME NEW u \in Tokens, NEW choice, votes[u] = {},
               votes' = [votes EXCEPT ![u] = choice]
        PROVE  told'[t] \subseteq {votes'[t]}
    <3>1. CASE t = u
      <4>1. told[t] = {}
        BY <1>0, <2>3, <3>1, ChoiceAssumption
      <4>2. QED
        BY <2>1, <4>1
    <3>2. CASE t # u
      BY <1>0, <2>1, <2>3, <3>2
    <3>3. QED
      BY <3>1, <3>2
  <2>4. QED
    BY <1>2, <2>2, <2>3, StoreEffect
<1>3. ASSUME NEW c \in Submitters, Unlock(c) PROVE told'[t] \subseteq {votes'[t]}
  <2>1. votes' = votes /\ pc[c] = "unlock" /\ input[c].token \in Tokens
    BY <1>3 DEF Unlock, TypeInv, PlaceInv
  <2>2. CASE Reported(c)
    <3>1. answer[c].choice = votes[input[c].token]
      BY <2>1, <2>2 DEF TypeInv, ReportInv
    <3>2. told' = [told EXCEPT ![input[c].token] = @ \cup {answer[c].choice}]
      BY <1>3, <2>2 DEF Unlock
    <3>3. QED
      BY <1>0, <2>1, <3>1, <3>2
  <2>3. CASE ~ Reported(c)
    BY <1>0, <1>3, <2>1, <2>3 DEF Unlock
  <2>4. QED
    BY <2>2, <2>3
<1>4. ASSUME NEW u \in Tokens, Lookup(u) PROVE told'[t] \subseteq {votes'[t]}
  BY <1>0, <1>4 DEF Lookup
<1>5. QED
  BY <1>1, <1>2, <1>3, <1>4
  DEF vars, Next, SubmitStep, SealStep, Call, LockShard, LoadSealed, ReadClock,
      SealBySubmit, StartSeal, StoreSealed, AddShard, SetClock

\* Every caller of Submit and Lookup that learns a token's choice learns the
\* first recorded one.
THEOREM FirstChoice == Spec => []FirstChoiceFinal
<1>1. Init => FirstChoiceFinal
  BY DEF Init, FirstChoiceFinal
<1>2. QED
  BY <1>1, InitTypeInv, NextTypeInv, NextFirstChoice, PTL DEF Spec

-----------------------------------------------------------------------------
\* The tokens whose recorded choice holds an option, and the tokens of the
\* shards that a Seal adds before shard n.
Picked(s, o)      == {t \in Tokens : ShardOf[t] = s /\ o \in votes[t]}
Below(n)          == {t \in Tokens : ShardOf[t] < n /\ votes[t] # {}}
PickedBelow(n, o) == {t \in Tokens : ShardOf[t] < n /\ o \in votes[t]}

SnapshotInv(k) ==
    /\ snapshot[k].total = Cardinality(Below(at[k]))
    /\ \A o \in Options :
         snapshot[k].counts[o] = Cardinality(PickedBelow(at[k], o))

CountInv ==
    /\ \A s \in Shards, o \in Options : counts[s][o] = Cardinality(Picked(s, o))
    /\ \A k \in Sealers : SnapshotInv(k)

\* All sets of tokens are finite.
LEMMA FiniteTokens ==
    ASSUME NEW S \in SUBSET Tokens PROVE IsFiniteSet(S) /\ Cardinality(S) \in Nat
  BY TokenAssumption, FS_Subset, FS_CardinalityType

\* Disjoint sets of tokens add up.
LEMMA DisjointTokens ==
    ASSUME NEW S \in SUBSET Tokens, NEW T \in SUBSET Tokens, S \cap T = {}
    PROVE  Cardinality(S \cup T) = Cardinality(S) + Cardinality(T)
<1>1. Cardinality(S \cup T) = Cardinality(S) + Cardinality(T) - Cardinality(S \cap T)
  BY FiniteTokens, FS_Union
<1>2. Cardinality(S \cap T) = 0
  BY FS_EmptySet
<1>3. QED
  BY <1>1, <1>2, FiniteTokens

\* A new entry is counted once for each option it holds.
LEMMA StoreCounts ==
    ASSUME TypeInv, CountInv, NEW c \in Submitters, Store(c)
    PROVE  \A s \in Shards, o \in Options : counts'[s][o] = Cardinality(Picked(s, o)')
<1> SUFFICES ASSUME NEW s \in Shards, NEW o \in Options
             PROVE  counts'[s][o] = Cardinality(Picked(s, o)')
  OBVIOUS
<1>0. /\ counts[s][o] = Cardinality(Picked(s, o))
      /\ counts \in [Shards -> [Options -> Nat]]
      /\ votes \in [Tokens -> Choices \cup {{}}]
  BY DEF CountInv, TypeInv, TypeOK
<1>1. CASE UNCHANGED <<votes, counts>>
  BY <1>0, <1>1 DEF Picked
<1>2. ASSUME NEW t \in Tokens, NEW choice \in Choices, votes[t] = {}, choice # {},
             votes' = [votes EXCEPT ![t] = choice],
             counts' = [counts EXCEPT ![ShardOf[t]] =
               [x \in Options |->
                  counts[ShardOf[t]][x] + (IF x \in choice THEN 1 ELSE 0)]]
      PROVE  counts'[s][o] = Cardinality(Picked(s, o)')
  <2>1. ShardOf[t] \in Shards
    BY EngineAssumption DEF Shards
  <2>2. CASE s = ShardOf[t] /\ o \in choice
    <3>1. Picked(s, o)' = Picked(s, o) \cup {t} /\ t \notin Picked(s, o)
      BY <1>0, <1>2, <2>2 DEF Picked
    <3>2. Picked(s, o) \in SUBSET Tokens
      BY DEF Picked
    <3>3. Cardinality(Picked(s, o) \cup {t}) = Cardinality(Picked(s, o)) + 1
      BY <3>1, <3>2, FiniteTokens, FS_AddElement
    <3>4. counts'[s][o] = counts[s][o] + 1
      BY <1>0, <1>2, <2>1, <2>2
    <3>5. QED
      BY <1>0, <3>1, <3>3, <3>4
  <2>3. CASE ~ (s = ShardOf[t] /\ o \in choice)
    <3>1. Picked(s, o)' = Picked(s, o)
      BY <1>0, <1>2, <2>3 DEF Picked
    <3>2. counts'[s][o] = counts[s][o]
      BY <1>0, <1>2, <2>1, <2>3
    <3>3. QED
      BY <1>0, <3>1, <3>2
  <2>4. QED
    BY <2>2, <2>3
<1>3. QED
  BY <1>1, <1>2, StoreEffect

\* A new entry is in no shard that a Seal has already added.
LEMMA StoreKeepsSnapshots ==
    ASSUME TypeInv, LockInv, CountInv, NEW c \in Submitters, Store(c), NEW k \in Sealers
    PROVE  SnapshotInv(k)'
<1>0. /\ SnapshotInv(k) /\ UNCHANGED <<at, snapshot>>
      /\ votes \in [Tokens -> Choices \cup {{}}] /\ pc[c] = "store"
      /\ input[c].token \in Tokens
  BY DEF CountInv, TypeInv, TypeOK, PlaceInv, Store
<1>1. ShardOf[input[c].token] >= at[k]
  <2>1. CASE pc[k] \in {"add", "done"}
    BY <1>0, <2>1 DEF LockInv, SealInv, SShard
  <2>2. CASE pc[k] \in {"idle", "seal"}
    <3>1. at[k] = 0
      BY <2>2 DEF TypeInv, SealPlaceInv
    <3>2. ShardOf[input[c].token] \in Nat
      BY <1>0, EngineAssumption
    <3>3. QED
      BY <3>1, <3>2
  <2>3. QED
    BY <2>1, <2>2 DEF TypeInv, PlaceInv
<1>2. \A t \in Tokens : ShardOf[t] < at[k] => votes'[t] = votes[t]
  <2>1. at[k] \in Nat /\ \A t \in Tokens : ShardOf[t] \in Nat
    BY EngineAssumption DEF TypeInv, TypeOK
  <2>2. \A t \in Tokens : ShardOf[t] < at[k] => t # input[c].token
    BY <1>0, <1>1, <2>1
  <2>3. \A t \in Tokens : t # input[c].token => votes'[t] = votes[t]
    BY <1>0, StoreEffect
  <2>4. QED
    BY <2>2, <2>3
<1>3. Below(at[k])' = Below(at[k])
  BY <1>0, <1>2 DEF Below
<1>4. \A o \in Options : PickedBelow(at[k], o)' = PickedBelow(at[k], o)
  BY <1>0, <1>2 DEF PickedBelow
<1>5. QED
  BY <1>0, <1>3, <1>4 DEF SnapshotInv

\* Adding a shard adds the tokens of that shard.
LEMMA AddKeepsSnapshots ==
    ASSUME TypeInv, CountInv, NEW k \in Sealers, AddShard(k), NEW j \in Sealers
    PROVE  SnapshotInv(j)'
<1>0. /\ SnapshotInv(j) /\ SnapshotInv(k) /\ UNCHANGED <<votes, counts>>
      /\ at \in [Sealers -> 0 .. NumShards]
      /\ snapshot \in [Sealers -> [total : Nat, counts : [Options -> Nat]]]
      /\ at[k] \in Shards /\ at[k] \in Nat
      /\ \A t \in Tokens : ShardOf[t] \in Nat
  BY EngineAssumption
  DEF CountInv, TypeInv, TypeOK, AddShard, SealPlaceInv, Shards
<1>1. CASE j # k
  <2>1. at'[j] = at[j] /\ snapshot'[j] = snapshot[j]
    BY <1>0, <1>1 DEF AddShard
  <2>2. Below(at[j])' = Below(at[j])
    BY <1>0, <2>1 DEF Below
  <2>3. \A o \in Options : PickedBelow(at[j], o)' = PickedBelow(at[j], o)
    BY <1>0, <2>1 DEF PickedBelow
  <2>4. QED
    BY <1>0, <2>1, <2>2, <2>3 DEF SnapshotInv
<1>2. CASE j = k
  <2>0. PICK s \in Shards : s = at[k] /\ s \in Nat
    BY <1>0
  <2>1. /\ at'[k] = s + 1
        /\ snapshot'[k].total = snapshot[k].total + Cardinality(Stored(s))
        /\ \A o \in Options :
             snapshot'[k].counts[o] = snapshot[k].counts[o] + counts[s][o]
    BY <1>0, <2>0 DEF AddShard
  <2>2. \A t \in Tokens : ShardOf[t] < s + 1 <=> (ShardOf[t] < s \/ ShardOf[t] = s)
    <3>1. \A n \in Nat : n < s + 1 <=> (n < s \/ n = s)
      BY <2>0
    <3>2. QED
      BY <1>0, <3>1
  <2>3. \A t \in Tokens : ~ (ShardOf[t] < s /\ ShardOf[t] = s)
    BY <1>0, <2>0
  <2>4. snapshot'[k].total = Cardinality(Below(at[k])')
    <3>1. Below(at[k])' = {t \in Tokens : ShardOf[t] < s + 1 /\ votes[t] # {}}
      BY <1>0, <2>1 DEF Below
    <3>2. Below(at[k])' = Below(s) \cup Stored(s)
      BY <2>2, <3>1 DEF Below, Stored
    <3>3. Below(s) \cap Stored(s) = {} /\ Below(s) \in SUBSET Tokens
          /\ Stored(s) \in SUBSET Tokens
      BY <2>3 DEF Below, Stored
    <3>4. Cardinality(Below(s) \cup Stored(s)) =
            Cardinality(Below(s)) + Cardinality(Stored(s))
      BY <3>3, DisjointTokens
    <3>5. snapshot[k].total = Cardinality(Below(s))
      BY <1>0, <2>0 DEF SnapshotInv
    <3>6. QED
      BY <2>1, <3>2, <3>4, <3>5
  <2>5. ASSUME NEW o \in Options
        PROVE  snapshot'[k].counts[o] = Cardinality(PickedBelow(at[k], o)')
    <3>1. PickedBelow(at[k], o)' = {t \in Tokens : ShardOf[t] < s + 1 /\ o \in votes[t]}
      BY <1>0, <2>1 DEF PickedBelow
    <3>2. PickedBelow(at[k], o)' = PickedBelow(s, o) \cup Picked(s, o)
      BY <2>2, <3>1 DEF PickedBelow, Picked
    <3>3. PickedBelow(s, o) \cap Picked(s, o) = {}
          /\ PickedBelow(s, o) \in SUBSET Tokens /\ Picked(s, o) \in SUBSET Tokens
      BY <2>3 DEF PickedBelow, Picked
    <3>4. Cardinality(PickedBelow(s, o) \cup Picked(s, o)) =
            Cardinality(PickedBelow(s, o)) + Cardinality(Picked(s, o))
      BY <3>3, DisjointTokens
    <3>5. /\ snapshot[k].counts[o] = Cardinality(PickedBelow(s, o))
          /\ counts[s][o] = Cardinality(Picked(s, o))
      BY <1>0, <2>0 DEF SnapshotInv, CountInv
    <3>6. QED
      BY <2>1, <3>2, <3>4, <3>5
  <2>6. QED
    BY <1>2, <2>4, <2>5 DEF SnapshotInv
<1>3. QED
  BY <1>1, <1>2

\* Every step keeps the counters equal to the sets they count.
LEMMA NextCountInv == TypeInv /\ LockInv /\ CountInv /\ [Next]_vars => CountInv'
<1> SUFFICES ASSUME TypeInv, LockInv, CountInv, [Next]_vars PROVE CountInv'
  OBVIOUS
<1>1. CASE UNCHANGED <<votes, counts, at, snapshot>>
  <2>1. \A s \in Shards, o \in Options : Picked(s, o)' = Picked(s, o)
    BY <1>1 DEF Picked
  <2>2. \A k \in Sealers : Below(at[k])' = Below(at[k])
    BY <1>1 DEF Below
  <2>3. \A k \in Sealers, o \in Options : PickedBelow(at[k], o)' = PickedBelow(at[k], o)
    BY <1>1 DEF PickedBelow
  <2>4. QED
    BY <1>1, <2>1, <2>2, <2>3 DEF CountInv, SnapshotInv
<1>2. ASSUME NEW c \in Submitters, Store(c) PROVE CountInv'
  BY <1>2, StoreCounts, StoreKeepsSnapshots DEF CountInv
<1>3. ASSUME NEW k \in Sealers, AddShard(k) PROVE CountInv'
  <2>1. UNCHANGED <<votes, counts>>
    BY <1>3 DEF AddShard
  <2>2. \A s \in Shards, o \in Options : counts'[s][o] = Cardinality(Picked(s, o)')
    BY <2>1 DEF CountInv, Picked
  <2>3. QED
    BY <1>3, <2>2, AddKeepsSnapshots DEF CountInv
<1>4. QED
  BY <1>1, <1>2, <1>3
  DEF vars, Next, SubmitStep, SealStep, Call, LockShard, LoadSealed, ReadClock,
      SealBySubmit, Unlock, StartSeal, StoreSealed, Lookup, SetClock

\* A new engine has no votes to count.
LEMMA InitCountInv == Init => CountInv
<1> SUFFICES ASSUME Init PROVE CountInv
  OBVIOUS
<1>1. ASSUME NEW s, NEW o PROVE Picked(s, o) = {} /\ Below(s) = {} /\ PickedBelow(s, o) = {}
  BY DEF Init, Picked, Below, PickedBelow
<1>2. Cardinality({}) = 0
  BY FS_EmptySet
<1>3. \A s \in Shards, o \in Options : counts[s][o] = 0
  BY DEF Init
<1>4. \A k \in Sealers : snapshot[k].total = 0 /\ \A o \in Options : snapshot[k].counts[o] = 0
  BY DEF Init, Empty
<1>5. QED
  BY <1>1, <1>2, <1>3, <1>4 DEF CountInv, SnapshotInv

\* A snapshot that Seal returned counts exactly the recorded votes.
THEOREM ExactSnapshot == Spec => []SnapshotExact
<1>1. TypeInv /\ CountInv => SnapshotExact
  <2> SUFFICES ASSUME TypeInv, CountInv, NEW k \in Sealers, pc[k] = "done"
               PROVE  snapshot[k] =
                        [total  |-> Cardinality({t \in Tokens : votes[t] # {}}),
                         counts |-> [o \in Options |->
                                       Cardinality({t \in Tokens : o \in votes[t]})]]
    BY DEF SnapshotExact
  <2>1. at[k] = NumShards /\ \A t \in Tokens : ShardOf[t] < NumShards
    BY EngineAssumption DEF TypeInv, SealPlaceInv
  <2>2. Below(at[k]) = {t \in Tokens : votes[t] # {}}
    BY <2>1 DEF Below
  <2>3. \A o \in Options : PickedBelow(at[k], o) = {t \in Tokens : o \in votes[t]}
    BY <2>1 DEF PickedBelow
  <2>4. snapshot[k] \in [total : Nat, counts : [Options -> Nat]]
    BY DEF TypeInv, TypeOK
  <2>5. snapshot[k].total = Cardinality({t \in Tokens : votes[t] # {}})
    BY <2>2 DEF CountInv, SnapshotInv
  <2>6. snapshot[k].counts =
          [o \in Options |-> Cardinality({t \in Tokens : o \in votes[t]})]
    <3>1. \A o \in Options : snapshot[k].counts[o] = Cardinality({t \in Tokens : o \in votes[t]})
      BY <2>3 DEF CountInv, SnapshotInv
    <3>2. QED
      BY <2>4, <3>1
  <2>7. QED
    BY <2>4, <2>5, <2>6
<1>2. QED
  BY <1>1, Locked, InitCountInv, NextCountInv, PTL DEF Spec
=============================================================================
