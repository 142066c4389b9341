------------------------------ MODULE VoteCore ------------------------------
(***************************************************************************)
(* The in-memory voting engine (internal/votecore/engine.go): a poll split *)
(* over shards, each a map under its own mutex, and an atomic flag sealed. *)
(* Submitters run Submit, sealers run Seal; both may run concurrently with *)
(* each other.  A step is one access to shared state: taking the mutex,    *)
(* loading or storing sealed, reading the clock, changing the map.  The    *)
(* wall clock may jump in both directions.                                 *)
(***************************************************************************)
EXTENDS Naturals, FiniteSets

CONSTANTS
    Tokens, Options,
    Choices,          \* valid choice masks, as sets of options
    Submitters, Sealers,
    NumShards, ShardOf,
    Capacity,         \* exact bound on the votes of the whole engine
    StartsAt, EndsAt, MaxClock

ASSUME EngineAssumption ==
    /\ NumShards \in Nat \ {0}
    /\ ShardOf \in [Tokens -> 0 .. NumShards - 1]
    /\ Capacity \in Nat /\ Capacity >= NumShards
ASSUME ClockAssumption ==
    /\ StartsAt \in Nat /\ EndsAt \in Nat /\ MaxClock \in Nat
    /\ StartsAt < EndsAt /\ EndsAt <= MaxClock
\* Submit rejects a zero mask; a mask is never the map's zero value.
ASSUME ChoiceAssumption == Choices \subseteq (SUBSET Options) \ {{}}
ASSUME ActorAssumption == Submitters \cap Sealers = {} /\ "nobody" \notin Submitters
ASSUME TokenAssumption == IsFiniteSet(Tokens)

VARIABLES
    now,      \* the wall clock
    votes,    \* token |-> recorded mask, {} when the map has no entry
    counts,   \* shard |-> option |-> shard.counts
    sealed,   \* Engine.sealed
    owner,    \* shard |-> who holds its mutex
    pc,       \* actor |-> next step
    input,    \* submitter |-> the Input it was called with
    answer,   \* submitter |-> its Result
    at,       \* sealer |-> index of the shard it adds next
    snapshot, \* sealer |-> the Snapshot it builds
    told      \* token |-> choices reported as recorded to some caller

vars == <<now, votes, counts, sealed, owner, pc, input, answer, at, snapshot, told>>

Shards   == 0 .. NumShards - 1
Clock    == 0 .. MaxClock
Nobody   == "nobody"
Actors   == Submitters \cup Sealers
NoInput  == [token |-> "no token", choice |-> {}]
NoResult == [status |-> "none", choice |-> {}]
Empty    == [total |-> 0, counts |-> [o \in Options |-> 0]]

\* New splits the capacity: the first Capacity % NumShards shards get one more.
CapacityOf(s) ==
    Capacity \div NumShards + (IF s < Capacity % NumShards THEN 1 ELSE 0)

Stored(s) == {t \in Tokens : ShardOf[t] = s /\ votes[t] # {}}

-----------------------------------------------------------------------------
(* Submit *)

SShard(c) == ShardOf[input[c].token]

Call(c, t, choice) ==
    /\ pc[c] = "idle"
    /\ input' = [input EXCEPT ![c] = [token |-> t, choice |-> choice]]
    /\ pc' = [pc EXCEPT ![c] = "lock"]
    /\ UNCHANGED <<now, votes, counts, sealed, owner, answer, at, snapshot, told>>

LockShard(c) ==
    /\ pc[c] = "lock"
    /\ owner[SShard(c)] = Nobody
    /\ owner' = [owner EXCEPT ![SShard(c)] = c]
    /\ pc' = [pc EXCEPT ![c] = "sealed"]
    /\ UNCHANGED <<now, votes, counts, sealed, input, answer, at, snapshot, told>>

DecideLeaks(c, status, choice) ==  \* mutant: "closed" returns without unlocking
    /\ answer' = [answer EXCEPT ![c] = [status |-> status, choice |-> choice]]
    /\ pc' = [pc EXCEPT ![c] = IF status = "closed" THEN "idle" ELSE "unlock"]
Decide(c, status, choice) ==
    /\ answer' = [answer EXCEPT ![c] = [status |-> status, choice |-> choice]]
    /\ pc' = [pc EXCEPT ![c] = "unlock"]

LoadSealed(c) ==
    /\ pc[c] = "sealed"
    /\ \/ sealed /\ Decide(c, "closed", {})
       \/ ~ sealed /\ pc' = [pc EXCEPT ![c] = "clock"] /\ UNCHANGED answer
    /\ UNCHANGED <<now, votes, counts, sealed, owner, input, at, snapshot, told>>

\* The clock is read inside the critical section.  Seeing the deadline seals
\* the engine, so that a clock set back cannot reopen it.
ReadClock(c) ==
    /\ pc[c] = "clock"
    /\ \/ now < StartsAt /\ Decide(c, "not_open", {})
       \/ now >= EndsAt /\ pc' = [pc EXCEPT ![c] = "close"] /\ UNCHANGED answer
       \/ /\ StartsAt <= now /\ now < EndsAt
          /\ pc' = [pc EXCEPT ![c] = "store"] /\ UNCHANGED answer
    /\ UNCHANGED <<now, votes, counts, sealed, owner, input, at, snapshot, told>>
SealBySubmit(c) ==
    /\ pc[c] = "close"
    /\ sealed' = TRUE
    /\ Decide(c, "closed", {})
    /\ UNCHANGED <<now, votes, counts, owner, input, at, snapshot, told>>

\* The first choice of a token is stored, with its counts, if the shard has room.
HasEntryNever(t) == FALSE  \* mutant: no duplicate lookup
HasEntry(t) == votes[t] # {}
HasRoom(s) == Cardinality(Stored(s)) < CapacityOf(s)
Store(c) ==
    LET t == input[c].token  s == SShard(c)  choice == input[c].choice IN
    /\ pc[c] = "store"
    /\ \/ /\ HasEntry(t)
          /\ Decide(c, "duplicate", votes[t])
          /\ UNCHANGED <<votes, counts>>
       \/ /\ ~ HasEntry(t) /\ ~ HasRoom(s)
          /\ Decide(c, "capacity_exceeded", {})
          /\ UNCHANGED <<votes, counts>>
       \/ /\ ~ HasEntry(t) /\ HasRoom(s)
          /\ votes' = [votes EXCEPT ![t] = choice]
          /\ counts' = [counts EXCEPT ![s] =
               [o \in Options |-> @[o] + (IF o \in choice THEN 1 ELSE 0)]]
          /\ Decide(c, "accepted", choice)
    /\ UNCHANGED <<now, sealed, owner, input, at, snapshot, told>>

\* A choice is part of the Result only when it is recorded.
Reported(c) == answer[c].status \in {"accepted", "duplicate"}
Unlock(c) ==
    /\ pc[c] = "unlock"
    /\ owner' = [owner EXCEPT ![SShard(c)] = Nobody]
    /\ told' = IF Reported(c)
               THEN [told EXCEPT ![input[c].token] = @ \cup {answer[c].choice}]
               ELSE told
    /\ pc' = [pc EXCEPT ![c] = "idle"]
    /\ input' = [input EXCEPT ![c] = NoInput]
    /\ answer' = [answer EXCEPT ![c] = NoResult]
    /\ UNCHANGED <<now, votes, counts, sealed, at, snapshot>>

-----------------------------------------------------------------------------
(* Seal *)

\* Seal may start: it or a Submit has sealed the engine, or the deadline passed.
\* Otherwise ErrStillOpen, which changes nothing.
StartSeal(k) ==
    /\ pc[k] = "idle"
    /\ sealed \/ now >= EndsAt
    /\ pc' = [pc EXCEPT ![k] = "seal"]
    /\ UNCHANGED <<now, votes, counts, sealed, owner, input, answer, at, snapshot,
                   told>>

StoreSealed(k) ==
    /\ pc[k] = "seal"
    /\ sealed' = TRUE
    /\ pc' = [pc EXCEPT ![k] = "add"]
    /\ UNCHANGED <<now, votes, counts, owner, input, answer, at, snapshot, told>>

\* One shard is locked, added and unlocked.
MutexFreeIgnored(s) == TRUE  \* mutant: the shard is read without its mutex
MutexFree(s) == owner[s] = Nobody
AddShard(k) ==
    LET s == at[k] IN
    /\ pc[k] = "add"
    /\ MutexFree(s)
    /\ snapshot' = [snapshot EXCEPT ![k] =
         [total  |-> @.total + Cardinality(Stored(s)),
          counts |-> [o \in Options |-> @.counts[o] + counts[s][o]]]]
    /\ at' = [at EXCEPT ![k] = s + 1]
    /\ pc' = [pc EXCEPT ![k] = IF s + 1 = NumShards THEN "done" ELSE "add"]
    /\ UNCHANGED <<now, votes, counts, sealed, owner, input, answer, told>>

-----------------------------------------------------------------------------
(* Lookup: reads one entry under its mutex, also after the engine is sealed *)
Lookup(t) ==
    /\ MutexFree(ShardOf[t])
    /\ HasEntry(t)
    /\ told' = [told EXCEPT ![t] = @ \cup {votes[t]}]
    /\ UNCHANGED <<now, votes, counts, sealed, owner, pc, input, answer, at, snapshot>>

SetClock(t) ==
    /\ now # t
    /\ now' = t
    /\ UNCHANGED <<votes, counts, sealed, owner, pc, input, answer, at, snapshot,
                   told>>

Init ==
    /\ now \in Clock
    /\ votes = [t \in Tokens |-> {}]
    /\ counts = [s \in Shards |-> [o \in Options |-> 0]]
    /\ sealed = FALSE
    /\ owner = [s \in Shards |-> Nobody]
    /\ pc = [a \in Actors |-> "idle"]
    /\ input = [c \in Submitters |-> NoInput]
    /\ answer = [c \in Submitters |-> NoResult]
    /\ at = [k \in Sealers |-> 0]
    /\ snapshot = [k \in Sealers |-> Empty]
    /\ told = [t \in Tokens |-> {}]

SubmitStep(c) ==
    \/ \E t \in Tokens, choice \in Choices : Call(c, t, choice)
    \/ LockShard(c) \/ LoadSealed(c) \/ ReadClock(c) \/ SealBySubmit(c)
    \/ Store(c) \/ Unlock(c)
SealStep(k) == StartSeal(k) \/ StoreSealed(k) \/ AddShard(k)

Next ==
    \/ \E c \in Submitters : SubmitStep(c)
    \/ \E k \in Sealers : SealStep(k)
    \/ \E t \in Tokens : Lookup(t)
    \/ \E t \in Clock : SetClock(t)

Spec == Init /\ [][Next]_vars

(* Goroutines run on; sync.Mutex hands a contended lock over (its          *)
(* starvation mode), so a lock free again and again is obtained.           *)
LiveSpec ==
    /\ Spec
    /\ \A c \in Submitters :
         /\ SF_vars(LockShard(c)) /\ WF_vars(LoadSealed(c))
         /\ WF_vars(ReadClock(c)) /\ WF_vars(SealBySubmit(c)) /\ WF_vars(Store(c)) /\ WF_vars(Unlock(c))
    /\ \A k \in Sealers : WF_vars(StoreSealed(k)) /\ SF_vars(AddShard(k))

-----------------------------------------------------------------------------
\* The state is well typed.
TypeOK ==
    /\ now \in Clock
    /\ votes \in [Tokens -> Choices \cup {{}}]
    /\ counts \in [Shards -> [Options -> Nat]]
    /\ sealed \in BOOLEAN
    /\ owner \in [Shards -> Submitters \cup {Nobody}]
    /\ pc \in [Actors -> {"idle", "lock", "sealed", "clock", "close", "store",
                          "unlock", "seal", "add", "done"}]
    /\ input \in [Submitters -> [token : Tokens, choice : Choices] \cup {NoInput}]
    /\ answer \in [Submitters ->
         [status : {"none", "accepted", "duplicate", "closed", "not_open",
                    "capacity_exceeded"}, choice : Choices \cup {{}}]]
    /\ at \in [Sealers -> 0 .. NumShards]
    /\ snapshot \in [Sealers -> [total : Nat, counts : [Options -> Nat]]]
    /\ told \in [Tokens -> SUBSET Choices]

\* A snapshot that Seal returned counts exactly the votes in memory, then and
\* for ever: no Submit stores after it, even one that was inside its critical
\* section when the engine was sealed and even if the clock is set back.
SnapshotExact ==
    \A k \in Sealers : pc[k] = "done" =>
        snapshot[k] =
          [total  |-> Cardinality({t \in Tokens : votes[t] # {}}),
           counts |-> [o \in Options |->
                         Cardinality({t \in Tokens : o \in votes[t]})]]

\* All callers of Submit and Lookup that learn a token's choice learn the same
\* one, the first that was recorded.
FirstChoiceFinal == \A t \in Tokens : told[t] \subseteq {votes[t]}

\* After a Seal returned, the map never changes again.
FrozenAfterSeal ==
    [][(\E k \in Sealers : pc[k] = "done") => votes' = votes]_vars

\* A Seal that started returns, although submitters keep taking the mutexes.
SealReturns == \A k \in Sealers : pc[k] = "seal" ~> pc[k] = "done"
=============================================================================
