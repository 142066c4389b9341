---------------------------- MODULE PgDurability ----------------------------
(***************************************************************************)
(* When a Store may report a positive outcome in the replicated mode       *)
(* (internal/postgres/durability.go).  PostgreSQL makes a commit visible   *)
(* after SyncRep, but a cancelled SyncRep wait makes it visible although   *)
(* no standby has it.  So every operation that saw committed rows runs     *)
(* waitDurableConn: it fixes one WAL position that covers what it saw and  *)
(* waits until the required number of standbys report it flushed, on a     *)
(* primary whose identity and settings are still the expected ones.        *)
(*                                                                         *)
(* The WAL is the sequence of committed keys, a position is a length.  A   *)
(* standby's WAL is a prefix of the primary's.  Standbys are lost for ever *)
(* or disconnect, the primary restarts, and once it may be lost: then the  *)
(* most advanced surviving standby is promoted.  One Store is in use at a  *)
(* time; it is rebuilt by whoever operates it.                             *)
(***************************************************************************)
EXTENDS Naturals, Sequences, FiniteSets

CONSTANTS
    Keys, Calls, Standbys,
    RequiredStandbys,  \* DurabilityOptions.RequiredStandbys
    MaxEpoch           \* bound on restarts and promotions of the primary

\* DurabilityOptions.validate, for a policy that requires standbys.
ValidQuorum == RequiredStandbys \in 1 .. Cardinality(Standbys)
ASSUME QuorumAssumption == IsFiniteSet(Standbys) /\ ValidQuorum
ASSUME EpochAssumption == MaxEpoch \in Nat \ {0}

VARIABLES
    epoch,      \* primaryIdentity: counts restarts and promotions
    promoted,   \* a standby has become the primary
    wal,        \* the keys committed on the primary, in WAL order
    flushed,    \* pg_current_wal_flush_lsn
    visible,    \* keys whose rows other transactions see
    policy,     \* the server's settings are the expected ones
    durable,    \* standby |-> length of the WAL on its disk
    reported,   \* standby |-> <<flush_lsn>> in pg_stat_replication, or <<>>
    lost,       \* standbys that do not come back, or were promoted
    pinned,     \* the identity this Store has fixed, 0 before the first check
    pooled,     \* the Store's pool holds a connection to the running primary
    pc,         \* call |-> next step
    seen,       \* call |-> keys its answer would report as recorded
    at,         \* call |-> WAL position of its own commit
    target,     \* call |-> <<fixed target>>, or <<>>
    confirmed,  \* history: keys reported as recorded
    confirmedIn \* history: epochs in which this Store confirmed

server == <<epoch, promoted, wal, flushed, visible, policy>>
standbys == <<durable, reported, lost>>
store == <<pinned, pooled>>
calls == <<pc, seen, at, target>>
vars == <<server, standbys, store, calls, confirmed, confirmedIn>>

KeysOf(w) == {w[i] : i \in 1 .. Len(w)}
Reports(s, n) == reported[s] # <<>> /\ reported[s][1] >= n
FlushedOn(n) == {s \in Standbys : Reports(s, n)}

-----------------------------------------------------------------------------
(* One operation: a connection, a transaction, the proof, the answer *)

\* durabilityState.check: the first identity is fixed, later ones must equal it.
IdentityOKAlways == TRUE  \* mutant: the Store follows any primary
IdentityOK == pinned \in {0, epoch}

\* A pooled connection is used as it is; a new one passes checkConnection.
Acquire(c) ==
    /\ pc[c] = "idle"
    /\ \/ pooled /\ UNCHANGED store
       \/ policy /\ IdentityOK /\ pooled' = TRUE /\ pinned' = epoch
    /\ pc' = [pc EXCEPT ![c] = "connected"]
    /\ UNCHANGED <<server, standbys, seen, at, target, confirmed, confirmedIn>>

\* record_vote finds the row of an earlier call.
FindVote(c, k) ==
    /\ pc[c] = "connected" /\ k \in visible
    /\ pc' = [pc EXCEPT ![c] = "prove"]
    /\ seen' = [seen EXCEPT ![c] = {k}]
    /\ UNCHANGED <<server, standbys, store, at, target, confirmed, confirmedIn>>

\* record_vote inserts the row; the unique key admits one writer at a time.
InsertVote(c, k) ==
    /\ pc[c] = "connected" /\ k \notin KeysOf(wal)
    /\ wal' = Append(wal, k)
    /\ pc' = [pc EXCEPT ![c] = "commit"]
    /\ seen' = [seen EXCEPT ![c] = {k}]
    /\ at' = [at EXCEPT ![c] = Len(wal) + 1]
    /\ UNCHANGED <<epoch, promoted, flushed, visible, policy, standbys, store,
                   target, confirmed, confirmedIn>>

\* Results, List and Get report what is visible.
Read(c) ==
    /\ pc[c] = "connected"
    /\ pc' = [pc EXCEPT ![c] = "prove"]
    /\ seen' = [seen EXCEPT ![c] = visible]
    /\ UNCHANGED <<server, standbys, store, at, target, confirmed, confirmedIn>>

\* The commit record is flushed and SyncRep is waited for; with other settings
\* the commit may skip both.
Commit(c) ==
    /\ pc[c] = "commit"
    /\ \/ /\ flushed' = IF at[c] > flushed THEN at[c] ELSE flushed
          /\ pc' = [pc EXCEPT ![c] = "syncrep"] /\ UNCHANGED visible
       \/ /\ ~ policy
          /\ visible' = visible \cup seen[c]
          /\ pc' = [pc EXCEPT ![c] = "prove"] /\ UNCHANGED flushed
    /\ UNCHANGED <<epoch, promoted, wal, policy, standbys, store, seen, at, target,
                   confirmed, confirmedIn>>

\* The wait ends with a quorum, or is cancelled with a mere warning.
SyncRepEnds(c) ==
    /\ pc[c] = "syncrep"
    /\ visible' = visible \cup seen[c]
    /\ pc' = [pc EXCEPT ![c] = "prove"]
    /\ UNCHANGED <<epoch, promoted, wal, flushed, policy, standbys, store, seen, at,
                   target, confirmed, confirmedIn>>

\* waitDurableConn: the first query fixes the target, all queries test it.
NewTarget(c) == Len(wal)
TargetOf(c) == IF target[c] = <<>> THEN NewTarget(c) ELSE target[c][1]
EnoughOneLess(n) == Cardinality(FlushedOn(n)) + 1 >= RequiredStandbys  \* mutant
Enough(n) == Cardinality(FlushedOn(n)) >= RequiredStandbys

Probe(c) ==
    /\ pc[c] = "prove"
    /\ policy /\ IdentityOK
    /\ pinned' = epoch
    /\ \/ /\ flushed >= TargetOf(c) /\ Enough(TargetOf(c))
          /\ confirmed' = confirmed \cup seen[c]
          /\ confirmedIn' = confirmedIn \cup {epoch}
          /\ pc' = [pc EXCEPT ![c] = "idle"]
          /\ seen' = [seen EXCEPT ![c] = {}]
          /\ at' = [at EXCEPT ![c] = 0]
          /\ target' = [target EXCEPT ![c] = <<>>]
       \/ /\ ~ (flushed >= TargetOf(c) /\ Enough(TargetOf(c)))
          /\ target[c] = <<>>
          /\ target' = [target EXCEPT ![c] = <<NewTarget(c)>>]
          /\ UNCHANGED <<pc, seen, at, confirmed, confirmedIn>>
    /\ UNCHANGED <<server, standbys, pooled>>

\* The proof fails (deadline, settings, identity, lost connection) or the caller
\* goes: ErrDurability or another error, never a positive answer.
GiveUp(c) ==
    /\ pc[c] \in {"connected", "prove"}
    /\ pc' = [pc EXCEPT ![c] = "idle"]
    /\ seen' = [seen EXCEPT ![c] = {}]
    /\ at' = [at EXCEPT ![c] = 0]
    /\ target' = [target EXCEPT ![c] = <<>>]
    /\ UNCHANGED <<server, standbys, store, confirmed, confirmedIn>>

-----------------------------------------------------------------------------
(* PostgreSQL and its operators *)

FlushWal ==
    /\ flushed < Len(wal)
    /\ flushed' = Len(wal)
    /\ UNCHANGED <<epoch, promoted, wal, visible, policy, standbys, store, calls,
                   confirmed, confirmedIn>>

\* The primary streams flushed WAL only; the standby flushes what it received.
Stream(s) ==
    /\ s \notin lost
    /\ \E n \in durable[s] + 1 .. flushed : durable' = [durable EXCEPT ![s] = n]
    /\ UNCHANGED <<server, reported, lost, store, calls, confirmed, confirmedIn>>

\* A reply of the standby reaches the primary; a new connection has none yet.
Report(s) ==
    /\ s \notin lost /\ reported[s] # <<durable[s]>>
    /\ reported' = [reported EXCEPT ![s] = <<durable[s]>>]
    /\ UNCHANGED <<server, durable, lost, store, calls, confirmed, confirmedIn>>
Disconnect(s) ==
    /\ reported[s] # <<>>
    /\ reported' = [reported EXCEPT ![s] = <<>>]
    /\ UNCHANGED <<server, durable, lost, store, calls, confirmed, confirmedIn>>

\* The setting tolerates the loss of fewer standbys than it requires.
LoseStandby(s) ==
    /\ ~ promoted /\ s \notin lost
    /\ Cardinality(lost) + 1 < RequiredStandbys
    /\ lost' = lost \cup {s}
    /\ reported' = [reported EXCEPT ![s] = <<>>]
    /\ UNCHANGED <<server, durable, store, calls, confirmed, confirmedIn>>

ChangeSettings ==
    /\ policy' = ~ policy
    /\ UNCHANGED <<epoch, promoted, wal, flushed, visible, standbys, store, calls,
                   confirmed, confirmedIn>>

\* A new server process: its connections are new, what its WAL holds is visible.
NewServer(w) ==
    /\ epoch < MaxEpoch
    /\ epoch' = epoch + 1
    /\ wal' = w /\ flushed' = Len(w) /\ visible' = KeysOf(w)
    /\ reported' = [s \in Standbys |-> <<>>]
    /\ pooled' = FALSE
    /\ pc' = [c \in Calls |-> "idle"]
    /\ seen' = [c \in Calls |-> {}]
    /\ at' = [c \in Calls |-> 0]
    /\ target' = [c \in Calls |-> <<>>]
    /\ UNCHANGED <<policy, durable, pinned, confirmed, confirmedIn>>
Restart == NewServer(SubSeq(wal, 1, flushed)) /\ UNCHANGED <<promoted, lost>>

Promote(s) ==
    /\ ~ promoted /\ s \notin lost
    /\ \A r \in Standbys \ lost : durable[r] <= durable[s]
    /\ NewServer(SubSeq(wal, 1, durable[s]))
    /\ promoted' = TRUE
    /\ lost' = lost \cup {s}

\* NewWithOptions, after the previous Store was closed.
NewStore ==
    /\ \A c \in Calls : pc[c] = "idle"
    /\ pinned # 0
    /\ pinned' = 0 /\ pooled' = FALSE /\ confirmedIn' = {}
    /\ UNCHANGED <<server, standbys, calls, confirmed>>

-----------------------------------------------------------------------------
Init ==
    /\ epoch = 1 /\ promoted = FALSE
    /\ wal = <<>> /\ flushed = 0 /\ visible = {} /\ policy = TRUE
    /\ durable = [s \in Standbys |-> 0]
    /\ reported = [s \in Standbys |-> <<>>]
    /\ lost = {}
    /\ pinned = 0 /\ pooled = FALSE
    /\ pc = [c \in Calls |-> "idle"]
    /\ seen = [c \in Calls |-> {}]
    /\ at = [c \in Calls |-> 0]
    /\ target = [c \in Calls |-> <<>>]
    /\ confirmed = {} /\ confirmedIn = {}

CallStep(c) ==
    \/ Acquire(c) \/ Read(c) \/ Commit(c) \/ SyncRepEnds(c) \/ Probe(c) \/ GiveUp(c)
    \/ \E k \in Keys : FindVote(c, k) \/ InsertVote(c, k)
StandbyStep(s) ==
    Stream(s) \/ Report(s) \/ Disconnect(s) \/ LoseStandby(s) \/ Promote(s)

Next ==
    \/ \E c \in Calls : CallStep(c)
    \/ \E s \in Standbys : StandbyStep(s)
    \/ FlushWal \/ ChangeSettings \/ Restart \/ NewStore

Spec == Init /\ [][Next]_vars

-----------------------------------------------------------------------------
\* The state is well typed, and no standby is ahead of the primary.
TypeOK ==
    /\ epoch \in 1 .. MaxEpoch /\ pinned \in 0 .. MaxEpoch
    /\ promoted \in BOOLEAN /\ policy \in BOOLEAN /\ pooled \in BOOLEAN
    /\ wal \in Seq(Keys) /\ flushed \in 0 .. Len(wal)
    /\ visible \subseteq KeysOf(wal)
    /\ durable \in [Standbys -> Nat]
    /\ \A s \in Standbys \ lost : durable[s] <= flushed
    /\ reported \in [Standbys -> {<<>>} \cup {<<n>> : n \in 0 .. flushed}]
    /\ lost \subseteq Standbys
    /\ pc \in [Calls -> {"idle", "connected", "commit", "syncrep", "prove"}]
    /\ seen \in [Calls -> SUBSET KeysOf(wal)]
    /\ at \in [Calls -> 0 .. Len(wal)]
    /\ target \in [Calls -> {<<>>} \cup {<<n>> : n \in 0 .. Len(wal)}]
    /\ confirmed \subseteq Keys
    /\ confirmedIn \subseteq 1 .. MaxEpoch

\* Who has the WAL up to position n on its disk.
Holders(n) == {s \in Standbys : durable[s] >= n}

\* Until a promotion, each confirmed key is on enough standbys that losing one
\* fewer than required leaves a copy.
ConfirmedIsReplicated ==
    ~ promoted => \A k \in confirmed :
        \E n \in 1 .. Len(wal) :
            wal[n] = k /\ Cardinality(Holders(n)) >= RequiredStandbys

\* What was reported as recorded is replicated, and it is in the flushed WAL of
\* the primary, also of a restarted or promoted one: no receipt and no published
\* result is undone, although commits were visible before any standby had them.
ConfirmedSurvives ==
    /\ TypeOK
    /\ confirmed \subseteq KeysOf(SubSeq(wal, 1, flushed))
    /\ ConfirmedIsReplicated

\* A Store confirms on one primary process only: it never follows a restart or
\* a promotion.
OneOwner == Cardinality(confirmedIn) <= 1
=============================================================================
