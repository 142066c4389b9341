------------------------- MODULE PgDurabilityProofs -------------------------
(***************************************************************************)
(* Proofs about PgDurability for any keys, calls, standbys and quorum:     *)
(* what was reported as recorded survives restarts, a promotion and the    *)
(* loss of fewer standbys than the policy requires (ConfirmedSurvives),    *)
(* and a Store confirms on one primary process only (OneOwner).            *)
(*                                                                         *)
(* The argument is the one of a quorum: while the first primary is in      *)
(* charge, fewer standbys are lost than hold each confirmed key (LostInv), *)
(* so one of them survives, and the standby that is promoted has no less   *)
(* WAL than that one.  That the quorum holds the key at all follows from   *)
(* the proof of waitDurableConn: the target covers what the call saw       *)
(* (SeenInv), and a standby has on its disk what it reported (ReportInv).  *)
(***************************************************************************)
EXTENDS PgDurability, FiniteSetTheorems, TLAPS

\* Only a call that is being proved has a fixed target, and the target covers
\* every key it saw.
SeenInv ==
    /\ \A c \in Calls : pc[c] # "prove" => target[c] = <<>>
    /\ \A c \in Calls : target[c] # <<>> =>
         \A k \in seen[c] : \E i \in 1 .. target[c][1] : wal[i] = k

ReportInv == \A s \in Standbys : reported[s] # <<>> => reported[s][1] <= durable[s]

LostInv == ~ promoted => Cardinality(lost) < RequiredStandbys

OwnerInv == confirmedIn \subseteq {pinned} \ {0}

FlushedInv == \A k \in confirmed : \E i \in 1 .. flushed : wal[i] = k

DurabilityInv ==
    TypeOK /\ SeenInv /\ ReportInv /\ LostInv /\ FlushedInv /\ ConfirmedIsReplicated

-----------------------------------------------------------------------------
(* Sequences of keys *)

\* A prefix of the WAL holds the keys of its positions.
LEMMA KeysOfPrefix ==
    ASSUME NEW w \in Seq(Keys), NEW n \in 0 .. Len(w)
    PROVE  /\ SubSeq(w, 1, n) \in Seq(Keys) /\ Len(SubSeq(w, 1, n)) = n
           /\ \A i \in 1 .. n : SubSeq(w, 1, n)[i] = w[i]
           /\ KeysOf(SubSeq(w, 1, n)) = {w[i] : i \in 1 .. n}
<1>1. /\ SubSeq(w, 1, n) \in Seq(Keys) /\ Len(SubSeq(w, 1, n)) = n
      /\ \A i \in 1 .. n : SubSeq(w, 1, n)[i] = w[i]
  OBVIOUS
<1> QED
  BY <1>1 DEF KeysOf

\* A commit adds its key behind the others.
LEMMA KeysOfAppend ==
    ASSUME NEW w \in Seq(Keys), NEW k \in Keys
    PROVE  /\ Append(w, k) \in Seq(Keys) /\ Len(Append(w, k)) = Len(w) + 1
           /\ \A i \in 1 .. Len(w) : Append(w, k)[i] = w[i]
           /\ KeysOf(Append(w, k)) = KeysOf(w) \cup {k}
<1>1. /\ Append(w, k) \in Seq(Keys) /\ Len(Append(w, k)) = Len(w) + 1
      /\ \A i \in 1 .. Len(w) : Append(w, k)[i] = w[i]
      /\ Append(w, k)[Len(w) + 1] = k
  OBVIOUS
<1>2. ASSUME NEW x \in KeysOf(Append(w, k)) PROVE x \in KeysOf(w) \cup {k}
  <2>1. PICK i \in 1 .. Len(w) + 1 : x = Append(w, k)[i]
    BY <1>1, <1>2 DEF KeysOf
  <2>2. CASE i = Len(w) + 1
    BY <1>1, <2>1, <2>2
  <2>3. CASE i \in 1 .. Len(w)
    BY <1>1, <2>1, <2>3 DEF KeysOf
  <2> QED
    BY <2>2, <2>3
<1>3. ASSUME NEW x \in KeysOf(w) \cup {k} PROVE x \in KeysOf(Append(w, k))
  BY <1>1 DEF KeysOf
<1> QED
  BY <1>1, <1>2, <1>3

-----------------------------------------------------------------------------
(* The type invariant *)

\* The state is well typed at first.
LEMMA InitType == Init => TypeOK
<1> SUFFICES ASSUME Init PROVE TypeOK
  OBVIOUS
<1>1. wal \in Seq(Keys) /\ Len(wal) = 0
  BY DEF Init
<1>2. epoch \in 1 .. MaxEpoch /\ pinned \in 0 .. MaxEpoch
  BY EpochAssumption DEF Init
<1>3. promoted \in BOOLEAN /\ policy \in BOOLEAN /\ pooled \in BOOLEAN
  BY DEF Init
<1> QED
  BY <1>1, <1>2, <1>3 DEF Init, TypeOK

\* A new server process starts from a prefix of the WAL that holds all that the
\* standbys still in play hold.
LEMMA NewServerType ==
    ASSUME TypeOK, NEW n \in 0 .. flushed, NewServer(SubSeq(wal, 1, n)),
           promoted' \in BOOLEAN, lost' \subseteq Standbys,
           \A s \in Standbys \ lost' : durable[s] <= n
    PROVE  TypeOK'
<1> USE DEF TypeOK
<1>1. n \in 0 .. Len(wal)
  OBVIOUS
<1>2. wal' \in Seq(Keys) /\ Len(wal') = n /\ flushed' = n
  BY <1>1, KeysOfPrefix DEF NewServer
<1>3. visible' \subseteq KeysOf(wal')
  BY DEF NewServer
<1>4. epoch' \in 1 .. MaxEpoch
  BY EpochAssumption DEF NewServer
<1>5. /\ reported' \in [Standbys -> {<<>>} \cup {<<m>> : m \in 0 .. flushed'}]
      /\ pc' \in [Calls -> {"idle", "connected", "commit", "syncrep", "prove"}]
      /\ at' \in [Calls -> 0 .. Len(wal')]
      /\ seen' \in [Calls -> SUBSET KeysOf(wal')]
      /\ target' \in [Calls -> {<<>>} \cup {<<m>> : m \in 0 .. Len(wal')}]
  BY <1>2 DEF NewServer
<1>6. /\ pinned' \in 0 .. MaxEpoch /\ policy' \in BOOLEAN /\ pooled' \in BOOLEAN
      /\ durable' \in [Standbys -> Nat]
      /\ confirmed' \subseteq Keys /\ confirmedIn' \subseteq 1 .. MaxEpoch
  BY DEF NewServer
<1>7. \A s \in Standbys \ lost' : durable'[s] <= flushed'
  BY <1>2 DEF NewServer
<1>8. flushed' \in 0 .. Len(wal')
  BY <1>2
<1> QED
  BY <1>2, <1>3, <1>4, <1>5, <1>6, <1>7, <1>8

\* No step leaves the types.
LEMMA NextType == TypeOK /\ [Next]_vars => TypeOK'
<1> SUFFICES ASSUME TypeOK, [Next]_vars PROVE TypeOK'
  OBVIOUS
<1> USE DEF TypeOK
<1>0. CASE UNCHANGED vars
  BY <1>0 DEF vars, server, standbys, store, calls, KeysOf
<1>1. ASSUME NEW c \in Calls, Acquire(c) PROVE TypeOK'
  <2>1. pinned' \in 0 .. MaxEpoch
    BY <1>1 DEF Acquire, store
  <2>2. pooled' \in BOOLEAN
    <3>1. CASE UNCHANGED store
      BY <3>1 DEF store
    <3>2. CASE pooled' = TRUE
      BY <3>2
    <3> QED
      BY <1>1, <3>1, <3>2 DEF Acquire
  <2>3. pc' \in [Calls -> {"idle", "connected", "commit", "syncrep", "prove"}]
    BY <1>1 DEF Acquire
  <2>4. UNCHANGED <<server, standbys, seen, at, target, confirmed, confirmedIn>>
    BY <1>1 DEF Acquire
  <2> QED
    BY <2>1, <2>2, <2>3, <2>4 DEF server, standbys, KeysOf
<1>2. ASSUME NEW c \in Calls, Read(c) PROVE TypeOK'
  BY <1>2 DEF Read, server, standbys, store, KeysOf
<1>3. ASSUME NEW c \in Calls, Commit(c) PROVE TypeOK'
  <2>1. flushed' \in 0 .. Len(wal) /\ flushed <= flushed'
    BY <1>3 DEF Commit
  <2>2. visible' \subseteq KeysOf(wal)
    BY <1>3 DEF Commit
  <2>3. pc' \in [Calls -> {"idle", "connected", "commit", "syncrep", "prove"}]
    BY <1>3 DEF Commit
  <2>4. UNCHANGED <<epoch, promoted, wal, policy, standbys, store, seen, at, target,
                    confirmed, confirmedIn>>
    BY <1>3 DEF Commit
  <2>5. reported' \in [Standbys -> {<<>>} \cup {<<n>> : n \in 0 .. flushed'}]
    BY <2>1, <2>4 DEF standbys
  <2> QED
    BY <2>1, <2>2, <2>3, <2>4, <2>5 DEF standbys, store, KeysOf
<1>4. ASSUME NEW c \in Calls, SyncRepEnds(c) PROVE TypeOK'
  BY <1>4 DEF SyncRepEnds, standbys, store, KeysOf
<1>5. ASSUME NEW c \in Calls, Probe(c) PROVE TypeOK'
  <2>1. pinned' \in 0 .. MaxEpoch
    BY <1>5 DEF Probe
  <2>2. /\ pc' \in [Calls -> {"idle", "connected", "commit", "syncrep", "prove"}]
        /\ seen' \in [Calls -> SUBSET KeysOf(wal)]
    <3>1. pc' = pc \/ pc' = [pc EXCEPT ![c] = "idle"]
      BY <1>5 DEF Probe
    <3>2. seen' = seen \/ seen' = [seen EXCEPT ![c] = {}]
      BY <1>5 DEF Probe
    <3> QED
      BY <3>1, <3>2
  <2>6. at' \in [Calls -> 0 .. Len(wal)]
    <3>1. at' = at \/ at' = [at EXCEPT ![c] = 0]
      BY <1>5 DEF Probe
    <3>2. 0 \in 0 .. Len(wal) /\ at \in [Calls -> 0 .. Len(wal)]
      OBVIOUS
    <3> QED
      BY <3>1, <3>2
  <2>3. target' \in [Calls -> {<<>>} \cup {<<n>> : n \in 0 .. Len(wal)}]
    BY <1>5 DEF Probe, NewTarget
  <2>4. confirmed' \subseteq Keys /\ confirmedIn' \subseteq 1 .. MaxEpoch
    <3>1. KeysOf(wal) \subseteq Keys
      BY DEF KeysOf
    <3>2. /\ confirmed' = confirmed \/ confirmed' = confirmed \cup seen[c]
          /\ confirmedIn' = confirmedIn \/ confirmedIn' = confirmedIn \cup {epoch}
      BY <1>5 DEF Probe
    <3> QED
      BY <3>1, <3>2
  <2>5. UNCHANGED <<server, standbys, pooled>>
    BY <1>5 DEF Probe
  <2> QED
    BY <2>1, <2>2, <2>3, <2>4, <2>5, <2>6 DEF server, standbys, KeysOf
<1>6. ASSUME NEW c \in Calls, GiveUp(c) PROVE TypeOK'
  <2>1. 0 \in 0 .. Len(wal)
    OBVIOUS
  <2>2. /\ pc' \in [Calls -> {"idle", "connected", "commit", "syncrep", "prove"}]
        /\ seen' \in [Calls -> SUBSET KeysOf(wal)]
    BY <1>6 DEF GiveUp
  <2>3. at' \in [Calls -> 0 .. Len(wal)]
    BY <1>6, <2>1 DEF GiveUp
  <2>4. target' \in [Calls -> {<<>>} \cup {<<n>> : n \in 0 .. Len(wal)}]
    BY <1>6 DEF GiveUp
  <2>5. UNCHANGED <<server, standbys, store, confirmed, confirmedIn>>
    BY <1>6 DEF GiveUp
  <2> QED
    BY <2>2, <2>3, <2>4, <2>5 DEF server, standbys, store, KeysOf
<1>7. ASSUME NEW c \in Calls, NEW k \in Keys, FindVote(c, k) PROVE TypeOK'
  BY <1>7 DEF FindVote, server, standbys, store, KeysOf
<1>8. ASSUME NEW c \in Calls, NEW k \in Keys, InsertVote(c, k) PROVE TypeOK'
  BY <1>8, KeysOfAppend DEF InsertVote, standbys, store
<1>9. ASSUME NEW s \in Standbys, Stream(s) PROVE TypeOK'
  BY <1>9 DEF Stream, server, store, calls, KeysOf
<1>10. ASSUME NEW s \in Standbys, Report(s) PROVE TypeOK'
  BY <1>10 DEF Report, server, store, calls, KeysOf
<1>11. ASSUME NEW s \in Standbys, Disconnect(s) PROVE TypeOK'
  BY <1>11 DEF Disconnect, server, store, calls, KeysOf
<1>12. ASSUME NEW s \in Standbys, LoseStandby(s) PROVE TypeOK'
  BY <1>12 DEF LoseStandby, server, store, calls, KeysOf
<1>13. ASSUME NEW s \in Standbys, Promote(s) PROVE TypeOK'
  <2>1. durable[s] \in 0 .. flushed
    BY <1>13 DEF Promote
  <2> QED
    BY <1>13, <2>1, NewServerType DEF Promote
<1>14. CASE FlushWal
  BY <1>14 DEF FlushWal, standbys, store, calls, KeysOf
<1>15. CASE ChangeSettings
  BY <1>15 DEF ChangeSettings, standbys, store, calls, KeysOf
<1>16. CASE Restart
  <2>1. flushed \in 0 .. flushed /\ promoted' \in BOOLEAN /\ lost' \subseteq Standbys
    BY <1>16 DEF Restart
  <2>2. \A s \in Standbys \ lost' : durable[s] <= flushed
    BY <1>16 DEF Restart
  <2>3. NewServer(SubSeq(wal, 1, flushed))
    BY <1>16 DEF Restart
  <2> QED
    BY <2>1, <2>2, <2>3, NewServerType
<1>17. CASE NewStore
  <2>1. pinned' = 0 /\ pooled' \in BOOLEAN /\ confirmedIn' = {}
    BY <1>17 DEF NewStore
  <2>2. UNCHANGED <<server, standbys, calls, confirmed>>
    BY <1>17 DEF NewStore
  <2> QED
    BY <2>1, <2>2, EpochAssumption, SMTT(30) DEF server, standbys, calls, KeysOf
<1> QED
  BY <1>0, <1>1, <1>2, <1>3, <1>4, <1>5, <1>6, <1>7, <1>8, <1>9, <1>10, <1>11, <1>12,
     <1>13, <1>14, <1>15, <1>16, <1>17 DEF Next, CallStep, StandbyStep

-----------------------------------------------------------------------------
(* What a call saw, what a standby reported, which standbys are lost *)

\* The target covers what was seen: nothing is seen once it is fixed, and the
\* WAL only grows behind it.
LEMMA NextSeen == TypeOK /\ SeenInv /\ [Next]_vars => SeenInv'
<1> SUFFICES ASSUME TypeOK, SeenInv, [Next]_vars PROVE SeenInv'
  OBVIOUS
<1> USE DEF TypeOK, SeenInv
<1>0. CASE UNCHANGED <<wal, calls>>
  BY <1>0 DEF calls
<1>1. ASSUME NEW c \in Calls, Acquire(c) PROVE SeenInv'
  BY <1>1 DEF Acquire, server
<1>2. ASSUME NEW c \in Calls, Read(c) PROVE SeenInv'
  BY <1>2 DEF Read, server
<1>3. ASSUME NEW c \in Calls, Commit(c) PROVE SeenInv'
  BY <1>3 DEF Commit
<1>4. ASSUME NEW c \in Calls, SyncRepEnds(c) PROVE SeenInv'
  BY <1>4 DEF SyncRepEnds
<1>5. ASSUME NEW c \in Calls, Probe(c) PROVE SeenInv'
  <2>1. CASE pc' = [pc EXCEPT ![c] = "idle"] /\ target' = [target EXCEPT ![c] = <<>>]
             /\ seen' = [seen EXCEPT ![c] = {}]
    BY <1>5, <2>1 DEF Probe, server
  <2>2. CASE UNCHANGED <<pc, seen>> /\ pc[c] = "prove"
             /\ target' = [target EXCEPT ![c] = <<Len(wal)>>]
    <3>1. \A k \in seen[c] : \E i \in 1 .. Len(wal) : wal[i] = k
      BY DEF KeysOf
    <3>2. wal' = wal
      BY <1>5 DEF Probe, server
    <3> QED
      BY <2>2, <3>1, <3>2
  <2> QED
    BY <1>5, <2>1, <2>2 DEF Probe, NewTarget
<1>6. ASSUME NEW c \in Calls, GiveUp(c) PROVE SeenInv'
  BY <1>6 DEF GiveUp, server
<1>7. ASSUME NEW c \in Calls, NEW k \in Keys, FindVote(c, k) PROVE SeenInv'
  BY <1>7 DEF FindVote, server
<1>8. ASSUME NEW c \in Calls, NEW k \in Keys, InsertVote(c, k) PROVE SeenInv'
  <2>1. \A i \in 1 .. Len(wal) : wal'[i] = wal[i]
    BY <1>8, KeysOfAppend DEF InsertVote
  <2> QED
    BY <1>8, <2>1 DEF InsertVote
<1>9. ASSUME NEW w, NewServer(w) PROVE SeenInv'
  BY <1>9 DEF NewServer
<1>10. ASSUME NEW s \in Standbys, Stream(s) \/ Report(s) \/ Disconnect(s) \/ LoseStandby(s)
       PROVE  UNCHANGED <<wal, calls>>
  BY <1>10 DEF Stream, Report, Disconnect, LoseStandby, server
<1>11. CASE FlushWal \/ ChangeSettings \/ NewStore
  BY <1>0, <1>11 DEF FlushWal, ChangeSettings, NewStore, server
<1>12. CASE UNCHANGED vars
  BY <1>0, <1>12 DEF vars, server
<1> QED
  BY <1>0, <1>1, <1>2, <1>3, <1>4, <1>5, <1>6, <1>7, <1>8, <1>9, <1>10, <1>11, <1>12
     DEF Next, CallStep, StandbyStep, Promote, Restart

\* A standby has what it reported, and until the promotion the operators lose
\* fewer standbys than the policy requires.
LEMMA NextStandbys == TypeOK /\ ReportInv /\ LostInv /\ [Next]_vars => ReportInv' /\ LostInv'
<1> SUFFICES ASSUME TypeOK, ReportInv, LostInv, [Next]_vars PROVE ReportInv' /\ LostInv'
  OBVIOUS
<1> USE DEF TypeOK, ReportInv, LostInv
<1>0. ASSUME UNCHANGED <<standbys, promoted>> PROVE ReportInv' /\ LostInv'
  BY <1>0 DEF standbys
<1>1. ASSUME NEW c \in Calls, CallStep(c) PROVE UNCHANGED <<standbys, promoted>>
  BY <1>1 DEF CallStep, Acquire, Read, Commit, SyncRepEnds, Probe, GiveUp, FindVote,
              InsertVote, server
<1>2. ASSUME NEW s \in Standbys, Stream(s) PROVE ReportInv' /\ LostInv'
  BY <1>2 DEF Stream, server
<1>3. ASSUME NEW s \in Standbys, Report(s) PROVE ReportInv' /\ LostInv'
  BY <1>3 DEF Report, server
<1>4. ASSUME NEW s \in Standbys, Disconnect(s) PROVE ReportInv' /\ LostInv'
  BY <1>4 DEF Disconnect, server
<1>5. ASSUME NEW s \in Standbys, LoseStandby(s) PROVE ReportInv' /\ LostInv'
  <2>1. ReportInv'
    BY <1>5 DEF LoseStandby, server
  <2>2. IsFiniteSet(lost)
    BY QuorumAssumption, FS_Subset
  <2>3. Cardinality(lost') < RequiredStandbys
    BY <1>5, <2>2, FS_AddElement DEF LoseStandby
  <2> QED
    BY <2>1, <2>3
<1>6. ASSUME NEW s \in Standbys, Promote(s) PROVE ReportInv' /\ LostInv'
  BY <1>6 DEF Promote, NewServer
<1>7. CASE Restart
  BY <1>7 DEF Restart, NewServer
<1>8. CASE FlushWal \/ ChangeSettings \/ NewStore \/ UNCHANGED vars
  BY <1>0, <1>8 DEF FlushWal, ChangeSettings, NewStore, server, vars
<1> QED
  BY <1>0, <1>1, <1>2, <1>3, <1>4, <1>5, <1>6, <1>7, <1>8 DEF Next, StandbyStep

-----------------------------------------------------------------------------
(* What was confirmed *)

\* Of the standbys that hold a confirmed key one is not lost.
LEMMA SomeHolderSurvives ==
    ASSUME TypeOK, LostInv, ~ promoted, NEW n, Cardinality(Holders(n)) >= RequiredStandbys
    PROVE  \E s \in Standbys \ lost : durable[s] >= n
<1>1. IsFiniteSet(lost) /\ IsFiniteSet(Standbys)
  BY QuorumAssumption, FS_Subset DEF TypeOK
<1>2. Cardinality(lost) \in Nat /\ Cardinality(Holders(n)) \in Nat /\ RequiredStandbys \in Nat
  BY <1>1, QuorumAssumption, FS_Subset, FS_CardinalityType DEF Holders, ValidQuorum
<1>3. ~ Holders(n) \subseteq lost
  <2> SUFFICES ASSUME Holders(n) \subseteq lost PROVE FALSE
    OBVIOUS
  <2>1. Cardinality(Holders(n)) <= Cardinality(lost)
    BY <1>1, FS_Subset
  <2> QED
    BY <1>2, <2>1 DEF LostInv
<1> QED
  BY <1>3 DEF Holders

\* What the proof has passed is in the flushed WAL and on enough standbys.
LEMMA ProvedIsReplicated ==
    ASSUME TypeOK, ReportInv, SeenInv, NEW c \in Calls,
           flushed >= TargetOf(c), Enough(TargetOf(c)), NEW k \in seen[c]
    PROVE  \E n \in 1 .. Len(wal) :
              wal[n] = k /\ n <= flushed /\ Cardinality(Holders(n)) >= RequiredStandbys
<1>1. PICK n \in 1 .. Len(wal) : wal[n] = k /\ n <= TargetOf(c)
  BY DEF TypeOK, SeenInv, TargetOf, NewTarget, KeysOf
<1>2. TargetOf(c) \in Nat
  BY DEF TypeOK, TargetOf, NewTarget
<1>3. FlushedOn(TargetOf(c)) \subseteq Holders(n)
  BY <1>1, <1>2 DEF TypeOK, ReportInv, FlushedOn, Reports, Holders
<1>4. Cardinality(FlushedOn(TargetOf(c))) <= Cardinality(Holders(n))
  <2>1. IsFiniteSet(Holders(n))
    BY QuorumAssumption, FS_Subset DEF Holders
  <2> QED
    BY <1>3, <2>1, FS_Subset
<1>5. /\ Cardinality(FlushedOn(TargetOf(c))) \in Nat /\ Cardinality(Holders(n)) \in Nat
      /\ RequiredStandbys \in Nat
  BY QuorumAssumption, FS_Subset, FS_CardinalityType DEF Holders, FlushedOn, ValidQuorum
<1>6. Cardinality(Holders(n)) >= RequiredStandbys
  BY <1>4, <1>5 DEF Enough
<1> QED
  BY <1>1, <1>2, <1>6 DEF TypeOK

\* More WAL, on the primary or on a standby, takes nothing away.
LEMMA MoreWalKeeps ==
    ASSUME TypeOK, TypeOK', FlushedInv, ConfirmedIsReplicated,
           Len(wal') >= Len(wal), \A i \in 1 .. Len(wal) : wal'[i] = wal[i],
           flushed' >= flushed, \A s \in Standbys : durable'[s] >= durable[s],
           promoted' = promoted, confirmed' = confirmed
    PROVE  FlushedInv' /\ ConfirmedIsReplicated'
<1> USE DEF TypeOK
<1>1. FlushedInv'
  <2>1. flushed \in 0 .. Len(wal) /\ flushed' \in Nat /\ Len(wal) \in Nat
    OBVIOUS
  <2>2. \A i \in 1 .. flushed : i \in 1 .. flushed' /\ wal'[i] = wal[i]
    BY <2>1
  <2> QED
    BY <2>2 DEF FlushedInv
<1>2. ASSUME ~ promoted, NEW k \in confirmed
      PROVE  \E n \in 1 .. Len(wal') :
                wal'[n] = k /\ Cardinality(Holders(n)') >= RequiredStandbys
  <2>1. PICK n \in 1 .. Len(wal) : wal[n] = k /\ Cardinality(Holders(n)) >= RequiredStandbys
    BY <1>2 DEF ConfirmedIsReplicated
  <2>2. Holders(n) \subseteq Holders(n)' /\ IsFiniteSet(Holders(n)')
    BY QuorumAssumption, FS_Subset DEF Holders
  <2>3. /\ Cardinality(Holders(n)) <= Cardinality(Holders(n)')
        /\ Cardinality(Holders(n)) \in Nat /\ Cardinality(Holders(n)') \in Nat
    BY <2>2, FS_Subset, FS_CardinalityType
  <2>4. RequiredStandbys \in Nat
    BY QuorumAssumption, FS_CardinalityType DEF ValidQuorum
  <2>5. Cardinality(Holders(n)') >= RequiredStandbys
    BY <2>1, <2>3, <2>4
  <2> QED
    BY <2>1, <2>5
<1> QED
  BY <1>1, <1>2 DEF ConfirmedIsReplicated

\* A positive answer: what was seen joins what was confirmed.
LEMMA ProbeConfirms ==
    ASSUME DurabilityInv, NEW c \in Calls, Probe(c)
    PROVE  FlushedInv' /\ ConfirmedIsReplicated'
<1> USE DEF DurabilityInv
<1>0. UNCHANGED <<wal, flushed, promoted, durable>>
  BY DEF Probe, server, standbys
<1>h. \A n : Holders(n)' = Holders(n)
  BY <1>0 DEF Holders
<1>1. CASE confirmed' = confirmed
  BY <1>0, <1>h, <1>1 DEF FlushedInv, ConfirmedIsReplicated
<1>2. CASE /\ flushed >= TargetOf(c) /\ Enough(TargetOf(c))
           /\ confirmed' = confirmed \cup seen[c]
  <2>1. \A k \in seen[c] : \E n \in 1 .. Len(wal) :
            wal[n] = k /\ n <= flushed /\ Cardinality(Holders(n)) >= RequiredStandbys
    BY <1>2, ProvedIsReplicated
  <2>2. FlushedInv'
    BY <1>0, <1>2, <2>1 DEF FlushedInv, TypeOK
  <2>3. ConfirmedIsReplicated'
    BY <1>0, <1>h, <1>2, <2>1 DEF ConfirmedIsReplicated
  <2> QED
    BY <2>2, <2>3
<1> QED
  BY <1>1, <1>2 DEF Probe

\* A restart of the first primary keeps what was flushed, and a holder of each
\* confirmed key has no more than that.
LEMMA RestartKeeps ==
    ASSUME DurabilityInv, Restart
    PROVE  FlushedInv' /\ ConfirmedIsReplicated'
<1> USE DEF DurabilityInv
<1>1. /\ flushed \in 0 .. Len(wal) /\ flushed' = flushed /\ Len(wal') = flushed
      /\ \A i \in 1 .. flushed : wal'[i] = wal[i]
      /\ UNCHANGED <<confirmed, durable, promoted>>
  BY KeysOfPrefix DEF Restart, NewServer, TypeOK
<1>2. FlushedInv'
  BY <1>1 DEF FlushedInv
<1>3. ASSUME ~ promoted, NEW k \in confirmed
      PROVE  \E n \in 1 .. Len(wal') :
                wal'[n] = k /\ Cardinality(Holders(n)) >= RequiredStandbys
  <2>1. PICK n \in 1 .. Len(wal) : wal[n] = k /\ Cardinality(Holders(n)) >= RequiredStandbys
    BY <1>3 DEF ConfirmedIsReplicated
  <2>2. PICK s \in Standbys \ lost : durable[s] >= n
    BY <1>3, <2>1, SomeHolderSurvives
  <2>3. n \in 1 .. flushed
    BY <2>2 DEF TypeOK
  <2> QED
    BY <1>1, <2>1, <2>3
<1>h. \A n : Holders(n)' = Holders(n)
  BY <1>1 DEF Holders
<1> QED
  BY <1>1, <1>h, <1>2, <1>3 DEF ConfirmedIsReplicated

\* The promoted standby has all that a surviving holder of a key has.
LEMMA PromoteKeeps ==
    ASSUME DurabilityInv, NEW s \in Standbys, Promote(s)
    PROVE  FlushedInv' /\ ConfirmedIsReplicated'
<1> USE DEF DurabilityInv
<1>1. durable[s] \in 0 .. Len(wal)
  BY DEF Promote, TypeOK
<1>2. /\ flushed' = durable[s] /\ \A i \in 1 .. durable[s] : wal'[i] = wal[i]
      /\ confirmed' = confirmed /\ promoted' = TRUE
  BY <1>1, KeysOfPrefix DEF Promote, NewServer, TypeOK
<1>3. ASSUME NEW k \in confirmed PROVE \E i \in 1 .. durable[s] : wal[i] = k
  <2>1. PICK n \in 1 .. Len(wal) : wal[n] = k /\ Cardinality(Holders(n)) >= RequiredStandbys
    BY <1>3 DEF ConfirmedIsReplicated, Promote
  <2>2. PICK r \in Standbys \ lost : durable[r] >= n
    BY <2>1, SomeHolderSurvives DEF Promote
  <2>3. durable[s] >= n
    BY <1>1, <2>2 DEF Promote, TypeOK
  <2> QED
    BY <1>1, <2>1, <2>3
<1>4. FlushedInv'
  BY <1>1, <1>2, <1>3 DEF FlushedInv
<1> QED
  BY <1>2, <1>4 DEF ConfirmedIsReplicated

\* No step undoes what was confirmed.
LEMMA NextConfirmed ==
    DurabilityInv /\ TypeOK' /\ [Next]_vars => FlushedInv' /\ ConfirmedIsReplicated'
<1> SUFFICES ASSUME DurabilityInv, TypeOK', [Next]_vars
             PROVE  FlushedInv' /\ ConfirmedIsReplicated'
  OBVIOUS
<1> USE DEF DurabilityInv
<1> DEFINE More == /\ Len(wal') >= Len(wal) /\ \A i \in 1 .. Len(wal) : wal'[i] = wal[i]
                   /\ flushed' >= flushed /\ \A s \in Standbys : durable'[s] >= durable[s]
                   /\ promoted' = promoted /\ confirmed' = confirmed
<1>0. Len(wal) \in Nat /\ flushed \in Nat /\ \A s \in Standbys : durable[s] \in Nat
  BY DEF TypeOK
<1>1. ASSUME NEW c \in Calls,
             Acquire(c) \/ Read(c) \/ SyncRepEnds(c) \/ GiveUp(c) \/ \E k \in Keys : FindVote(c, k)
      PROVE  More
  BY <1>0, <1>1 DEF Acquire, Read, SyncRepEnds, GiveUp, FindVote, server, standbys
<1>2. ASSUME NEW c \in Calls, Commit(c) PROVE More
  <2>1. flushed' >= flushed
    BY <1>0, <1>2 DEF Commit, TypeOK
  <2>2. UNCHANGED <<wal, durable, promoted, confirmed>>
    BY <1>2 DEF Commit, standbys
  <2> QED
    BY <1>0, <2>1, <2>2
<1>3. ASSUME NEW c \in Calls, NEW k \in Keys, InsertVote(c, k) PROVE More
  <2>1. Len(wal') >= Len(wal) /\ \A i \in 1 .. Len(wal) : wal'[i] = wal[i]
    BY <1>3, KeysOfAppend DEF InsertVote, TypeOK
  <2> QED
    BY <1>0, <1>3, <2>1 DEF InsertVote, standbys
<1>4. ASSUME NEW s \in Standbys, Stream(s) PROVE More
  <2>1. PICK n \in durable[s] + 1 .. flushed : durable' = [durable EXCEPT ![s] = n]
    BY <1>4 DEF Stream
  <2>2. \A r \in Standbys : durable'[r] >= durable[r]
    BY <1>0, <2>1 DEF TypeOK
  <2> QED
    BY <1>0, <1>4, <2>2 DEF Stream, server
<1>5. ASSUME NEW s \in Standbys, Report(s) \/ Disconnect(s) \/ LoseStandby(s) PROVE More
  BY <1>0, <1>5 DEF Report, Disconnect, LoseStandby, server
<1>6. CASE FlushWal
  BY <1>0, <1>6, MoreWalKeeps DEF FlushWal, standbys
<1>7. CASE ChangeSettings \/ NewStore \/ UNCHANGED vars
  <2>1. UNCHANGED <<wal, flushed, durable, promoted, confirmed>>
    BY <1>7 DEF ChangeSettings, NewStore, vars, server, standbys
  <2> QED
    BY <1>0, <2>1, MoreWalKeeps
<1>8. ASSUME More PROVE FlushedInv' /\ ConfirmedIsReplicated'
  BY <1>8, MoreWalKeeps
<1> QED
  BY <1>1, <1>2, <1>3, <1>4, <1>5, <1>6, <1>7, <1>8, ProbeConfirms, RestartKeeps, PromoteKeeps
     DEF Next, CallStep, StandbyStep

-----------------------------------------------------------------------------
(* The theorems *)

\* The invariant holds when nothing is recorded yet.
LEMMA InitInv == Init => DurabilityInv
<1> SUFFICES ASSUME Init PROVE DurabilityInv
  OBVIOUS
<1>1. LostInv
  BY QuorumAssumption, FS_EmptySet DEF Init, LostInv, ValidQuorum
<1>2. SeenInv /\ ReportInv /\ FlushedInv /\ ConfirmedIsReplicated
  BY DEF Init, SeenInv, ReportInv, FlushedInv, ConfirmedIsReplicated
<1> QED
  BY <1>1, <1>2, InitType DEF DurabilityInv

\* Every step keeps the invariant.
LEMMA NextInv == DurabilityInv /\ [Next]_vars => DurabilityInv'
<1> SUFFICES ASSUME DurabilityInv, [Next]_vars PROVE DurabilityInv'
  OBVIOUS
<1>1. TypeOK' /\ SeenInv'
  BY NextType, NextSeen DEF DurabilityInv
<1>2. ReportInv' /\ LostInv'
  BY NextStandbys DEF DurabilityInv
<1>3. FlushedInv' /\ ConfirmedIsReplicated'
  BY <1>1, NextConfirmed
<1> QED
  BY <1>1, <1>2, <1>3 DEF DurabilityInv

\* Whatever the standbys, the quorum and the calls: what a Store reported as
\* recorded stays in the flushed WAL of the primary through restarts, the loss
\* of fewer standbys than required and a promotion, although commits are visible
\* before any standby has them (waitDurableConn, durability.go 133-184).
THEOREM ReceiptsAreDurable == Spec => []ConfirmedSurvives
<1>1. DurabilityInv => ConfirmedSurvives
  <2> SUFFICES ASSUME DurabilityInv PROVE ConfirmedSurvives
    OBVIOUS
  <2>1. confirmed \subseteq KeysOf(SubSeq(wal, 1, flushed))
    <3>1. /\ wal \in Seq(Keys) /\ flushed \in 0 .. Len(wal)
          /\ FlushedInv
      BY DEF DurabilityInv, TypeOK
    <3> QED
      BY <3>1, KeysOfPrefix DEF FlushedInv
  <2> QED
    BY <2>1 DEF DurabilityInv, ConfirmedSurvives
<1> QED
  BY <1>1, InitInv, NextInv, PTL DEF Spec

\* A Store confirms on the one primary process it has pinned and never follows
\* a restart or a promotion (durabilityState.check, durability.go 70-78).
THEOREM StoreHasOneOwner == Spec => []OneOwner
<1>1. Init => TypeOK /\ OwnerInv
  BY InitType DEF Init, OwnerInv
<1>2. TypeOK /\ OwnerInv /\ [Next]_vars => (TypeOK /\ OwnerInv)'
  <2> SUFFICES ASSUME TypeOK, OwnerInv, [Next]_vars PROVE OwnerInv'
    BY NextType
  <2> USE DEF OwnerInv
  <2>1. CASE UNCHANGED <<pinned, confirmedIn>>
    BY <2>1
  <2>2. ASSUME NEW c \in Calls, Acquire(c) PROVE OwnerInv'
    BY <2>2 DEF Acquire, IdentityOK, TypeOK, store
  <2>3. ASSUME NEW c \in Calls, Probe(c) PROVE OwnerInv'
    <3>1. pinned \in {0, epoch} /\ pinned' = epoch /\ epoch # 0
      BY <2>3 DEF Probe, IdentityOK, TypeOK
    <3>2. confirmedIn' \subseteq confirmedIn \cup {epoch}
      BY <2>3 DEF Probe
    <3> QED
      BY <3>1, <3>2
  <2>4. ASSUME NEW c \in Calls,
               \/ Read(c) \/ Commit(c) \/ SyncRepEnds(c) \/ GiveUp(c)
               \/ \E k \in Keys : FindVote(c, k) \/ InsertVote(c, k)
        PROVE  UNCHANGED <<pinned, confirmedIn>>
    BY <2>4 DEF Read, Commit, SyncRepEnds, GiveUp, FindVote, InsertVote, store
  <2>5. ASSUME NEW s \in Standbys, StandbyStep(s) PROVE UNCHANGED <<pinned, confirmedIn>>
    BY <2>5 DEF StandbyStep, Stream, Report, Disconnect, LoseStandby, Promote, NewServer, store
  <2>6. CASE FlushWal \/ ChangeSettings \/ Restart \/ UNCHANGED vars
    BY <2>1, <2>6 DEF FlushWal, ChangeSettings, Restart, NewServer, store, vars
  <2>7. CASE NewStore
    BY <2>7 DEF NewStore
  <2> QED
    BY <2>1, <2>2, <2>3, <2>4, <2>5, <2>6, <2>7 DEF Next, CallStep
<1>3. OwnerInv => OneOwner
  <2> SUFFICES ASSUME OwnerInv PROVE OneOwner
    OBVIOUS
  <2>1. confirmedIn = {} \/ confirmedIn = {pinned}
    BY DEF OwnerInv
  <2> QED
    <3>1. CASE confirmedIn = {}
      BY <3>1, FS_EmptySet DEF OneOwner
    <3>2. CASE confirmedIn = {pinned}
      <4>1. Cardinality({pinned}) = 1
        BY FS_Singleton
      <4> QED
        BY <3>2, <4>1 DEF OneOwner
    <3> QED
      BY <2>1, <3>1, <3>2
<1> QED
  BY <1>1, <1>2, <1>3, PTL DEF Spec
=============================================================================
