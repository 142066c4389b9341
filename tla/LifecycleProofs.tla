-------------------------- MODULE LifecycleProofs --------------------------
(***************************************************************************)
(* Proofs about Lifecycle for any number of processes, requests and passes *)
(* of the workers.  The inductive invariant has three parts: TypeInv, then *)
(* MigrateInv (the advisory lock admits one process to the test and the    *)
(* migration, and whatever comes later knows that it is committed) and     *)
(* CloseInv (the worker is gone and no connection is out of a pool that is *)
(* closed).                                                                *)
(***************************************************************************)
EXTENDS Lifecycle, TLAPS

Starting == {"start", "migrate", "test", "apply", "commit", "migrated", "warm", "listen"}
Migrated == {"commit", "migrated", "warm", "listen", "serve", "shutdown", "join"}
Pools    == {"admin", "votes"}

TypeInv ==
    /\ pc \in [Procs -> Starting \cup {"serve", "shutdown", "join", "close", "exited"}]
    /\ pools \in [Procs -> SUBSET Pools]
    /\ ready \in [Procs -> BOOLEAN]
    /\ worker \in [Procs -> {"none", "waiting", "finalizing", "pinging", "done"}]
    /\ handler \in [Procs -> [Requests -> {"none", "running", "querying", "ended"}]]
    /\ listening \in [Procs -> BOOLEAN]

MigrateInv ==
    /\ version \in {0, 1}
    /\ \A p, q \in Procs : HoldsLock(p) /\ HoldsLock(q) => p = q
    /\ \A p \in Procs : /\ pc[p] = "apply" => version = 0
                        /\ pc[p] \in Migrated => version = 1
                        /\ ready[p] \/ listening[p] \/ worker[p] # "none" => version = 1

CloseInv ==
    \A p \in Procs :
        /\ pc[p] \in Starting => worker[p] = "none"
        /\ pc[p] \in {"close", "exited"} => worker[p] \in {"none", "done"}
        /\ \A r \in Requests : handler[p][r] = "querying" => r \in pools[p]
        /\ pc[p] = "exited" => pools[p] = {}

IInv == TypeInv /\ MigrateInv /\ CloseInv

\* A process that has not begun satisfies all three.
LEMMA InitIInv == Init => IInv
BY DEF Init, IInv, TypeInv, MigrateInv, CloseInv, Starting, Migrated, Pools, HoldsLock

\* A process holds the lock from the test to the commit, joins its worker
\* before it closes, and closes a pool when its connections are back.
LEMMA NextIInv == IInv /\ [Next]_vars => IInv'
<1> SUFFICES ASSUME IInv, [Next]_vars PROVE IInv'
  OBVIOUS
<1> USE DEF IInv, TypeInv, MigrateInv, CloseInv, Starting, Migrated, Pools, HoldsLock, Go, Open,
           others
<1>1. ASSUME NEW p \in Procs, OpenAdmin(p) PROVE IInv'
  BY <1>1 DEF OpenAdmin
<1>2. ASSUME NEW p \in Procs, MigrationLock(p) PROVE IInv'
  BY <1>2 DEF MigrationLock, LockFree
<1>3. ASSUME NEW p \in Procs, TestVersion(p) PROVE IInv'
  BY <1>3 DEF TestVersion
<1>4. ASSUME NEW p \in Procs, Apply(p) PROVE IInv'
  BY <1>4 DEF Apply
<1>5. ASSUME NEW p \in Procs, CommitNothing(p) PROVE IInv'
  BY <1>5 DEF CommitNothing
<1>6. ASSUME NEW p \in Procs, OpenVotes(p) PROVE IInv'
  BY <1>6 DEF OpenVotes
<1>7. ASSUME NEW p \in Procs, Warm(p) PROVE IInv'
  BY <1>7 DEF Warm
<1>8. ASSUME NEW p \in Procs, Listen(p) PROVE IInv'
  BY <1>8 DEF Listen
<1>9. ASSUME NEW p \in Procs, StartFails(p) PROVE IInv'
  BY <1>9 DEF StartFails
<1>10. ASSUME NEW p \in Procs, MigrateOnly(p) PROVE IInv'
  BY <1>10 DEF MigrateOnly
<1>11. ASSUME NEW p \in Procs, WorkerTick(p) PROVE IInv'
  BY <1>11 DEF WorkerTick
<1>12. ASSUME NEW p \in Procs, PassEnds(p) PROVE IInv'
  BY <1>12 DEF PassEnds
<1>13. ASSUME NEW p \in Procs, PingEnds(p) PROVE IInv'
  BY <1>13 DEF PingEnds
<1>14. ASSUME NEW p \in Procs, WorkerEnds(p) PROVE IInv'
  BY <1>14 DEF WorkerEnds
<1>15. ASSUME NEW p \in Procs, Signal(p) PROVE IInv'
  BY <1>15 DEF Signal
<1>16. ASSUME NEW p \in Procs, ServeFails(p) PROVE IInv'
  BY <1>16 DEF ServeFails, Cancelled
<1>17. ASSUME NEW p \in Procs, StopServing(p) PROVE IInv'
  BY <1>17 DEF StopServing, Cancelled
<1>18. ASSUME NEW p \in Procs, Join(p) PROVE IInv'
  BY <1>18 DEF Join, Joined
<1>19. ASSUME NEW p \in Procs, CloseVotes(p) PROVE IInv'
  BY <1>19 DEF CloseVotes, Uses
<1>20. ASSUME NEW p \in Procs, CloseAdmin(p) PROVE IInv'
  BY <1>20 DEF CloseAdmin, Uses
<1>21. ASSUME NEW p \in Procs, Exit(p) PROVE IInv'
  BY <1>21 DEF Exit
<1>22. ASSUME NEW p \in Procs, NEW r \in Requests, Arrive(p, r) PROVE IInv'
  BY <1>22 DEF Arrive
<1>23. ASSUME NEW p \in Procs, NEW r \in Requests, Acquire(p, r) PROVE IInv'
  BY <1>23 DEF Acquire
<1>24. ASSUME NEW p \in Procs, NEW r \in Requests, HandlerEnds(p, r) PROVE IInv'
  BY <1>24 DEF HandlerEnds
<1>25. CASE UNCHANGED vars
  BY <1>25 DEF vars
<1> QED
  BY <1>1, <1>2, <1>3, <1>4, <1>5, <1>6, <1>7, <1>8, <1>9, <1>10, <1>11, <1>12,
     <1>13, <1>14, <1>15, <1>16, <1>17, <1>18, <1>19, <1>20, <1>21, <1>22, <1>23,
     <1>24, <1>25
  DEF Next, Start, Worker, Stop, ShutdownEnds, ShutdownTimesOut

LEMMA SpecIInv == Spec => []IInv
BY InitIInv, NextIInv, PTL DEF Spec

\* The migration is applied at most once, however many processes start at
\* once, and none serves or is ready before (Migrate under its advisory lock).
THEOREM MigrationIsAppliedOnce == Spec => []MigratedOnce
<1>1. IInv => MigratedOnce
  BY DEF IInv, MigrateInv, MigratedOnce
<1> QED
  BY <1>1, SpecIInv, PTL

\* A process that has exited left nothing running in the database, whatever
\* timed out or failed before (the join and the deferred Close calls of run).
THEOREM ProcessEndsIdle == Spec => []EndsIdle
<1>1. IInv => EndsIdle
  BY DEF IInv, TypeInv, CloseInv, EndsIdle, Uses
<1> QED
  BY <1>1, SpecIInv, PTL
=============================================================================
