------------------------------ MODULE Lifecycle ------------------------------
(***************************************************************************)
(* Start, service and shutdown of the processes (cmd/gigaquizz/main.go)    *)
(* that share one database: the migration under its advisory lock, the two *)
(* connection pools, the HTTP server with its handlers, the maintenance    *)
(* worker and the readiness flag.  Every call to the database may fail.    *)
(***************************************************************************)
EXTENDS Naturals, FiniteSets

CONSTANTS
    Procs,        \* processes on the same database
    Requests,     \* requests, named after the pool they use
    MaxTicks      \* bound on the passes of a worker

ASSUME TicksAssumption == MaxTicks \in Nat /\ Requests \subseteq {"votes", "admin"}

VARIABLES
    pc,           \* process |-> where run is
    pools,        \* process |-> its open pools, of "admin" and "votes"
    ready,        \* process |-> the flag behind /readyz
    worker,       \* process |-> its maintenance worker
    stopped,      \* process |-> whether the worker's context is cancelled
    ticks,        \* process |-> passes of the worker
    handler,      \* process |-> request |-> its handler
    listening,    \* process |-> whether new requests reach it
    version       \* committed migrations: how often version 1 was applied

vars == <<pc, pools, ready, worker, stopped, ticks, handler, listening, version>>
others == <<ready, worker, stopped, ticks, handler, listening>>

Go(p, to) == pc' = [pc EXCEPT ![p] = to]
Open(p, pool) == pools' = [pools EXCEPT ![p] = @ \cup {pool}]
Running(p) == {r \in Requests : handler[p][r] \in {"running", "querying"}}

-----------------------------------------------------------------------------
(* run: start *)

\* NewWithOptions for the administrative pool.
OpenAdmin(p) ==
    /\ pc[p] = "start" /\ Go(p, "migrate") /\ Open(p, "admin") /\ UNCHANGED <<others, version>>

\* Migrate: the lock, the test for version 1, the migration, the commit.
HoldsLock(p) == pc[p] \in {"test", "apply", "commit"}
LockAlwaysFree(p) == TRUE  \* mutant: the migration takes no lock
LockFree(p) == \A q \in Procs : ~ HoldsLock(q)
MigrationLock(p) ==
    /\ pc[p] = "migrate" /\ LockFree(p) /\ Go(p, "test") /\ UNCHANGED <<pools, others, version>>
TestVersion(p) ==
    /\ pc[p] = "test" /\ Go(p, IF version > 0 THEN "commit" ELSE "apply")
    /\ UNCHANGED <<pools, others, version>>
Apply(p) ==
    /\ pc[p] = "apply" /\ version' = version + 1
    /\ Go(p, "migrated") /\ UNCHANGED <<pools, others>>
CommitNothing(p) ==
    /\ pc[p] = "commit" /\ Go(p, "migrated") /\ UNCHANGED <<pools, others, version>>

\* With -migrate-only the process is done; else the votes' pool, both warm.
MigrateOnly(p) == pc[p] = "migrated" /\ Go(p, "close") /\ UNCHANGED <<pools, others, version>>
OpenVotes(p) ==
    /\ pc[p] = "migrated" /\ Go(p, "warm") /\ Open(p, "votes") /\ UNCHANGED <<others, version>>
Warm(p) ==
    /\ pc[p] = "warm" /\ Go(p, "listen")
    /\ ready' = [ready EXCEPT ![p] = TRUE]
    /\ UNCHANGED <<pools, worker, stopped, ticks, handler, listening, version>>
Listen(p) ==
    /\ pc[p] = "listen" /\ Go(p, "serve")
    /\ listening' = [listening EXCEPT ![p] = TRUE]
    /\ worker' = [worker EXCEPT ![p] = "waiting"]
    /\ UNCHANGED <<pools, ready, stopped, ticks, handler, version>>

\* Any of these steps fails, also after its commit: run returns.
StartFails(p) ==
    /\ pc[p] \in {"start", "migrate", "test", "apply", "commit", "migrated", "warm", "listen"}
    /\ Go(p, "close")
    /\ version' \in IF pc[p] = "apply" THEN {version, version + 1} ELSE {version}
    /\ UNCHANGED <<pools, others>>

-----------------------------------------------------------------------------
(* Service: handlers and the worker *)

Arrive(p, r) ==
    /\ listening[p] /\ handler[p][r] = "none"
    /\ handler' = [handler EXCEPT ![p][r] = "running"]
    /\ UNCHANGED <<pc, pools, ready, worker, stopped, ticks, listening, version>>
\* A handler acquires a connection, or fails, as it must when its pool is
\* closed; its timeout ends it in any case.
Acquire(p, r) ==
    /\ handler[p][r] = "running" /\ r \in pools[p]
    /\ handler' = [handler EXCEPT ![p][r] = "querying"]
    /\ UNCHANGED <<pc, pools, ready, worker, stopped, ticks, listening, version>>
HandlerEnds(p, r) ==
    /\ handler[p][r] \in {"running", "querying"} /\ pc[p] # "exited"
    /\ handler' = [handler EXCEPT ![p][r] = "ended"]
    /\ UNCHANGED <<pc, pools, ready, worker, stopped, ticks, listening, version>>

\* maintenance: a pass of FinalizeDue, then, every fifth time, a ping whose
\* answer is the new readiness; a cancelled context fails both, which ends
\* them early, and ends the loop at its next turn.
WorkerTick(p) ==
    /\ worker[p] = "waiting" /\ ticks[p] < MaxTicks
    /\ worker' = [worker EXCEPT ![p] = "finalizing"]
    /\ ticks' = [ticks EXCEPT ![p] = @ + 1]
    /\ UNCHANGED <<pc, pools, ready, stopped, handler, listening, version>>
PassEnds(p) ==
    /\ worker[p] = "finalizing"
    /\ \E next \in {"waiting", "pinging"} : worker' = [worker EXCEPT ![p] = next]
    /\ UNCHANGED <<pc, pools, ready, stopped, ticks, handler, listening, version>>
PingEnds(p) ==
    /\ worker[p] = "pinging"
    /\ \E ok \in BOOLEAN : ready' = [ready EXCEPT ![p] = ok]
    /\ worker' = [worker EXCEPT ![p] = "waiting"]
    /\ UNCHANGED <<pc, pools, stopped, ticks, handler, listening, version>>
WorkerEnds(p) ==
    /\ worker[p] = "waiting" /\ stopped[p]
    /\ worker' = [worker EXCEPT ![p] = "done"]
    /\ UNCHANGED <<pc, pools, ready, stopped, ticks, handler, listening, version>>

-----------------------------------------------------------------------------
(* run: shutdown *)

Signal(p) ==
    /\ pc[p] = "serve" /\ Go(p, "shutdown")
    /\ ready' = [ready EXCEPT ![p] = FALSE]
    /\ listening' = [listening EXCEPT ![p] = FALSE]
    /\ UNCHANGED <<pools, worker, stopped, ticks, handler, version>>
CancelForgotten(p) == UNCHANGED stopped  \* mutant: the worker's context lives on
Cancelled(p) == stopped' = [stopped EXCEPT ![p] = TRUE]
ServeFails(p) ==
    /\ pc[p] = "serve" /\ Go(p, "join")
    /\ listening' = [listening EXCEPT ![p] = FALSE] /\ Cancelled(p)
    /\ UNCHANGED <<pools, ready, worker, ticks, handler, version>>
\* Shutdown waits for the handlers; after 20 s Close cuts their connections
\* and they run on.
StopServing(p) ==
    /\ pc[p] = "shutdown" /\ Go(p, "join") /\ Cancelled(p)
    /\ UNCHANGED <<pools, ready, worker, ticks, handler, listening, version>>
ShutdownEnds(p) == Running(p) = {} /\ StopServing(p)
ShutdownTimesOut(p) == Running(p) # {} /\ StopServing(p)
JoinNever(p) == TRUE  \* mutant: run does not wait for the worker
Joined(p) == worker[p] = "done"
Join(p) ==
    /\ pc[p] = "join" /\ Joined(p) /\ Go(p, "close")
    /\ UNCHANGED <<pools, others, version>>

\* The deferred Close of a pool waits for the connections that are out.
Uses(p, pool) == \/ pool \in Requests /\ handler[p][pool] = "querying"
                 \/ pool = "admin" /\ worker[p] \in {"finalizing", "pinging"}
CloseVotes(p) ==
    /\ pc[p] = "close" /\ "votes" \in pools[p] /\ ~ Uses(p, "votes")
    /\ pools' = [pools EXCEPT ![p] = @ \ {"votes"}] /\ UNCHANGED <<pc, others, version>>
CloseAdmin(p) ==
    /\ pc[p] = "close" /\ pools[p] = {"admin"} /\ ~ Uses(p, "admin")
    /\ pools' = [pools EXCEPT ![p] = {}] /\ UNCHANGED <<pc, others, version>>
Exit(p) ==
    /\ pc[p] = "close" /\ pools[p] = {} /\ Go(p, "exited")
    /\ ready' = [ready EXCEPT ![p] = FALSE]
    /\ UNCHANGED <<pools, worker, stopped, ticks, handler, listening, version>>

-----------------------------------------------------------------------------
Init ==
    /\ pc = [p \in Procs |-> "start"] /\ pools = [p \in Procs |-> {}]
    /\ ready = [p \in Procs |-> FALSE] /\ worker = [p \in Procs |-> "none"]
    /\ stopped = [p \in Procs |-> FALSE] /\ ticks = [p \in Procs |-> 0]
    /\ handler = [p \in Procs |-> [r \in Requests |-> "none"]]
    /\ listening = [p \in Procs |-> FALSE] /\ version = 0
Start(p) == \/ OpenAdmin(p) \/ MigrationLock(p) \/ TestVersion(p) \/ Apply(p)
            \/ CommitNothing(p) \/ OpenVotes(p) \/ Warm(p) \/ Listen(p)
Worker(p) == WorkerTick(p) \/ PassEnds(p) \/ PingEnds(p) \/ WorkerEnds(p)
Stop(p) == \/ ShutdownEnds(p) \/ ShutdownTimesOut(p) \/ Join(p)
           \/ CloseVotes(p) \/ CloseAdmin(p) \/ Exit(p)
Next == \E p \in Procs :
    \/ Start(p) \/ StartFails(p) \/ MigrateOnly(p) \/ Worker(p) \/ Signal(p) \/ ServeFails(p)
    \/ Stop(p) \/ \E r \in Requests : Arrive(p, r) \/ Acquire(p, r) \/ HandlerEnds(p, r)
Spec == Init /\ [][Next]_vars

(* The goroutines are scheduled; a select whose two cases are ready takes  *)
(* each of them sometimes; operations end by their timeouts.               *)
FairSpec ==
    /\ Spec
    /\ \A p \in Procs : /\ WF_vars(Stop(p)) /\ WF_vars(PassEnds(p)) /\ WF_vars(PingEnds(p))
                        /\ SF_vars(WorkerEnds(p))
                        /\ \A r \in Requests : WF_vars(HandlerEnds(p, r))

-----------------------------------------------------------------------------
(* Properties *)

(* Processes that start together apply the migration once, and none serves *)
(* or tells that it is ready before it is committed (store.go 134-153,     *)
(* main.go 50-72).                                                         *)
MigratedOnce ==
    version <= 1 /\ \A p \in Procs : ready[p] \/ listening[p] => version = 1

(* A process ends with nothing in progress in the database: its worker    *)
(* has returned and no handler has a connection, also when the shutdown    *)
(* timed out or the listener failed (main.go 89-104, deferred Close).      *)
EndsIdle ==
    \A p \in Procs : pc[p] = "exited" =>
        worker[p] \in {"none", "done"} /\ \A pool \in {"admin", "votes"} : ~ Uses(p, pool)

(* After a signal, and after the listener failed, the process ends: run    *)
(* waits for handlers, worker and pools, and none of them waits for run.   *)
ProcessEnds ==
    \A p \in Procs : (pc[p] \in {"shutdown", "join", "close"}) ~> pc[p] = "exited"
=============================================================================
