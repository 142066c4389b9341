\* Two processes, a request at each pool, a pass of each worker, under
\* fair scheduling.
SPECIFICATION FairSpec
CONSTANTS
    p1 = p1 p2 = p2
    Procs <- TwoProcs
    Requests = {"votes", "admin"}
    MaxTicks = 1
CHECK_DEADLOCK FALSE
INVARIANTS MigratedOnce EndsIdle
PROPERTIES ProcessEnds
