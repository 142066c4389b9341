\* One owner of two partitions: a vote and a frame of two that does not fit the
\* batch beside it, a Seal of both partitions and a Close, under fair scheduling.
SPECIFICATION FairSpec
CONSTANTS
    p1 = p1 p2 = p2 t1 = t1 j1 = j1 j2 = j2
    Partitions <- TwoPartitions
    Jobs <- TwoJobs
    Votes <- AFrame
    PartitionOf <- AllInOne
    MaxSession = 1
    Configs <- SamePoll
    BatchSize = 2
    QueuePerPartition = 2
    Faults = {"close"}
CHECK_DEADLOCK FALSE
INVARIANTS RefusedIsAbsent JobsAccounted SealConfirmsAll
PROPERTIES NobodyWaitsForever
