\* One partition, two owners that may overlap, the second perhaps of another poll,
\* and two votes of one voter.
SPECIFICATION Spec
CONSTANTS
    p1 = p1 p2 = p2 t1 = t1 j1 = j1 j2 = j2
    Partitions <- OnePartition
    Jobs <- TwoJobs
    Votes <- TwoChoices
    PartitionOf <- AllInOne
    MaxSession = 2
    Configs <- OtherSecond
    BatchSize = 2
    QueuePerPartition = 1
    Faults = {"crash", "clockback"}
CHECK_DEADLOCK FALSE
INVARIANTS ReceiptCounts JournalReplays ManifestIsFinal
PROPERTIES FirstChoiceStays
