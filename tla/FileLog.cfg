\* Two frames that fit the queue and one batch or do not, a Seal and a Close, a disk
\* that fails and a machine that may stop, under fair scheduling.
SPECIFICATION LiveSpec
CONSTANTS
    c1 = c1 c2 = c2 k1 = k1 x1 = x1
    Calls <- TwoCalls
    Loads <- FitOrNot
    Sealers <- OneSealer
    Closers <- OneCloser
    BatchSize = 2
    QueuePerPartition = 2
    Lingers = TRUE
    StartsAt = 1
    EndsAt = 2
    MaxClock = 2
    Crashes = TRUE
CHECK_DEADLOCK FALSE
INVARIANTS AckedIsFound JournalIsSound MemoryBound
PROPERTIES NobodyWaitsForever
