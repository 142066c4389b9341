\* Two shards, two callers of one key with two choices around the deadline, and
\* two finalizers, under fair scheduling.
SPECIFICATION LiveSpec
CONSTANTS
    t1 = t1 v1 = v1 v2 = v2 f1 = f1 f2 = f2
    Tokens <- OneToken
    Options <- TwoOptions
    Kind = "multiple"
    Ballots <- TwoBallots
    Voters <- TwoVoters
    Finalizers <- TwoFinalizers
    NumShards = 2
    ShardOf <- LastShard
    StartsAt = 1
    EndsAt = 2
    MaxClock = 2
    MaxFaults = 1
    ClockMayStepBack = FALSE
INVARIANTS ClosedIsDefinitive ReceiptsAgree FinalResultExact NoWaitCycle
PROPERTIES ImplementsContract EveryCallEnds EventuallyFinal
