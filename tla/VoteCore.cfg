\* Three tokens, two of them for one place, two submitters and a
\* sealer with a jumping clock, under fair scheduling.
SPECIFICATION LiveSpec
CONSTANTS
    t1 = t1 t2 = t2 t3 = t3 c1 = c1 c2 = c2 k1 = k1
    Tokens <- ThreeTokens
    Options <- TwoOptions
    Choices <- TwoMasks
    Submitters <- TwoSubmitters
    Sealers <- OneSealer
    NumShards = 2
    ShardOf <- TwoInOne
    Capacity = 3
    StartsAt = 1
    EndsAt = 2
    MaxClock = 2
INVARIANTS SnapshotExact FirstChoiceFinal
PROPERTIES SealReturns
