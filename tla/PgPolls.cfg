\* Two polls and passes of one poll that may fail, under fair scheduling: two
\* administrators and two workers, or a worker and two readers.
SPECIFICATION FairSpec
CONSTANTS
    c1 = c1 c2 = c2 w1 = w1 w2 = w2 r1 = r1 r2 = r2
    Polls = {1, 2}
    Creators <- TwoCreators
    Workers <- TwoWorkers
    Readers <- TwoReaders
    Casts <- TwoCasts
    Starts = {2}
    Minute = 2
    Batch = 1
    MaxTime = 4
    MaxVotes = 1
CHECK_DEADLOCK FALSE
INVARIANTS NoOverlap ResultsAgree
PROPERTIES AllBecomeFinal
