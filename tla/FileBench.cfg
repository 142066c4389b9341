\* Four keys, in groups of two, every second repeated, frames of two and two workers.
SPECIFICATION BenchSpec
CONSTANTS
    Keys = 4
    RepeatEvery = 2
    GroupSize = 2
    FrameSize = 2
    Queue = 1
    Workers = {w1, w2}
    FaultSets <- NoneOrAll
SYMMETRY AnyWorker
CHECK_DEADLOCK FALSE
INVARIANTS ReportIsFair CorrectIsTrue
