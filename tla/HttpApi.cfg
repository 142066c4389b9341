\* Two requests of any kind for one or two slots, clients that may leave, and
\* operations that outlive their handlers, under fair scheduling.
SPECIFICATION FairSpec
CONSTANTS
    r1 = r1 r2 = r2
    Requests <- Two
    Mixes <- Pairs
    Tokens = {t1, t2}
    Choices = {"a", "b"}
    Limits <- OneOrTwo
    Window = {1, 2, 3, 4}
CHECK_DEADLOCK FALSE
INVARIANTS BooksBalance AnswersAreTrue
PROPERTIES EveryRequestEnds
