\* Two polls of which a list holds one, six requests that overlap: enough for a logout
\* and a login again.
SPECIFICATION AdminSpec
CONSTANTS
    Polls = {p1, p2}
    ListLimit = 1
    MaxCalls = 6
    MaxProgress = 1
SYMMETRY AnyPoll
CHECK_DEADLOCK FALSE
INVARIANTS PanelIsSelected
PROPERTIES NeverOlder
