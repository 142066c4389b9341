\* Two tabs of one browser and two requests; the storage of one tab may fail.
SPECIFICATION PageSpec
CONSTANTS
    tab1 = tab1 tab2 = tab2
    Tabs <- TwoTabs
    Browsers <- ThreeBrowsers
    Requests = {1, 2}
    Mixes <- AllVotes
    Tokens = {1, 2}
    Choices = {"a", "b"}
    Limits <- OneSlot
    Window = {2}
CHECK_DEADLOCK FALSE
INVARIANTS ReceiptIsTrue OneVotePerBrowser
PROPERTIES KeyIsKept
