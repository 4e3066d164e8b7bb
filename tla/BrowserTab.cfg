CONSTANTS
    MaxEntries = 2
    MaxFaults = 1
    MaxClicks = 2
    Polls = {k1, k2}
    Steps = 3
    Limit <- MCLimit
    Links <- MCLinks
    Asks = {a1, a2}
    HistoryLimit = 3
    Looks = {l1, l2}
    FeedLimit = 2
SPECIFICATION TabSpec
INVARIANTS
    ToastWillGo
    ModalTellsTheTruth
    PanelsOfOneLoad
PROPERTIES
    TickerCatchesUp
    FeedCatchesUp
    PlaysToTheEnd
CHECK_DEADLOCK FALSE
