SPECIFICATION FairSpec
CONSTANTS
    t1 = t1
    t2 = t2
    None = None
    Torrents <- MCTorrents
    MaxOps = 3
    MaxSnapshots = 1
INVARIANTS
    IInv
    RequestIsOfThisTask
    ResultsOfShownTorrent
    LogExplained
PROPERTIES
    ConfirmedExitOfRunningTaskCloses
CHECK_DEADLOCK FALSE
