SPECIFICATION FairSpec
CONSTANTS
    t1 = t1
    t2 = t2
    None = None
    Torrents <- MCTorrents
    MaxOps = 2
    MaxSnapshots = 0
PROPERTIES
    ConfirmedExitCloses
CHECK_DEADLOCK FALSE
