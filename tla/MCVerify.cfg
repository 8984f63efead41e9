SPECIFICATION FairSpec
CONSTANTS
    MaxRanges = 2
    MaxFiles = 2
    Torrents <- MCTorrents
INVARIANTS IInv ProgressAddsUp VerifiedMeansAll FindingsMatchBytes CancelledIsQuiet
PROPERTY VerifyReturns
CHECK_DEADLOCK FALSE
