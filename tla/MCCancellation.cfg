SPECIFICATION FairSpec
CONSTANTS
    e1 = e1  e2 = e2  e3 = e3  c1 = c1  c2 = c2
    Entries <- MCEntries
    Cancellers <- MCCancellers
    Destroys <- PeerDestroys
INVARIANTS IInv OneShot GoneIsQuiet NoneMissed
PROPERTY ResetReturnsButForPeers
CHECK_DEADLOCK FALSE
