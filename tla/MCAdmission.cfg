SPECIFICATION FairSpec
CONSTANTS
    a = a  b = b  c = c  d = d  Nobody = Nobody
    Callers <- MCCallers
    Setups <- MCSetups
INVARIANTS IInv CapacityRespected
PROPERTIES OvertakenOnlyIfLost CancelledWaiterStaysOut WaitersReturn ImplementsFifo
CHECK_DEADLOCK FALSE
