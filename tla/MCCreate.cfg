SPECIFICATION Spec
CONSTANTS
    c1 = c1  c2 = c2  p1 = p1  p2 = p2
    Calls <- MCCalls
    Processes <- MCProcesses
    Pieces = 2
    Chunks = 2
    MaxSiblings = 2
    Target = Target
    Prior = Prior  Foreign = Foreign  Hole = Hole  None = None
INVARIANTS IInv TargetWhole NoLeftovers
PROPERTY PriorIsKept
SYMMETRY Symmetry
CHECK_DEADLOCK FALSE
