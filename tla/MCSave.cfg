SPECIFICATION Spec
CONSTANTS
    s1 = s1  s2 = s2  src = src  other = other
    Original = Original  Foreign = Foreign
    Absent = Absent  Symlink = Symlink  Partial = Partial
    None = None
    Savers <- MCSavers
    Paths <- MCPaths
    Source = src
    Requests <- MCRequests
    Stamps <- MCStamps
    MaxForeign = 1
INVARIANTS IInv NeverHalfWritten CancelledLeavesNothing BackupHoldsReplaced ResaveFindsNoChange
PROPERTIES ReplacesOnlyLicensed
SYMMETRY Symmetry
CHECK_DEADLOCK FALSE
