SPECIFICATION Spec
CONSTANTS
    MaxRows = 6
    NumColumns = 2
INVARIANTS
    RowsKept
    FrontDiffers
CHECK_DEADLOCK FALSE
