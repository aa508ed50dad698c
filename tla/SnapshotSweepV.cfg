SPECIFICATION Spec
CONSTANTS
    Runs = {r1}
    MaxEdits = 0
    MaxCrashes = 0
    MaxIoErrors = 0
INVARIANTS
    PreparedRunKept
CHECK_DEADLOCK FALSE
