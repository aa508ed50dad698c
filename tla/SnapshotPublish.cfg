SPECIFICATION FairSpec
CONSTANTS
    Runs = {r1}
    MaxEdits = 1
    MaxCrashes = 1
    MaxIoErrors = 1
INVARIANTS
    TypeOK
    LoadedPolicyIsSigned
    FailsClosedOnlySwept
PROPERTIES
    RecordedLiveRunKept
    DeadRunCollected
CHECK_DEADLOCK FALSE
