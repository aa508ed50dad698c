SPECIFICATION Spec
CONSTANTS
    MaxInstalls = 2
    MaxFaults = 3
INVARIANTS TypeOK RollbackRestores ReportedDaemonMatchesDisk HealthyMeansComplete
CHECK_DEADLOCK FALSE
