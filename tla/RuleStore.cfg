CONSTANTS
    Workers = {w1, w2}
    k1 = k1
    k2 = k2
    Keys = {k1, k2}
    FirstKey = k1
    Curated <- MCCurated
    Requests <- MCRequests
    Legacy <- MCLegacy
    MaxRequests = 3
    MaxFaults = 1
SPECIFICATION Spec
CHECK_DEADLOCK FALSE
INVARIANTS TypeOK AcknowledgedRuleEnforced RevokedKeyNotHonoured DisableHonoured
           RefusalHasCause StatusVouchesForSigner
PROPERTY RequestsAnswered
