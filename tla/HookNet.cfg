SPECIFICATION Spec
CONSTANTS
    Threads = {t1, t2}
    Images <- MCImages
    Modes = {"enforce", "lenient", "untracked"}
    Snapshot <- MCSnapshot
    Names <- MCNames
    Dns <- MCDns
    Ipv6 <- MCIpv6
    Hints = {"any", "inet"}
    Dests <- AllDests
    Capacity = 2
    MaxAttempts = 1
    MaxCalls = 3
INVARIANTS TypeOK GrantedIsPermitted CacheKeepsRecent UntrustedGrantsNothing
PROPERTY CallsReturn
CHECK_DEADLOCK FALSE
