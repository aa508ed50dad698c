CONSTANTS
    p1 = p1
    p2 = p2
    p3 = p3
    Pids = {p1, p2, p3}
    NoTaskPort = {}
    r1 = r1
    Runs = {r1}
    Files <- MCFiles
    Users = {"ordinary", "zero_creds"}
    Commands = {"split"}
    Strangers = {"hard"}
    Content <- MCContent
    MaxPv = 2
    MaxBirths = 3
    MaxExecs = 1
    MaxFrames = 1
    ScanChunk = 4
    Tail3 = 3
    NativeCpu = "arm64"
SPECIFICATION Spec
SYMMETRY MCSymmetry
INVARIANTS
    TypeOK
    TreeRooted
    
    
    
    
PROPERTY GapNeverErased
CHECK_DEADLOCK FALSE
