SPECIFICATION Spec
CONSTANTS
    w1 = w1  w2 = w2  r1 = r1  r2 = r2
    h1 = h1  h2 = h2  h3 = h3  h4 = h4
    Workers = {w1}
    Runs = {r1}
    Hosts = {h1, h2, h3, h4}
    Source <- MixedSource
    Tty = {r1}
    Baseline = {r1}
    QueueDepth = 1
    MaxChannels = 1
    MaxPrompts = 2
    UserChoices = {"once"}
    SweptRuns = {r1}
INVARIANTS HardDenyHolds
CHECK_DEADLOCK FALSE
