SPECIFICATION FairSpec
CONSTANTS
    w1 = w1  w2 = w2  r1 = r1  r2 = r2
    h1 = h1  h2 = h2  h3 = h3  h4 = h4
    Workers = {w1, w2}
    Runs = {r1}
    Hosts = {h1}
    Source <- AskSource
    Tty = {r1}
    Baseline = {}
    QueueDepth = 1
    MaxChannels = 1
    MaxPrompts = 2
    UserChoices = {"once", "cancel"}
    SweptRuns = {}
PROPERTIES WorkerReturns ClosedChannelEnds
CHECK_DEADLOCK FALSE
