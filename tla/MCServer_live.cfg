\* Liveness: full queues, lost datagrams.
CONSTANTS
    Conns = {h1}
    Data = {"a"}
    DataLen <- MCDataLen
    MaxInput = 1
    CmdQ = 1
    Sizes = {"s1", "huge"}
    ValidSizes = {"s1"}
    Codes = {1}
    MaxSeq = 0
    MaxVersion = 0
    MaxAck = 0
    CtrlCap = 1
    BusyCap = 2
    Overhead = 1
    NoSize = "none"
    Bounds <- Progress
SPECIFICATION FairSpec
PROPERTIES InputGetsThrough HangupIsHeard LatestArrives ExitArrives
CHECK_DEADLOCK FALSE
