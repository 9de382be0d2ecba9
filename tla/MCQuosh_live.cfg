\* Liveness of typing across a reconnection, and of a resize.
CONSTANTS
    Conns = {h1, h2}
    Data = {"a"}
    DataLen <- MCDataLen
    MaxInput = 1
    CmdQ = 1
    Sizes = {"s1", "s2"}
    ValidSizes = {"s1", "s2"}
    Codes = {1}
    MaxSeq = 0
    MaxVersion = 0
    MaxAck = 0
    CtrlCap = 2
    BusyCap = 2
    Overhead = 1
    NoSize = "none"
    UnackedCap = 2
    MaxFailures = 2
    MaxWire = 1
    Bounds <- Progress
SPECIFICATION FairSpec
PROPERTIES QueueEmpties SizeArrives SupersededEnds
CHECK_DEADLOCK FALSE
