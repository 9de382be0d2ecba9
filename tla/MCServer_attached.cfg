\* A connection that dies while its successor claims the session.
CONSTANTS
    Conns = {h1, h2}
    Data = {"a"}
    DataLen <- MCDataLen
    MaxInput = 1
    CmdQ = 1
    Sizes = {"s1"}
    ValidSizes = {"s1"}
    Codes = {1}
    MaxSeq = 0
    MaxVersion = 0
    MaxAck = 0
    CtrlCap = 1
    BusyCap = 2
    Overhead = 1
    NoSize = "none"
    Bounds <- Attaching
SPECIFICATION Spec
INVARIANT ServedIsAttached
CHECK_DEADLOCK FALSE
