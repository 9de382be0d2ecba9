\* Two handlers that race for the session.
CONSTANTS
    Conns = {h1, h2}
    Data = {"a", "empty"}
    DataLen <- MCDataLen
    MaxInput = 1
    CmdQ = 1
    Sizes = {"s1"}
    ValidSizes = {"s1"}
    Codes = {1}
    MaxSeq = 0
    MaxVersion = 0
    MaxAck = 0
    CtrlCap = 1
    BusyCap = 2
    Overhead = 1
    NoSize = "none"
    Bounds <- Races
SPECIFICATION Spec
SYMMETRY Sym
INVARIANTS TypeOK ExitShowsFinalScreen
CHECK_DEADLOCK FALSE
