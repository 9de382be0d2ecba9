\* A connection dies while the user types or quits, screens are published or
\* the shell exits.
CONSTANTS
    Conns = {h1, h2}
    Data = {a, b}
    DataLen <- MCDataLen
    MaxInput = 1
    CmdQ = 1
    Sizes = {"s1"}
    ValidSizes = {"s1"}
    Codes = {1}
    MaxSeq = 0
    MaxVersion = 0
    MaxAck = 0
    CtrlCap = 1
    BusyCap = 2
    Overhead = 1
    NoSize = "none"
    UnackedCap = 2
    MaxFailures = 2
    MaxWire = 1
    Bounds <- Losing
SPECIFICATION Spec
SYMMETRY Payloads
INVARIANTS ExactlyOnce LossNeverHangsUp ShownAsTold
PROPERTY ScreenNeverOlder
CHECK_DEADLOCK FALSE
