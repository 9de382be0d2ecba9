\* Tight PTY buffers, a program that answers before it reads on.
CONSTANTS
    MaxPending = 2
    HardMax = 4
    MaxInput = 2
    Generated = "gen"
    Data = {"bb"}
    DataLen <- MCDataLen
    CmdQ = 1
    DrainReads = 1
    Sizes = {"s1"}
    ValidSizes = {"s1"}
    NoSize = "none"
    Codes = {0, 1}
    TtyIn = 1
    TtyOut = 1
    MaxGen = 0
    MaxSeq = 2
    MaxVersion = 0
    MaxOutput = 2
    MaxAck = 1
SPECIFICATION FairSpec
INVARIANT ExitAfterFinalScreen
PROPERTIES EndsWhenTold AcceptedIsWritten WrittenIsCheckpointed HeldIsShown
