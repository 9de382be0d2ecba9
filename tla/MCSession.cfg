\* Input, output, replies, resizes and the ways a session ends: every schedule
\* of acceptance, partial writes and timers.  A command is taken with a byte of
\* input or replies still unread, so inputs wait together and behind replies.
CONSTANTS
    MaxPending = 2
    HardMax = 4
    MaxInput = 2
    Generated = "gen"
    Data = {"a", "bb"}
    DataLen <- MCDataLen
    CmdQ = 1
    DrainReads = 1
    Sizes = {"s1", "huge"}
    ValidSizes = {"s1"}
    NoSize = "none"
    Codes = {1}
    TtyIn = 1
    TtyOut = 1
    MaxGen = 2
    MaxSeq = 2
    MaxVersion = 1
    MaxOutput = 1
    MaxAck = 0
SPECIFICATION Spec
INVARIANTS TypeOK InOrder EchoAckSound InputNeverKills WriteBufNonEmpty
PROPERTIES ImplementsApi ExitIsLast
