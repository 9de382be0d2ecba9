\* The environments of BoundsClient; frames smaller and larger than the
\* control budget, partial writes.
SPECIFICATION ClientSpec
CONSTANTS
    Letters = {"a", "b", "s"}
    SrttTriggerLow = 20
    SrttTriggerHigh = 30
    GlitchThreshold = 2
    GlitchFlagThreshold = 3
    GlitchRepairCount = 1
    GlitchRepairInterval = 1
    Bounds <- BoundsClient
    CtrlCap = 2
    Lens = {1, 2, 3}
    MaxCtrl = 4
    MaxScreen = 2
INVARIANTS JudgedInTime GuessesComeTrue UnmistakablePasswordHidden
    TypeOK NeverIdle CtrlFifo FinAfterScreen
PROPERTIES ShownUntilJudged
CHECK_DEADLOCK FALSE
