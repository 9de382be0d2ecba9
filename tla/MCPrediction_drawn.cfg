\* A password typed ahead of a prompt that shares a glyph with it.
SPECIFICATION Spec
CONSTANTS
    Letters = {"a", "s"}
    SrttTriggerLow = 20
    SrttTriggerHigh = 30
    GlitchThreshold = 2
    GlitchFlagThreshold = 3
    GlitchRepairCount = 1
    GlitchRepairInterval = 1
    Bounds <- BoundsDrawn
INVARIANTS PasswordNeverDrawn
CHECK_DEADLOCK FALSE
