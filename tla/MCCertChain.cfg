SPECIFICATION Spec
CONSTANTS
    Browsers = {b1}
    Stride = 2
    Validity = 4
    Slack = 1
    Windows <- ShortAndLong
    MaxTime = 6
    MaxLag = 2
    None = None
INVARIANTS OneCertificatePerEpoch PinsLast ServedIsValid
CHECK_DEADLOCK FALSE
