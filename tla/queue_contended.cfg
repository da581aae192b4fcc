\* The docstring promises one run per session at a time; a full lane breaks it.
SPECIFICATION Spec
CONSTANTS
    Sessions = {s1, s2, s3}
    Lanes <- OneLane
    MainLane = "main"
    LaneCap <- TwoEach
    Cap = 2
    OverflowPolicy = "summarize"
    SummaryLen = 1
    MaxMessages = 4
INVARIANT StrictSerial
