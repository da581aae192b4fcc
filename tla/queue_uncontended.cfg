\* As many permits as sessions: here the session lane is strictly serial.
SPECIFICATION Spec
CONSTANTS
    Sessions = {s1, s2}
    Lanes <- OneLane
    MainLane = "main"
    LaneCap <- TwoEach
    Cap = 2
    OverflowPolicy = "drop_new"
    SummaryLen = 1
    MaxMessages = 5
SYMMETRY SessionSymmetry
INVARIANT StrictSerial
