\* Two sessions, two lanes of one permit each, a queue that overflows at two messages.
SPECIFICATION Spec
CONSTANTS
    Sessions = {s1, s2}
    Lanes <- TwoLanes
    MainLane = "main"
    LaneCap <- OneEach
    Cap = 2
    OverflowPolicy = "summarize"
    SummaryLen = 1
    MaxMessages = 4
SYMMETRY SessionSymmetry
INVARIANTS TypeOK ExactlyOnce NoneStranded TurnsInOrder PermitsBalance DepthBounded
PROPERTY StopDrainsNothing
