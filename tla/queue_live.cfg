\* Liveness and the refinement of SessionInbox.
SPECIFICATION FairSpec
CONSTANTS
    Sessions = {s1, s2}
    Lanes <- OneLane
    MainLane = "main"
    LaneCap <- OneEach
    Cap = 2
    OverflowPolicy = "drop_old"
    SummaryLen = 1
    MaxMessages = 3
PROPERTIES EveryMessageAnswered ImplementsInbox
