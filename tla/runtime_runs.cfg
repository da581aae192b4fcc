SPECIFICATION Spec
CONSTANTS
    MaxOverlap = 2
    ProtectedHead = 1
    ProtectedTail = 2
    MaxRuns = 3
    MaxToolCalls = 2
    MaxChunks = 2
INVARIANTS TypeOK NothingForgotten InOrder SteeringComplete TranscriptCovers
