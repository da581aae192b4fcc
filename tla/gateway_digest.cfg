SPECIFICATION Spec
CONSTANTS
    Conns = {c1, c2}
    Personas = {p1}
    MaxSessions = 2
    MaxMessages = 2
    ClientActions <- OneSessionEach
SYMMETRY Symmetry
INVARIANTS
    DigestByOwnAgent
