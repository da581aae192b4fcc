\* Two clients that do everything a client can do, and the jobs of one persona.
SPECIFICATION Spec
CONSTANTS
    Conns = {c1, c2}
    Personas = {p1}
    MaxSessions = 3
    MaxMessages = 2
    ClientActions <- Everything
SYMMETRY Symmetry
INVARIANTS TypeOK AgentsMatchSessions
PROPERTIES OutputStaysHome LiveRunOnOwnAgent
