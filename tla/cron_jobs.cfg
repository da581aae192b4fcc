\* Edits, executions that overlap and wait, failures, crashes and restarts.
SPECIFICATION Spec
CONSTANTS
    Ids = {digest, mine}
    Defaults = {digest}
    Triggers = {"daily", "hourly", "none", "bad"}
    ClientOps <- AllOps
    Faults <- AllFaults
    MaxEdits = 2
    MaxExecutions = 2
    MaxStarts = 2
INVARIANTS TypeOK DefinitionsKept EnabledIsScheduled StateSettles
CHECK_DEADLOCK FALSE
