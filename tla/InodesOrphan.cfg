CONSTANTS
    Proc = {p1, p2}
    NINODES = 3
    NBLOCK = 3
    MAXFILE = 2
    Name = {"d", "x"}
    Calls <- MCCalls
    NONE = NONE
SPECIFICATION Spec
SYMMETRY MCSymmetry
CHECK_DEADLOCK FALSE
INVARIANTS InodesFreed
