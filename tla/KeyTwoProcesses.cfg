\* Two processes on two names, interrupted anywhere.
CONSTANTS
    Procs = {p1, p2}
    Names = {alice, bob}
    Interrupts = TRUE
    MaxDrawn = 3
SPECIFICATION Spec
SYMMETRY Symmetry
CHECK_DEADLOCK FALSE
INVARIANTS
    TypeOK
    PairsMatch
    ReportedIsKept
    NamesAreWhole
