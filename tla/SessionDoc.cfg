\* Two processes, each with any role at each start, one kill.
CONSTANTS
    p1 = p1
    p2 = p2
    None = None
    Dead = Dead
    Procs = {p1, p2}
    Loads = {"finalize", "refresh"}
    MaxTime = 3
    MaxCrashes = 1
SPECIFICATION Spec
SYMMETRY Symmetry
CHECK_DEADLOCK FALSE
INVARIANT TypeOK
INVARIANT FootprintKept
PROPERTY FinalizeCovers
