\* A hook and a finalize, no kill.
CONSTANTS
    p1 = p1
    p2 = p2
    None = None
    Dead = Dead
    Procs = {p1, p2}
    Loads = {"finalize"}
    MaxTime = 3
    MaxCrashes = 0
SPECIFICATION Spec
SYMMETRY Symmetry
CHECK_DEADLOCK FALSE
PROPERTY EndedKept
