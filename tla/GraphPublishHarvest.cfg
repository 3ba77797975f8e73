\* One builder and one harvest process, nobody killed: the second publish drops
\* the row that was stored after the first.
CONSTANTS
    b1 = b1
    w1 = w1
    m1 = m1
    h1 = h1
    None = None
    Builders = {b1}
    Writers = {w1}
    MemRows = {}
    HarvestRows = {h1}
    MaxFiles = 3
    CrashSteps = {}
SPECIFICATION Spec
CHECK_DEADLOCK FALSE
INVARIANT HarvestKept
