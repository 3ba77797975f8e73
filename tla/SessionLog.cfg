\* Two processes, each with any role at each start; an identity span and two
\* spans with activity; one kill.  The hooks run refresh for codex only.
CONSTANTS
    p1 = p1
    p2 = p2
    e0 = e0
    e1 = e1
    e2 = e2
    None = None
    Procs = {p1, p2}
    Spans = {e0, e1, e2}
    Quiet = {e0}
    Vendors = {"codex", "copilot-cli"}
    Loads <- HookLoads
    MaxFiles = 3
    MaxCrashes = 1
SPECIFICATION Spec
SYMMETRY Symmetry
CHECK_DEADLOCK FALSE
INVARIANT TypeOK
INVARIANT SafeSpansKept
