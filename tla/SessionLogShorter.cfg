\* One hook beside one finalizer, nobody killed: a span that is appended between the
\* count and the removal is dropped.
CONSTANTS
    p1 = p1
    p2 = p2
    e0 = e0
    e1 = e1
    e2 = e2
    None = None
    Procs = {p1, p2}
    Spans = {e1, e2}
    Quiet = {}
    Vendors = {"other"}
    Loads <- HookLoads
    MaxFiles = 2
    MaxCrashes = 0
SPECIFICATION Spec
CHECK_DEADLOCK FALSE
PROPERTY NeverShorter
