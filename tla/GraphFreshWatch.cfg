\* Default mode: one read beside the watcher of so dev.
CONSTANTS
    c1 = c1
    c2 = c2
    q1 = q1
    r1 = r1
    d1 = d1
    None = None
    Contents = {c1, c2}
    Readers = {q1}
    Refreshers = {}
    Watchers = {d1}
    Jobs <- AllJobs
    HashMode = FALSE
    KeepStamp = FALSE
    MaxEdits = 1
    MaxFails = 0
SPECIFICATION Spec
PROPERTY FreshOrFlagged
