\* SUPEROPEN_REFRESH=hash: a read beside the watcher of so dev, with edits
\* that may keep size and mtime.
CONSTANTS
    c1 = c1
    c2 = c2
    q1 = q1
    r1 = r1
    d1 = d1
    None = None
    Contents = {c1, c2}
    Readers = {q1}
    Refreshers = {}
    Watchers = {d1}
    Jobs <- AllJobs
    HashMode = TRUE
    KeepStamp = TRUE
    MaxEdits = 2
    MaxFails = 0
SPECIFICATION FairSpec
PROPERTY WatcherConverges
