\* Default mode: one read beside a refresher that runs so graph
\* refresh --probe or so graph build, against two edits and one
\* failed or killed process; no watcher.
CONSTANTS
    c1 = c1
    c2 = c2
    q1 = q1
    r1 = r1
    None = None
    Contents = {c1, c2}
    Readers = {q1}
    Refreshers = {r1}
    Watchers = {}
    Jobs <- MixedJobs
    HashMode = FALSE
    KeepStamp = FALSE
    MaxEdits = 2
    MaxFails = 1
SPECIFICATION FairSpec
INVARIANT TypeOK
INVARIANT CleanIsFresh
PROPERTY RefreshHeals
PROPERTY FreshOrFlagged
PROPERTY ReadsEnd
