\* Two processes of every kind; the names of the sets tell the rest.
CONSTANTS
    p1 = p1
    p2 = p2
    i1 = i1
    i2 = i2
    i3 = i3
    k1 = k1
    k2 = k2
    u1 = u1
    u2 = u2
    ta = ta
    tb = tb
    e1 = e1
    e2 = e2
    e3 = e3
    n1 = n1
    n2 = n2
    s1 = s1
    s2 = s2
    x1 = x1
    None = None
    Torn = Torn
    Writers = {p1, p2}
    Ids = {i1, i2, i3}
    MaxIndexOps = 3
    MaxSpawns = 1
    IndexKills = 1
    Emitters = {p1, p2}
    Spans = {k1, k2, u1, u2}
    Known = {k1, k2}
    Traces = {ta, tb}
    TraceOf <- TwoTraces
    InboxKills = 1
    Callers = {p1, p2}
    Props = {e1, e2}
    FileProps = {e1, e2}
    CreateProps = {e2}
    TextProps = {e1}
    Titles = {n1, n2}
    Title <- TwoTitles
    MaxEdits = 2
    MaxApplies = 3
    ApplyBreaks = 1
    Harvesters = {p1, p2}
    Finished = {x1}
    MaxFails = 2
    MaxStarts = 4
    QueueKills = 1
    Distillers = {p1, p2}
    Chats = {s1, s2}
    MaxDistillFails = 1
    MaxDistills = 3
    DistillKills = 1
    Sweepers = {p1, p2}
    Kept = {x1}
    Proposals = {e1}
    SessionOf <- TheSession
    MaxSweeps = 2
    MaxEvents = 3
    MaxWeeks = 1
    Stops = 1
SPECIFICATION RecordsSpec
SYMMETRY Alike
\* The bounds let every process come to rest.
CHECK_DEADLOCK FALSE
INVARIANT RecordsTypeOK
INVARIANT IndexShared
INVARIANT ClaimedOnce
INVARIANT InboxKeeps
INVARIANT MovedOnce
INVARIANT AppliedToBase
INVARIANT StatusTells
INVARIANT CallsBounded
INVARIANT NotAskedAgain
INVARIANT NotForgotten
INVARIANT AskedOnce
INVARIANT DistillCallsBounded
INVARIANT NothingLeftBehind
INVARIANT ActiveKept
