\* Two processes; e3 has a text and no diff, e2 creates the file.
CONSTANTS
    a1 = a1
    a2 = a2
    e1 = e1
    e2 = e2
    e3 = e3
    n1 = n1
    n2 = n2
    None = None
    Callers = {a1, a2}
    Props = {e1, e2, e3}
    FileProps = {e1, e2}
    CreateProps = {e2}
    TextProps = {e1, e3}
    Titles = {n1, n2}
    Title <- TwoTitles
    MaxEdits = 2
    MaxApplies = 2
    ApplyBreaks = 0
SPECIFICATION ApplySpec
\* The bounds let every process come to rest.
CHECK_DEADLOCK FALSE
INVARIANT MemoryWhenApplied
