\* Two processes, three seeders; slot counts 0 (no limit), 1 and 2.
CONSTANTS
    p1 = p1
    p2 = p2
    r1 = r1
    r2 = r2
    p3 = p3
    w1 = w1
    d1 = d1
    d2 = d2
    None = None
    Dead = Dead
    GateProcs = {p1, p2}
    Repos = {r1, r2}
    Homes <- TwoHomes
    SlotCounts = {0, 1, 2}
    MaxCalls = 3
    GateKills = 1
    Seeders = {p1, p2, p3}
    SeedRows = {w1}
    MaxSeeds = 4
    SeedKills = 1
    Hooks = {p1, p2}
    Edits = {d1, d2}
    PendingCap = 1
    MaxHooks = 5
    HookKills = 1
    Fetchers = {p1, p2}
    ModelLen = 2
    MaxFetches = 3
    MaxInodes = 3
    FetchKills = 1
    Users = {p1, p2}
    Episodes = {d1, d2}
    MaxOpens = 2
    MaxWrites = 2
    StoreKills = 1
SPECIFICATION GatesSpec
\* The bounds let every process come to rest.
CHECK_DEADLOCK FALSE
INVARIANT GatesTypeOK
INVARIANT ListedHeld
INVARIANT SeedKeepsRows
INVARIANT SeedWhole
INVARIANT HookCounts
INVARIANT ModelWhole
INVARIANT EmbeddedFound
PROPERTY ImplementsSemaphore
PROPERTY CallsEnd
