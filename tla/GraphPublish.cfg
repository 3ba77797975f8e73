\* Two builders and one writer; four database files, so three publishes, or two
\* publishes and a file created by the writer inside the swap window.
CONSTANTS
    b1 = b1
    b2 = b2
    w1 = w1
    m1 = m1
    h1 = h1
    None = None
    Builders = {b1, b2}
    Writers = {w1}
    MemRows = {m1}
    HarvestRows = {}
    MaxFiles = 4
    CrashSteps = {"slot", "build", "verify", "copy", "drop", "park", "swap", "clean"}
SPECIFICATION Spec
SYMMETRY Symmetry
CHECK_DEADLOCK FALSE
INVARIANT TypeOK
INVARIANT VerifiedLive
INVARIANT LiveIsLatest
INVARIANT SafeRowsKept
PROPERTY OnlyPublishAfterTornSwapLoses
PROPERTY ImplementsRegister
