\* Every run may report its directory, fail to, or die half way.
SPECIFICATION Spec
CONSTANTS
    Exts = {base, x, y}
    Deps <- Chain3
    Broken = {}
    Dirs = {real, other}
    RealDir = real
    NoDir = NoDir
    Outcomes = {"reports", "silent", "dies"}
    MaxRuns = 3
    base = base
    x = x
    y = y
    z = z
CHECK_DEADLOCK FALSE
INVARIANTS
    TypeOK
    SummaryTruthful
    SettledWhenReported
