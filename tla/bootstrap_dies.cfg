\* A run may die half way, as the runner expects of early runs.
SPECIFICATION Spec
CONSTANTS
    Exts = {base, x, y}
    Deps <- Chain3
    Broken = {}
    Dirs = {real, other}
    RealDir = real
    NoDir = NoDir
    Outcomes = {"reports", "dies"}
    MaxRuns = 3
    base = base
    x = x
    y = y
    z = z
CHECK_DEADLOCK FALSE
INVARIANTS
    SettledOnSuccess
