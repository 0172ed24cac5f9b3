\* Two launches at the same time; javac accepts a stub that is being written.
SPECIFICATION Spec
CONSTANTS
    Launches = {p1, p2}
    Exts = {e1, e2}
    Order <- TwoExts
    Base = base
    BaseVersion = baseVersion
    Classes = {c1}
    Sources = {srcA, srcB, srcBad, srcTorn}
    Broken = {srcBad}
    Torn = srcTorn
    InvalidType = InvalidType
    Absent = Absent
    Versions = {"1", "2"}
    JavaTexts = {java1, java2}
    JavaDir = JavaDir
    Releases <- OneUpgraded
    Raises = Raises
    Unloadable = Unloadable
    Exclusive = FALSE
    e1 = e1
    e2 = e2
    c1 = c1
    c2 = c2
    srcA = srcA
    srcB = srcB
    srcBad = srcBad
    srcTorn = srcTorn
    java1 = java1
    java2 = java2
SYMMETRY AnyLaunch
INVARIANTS
    UnchangedNeverStale
PROPERTIES
    NoSpuriousReinstall
