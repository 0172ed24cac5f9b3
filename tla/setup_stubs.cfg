\* Two extensions, launched, upgraded and crashed in any order; one is edited, the
\* other may make decaf_setup fail.
SPECIFICATION FairSpec
CONSTANTS
    Launches = {p1}
    Exts = {e1, e2}
    Order <- TwoExts
    Base = base
    BaseVersion = baseVersion
    Classes = {c1, c2}
    Sources = {srcA, srcB, srcBad, srcTorn}
    Broken = {srcBad, srcTorn}
    Torn = srcTorn
    InvalidType = InvalidType
    Absent = Absent
    Versions = {"1", "2"}
    JavaTexts = {java1, java2}
    JavaDir = JavaDir
    Releases <- StubsAndFailures
    Raises = Raises
    Unloadable = Unloadable
    Exclusive = TRUE
    e1 = e1
    e2 = e2
    c1 = c1
    c2 = c2
    srcA = srcA
    srcB = srcB
    srcBad = srcBad
    srcTorn = srcTorn
    java1 = java1
    java2 = java2
INVARIANTS
    TypeOK
    QueuedIffLoaded
    NoStaleJar
    JarMatchesVersion
    GoodStubsCompile
    DiagnosisTruthful
    StartAsOneStep
PROPERTIES
    NoSpuriousReinstall
    EventuallyUpToDate
