\* The stubs of an extension are edited; its class may be compiled too late to load.
SPECIFICATION Spec
CONSTANTS
    Launches = {p1}
    Exts = {e1}
    Order <- OneExt
    Base = base
    BaseVersion = baseVersion
    Classes = {c1, c2}
    Sources = {srcA, srcB, srcBad, srcTorn}
    Broken = {srcBad, srcTorn}
    Torn = srcTorn
    InvalidType = InvalidType
    Absent = Absent
    Versions = {"1", "2"}
    JavaTexts = {java1, java2}
    JavaDir = JavaDir
    Releases <- OneExtEdits
    Raises = Raises
    Unloadable = Unloadable
    Exclusive = TRUE
    e1 = e1
    e2 = e2
    c1 = c1
    c2 = c2
    srcA = srcA
    srcB = srcB
    srcBad = srcBad
    srcTorn = srcTorn
    java1 = java1
    java2 = java2
INVARIANTS
    NamesTrueCause
