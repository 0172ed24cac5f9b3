----------------------------- MODULE MCDecafSetup -----------------------------
(* DecafSetup on one or two extensions and a handful of package states. *)
EXTENDS DecafSetup, TLC

CONSTANTS e1, e2, c1, c2, srcA, srcB, srcBad, srcTorn, java1, java2

OneExt  == <<e1>>
TwoExts == <<e1, e2>>

Plugins(a, b) == [c \in Classes |-> IF c = c1 THEN a ELSE b]
Package(v, s, j) == [version |-> v, stubs |-> s, java |-> j]

\* Metadata edits, a plugin dropped, a version bump, a stub that does not compile.
StubInfos == {Package("1", Plugins(srcA, srcA), Absent),
              Package("1", Plugins(srcB, Absent), Absent),
              Package("2", Plugins(srcB, srcBad), Absent)}

\* The ways in which an extension makes decaf_setup fail.
FailingInfos == {Package("1", Plugins(srcA, Absent), java1),
                 Package("1", Plugins(srcB, InvalidType), Absent),
                 Package("1", Plugins(srcA, Absent), JavaDir)}

\* The extra Java source is edited, and nothing else.
JavaInfos == {Package("1", Plugins(srcA, Absent), java1),
              Package("1", Plugins(srcA, Absent), java2)}
\* The first extension is edited, the second one may fail.
StubsAndFailures == [e \in Exts |-> IF e = e1 THEN StubInfos ELSE FailingInfos]
\* One extension is left alone, the other, which has no plugin, gets a new version.
OneUpgraded == [e \in Exts |-> IF e = e1 THEN {Package("1", Plugins(srcA, srcB), Absent)}
                               ELSE {Package(v, Plugins(Absent, Absent), Absent) : v \in Versions}]
OneExtEdits == [e \in Exts |-> StubInfos]
JavaEdits == [e \in Exts |-> JavaInfos]
\* Launches are alike.
AnyLaunch == Permutations(Launches)
=============================================================================
