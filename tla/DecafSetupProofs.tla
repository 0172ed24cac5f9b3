--------------------------- MODULE DecafSetupProofs ---------------------------
(***************************************************************************)
(* For any number of launches, extensions, plugins and package states, with *)
(* upgrades, and with a launch ending anywhere: what each launch has in     *)
(* memory, however launches overlap; what overlapping launches make of a    *)
(* package that is left alone; and, when one launch is set up at a time,    *)
(* that no launch comes up with a stale jar and that the steps of a start   *)
(* together do what Bootstrap takes a start to do.                          *)
(***************************************************************************)
EXTENDS DecafSetup, TLAPS

\* What a launch has in memory at each of its stages.
Stage(p) ==
    /\ pc[p] = "render" =>
          /\ next[p] \in DOMAIN Order
          /\ info[p][Current(p)] # Absent
          /\ \A c \in todo[p] : Declares(info[p][Current(p)], c)
          /\ \A c \in open[p] : info[p][Current(p)].stubs[c] # InvalidType
          /\ open[p] \subseteq todo[p]
    /\ pc[p] # "render" => open[p] = {}
    /\ \A i \in DOMAIN loaded[p] :
          /\ info[p][loaded[p][i]] # Absent
          /\ \E j \in DOMAIN Order : j < next[p] /\ loaded[p][i] = Order[j]
    /\ pc[p] = "up" => queue[p] = <<>>
    /\ pc[p] = "down" => loaded[p] = <<>>
StageInv == \A p \in Launches : Stage(p)

\* The queue asks for the versions of what was loaded.
Queued(p) ==
    \A k \in DOMAIN queue[p] :
        queue[p][k].ext # Base =>
            \E i \in DOMAIN loaded[p] :
                /\ queue[p][k].ext = loaded[p][i]
                /\ queue[p][k].version = PluginVersion(info[p][loaded[p][i]])
QueueInv == \A p \in Launches : Queued(p)

LaunchInv == TypeOK /\ StageInv /\ QueueInv
-----------------------------------------------------------------------------
\* The records the model is built from have their types.
LEMMA RecordTypes ==
    /\ BaseEntry \in Entry
    /\ \A i \in Infos : PluginVersion(i) \in PluginVersions
    /\ \A i \in Infos, e \in Exts : [ext |-> e, version |-> PluginVersion(i)] \in Entry
    /\ NoJar \in Jar /\ NoJars \in Dir
    /\ Absent \notin Infos /\ Absent \notin Jar
<1>1. BaseEntry \in Entry
  BY DEF BaseEntry, Entry, PluginVersions
<1>2. \A i \in Infos : PluginVersion(i) \in PluginVersions
  BY InfosAssumption DEF PluginVersion, PluginVersions, Info
<1>3. \A i \in Infos, e \in Exts : [ext |-> e, version |-> PluginVersion(i)] \in Entry
  BY <1>2 DEF Entry
<1>4. NoJar \in Jar /\ NoJars \in Dir
  BY DEF NoJar, Jar, PluginVersions, Files, NoJars, Dir
<1> QED
  BY <1>1, <1>2, <1>3, <1>4, InfosAssumption

\* Launches begin with nothing in memory.
LEMMA InitLaunchInv == Init => LaunchInv
<1> SUFFICES ASSUME Init PROVE LaunchInv
  OBVIOUS
<1>1. TypeOK
  BY OrderAssumption, InfosAssumption, RecordTypes DEF Init, TypeOK, Files
<1>2. StageInv /\ QueueInv
  BY <1>1 DEF Init, StageInv, Stage, QueueInv, Queued
<1> QED
  BY <1>1, <1>2 DEF LaunchInv

\* Writing one file keeps the generated directories well formed and leaves the
\* other files alone.
LEMMA WriteFile ==
    ASSUME genStubs \in [Exts -> Files], NEW e \in Exts, NEW c \in Classes,
           NEW x \in Sources \cup {Absent}, WriteStub(e, c, x)
    PROVE  /\ genStubs' \in [Exts -> Files]
           /\ genStubs'[e][c] = x
           /\ \A f \in Exts, d \in Classes :
                 f # e \/ d # c => genStubs'[f][d] = genStubs[f][d]
<1> DEFINE g == [genStubs[e] EXCEPT ![c] = x]
<1>1. genStubs' = [genStubs EXCEPT ![e] = g]
  BY DEF WriteStub
<1>2. g \in Files /\ g[c] = x /\ \A d \in Classes \ {c} : g[d] = genStubs[e][d]
  BY DEF Files
<1> HIDE DEF g
<1> QED
  BY <1>1, <1>2

\* What a launch has in memory is its own.
LEMMA OtherLaunch ==
    ASSUME TypeOK, NEW p \in Launches, NEW q \in Launches, q # p, LaunchStep(p)
    PROVE  /\ pc'[q] = pc[q] /\ next'[q] = next[q] /\ info'[q] = info[q]
           /\ todo'[q] = todo[q] /\ open'[q] = open[q] /\ stubDirs'[q] = stubDirs[q]
           /\ queue'[q] = queue[q] /\ loaded'[q] = loaded[q]
           /\ classpath'[q] = classpath[q]
<1> USE DEF TypeOK, Goto, Set
<1>1. CASE Start(p)
  BY <1>1 DEF Start
<1>2. CASE SkipUnloadable(p)
  BY <1>2 DEF SkipUnloadable
<1>3. CASE PluginSetup(p)
  BY <1>3 DEF PluginSetup
<1>4. CASE PluginSetupRaises(p)
  BY <1>4 DEF PluginSetupRaises, SetupAborts
<1>5. CASE OpenStub(p)
  BY <1>5 DEF OpenStub
<1>6. CASE CloseStub(p)
  BY <1>6 DEF CloseStub
<1>7. CASE RenderRaises(p)
  BY <1>7 DEF RenderRaises, SetupAborts
<1>8. CASE QueueExtension(p)
  BY <1>8 DEF QueueExtension
<1>9. CASE CopyTreeRaises(p)
  BY <1>9 DEF CopyTreeRaises, SetupAborts
<1>10. CASE FinishSetup(p)
  BY <1>10 DEF FinishSetup
<1>11. CASE StartJvm(p)
  BY <1>11 DEF StartJvm
<1>12. CASE Uninstall(p)
  BY <1>12 DEF Uninstall, launchVars
<1>13. CASE Install(p)
  BY <1>13 DEF Install
<1>14. CASE FinishInstall(p)
  BY <1>14 DEF FinishInstall
<1>15. CASE Exit(p)
  BY <1>15 DEF Exit
<1> QED
  BY <1>1, <1>2, <1>3, <1>4, <1>5, <1>6, <1>7, <1>8, <1>9, <1>10, <1>11, <1>12, <1>13, <1>14, <1>15
  DEF LaunchStep

\* Every step of a launch preserves the types.
LEMMA StepTypeOK ==
    ASSUME LaunchInv, NEW p \in Launches, LaunchStep(p)
    PROVE  TypeOK'
<1> USE RecordTypes, OrderAssumption, TextAssumption, InfosAssumption
    DEF LaunchInv, TypeOK, Goto, Set, Current, diskVars
<1>1. CASE Start(p)
  BY <1>1 DEF Start
<1>2. CASE SkipUnloadable(p)
  BY <1>2 DEF SkipUnloadable, AtEntry
<1>3. CASE PluginSetup(p)
  BY <1>3 DEF PluginSetup, AtEntry
<1>4. CASE PluginSetupRaises(p)
  BY <1>4 DEF PluginSetupRaises, SetupAborts
<1>5. CASE OpenStub(p)
  <2>1. Current(p) \in Exts
    BY <1>5 DEF OpenStub, StageInv, Stage
  <2>2. PICK c \in todo[p] : WriteStub(Current(p), c, Torn) /\ open' = Set(open, p, {c})
    BY <1>5 DEF OpenStub
  <2>3. genStubs' \in [Exts -> Files]
    BY <2>1, <2>2, WriteFile
  <2> QED
    BY <1>5, <2>2, <2>3 DEF OpenStub
<1>6. CASE CloseStub(p)
  <2>1. Current(p) \in Exts /\ info[p][Current(p)] \in Info
    BY <1>6 DEF CloseStub, StageInv, Stage
  <2>2. PICK c \in open[p] :
            /\ WriteStub(Current(p), c, info[p][Current(p)].stubs[c])
            /\ todo' = Set(todo, p, todo[p] \ {c})
    BY <1>6 DEF CloseStub
  <2>3. info[p][Current(p)].stubs[c] \in Sources \cup {Absent} /\ c \in Classes
    BY <1>6, <2>1, <2>2 DEF CloseStub, StageInv, Stage, Info
  <2>4. genStubs' \in [Exts -> Files]
    BY <2>1, <2>2, <2>3, WriteFile
  <2> QED
    BY <1>6, <2>2, <2>4 DEF CloseStub
<1>7. CASE RenderRaises(p)
  BY <1>7 DEF RenderRaises, SetupAborts
<1>8. CASE QueueExtension(p)
  <2>1. Current(p) \in Exts /\ info[p][Current(p)] \in Infos
    BY <1>8 DEF QueueExtension, StageInv, Stage
  <2> DEFINE i == info[p][Current(p)]
             x == [ext |-> Current(p), version |-> PluginVersion(i)]
  <2>2. x \in Entry
    BY <2>1
  <2>3. queue' \in [Launches -> Seq(Entry)] /\ loaded' \in [Launches -> Seq(Exts)]
    BY <1>8, <2>1, <2>2 DEF QueueExtension, Embedded
  <2>4. i.java # JavaDir => i.java \in JavaTexts \cup {Absent}
    BY <2>1 DEF Info
  <2>5. genJava' \in [Exts -> JavaTexts \cup {Absent}]
    BY <1>8, <2>1, <2>4 DEF QueueExtension, Embedded
  <2>6. next' \in [Launches -> 1 .. Len(Order) + 1]
    <3>1. next[p] \in 1 .. Len(Order) /\ next' = Set(next, p, next[p] + 1)
      BY <1>8 DEF QueueExtension, StageInv, Stage
    <3> QED
      BY <3>1
  <2>7. /\ UNCHANGED <<declared, genStubs, installed, info, todo, open, stubDirs, classpath>>
        /\ pc' = Set(pc, p, "setup")
    BY <1>8 DEF QueueExtension
  <2> HIDE DEF i, x
  <2> QED
    BY <2>3, <2>5, <2>6, <2>7
<1>9. CASE CopyTreeRaises(p)
  BY <1>9 DEF CopyTreeRaises, SetupAborts
<1>10. CASE FinishSetup(p)
  BY <1>10 DEF FinishSetup
<1>11. CASE StartJvm(p)
  BY <1>11 DEF StartJvm
<1>12. CASE Uninstall(p)
  <2>1. Head(queue[p]) \in Entry
    BY <1>12 DEF Uninstall, AtInstall
  <2>2. installed' \in Dir
    BY <1>12, <2>1 DEF Uninstall, Entry, Dir
  <2> QED
    BY <1>12, <2>2 DEF Uninstall, launchVars
<1>13. CASE Install(p)
  <2> DEFINE x == Head(queue[p])
  <2>1. x \in Entry /\ queue' \in [Launches -> Seq(Entry)]
    BY <1>13 DEF Install, AtInstall
  <2>2. Built(x.ext, x.version) \in Jar
    BY <2>1 DEF Built, Entry, Jar, NoJar
  <2>3. installed' \in Dir
    <3>1. x.ext \in Exts \cup {Base}
      BY <2>1 DEF Entry
    <3> DEFINE j == Built(x.ext, x.version)
    <3>2. CASE installed' = installed
      BY <3>2
    <3>3. CASE installed' = Set(installed, x.ext, j)
      <4>1. j \in Jar \cup {Absent}
        BY <2>2
      <4> HIDE DEF x, j
      <4>2. \A y \in Exts \cup {Base}, k \in Jar \cup {Absent} :
                Set(installed, y, k) \in Dir
        BY DEF Dir
      <4> QED
        BY <3>1, <3>3, <4>1, <4>2
    <3> QED
      BY <1>13, <3>2, <3>3 DEF Install
  <2> QED
    BY <1>13, <2>1, <2>3 DEF Install
<1>14. CASE FinishInstall(p)
  BY <1>14 DEF FinishInstall
<1>15. CASE Exit(p)
  BY <1>15 DEF Exit
<1> QED
  BY <1>1, <1>2, <1>3, <1>4, <1>5, <1>6, <1>7, <1>8, <1>9, <1>10, <1>11, <1>12, <1>13, <1>14, <1>15
  DEF LaunchStep

\* An entry point is visited once: the extension being set up is not loaded yet.
LEMMA CurrentNotLoaded ==
    ASSUME LaunchInv, NEW p \in Launches, next[p] \in DOMAIN Order,
           NEW i \in DOMAIN loaded[p]
    PROVE  loaded[p][i] # Current(p)
<1>1. PICK j \in DOMAIN Order : j < next[p] /\ loaded[p][i] = Order[j]
  BY DEF LaunchInv, StageInv, Stage
<1>2. j # next[p]
  BY <1>1, OrderAssumption DEF LaunchInv, TypeOK
<1> QED
  BY <1>1, <1>2, OrderAssumption DEF Current

\* A step keeps what each stage has in memory.
LEMMA StepStage ==
    ASSUME LaunchInv, TypeOK', NEW p \in Launches, LaunchStep(p)
    PROVE  StageInv'
<1>other. ASSUME NEW q \in Launches, q # p PROVE Stage(q)'
  BY <1>other, OtherLaunch DEF LaunchInv, StageInv, Stage, Current
<1>0. SUFFICES Stage(p)'
  BY <1>other DEF StageInv
<1>types. /\ pc \in [Launches -> {"down", "setup", "render", "jvm", "install", "up"}]
          /\ next \in [Launches -> 1 .. Len(Order) + 1]
          /\ info \in [Launches -> [Exts -> Infos \cup {Absent}]]
          /\ todo \in [Launches -> SUBSET Classes] /\ open \in [Launches -> SUBSET Classes]
          /\ queue \in [Launches -> Seq(Entry)] /\ loaded \in [Launches -> Seq(Exts)]
          /\ Len(Order) \in Nat /\ DOMAIN Order = 1 .. Len(Order)
          /\ \A j \in DOMAIN Order : Order[j] \in Exts
  BY OrderAssumption DEF LaunchInv, TypeOK
<1>ih. Stage(p)
  BY DEF LaunchInv, StageInv
<1>1. CASE PluginSetup(p)
  <2> DEFINE e == Current(p)
  <2>1. /\ pc[p] = "setup" /\ next[p] \in DOMAIN Order /\ e \in Exts
    BY <1>1, <1>types DEF PluginSetup, AtEntry, Current
  <2>2. PICK d \in Infos : d = declared[e]
    BY <1>1 DEF PluginSetup
  <2>3. /\ pc'[p] = "render" /\ UNCHANGED <<next, open, queue, loaded>>
        /\ info'[p] = [info[p] EXCEPT ![e] = d]
        /\ todo'[p] = {c \in Classes : d.stubs[c] # Absent}
    BY <1>1, <1>types, <2>2 DEF PluginSetup, Goto, Set
  <2>4. info'[p][e] = d /\ \A f \in Exts \ {e} : info'[p][f] = info[p][f]
    BY <1>types, <2>1, <2>3
  <2>5. d # Absent
    BY <2>2, RecordTypes
  <2>6. open[p] = {}
    BY <1>ih, <2>1 DEF Stage
  <2>7. Current(p)' = e
    BY <2>3 DEF Current
  <2>8. \A i \in DOMAIN loaded[p] : info'[p][loaded[p][i]] # Absent
    BY <1>types, <1>ih, <2>4, <2>5 DEF Stage
  <2> HIDE DEF e
  <2> QED
    BY <1>ih, <2>1, <2>3, <2>4, <2>5, <2>6, <2>7, <2>8 DEF Stage, Declares
<1>2. CASE OpenStub(p)
  <2>1. PICK c \in todo[p] : info[p][Current(p)].stubs[c] # InvalidType /\ open' = Set(open, p, {c})
    BY <1>2 DEF OpenStub
  <2>2. open'[p] = {c} /\ UNCHANGED <<pc, next, info, todo, queue, loaded>> /\ pc[p] = "render"
    BY <1>2, <1>types, <2>1 DEF OpenStub, Set
  <2> QED
    BY <1>ih, <2>1, <2>2 DEF Stage, Current
<1>3. CASE CloseStub(p)
  <2>1. /\ todo'[p] \subseteq todo[p] /\ open'[p] = {} /\ pc[p] = "render"
        /\ UNCHANGED <<pc, next, info, queue, loaded>>
    BY <1>3, <1>types DEF CloseStub, Set
  <2> QED
    BY <1>ih, <2>1 DEF Stage, Current
<1>4. CASE QueueExtension(p)
  <2>1. /\ pc[p] = "render" /\ pc'[p] = "setup" /\ next'[p] = next[p] + 1
        /\ loaded'[p] = Append(loaded[p], Current(p)) /\ UNCHANGED <<info, open>> /\ todo[p] = {}
    BY <1>4, <1>types DEF QueueExtension, Goto, Set
  <2>2. open[p] = {} /\ next[p] \in DOMAIN Order /\ info[p][Current(p)] # Absent
    BY <1>ih, <2>1 DEF Stage
  <2>3. \A i \in DOMAIN loaded'[p] :
            loaded'[p][i] = Current(p) \/ (i \in DOMAIN loaded[p] /\ loaded'[p][i] = loaded[p][i])
    BY <1>types, <2>1
  <2>4. \A j \in DOMAIN Order : j < next[p] => j < next[p] + 1
    BY <1>types
  <2>5. next[p] < next[p] + 1
    BY <1>types
  <2> QED
    BY <1>ih, <2>1, <2>2, <2>3, <2>4, <2>5 DEF Stage, Current
<1>5. CASE SkipUnloadable(p)
  <2>1. /\ pc[p] = "setup" /\ next'[p] = next[p] + 1 /\ UNCHANGED <<pc, info, todo, open, queue, loaded>>
    BY <1>5, <1>types DEF SkipUnloadable, AtEntry, Set
  <2>2. \A j \in DOMAIN Order : j < next[p] => j < next[p] + 1
    BY <1>types
  <2> QED
    BY <1>ih, <2>1, <2>2 DEF Stage
<1>6. CASE Exit(p)
  <2>1. pc'[p] = "down" /\ open'[p] = {} /\ loaded'[p] = <<>>
    BY <1>6, <1>types DEF Exit, Goto, Set
  <2> QED
    BY <2>1 DEF Stage
<1>7. CASE \/ Start(p) \/ PluginSetupRaises(p) \/ RenderRaises(p) \/ CopyTreeRaises(p) \/ FinishSetup(p)
           \/ StartJvm(p) \/ Uninstall(p) \/ Install(p) \/ FinishInstall(p)
  <2>1. UNCHANGED <<next, info, todo, open, loaded>>
    BY <1>7
    DEF Start, PluginSetupRaises, RenderRaises, CopyTreeRaises, SetupAborts, FinishSetup, StartJvm,
        Uninstall, Install, FinishInstall, launchVars
  <2>2. /\ pc'[p] \in {"setup", "jvm", "install", "up"}
        /\ pc'[p] = "up" => queue'[p] = <<>>
    BY <1>7, <1>types
    DEF Start, PluginSetupRaises, RenderRaises, CopyTreeRaises, SetupAborts, FinishSetup, StartJvm,
        Uninstall, Install, FinishInstall, AtInstall, launchVars, Goto, Set
  <2>3. open[p] = {}
    <3>1. open[p] \subseteq todo[p]
      BY <1>ih DEF Stage
    <3>2. pc[p] # "render" \/ open[p] = {} \/ todo[p] = {}
      BY <1>7
      DEF Start, PluginSetupRaises, AtEntry, RenderRaises, CopyTreeRaises, FinishSetup, StartJvm,
          Uninstall, Install, AtInstall, FinishInstall
    <3> QED
      BY <1>ih, <3>1, <3>2 DEF Stage
  <2> QED
    BY <1>ih, <2>1, <2>2, <2>3 DEF Stage
<1> QED
  BY <1>1, <1>2, <1>3, <1>4, <1>5, <1>6, <1>7 DEF LaunchStep

\* The queue keeps asking for the versions of what was loaded.
LEMMA StepQueue ==
    ASSUME LaunchInv, NEW p \in Launches, LaunchStep(p)
    PROVE  QueueInv'
<1>other. ASSUME NEW q \in Launches, q # p PROVE Queued(q)'
  BY <1>other, OtherLaunch DEF LaunchInv, QueueInv, Queued
<1>0. SUFFICES Queued(p)'
  BY <1>other DEF QueueInv
<1>types. /\ queue \in [Launches -> Seq(Entry)] /\ loaded \in [Launches -> Seq(Exts)]
          /\ info \in [Launches -> [Exts -> Infos \cup {Absent}]]
  BY DEF LaunchInv, TypeOK
<1>ih. Queued(p)
  BY DEF LaunchInv, QueueInv
<1> USE DEF Queued, Goto, Set
<1>1. CASE PluginSetup(p)
  <2>1. next[p] \in DOMAIN Order
    BY <1>1, OrderAssumption DEF PluginSetup, AtEntry, LaunchInv, TypeOK
  <2>2. \A i \in DOMAIN loaded[p] : info'[p][loaded[p][i]] = info[p][loaded[p][i]]
    BY <1>1, <2>1, <1>types, CurrentNotLoaded DEF PluginSetup
  <2>3. UNCHANGED <<queue, loaded>>
    BY <1>1 DEF PluginSetup
  <2>4. \A k \in DOMAIN queue[p] : queue[p][k].ext # Base =>
            \E i \in DOMAIN loaded[p] :
                /\ queue[p][k].ext = loaded[p][i]
                /\ queue[p][k].version = PluginVersion(info'[p][loaded[p][i]])
    BY <1>ih, <2>2
  <2> QED
    BY <2>3, <2>4
<1>2. CASE QueueExtension(p)
  <2> DEFINE x == [ext |-> Current(p), version |-> PluginVersion(info[p][Current(p)])]
  <2>1. /\ queue'[p] = Append(queue[p], x) /\ queue[p] \in Seq(Entry)
        /\ loaded'[p] = Append(loaded[p], Current(p)) /\ loaded[p] \in Seq(Exts)
        /\ UNCHANGED info
    BY <1>2, <1>types DEF QueueExtension, Embedded
  <2>2. x.ext = Current(p) /\ x.version = PluginVersion(info[p][Current(p)])
    OBVIOUS
  <2>inv. Queued(p)
    BY <1>ih
  <2> HIDE DEF x, Current
  <2>3. \A k \in DOMAIN queue'[p] :
            \/ k \in DOMAIN queue[p] /\ queue'[p][k] = queue[p][k]
            \/ queue'[p][k] = x
    BY <2>1
  <2>4. /\ \A i \in DOMAIN loaded[p] : i \in DOMAIN loaded'[p] /\ loaded'[p][i] = loaded[p][i]
        /\ Len(loaded[p]) + 1 \in DOMAIN loaded'[p]
        /\ loaded'[p][Len(loaded[p]) + 1] = Current(p)
    BY <2>1
  <2>5. \A k \in DOMAIN queue'[p] : queue'[p][k].ext # Base =>
            \E i \in DOMAIN loaded'[p] :
                /\ queue'[p][k].ext = loaded'[p][i]
                /\ queue'[p][k].version = PluginVersion(info[p][loaded'[p][i]])
    <3> SUFFICES ASSUME NEW k \in DOMAIN queue'[p], queue'[p][k].ext # Base
                 PROVE  \E i \in DOMAIN loaded'[p] :
                            /\ queue'[p][k].ext = loaded'[p][i]
                            /\ queue'[p][k].version = PluginVersion(info[p][loaded'[p][i]])
      OBVIOUS
    <3>1. CASE queue'[p][k] = x
      BY <2>2, <2>4, <3>1
    <3>2. CASE k \in DOMAIN queue[p] /\ queue'[p][k] = queue[p][k]
      <4>1. PICK i \in DOMAIN loaded[p] :
                /\ queue[p][k].ext = loaded[p][i]
                /\ queue[p][k].version = PluginVersion(info[p][loaded[p][i]])
        BY <2>inv, <3>2
      <4> QED
        BY <2>4, <3>2, <4>1
    <3> QED
      BY <2>3, <3>1, <3>2
  <2> QED
    BY <2>1, <2>5
<1>3. CASE Install(p)
  <2>1. /\ queue[p] # <<>> /\ queue'[p] = Tail(queue[p]) /\ queue[p] \in Seq(Entry)
        /\ UNCHANGED <<info, loaded>>
    BY <1>3, <1>types DEF Install, AtInstall
  <2>2. \A k \in DOMAIN queue'[p] :
            k + 1 \in DOMAIN queue[p] /\ queue'[p][k] = queue[p][k + 1]
    BY <2>1
  <2>inv. Queued(p)
    BY <1>ih
  <2>3. \A k \in DOMAIN queue'[p] :
            queue'[p][k].ext # Base =>
                \E i \in DOMAIN loaded[p] :
                    /\ queue'[p][k].ext = loaded[p][i]
                    /\ queue'[p][k].version = PluginVersion(info[p][loaded[p][i]])
    <3> SUFFICES ASSUME NEW k \in DOMAIN queue'[p], queue'[p][k].ext # Base
                 PROVE  \E i \in DOMAIN loaded[p] :
                            /\ queue'[p][k].ext = loaded[p][i]
                            /\ queue'[p][k].version = PluginVersion(info[p][loaded[p][i]])
      OBVIOUS
    <3>1. k + 1 \in DOMAIN queue[p] /\ queue'[p][k] = queue[p][k + 1]
      BY <2>2
    <3> QED
      BY <2>inv, <3>1
  <2> QED
    BY <2>1, <2>3
<1>4. CASE Start(p)
  <2>1. queue'[p] = <<BaseEntry>> /\ UNCHANGED <<info, loaded>>
    BY <1>4, <1>types DEF Start
  <2> QED
    BY <2>1 DEF BaseEntry
<1>5. CASE Exit(p)
  <2>1. queue'[p] = <<>>
    BY <1>5, <1>types DEF Exit
  <2> QED
    BY <2>1
<1>6. CASE \/ SkipUnloadable(p) \/ PluginSetupRaises(p) \/ OpenStub(p) \/ CloseStub(p) \/ RenderRaises(p)
           \/ CopyTreeRaises(p) \/ FinishSetup(p) \/ StartJvm(p) \/ Uninstall(p) \/ FinishInstall(p)
  <2>1. UNCHANGED <<queue, info, loaded>>
    BY <1>6
    DEF SkipUnloadable, PluginSetupRaises, OpenStub, CloseStub, RenderRaises, CopyTreeRaises,
        SetupAborts, FinishSetup, StartJvm, Uninstall, FinishInstall, launchVars
  <2> QED
    BY <1>ih, <2>1
<1> QED
  BY <1>1, <1>2, <1>3, <1>4, <1>5, <1>6 DEF LaunchStep

\* What launches have in memory is consistent, however they overlap.
THEOREM LaunchInductive == Spec => []LaunchInv
<1>1. ASSUME LaunchInv, [Next]_vars PROVE LaunchInv'
  <2>1. CASE \E p \in Launches : LaunchStep(p)
    <3>1. PICK p \in Launches : LaunchStep(p)
      BY <2>1
    <3>2. TypeOK'
      BY <1>1, <3>1, StepTypeOK
    <3> QED
      BY <1>1, <3>1, <3>2, StepStage, StepQueue DEF LaunchInv
  <2>2. CASE \/ UNCHANGED vars
             \/ \E e \in Exts : Upgrade(e)
    <3>1. UNCHANGED <<diskVars, launchVars>>
      BY <2>2 DEF Upgrade, vars
    <3>2. declared' \in [Exts -> Infos \cup {Raises, Unloadable}]
      <4>1. declared \in [Exts -> Infos \cup {Raises, Unloadable}]
        BY <1>1 DEF LaunchInv, TypeOK
      <4>2. ASSUME NEW e \in Exts, Upgrade(e)
            PROVE  declared' \in [Exts -> Infos \cup {Raises, Unloadable}]
        BY <4>1, <4>2, InfosAssumption DEF Upgrade
      <4> QED
        BY <2>2, <4>1, <4>2 DEF vars
    <3> QED
      BY <1>1, <3>1, <3>2
      DEF LaunchInv, TypeOK, StageInv, Stage, QueueInv, Queued, diskVars, launchVars, Current
  <2> QED
    BY <1>1, <2>1, <2>2 DEF Next
<1> QED
  BY InitLaunchInv, <1>1, PTL DEF Spec

\* Every variable has its type, however launches overlap.
THEOREM TypeCorrect == Spec => []TypeOK
  BY LaunchInductive, PTL DEF LaunchInv
-----------------------------------------------------------------------------
\* A sequence that begins with b and goes on as f does.
LEMMA PrefixedSeq ==
    ASSUME NEW S, NEW q \in Seq(S), NEW b \in S, NEW n \in Nat, NEW f \in [1 .. n -> S]
    PROVE  q = <<b>> \o f <=> /\ Len(q) = n + 1 /\ q[1] = b
                              /\ \A i \in 1 .. n : q[i + 1] = f[i]
<1> DEFINE r == <<b>> \o f
<1>1. f \in Seq(S) /\ Len(f) = n
  OBVIOUS
<1>2. r \in Seq(S) /\ Len(r) = n + 1 /\ r[1] = b /\ \A i \in 1 .. n : r[i + 1] = f[i]
  BY <1>1
<1> HIDE DEF r
<1>3. ASSUME Len(q) = n + 1, q[1] = b, \A i \in 1 .. n : q[i + 1] = f[i]
      PROVE  q = r
  <2>1. \A k \in 1 .. n + 1 : k = 1 \/ (k - 1 \in 1 .. n /\ (k - 1) + 1 = k)
    OBVIOUS
  <2>2. \A k \in 1 .. n + 1 : q[k] = r[k]
    BY <1>2, <1>3, <2>1
  <2>3. Len(q) = Len(r)
    BY <1>2, <1>3
  <2> QED
    BY <1>2, <1>3, <2>2, <2>3
<1> QED
  BY <1>2, <1>3 DEF r

\* The queue of a launch that has not got to the JVM, entry by entry.
Asked(p, i) == [ext |-> loaded[p][i], version |-> PluginVersion(info[p][loaded[p][i]])]
Exact(p) ==
    pc[p] \in {"setup", "render", "jvm"} =>
        /\ Len(queue[p]) = Len(loaded[p]) + 1
        /\ queue[p][1] = BaseEntry
        /\ \A i \in 1 .. Len(loaded[p]) : queue[p][i + 1] = Asked(p, i)
ExactInv == \A p \in Launches : Exact(p)

\* ExactInv says of each entry what QueuedIffLoaded says of the sequence.
LEMMA ExactIsQueued == LaunchInv /\ ExactInv => QueuedIffLoaded
<1> SUFFICES ASSUME LaunchInv, ExactInv, NEW p \in Launches, pc[p] \in {"setup", "render", "jvm"}
             PROVE  queue[p] = <<BaseEntry>> \o [i \in DOMAIN loaded[p] |-> Asked(p, i)]
  BY DEF QueuedIffLoaded, Asked
<1> DEFINE n == Len(loaded[p])
           f == [i \in 1 .. n |-> Asked(p, i)]
<1>1. /\ loaded[p] \in Seq(Exts) /\ queue[p] \in Seq(Entry)
      /\ info \in [Launches -> [Exts -> Infos \cup {Absent}]]
  BY DEF LaunchInv, TypeOK
<1>2. n \in Nat /\ DOMAIN loaded[p] = 1 .. n
  BY <1>1
<1>3. \A i \in 1 .. n : Asked(p, i) \in Entry
  <2> SUFFICES ASSUME NEW i \in 1 .. n PROVE Asked(p, i) \in Entry
    OBVIOUS
  <2>1. loaded[p][i] \in Exts /\ info[p][loaded[p][i]] # Absent
    BY <1>1, <1>2 DEF LaunchInv, StageInv, Stage
  <2> QED
    BY <1>1, <2>1, RecordTypes DEF Asked
<1>4. f \in [1 .. n -> Entry]
  BY <1>3
<1>5. /\ Len(queue[p]) = n + 1 /\ queue[p][1] = BaseEntry
      /\ \A i \in 1 .. n : queue[p][i + 1] = f[i]
  BY DEF ExactInv, Exact
<1> HIDE DEF n, f
<1>6. queue[p] = <<BaseEntry>> \o f
  BY <1>1, <1>2, <1>4, <1>5, RecordTypes, PrefixedSeq
<1> QED
  BY <1>2, <1>6 DEF f

\* The queue and LoadedPlugins grow together.
LEMMA StepExact ==
    ASSUME LaunchInv, ExactInv, NEW p \in Launches, LaunchStep(p)
    PROVE  ExactInv'
<1>other. ASSUME NEW q \in Launches, q # p PROVE Exact(q)'
  BY <1>other, OtherLaunch DEF LaunchInv, ExactInv, Exact, Asked
<1>0. SUFFICES Exact(p)'
  BY <1>other DEF ExactInv
<1>types. /\ queue \in [Launches -> Seq(Entry)] /\ loaded \in [Launches -> Seq(Exts)]
          /\ info \in [Launches -> [Exts -> Infos \cup {Absent}]]
          /\ pc \in [Launches -> {"down", "setup", "render", "jvm", "install", "up"}]
  BY DEF LaunchInv, TypeOK
<1>ih. Exact(p)
  BY DEF ExactInv
<1>1. CASE Start(p)
  <2>1. loaded[p] = <<>> /\ loaded' = loaded
    BY <1>1 DEF Start, LaunchInv, StageInv, Stage
  <2>2. queue'[p] = <<BaseEntry>>
    BY <1>1, <1>types DEF Start, Set
  <2> QED
    BY <2>1, <2>2 DEF Exact
<1>2. CASE PluginSetup(p)
  <2>1. next[p] \in DOMAIN Order
    BY <1>2, OrderAssumption DEF PluginSetup, AtEntry, LaunchInv, TypeOK
  <2>2. \A i \in DOMAIN loaded[p] : info'[p][loaded[p][i]] = info[p][loaded[p][i]]
    BY <1>2, <2>1, <1>types, CurrentNotLoaded DEF PluginSetup
  <2>3. \A i \in 1 .. Len(loaded[p]) : Asked(p, i)' = Asked(p, i)
    BY <1>2, <2>2, <1>types DEF PluginSetup, Asked
  <2>4. UNCHANGED <<queue, loaded>> /\ pc[p] = "setup"
    BY <1>2 DEF PluginSetup, AtEntry
  <2> QED
    BY <1>ih, <2>3, <2>4 DEF Exact
<1>3. CASE QueueExtension(p)
  <2> DEFINE x == [ext |-> Current(p), version |-> PluginVersion(info[p][Current(p)])]
             n == Len(loaded[p])
  <2>1. /\ queue'[p] = Append(queue[p], x) /\ loaded'[p] = Append(loaded[p], Current(p))
        /\ info' = info /\ pc[p] = "render"
    BY <1>3, <1>types DEF QueueExtension, Embedded, Set
  <2>2. /\ n \in Nat /\ Len(queue[p]) = n + 1 /\ queue[p][1] = BaseEntry
        /\ \A i \in 1 .. n : queue[p][i + 1] = Asked(p, i)
    <3>1. n \in Nat
      BY <1>types
    <3> QED
      BY <1>ih, <2>1, <3>1 DEF Exact
  <2>x. x = [ext |-> Current(p), version |-> PluginVersion(info[p][Current(p)])]
    OBVIOUS
  <2> HIDE DEF x
  <2>3. /\ Len(queue'[p]) = n + 2 /\ Len(loaded'[p]) = n + 1
        /\ queue'[p][1] = BaseEntry /\ queue'[p][n + 2] = x
        /\ \A i \in 1 .. n : queue'[p][i + 1] = queue[p][i + 1]
    BY <1>types, <2>1, <2>2
  <2>4. loaded'[p][n + 1] = Current(p) /\ \A i \in 1 .. n : loaded'[p][i] = loaded[p][i]
    BY <1>types, <2>1
  <2>5. [ext |-> loaded'[p][n + 1], version |-> PluginVersion(info'[p][loaded'[p][n + 1]])] = x
    BY <2>x, <2>1, <2>4
  <2>6. \A i \in 1 .. n + 1 : queue'[p][i + 1] = Asked(p, i)'
    <3> SUFFICES ASSUME NEW i \in 1 .. n + 1 PROVE queue'[p][i + 1] = Asked(p, i)'
      OBVIOUS
    <3>1. CASE i = n + 1
      <4>1. Asked(p, i)' = x
        BY <2>5, <3>1 DEF Asked
      <4>2. i + 1 = n + 2
        BY <2>2, <3>1
      <4> QED
        BY <2>3, <4>1, <4>2
    <3>2. CASE i \in 1 .. n
      <4>1. Asked(p, i)' = Asked(p, i)
        BY <2>1, <2>4, <3>2 DEF Asked
      <4> QED
        BY <2>2, <2>3, <3>2, <4>1
    <3> QED
      BY <2>2, <3>1, <3>2
  <2> HIDE DEF n
  <2> QED
    BY <2>2, <2>3, <2>6 DEF Exact
<1>4. CASE \/ SkipUnloadable(p) \/ PluginSetupRaises(p) \/ OpenStub(p) \/ CloseStub(p) \/ RenderRaises(p)
           \/ CopyTreeRaises(p) \/ FinishSetup(p)
  <2>1. pc[p] \in {"setup", "render"} /\ UNCHANGED <<queue, loaded, info>>
    BY <1>4 DEF SkipUnloadable, AtEntry, PluginSetupRaises, SetupAborts, OpenStub, CloseStub, RenderRaises,
       CopyTreeRaises, FinishSetup
  <2> QED
    BY <1>ih, <2>1 DEF Exact, Asked
<1>5. CASE \/ StartJvm(p) \/ Uninstall(p) \/ Install(p) \/ FinishInstall(p) \/ Exit(p)
  <2>1. pc'[p] \in {"install", "up", "down"}
    BY <1>5, <1>types DEF StartJvm, Uninstall, Install, AtInstall, FinishInstall, Exit, Goto, Set, launchVars
  <2> QED
    BY <2>1 DEF Exact
<1> QED
  BY <1>1, <1>2, <1>3, <1>4, <1>5 DEF LaunchStep

\* Every launch keeps the two together, however launches overlap.
THEOREM ExactInductive == Spec => []ExactInv
<1>1. Init => ExactInv
  BY DEF Init, ExactInv, Exact
<1>2. ASSUME LaunchInv, ExactInv, [Next]_vars PROVE ExactInv'
  <2>1. CASE \E p \in Launches : LaunchStep(p)
    BY <1>2, <2>1, StepExact
  <2>2. CASE UNCHANGED launchVars
    BY <1>2, <2>2 DEF ExactInv, Exact, Asked, launchVars
  <2> QED
    BY <1>2, <2>1, <2>2 DEF Next, Upgrade, vars
<1> QED
  BY <1>1, <1>2, LaunchInductive, PTL DEF Spec

\* An extension decaf_register will look for was queued under its own version,
\* and nothing else was, whatever fails on the way and whoever else is launching.
THEOREM QueuedWithLoaded == Spec => []QueuedIffLoaded
  BY LaunchInductive, ExactInductive, ExactIsQueued, PTL
-----------------------------------------------------------------------------
\* The jars of extensions are recorded under the version of some package.
VersionInv ==
    \A e \in Exts : installed[e] # Absent =>
        installed[e].version \in
            [version : Versions, hash : [Classes -> Sources \cup {InvalidType, Absent}]]

\* The installer records the versions that the queue asks for, and those are the
\* versions of packages.
LEMMA StepVersion ==
    ASSUME LaunchInv, VersionInv, [Next]_vars
    PROVE  VersionInv'
<1>1. ASSUME NEW p \in Launches, Install(p), NEW e \in Exts, installed'[e] # Absent,
             installed'[e] # installed[e]
      PROVE  installed'[e].version \in
                [version : Versions, hash : [Classes -> Sources \cup {InvalidType, Absent}]]
  <2>1. /\ queue[p] \in Seq(Entry) /\ queue[p] # <<>>
        /\ installed \in [Exts \cup {Base} -> Jar \cup {Absent}]
    BY <1>1 DEF LaunchInv, TypeOK, Dir, Install, AtInstall
  <2>2. PICK x \in Entry : x = Head(queue[p])
    BY <2>1
  <2>3. 1 \in DOMAIN queue[p] /\ x = queue[p][1]
    BY <2>1, <2>2
  <2>4. e = x.ext /\ e # Base /\ installed'[e] = Built(e, x.version)
    BY <1>1, <2>1, <2>2, BaseAssumption DEF Install, Set
  <2>5. PICK i \in DOMAIN loaded[p] : x.version = PluginVersion(info[p][loaded[p][i]])
    BY <2>3, <2>4 DEF LaunchInv, QueueInv, Queued
  <2>6. info[p][loaded[p][i]] \in Info
    BY <2>5, InfosAssumption DEF LaunchInv, StageInv, Stage, TypeOK
  <2>7. installed'[e].version = x.version
    BY <2>4 DEF Built
  <2> QED
    BY <2>5, <2>6, <2>7 DEF PluginVersion, Info
<1>2. ASSUME NEW p \in Launches, LaunchStep(p), ~Install(p), NEW e \in Exts, installed'[e] # Absent
      PROVE  installed'[e] = installed[e]
  <2>1. CASE Uninstall(p)
    BY <1>2, <2>1 DEF Uninstall, Set, LaunchInv, TypeOK
  <2>2. CASE ~Uninstall(p)
    BY <1>2, <2>2
    DEF LaunchStep, Start, SkipUnloadable, PluginSetup, PluginSetupRaises, OpenStub, CloseStub,
        RenderRaises, QueueExtension, CopyTreeRaises, FinishSetup, StartJvm, FinishInstall,
        Exit, SetupAborts, diskVars
  <2> QED
    BY <2>1, <2>2
<1>3. CASE \E p \in Launches : LaunchStep(p)
  BY <1>1, <1>2, <1>3 DEF VersionInv
<1>4. CASE UNCHANGED installed
  BY <1>4 DEF VersionInv
<1> QED
  BY <1>3, <1>4 DEF Next, Upgrade, vars, diskVars

\* A jar is thrown away only for a package it was not compiled for.
THEOREM OnlyOutdatedRemoved == Spec => NoSpuriousReinstall
<1> DEFINE Removed(e) == installed[e] # Absent /\ installed'[e] = Absent
           Outdated(p, e) == /\ e \in LoadedExts(p)
                             /\ \/ info[p][e].stubs # installed[e].version.hash
                                \/ info[p][e].version # installed[e].version.version
<1>1. Init => VersionInv
  BY DEF Init, VersionInv, NoJars
<1>2. Spec => []VersionInv
  BY <1>1, LaunchInductive, StepVersion, PTL DEF Spec
<1>3. ASSUME LaunchInv, VersionInv, NEW p \in Launches, Uninstall(p), NEW e \in Exts, Removed(e)
      PROVE  Outdated(p, e)
  <2>1. /\ queue[p] \in Seq(Entry) /\ queue[p] # <<>>
        /\ installed \in [Exts \cup {Base} -> Jar \cup {Absent}]
    BY <1>3 DEF LaunchInv, TypeOK, Dir, Uninstall, AtInstall
  <2>2. PICK x \in Entry : x = Head(queue[p])
    BY <2>1
  <2>3. 1 \in DOMAIN queue[p] /\ x = queue[p][1]
    BY <2>1, <2>2
  <2>4. e = x.ext /\ e # Base /\ installed[e].version # x.version
    BY <1>3, <2>1, <2>2, BaseAssumption DEF Uninstall, Set
  <2>5. PICK i \in DOMAIN loaded[p] : /\ e = loaded[p][i]
                                      /\ x.version = PluginVersion(info[p][loaded[p][i]])
    BY <1>3, <2>3, <2>4 DEF LaunchInv, QueueInv, Queued
  <2>6. installed[e].version \in
            [version : Versions, hash : [Classes -> Sources \cup {InvalidType, Absent}]]
    BY <1>3 DEF VersionInv
  <2>7. installed[e].version # [version |-> info[p][e].version, hash |-> info[p][e].stubs]
    BY <2>4, <2>5 DEF PluginVersion
  <2> QED
    BY <2>5, <2>6, <2>7 DEF LoadedExts
<1>4. ASSUME LaunchInv, VersionInv, NEW p \in Launches, LaunchStep(p), NEW e \in Exts, Removed(e)
      PROVE  Uninstall(p)
  <2>1. CASE Install(p)
    <3>1. installed \in [Exts \cup {Base} -> Jar \cup {Absent}]
      BY <1>4 DEF LaunchInv, TypeOK, Dir
    <3> QED
      BY <1>4, <2>1, <3>1 DEF Install, Set
  <2>2. CASE ~Install(p)
    BY <1>4, <2>2
    DEF LaunchStep, Start, SkipUnloadable, PluginSetup, PluginSetupRaises, OpenStub, CloseStub,
        RenderRaises, QueueExtension, CopyTreeRaises, FinishSetup, StartJvm, FinishInstall,
        Exit, SetupAborts, diskVars
  <2> QED
    BY <2>1, <2>2
<1>5. LaunchInv /\ VersionInv /\ [Next]_vars =>
          [\A e \in Exts : Removed(e) => \E p \in Launches : Outdated(p, e)]_vars
  BY <1>3, <1>4 DEF Next, Upgrade, vars, diskVars
<1> QED
  BY <1>2, <1>5, LaunchInductive, PTL DEF Spec, NoSpuriousReinstall
-----------------------------------------------------------------------------
\* What is known of a package that has one release, d, and of the launches that
\* read it ...
Kept(e, d) ==
    /\ declared[e] \in {d, Raises, Unloadable}
    /\ \A p \in Launches : info[p][e] \in {d, Absent}

\* ... of the stub of a plugin it declares: it is never another text, and it is
\* there once a launch has rendered it ...
RenderedBy(p, e, c) ==
    \/ \E i \in DOMAIN loaded[p] : loaded[p][i] = e
    \/ pc[p] = "render" /\ Current(p) = e /\ c \notin todo[p]
KeptStub(e, d, c) ==
    /\ genStubs[e][c] \in {d.stubs[c], Torn, Absent}
    /\ \A p \in Launches : RenderedBy(p, e, c) => genStubs[e][c] # Absent

\* ... and of the jar compiled from it.
KeptJar(e, d, c) ==
    installed[e] # Absent => installed[e].stubs[c] \in {d.stubs[c]} \cup ({Torn} \ Broken)

UnchangedInv ==
    \A e \in Exts, d \in Infos : Releases[e] = {d} =>
        /\ Kept(e, d)
        /\ \A c \in Classes : Declares(d, c) => KeptStub(e, d, c) /\ KeptJar(e, d, c)

\* A package with one release is read as that release, by every launch.
LEMMA StepKept ==
    ASSUME LaunchInv, [Next]_vars, NEW e \in Exts, NEW d \in Infos, Releases[e] = {d}, Kept(e, d)
    PROVE  Kept(e, d)'
<1>types. /\ declared \in [Exts -> Infos \cup {Raises, Unloadable}]
          /\ info \in [Launches -> [Exts -> Infos \cup {Absent}]]
  BY DEF LaunchInv, TypeOK
<1>1. ASSUME NEW f \in Exts, Upgrade(f) PROVE Kept(e, d)'
  <2>1. info' = info
    BY <1>1 DEF Upgrade, launchVars
  <2>2. declared'[e] \in {d, Raises, Unloadable}
    BY <1>1, <1>types DEF Upgrade, Kept
  <2> QED
    BY <2>1, <2>2 DEF Kept
<1>2. ASSUME NEW p \in Launches, LaunchStep(p) PROVE Kept(e, d)'
  <2>1. declared' = declared
    BY <1>2
    DEF LaunchStep, Start, SkipUnloadable, PluginSetup, PluginSetupRaises, SetupAborts, OpenStub,
        CloseStub, RenderRaises, QueueExtension, CopyTreeRaises, FinishSetup, StartJvm, Uninstall,
        Install, FinishInstall, Exit
  <2>2. info'[p][e] \in {d, Absent}
    <3>1. CASE PluginSetup(p)
      <4>1. PICK f \in Infos : f = declared[Current(p)] /\ info' = [info EXCEPT ![p][Current(p)] = f]
        BY <3>1 DEF PluginSetup
      <4>2. Current(p) = e => f = d
        BY <4>1, InfosAssumption DEF Kept
      <4> QED
        BY <1>types, <4>1, <4>2 DEF Kept
    <3>2. CASE Exit(p)
      BY <1>types, <3>2 DEF Exit, Set
    <3>3. CASE ~PluginSetup(p) /\ ~Exit(p)
      <4>1. info' = info
        BY <1>2, <3>3
        DEF LaunchStep, Start, SkipUnloadable, PluginSetupRaises, SetupAborts, OpenStub,
            CloseStub, RenderRaises, QueueExtension, CopyTreeRaises, FinishSetup, StartJvm,
            Uninstall, Install, FinishInstall, launchVars
      <4> QED
        BY <4>1 DEF Kept
    <3> QED
      BY <3>1, <3>2, <3>3
  <2>3. \A q \in Launches \ {p} : info'[q] = info[q]
    BY <1>2, OtherLaunch DEF LaunchInv
  <2> QED
    BY <2>1, <2>2, <2>3 DEF Kept
<1>3. CASE UNCHANGED vars
  BY <1>3 DEF vars, launchVars, Kept
<1> QED
  BY <1>1, <1>2, <1>3 DEF Next

\* Its stubs are written with the text they have, or are being written.
LEMMA StepKeptStub ==
    ASSUME LaunchInv, NEW p \in Launches, LaunchStep(p),
           NEW e \in Exts, NEW d \in Infos, Releases[e] = {d}, Kept(e, d),
           NEW c \in Classes, Declares(d, c), KeptStub(e, d, c)
    PROVE  KeptStub(e, d, c)'
<1>types. /\ pc \in [Launches -> {"down", "setup", "render", "jvm", "install", "up"}]
          /\ genStubs \in [Exts -> Files]
          /\ todo \in [Launches -> SUBSET Classes] /\ open \in [Launches -> SUBSET Classes]
          /\ loaded \in [Launches -> Seq(Exts)]
  BY DEF LaunchInv, TypeOK
<1>stage. Stage(p)
  BY DEF LaunchInv, StageInv
<1>other. ASSUME NEW q \in Launches, q # p PROVE RenderedBy(q, e, c)' = RenderedBy(q, e, c)
  BY <1>other, OtherLaunch DEF LaunchInv, RenderedBy, Current
<1>current. pc[p] = "render" => Current(p) \in Exts
  BY <1>stage, OrderAssumption DEF Stage, Current
<1>1. CASE OpenStub(p)
  <2>1. PICK f \in Classes : WriteStub(Current(p), f, Torn)
    BY <1>1, <1>types DEF OpenStub
  <2>2. pc[p] = "render" /\ UNCHANGED <<pc, next, todo, loaded>>
    BY <1>1 DEF OpenStub
  <2>3. genStubs'[e][c] \in {genStubs[e][c], Torn}
    BY <1>types, <1>current, <2>1, <2>2, TextAssumption, WriteFile
  <2>4. \A q \in Launches : RenderedBy(q, e, c)' = RenderedBy(q, e, c)
    BY <2>2 DEF RenderedBy, Current
  <2> QED
    BY <2>3, <2>4, TextAssumption DEF KeptStub
<1>2. CASE CloseStub(p)
  <2>1. PICK f \in open[p] : /\ WriteStub(Current(p), f, info[p][Current(p)].stubs[f])
                             /\ todo'[p] = todo[p] \ {f}
    BY <1>2, <1>types DEF CloseStub, Set
  <2>2. pc[p] = "render" /\ UNCHANGED <<pc, next, loaded>> /\ f \in Classes
    BY <1>2, <1>types, <2>1 DEF CloseStub
  <2>3. /\ info[p][Current(p)] \in Infos
        /\ info[p][Current(p)].stubs[f] \in Sources
    <3>1. info[p][Current(p)] \in Infos
      BY <1>stage, <1>current, <2>2 DEF Stage, LaunchInv, TypeOK
    <3>2. info[p][Current(p)].stubs[f] \notin {Absent, InvalidType}
      BY <1>stage, <2>1, <2>2 DEF Stage, Declares
    <3> QED
      BY <2>2, <3>1, <3>2, InfosAssumption DEF Info
  <2>4. Current(p) = e => info[p][e] = d
    BY <2>3, RecordTypes DEF Kept
  <2>5. \/ genStubs'[e][c] = genStubs[e][c] /\ ~(Current(p) = e /\ f = c)
        \/ genStubs'[e][c] = d.stubs[c] /\ d.stubs[c] \in Sources
    BY <1>types, <1>current, <2>1, <2>2, <2>3, <2>4, WriteFile
  <2>6. RenderedBy(p, e, c)' => RenderedBy(p, e, c) \/ (Current(p) = e /\ f = c)
    BY <2>1, <2>2 DEF RenderedBy, Current
  <2> QED
    BY <1>other, <2>5, <2>6, TextAssumption DEF KeptStub
<1>3. CASE ~OpenStub(p) /\ ~CloseStub(p)
  <2>1. genStubs' = genStubs
    BY <1>3
    DEF LaunchStep, Start, SkipUnloadable, PluginSetup, PluginSetupRaises, SetupAborts,
        RenderRaises, QueueExtension, CopyTreeRaises, FinishSetup, StartJvm, Uninstall,
        Install, FinishInstall, Exit, diskVars
  <2>2. RenderedBy(p, e, c)' => RenderedBy(p, e, c)
    <3>1. CASE PluginSetup(p)
      <4>1. PICK f \in Infos : f = declared[Current(p)] /\ todo'[p] = {b \in Classes : f.stubs[b] # Absent}
        BY <1>types, <3>1 DEF PluginSetup, Set
      <4>2. Current(p) = e => f = d
        BY <4>1, InfosAssumption DEF Kept
      <4>3. UNCHANGED <<loaded, next>>
        BY <3>1 DEF PluginSetup
      <4> QED
        BY <4>1, <4>2, <4>3 DEF RenderedBy, Current, Declares
    <3>2. CASE QueueExtension(p)
      <4>1. /\ loaded'[p] = Append(loaded[p], Current(p)) /\ pc'[p] = "setup"
            /\ pc[p] = "render" /\ todo[p] = {}
        BY <1>types, <3>2 DEF QueueExtension, Set, Goto
      <4>2. \A i \in DOMAIN loaded'[p] :
                loaded'[p][i] = Current(p) \/ (i \in DOMAIN loaded[p] /\ loaded'[p][i] = loaded[p][i])
        BY <1>types, <4>1
      <4> QED
        BY <4>1, <4>2 DEF RenderedBy
    <3>3. CASE Exit(p)
      BY <1>types, <3>3 DEF Exit, Set, Goto, RenderedBy
    <3>4. CASE ~PluginSetup(p) /\ ~QueueExtension(p) /\ ~Exit(p)
      <4>1. UNCHANGED loaded /\ pc'[p] # "render"
        BY <1>types, <1>3, <3>4
        DEF LaunchStep, Start, SkipUnloadable, AtEntry, PluginSetupRaises, SetupAborts, RenderRaises,
            CopyTreeRaises, FinishSetup, StartJvm, Uninstall, Install, AtInstall, FinishInstall,
            Goto, Set, launchVars
      <4> QED
        BY <4>1 DEF RenderedBy
    <3> QED
      BY <3>1, <3>2, <3>3, <3>4
  <2> QED
    BY <1>other, <2>1, <2>2 DEF KeptStub
<1> QED
  BY <1>1, <1>2, <1>3

\* Its jar is compiled when all its stubs are there.
LEMMA StepKeptJar ==
    ASSUME LaunchInv, NEW p \in Launches, LaunchStep(p), NEW e \in Exts, NEW d,
           NEW c \in Classes, KeptStub(e, d, c), KeptJar(e, d, c)
    PROVE  KeptJar(e, d, c)'
<1>types. /\ installed \in [Exts \cup {Base} -> Jar \cup {Absent}]
          /\ queue \in [Launches -> Seq(Entry)]
  BY DEF LaunchInv, TypeOK, Dir
<1>1. CASE Install(p)
  <2>1. PICK x \in Entry : x = Head(queue[p]) /\ 1 \in DOMAIN queue[p] /\ x = queue[p][1]
    BY <1>1, <1>types DEF Install, AtInstall
  <2>2. CASE installed'[e] = installed[e]
    BY <2>2 DEF KeptJar
  <2>3. CASE installed'[e] # installed[e]
    <3>1. x.ext = e /\ Compiles(p, e) /\ installed'[e] = Built(e, x.version)
      BY <1>1, <1>types, <2>1, <2>3 DEF Install, Set
    <3>2. PICK i \in DOMAIN loaded[p] : loaded[p][i] = e
      BY <2>1, <3>1, BaseAssumption DEF LaunchInv, QueueInv, Queued
    <3>3. genStubs[e][c] \in {d.stubs[c], Torn} \ Broken
      BY <3>1, <3>2, BaseAssumption DEF KeptStub, RenderedBy, Compiles
    <3>4. installed'[e].stubs = genStubs[e]
      BY <3>1, BaseAssumption DEF Built
    <3> QED
      BY <3>3, <3>4 DEF KeptJar
  <2> QED
    BY <2>2, <2>3
<1>2. CASE Uninstall(p)
  <2>1. installed'[e] \in {installed[e], Absent}
    BY <1>2, <1>types DEF Uninstall, Set
  <2> QED
    BY <2>1 DEF KeptJar
<1>3. CASE ~Install(p) /\ ~Uninstall(p)
  <2>1. installed' = installed
    BY <1>3
    DEF LaunchStep, Start, SkipUnloadable, PluginSetup, PluginSetupRaises, SetupAborts, OpenStub,
        CloseStub, RenderRaises, QueueExtension, CopyTreeRaises, FinishSetup, StartJvm,
        FinishInstall, Exit, diskVars
  <2> QED
    BY <2>1 DEF KeptJar
<1> QED
  BY <1>1, <1>2, <1>3

\* Launches that overlap in any way do no harm to a package that is left alone,
\* but for a stub that javac takes while it is being written.
THEOREM UnchangedIsNeverStale == Spec => []UnchangedNeverStale
<1>1. Init => UnchangedInv
  <2> SUFFICES ASSUME Init, NEW e \in Exts, NEW d \in Infos, Releases[e] = {d}
               PROVE  /\ Kept(e, d)
                      /\ \A c \in Classes : KeptStub(e, d, c) /\ KeptJar(e, d, c)
    BY DEF UnchangedInv
  <2>1. Kept(e, d)
    BY DEF Init, Kept
  <2>2. \A c \in Classes : KeptStub(e, d, c) /\ KeptJar(e, d, c)
    BY DEF Init, KeptStub, KeptJar, RenderedBy, NoJars
  <2> QED
    BY <2>1, <2>2
<1>2. ASSUME LaunchInv, UnchangedInv, [Next]_vars PROVE UnchangedInv'
  <2> SUFFICES ASSUME NEW e \in Exts, NEW d \in Infos, Releases[e] = {d}
               PROVE  /\ Kept(e, d)'
                      /\ \A c \in Classes :
                            Declares(d, c) => KeptStub(e, d, c)' /\ KeptJar(e, d, c)'
    BY DEF UnchangedInv, Declares
  <2>1. Kept(e, d)'
    BY <1>2, StepKept DEF UnchangedInv
  <2>2. ASSUME NEW c \in Classes, Declares(d, c) PROVE KeptStub(e, d, c)' /\ KeptJar(e, d, c)'
    <3>1. Kept(e, d) /\ KeptStub(e, d, c) /\ KeptJar(e, d, c)
      BY <1>2, <2>2 DEF UnchangedInv
    <3>2. CASE \E p \in Launches : LaunchStep(p)
      BY <1>2, <2>2, <3>1, <3>2, StepKeptStub, StepKeptJar
    <3>3. CASE UNCHANGED <<diskVars, launchVars>>
      BY <3>1, <3>3 DEF KeptStub, KeptJar, RenderedBy, Current, diskVars, launchVars
    <3> QED
      BY <1>2, <3>2, <3>3 DEF Next, Upgrade, vars
  <2> QED
    BY <2>1, <2>2
<1>3. UnchangedInv => UnchangedNeverStale
  BY DEF UnchangedInv, UnchangedNeverStale, KeptJar
<1> QED
  BY <1>1, <1>2, <1>3, LaunchInductive, PTL DEF Spec
-----------------------------------------------------------------------------
\* Launches are set up one at a time: nobody starts one while another is being
\* set up, or there is only one.
OneLaunch == \A p, q \in Launches : p = q
OneAtATime == Exclusive \/ OneLaunch
SoleInv == \A p, q \in Launches : Busy(p) /\ Busy(q) => p = q

\* The generated directory of an extension holds what the launch rendered: all
\* of it once the extension is loaded, what is not to do while it is rendered.
Rendered(p) ==
    /\ \A i \in DOMAIN loaded[p], c \in Classes :
          Declares(info[p][loaded[p][i]], c) =>
              genStubs[loaded[p][i]][c] = info[p][loaded[p][i]].stubs[c]
    /\ pc[p] = "render" =>
          \A c \in Classes \ todo[p] :
              Declares(info[p][Current(p)], c) =>
                  genStubs[Current(p)][c] = info[p][Current(p)].stubs[c]
RenderedInv == \A p \in Launches : Busy(p) => Rendered(p)

\* What has left the queue is installed in the version of what was rendered, or
\* not at all.
Dealt(p, e) ==
    \/ \E k \in DOMAIN queue[p] : queue[p][k].ext = e
    \/ installed[e] # Absent => installed[e].version = PluginVersion(info[p][e])
InstalledInv ==
    \A p \in Launches : Busy(p) => \A i \in DOMAIN loaded[p] : Dealt(p, loaded[p][i])

\* Once the JVM is up, an extension that has left the queue is installed or does
\* not compile, and one that was installed since does.
Settled(p, e) ==
    /\ e \notin Jars(classpath[p]) /\ installed[e] # Absent => Compiles(p, e)
    /\ \/ \E k \in DOMAIN queue[p] : queue[p][k].ext = e
       \/ installed[e] # Absent \/ ~Compiles(p, e)
AllSettled(p) == \A i \in DOMAIN loaded[p] : Settled(p, loaded[p][i])
SettledInv == \A p \in Launches : pc[p] = "install" => AllSettled(p)

DiskInv == SoleInv /\ RenderedInv /\ InstalledInv /\ JarMatchesVersion /\ SettledInv

\* Only Start gets a launch under way.
LEMMA BusyBefore ==
    ASSUME TypeOK, NEW p \in Launches, LaunchStep(p), ~Start(p), Busy(p)'
    PROVE  Busy(p)
  BY DEF TypeOK, LaunchStep, SkipUnloadable, PluginSetup, AtEntry, PluginSetupRaises, SetupAborts,
     OpenStub, CloseStub, RenderRaises, QueueExtension, CopyTreeRaises, FinishSetup, StartJvm,
     Uninstall, Install, AtInstall, FinishInstall, Exit, Goto, Set, Busy

\* A launch is set up alone.
LEMMA StepSole ==
    ASSUME OneAtATime, TypeOK, SoleInv, NEW p \in Launches, LaunchStep(p)
    PROVE  SoleInv'
<1>types. pc \in [Launches -> {"down", "setup", "render", "jvm", "install", "up"}]
  BY DEF TypeOK
<1>other. \A q \in Launches : q # p => pc'[q] = pc[q]
  BY OtherLaunch
<1>1. CASE OneLaunch
  BY <1>1 DEF OneLaunch, SoleInv
<1>2. CASE Exclusive /\ Start(p)
  <2>1. \A q \in Launches : ~Busy(q)
    BY <1>2 DEF Start
  <2> QED
    BY <1>other, <2>1 DEF SoleInv, Busy
<1>3. CASE ~Start(p)
  <2>1. Busy(p)' => Busy(p)
    BY <1>3, BusyBefore
  <2> QED
    BY <1>other, <2>1 DEF SoleInv, Busy
<1> QED
  BY <1>1, <1>2, <1>3 DEF OneAtATime

\* While a launch is set up the others leave the disk alone.
LEMMA OthersQuiet ==
    ASSUME TypeOK, SoleInv', NEW p \in Launches, LaunchStep(p),
           NEW q \in Launches, q # p, Busy(q)
    PROVE  UNCHANGED diskVars
<1>types. pc \in [Launches -> {"down", "setup", "render", "jvm", "install", "up"}]
  BY DEF TypeOK
<1>1. ~Busy(p)'
  BY OtherLaunch DEF SoleInv, Busy
<1>2. FinishInstall(p) \/ Exit(p)
  BY <1>types, <1>1
  DEF LaunchStep, Start, SkipUnloadable, PluginSetup, AtEntry, PluginSetupRaises, SetupAborts, OpenStub,
      CloseStub, RenderRaises, QueueExtension, CopyTreeRaises, FinishSetup, StartJvm, Uninstall,
      Install, AtInstall, launchVars, Goto, Set, Busy
<1> QED
  BY <1>2 DEF FinishInstall, Exit, diskVars

\* Two states that agree on the disk and on what a launch has in memory agree on
\* what is known of the launch.
LEMMA SameLaunch ==
    ASSUME NEW q \in Launches, UNCHANGED diskVars,
           /\ pc'[q] = pc[q] /\ next'[q] = next[q] /\ info'[q] = info[q]
           /\ todo'[q] = todo[q] /\ queue'[q] = queue[q] /\ loaded'[q] = loaded[q]
           /\ classpath'[q] = classpath[q]
    PROVE  /\ Busy(q)' = Busy(q) /\ Rendered(q)' = Rendered(q)
           /\ \A e : Dealt(q, e)' = Dealt(q, e) /\ Settled(q, e)' = Settled(q, e)
           /\ AllSettled(q)' = AllSettled(q)
<1>1. Busy(q)' = Busy(q) /\ Rendered(q)' = Rendered(q)
  BY DEF Busy, Rendered, Current, Declares, diskVars
<1>2. \A e : Dealt(q, e)' = Dealt(q, e) /\ Settled(q, e)' = Settled(q, e)
  BY DEF Dealt, Settled, Compiles, diskVars
<1>3. AllSettled(q)' = AllSettled(q)
  BY <1>2 DEF AllSettled
<1> QED
  BY <1>1, <1>2, <1>3

\* The generated directories keep following the launch that renders them.
LEMMA StepRendered ==
    ASSUME LaunchInv, SoleInv', RenderedInv, NEW p \in Launches, LaunchStep(p)
    PROVE  RenderedInv'
<1>other. ASSUME NEW q \in Launches, q # p, Busy(q)' PROVE Rendered(q)'
  <2>1. TypeOK
    BY DEF LaunchInv
  <2>2. Busy(q)
    BY <1>other, <2>1, OtherLaunch DEF Busy
  <2> QED
    BY <1>other, <2>1, <2>2, OtherLaunch, OthersQuiet, SameLaunch DEF RenderedInv
<1>0. SUFFICES ASSUME Busy(p)' PROVE Rendered(p)'
  BY <1>other DEF RenderedInv
<1>types. /\ pc \in [Launches -> {"down", "setup", "render", "jvm", "install", "up"}]
          /\ genStubs \in [Exts -> Files]
          /\ info \in [Launches -> [Exts -> Infos \cup {Absent}]]
          /\ todo \in [Launches -> SUBSET Classes] /\ open \in [Launches -> SUBSET Classes]
          /\ loaded \in [Launches -> Seq(Exts)]
  BY DEF LaunchInv, TypeOK
<1>stage. Stage(p)
  BY DEF LaunchInv, StageInv
<1>current. pc[p] = "render" => Current(p) \in Exts
  BY <1>stage, OrderAssumption DEF Stage, Current
<1>exts. \A i \in DOMAIN loaded[p] : loaded[p][i] \in Exts
  BY <1>types
<1>1. CASE Start(p)
  <2>1. loaded[p] = <<>> /\ loaded' = loaded /\ pc'[p] = "setup"
    BY <1>types, <1>stage, <1>1 DEF Start, Stage, Goto, Set
  <2> QED
    BY <2>1 DEF Rendered
<1>ih. CASE ~Start(p)
  <2>ih. Rendered(p)
    BY <1>0, <1>ih, BusyBefore DEF RenderedInv, LaunchInv
  <2>1. CASE PluginSetup(p)
    <3>1. PICK f \in Infos : /\ f = declared[Current(p)]
                             /\ info' = [info EXCEPT ![p][Current(p)] = f]
                             /\ todo'[p] = {c \in Classes : f.stubs[c] # Absent}
      BY <1>types, <2>1 DEF PluginSetup, Set
    <3>2. UNCHANGED <<next, loaded, genStubs>> /\ next[p] \in DOMAIN Order
      BY <2>1, OrderAssumption DEF PluginSetup, AtEntry, LaunchInv, TypeOK, diskVars
    <3>3. Current(p)' = Current(p) /\ Current(p) \in Exts
      BY <3>2, OrderAssumption DEF Current
    <3>4. info'[p][Current(p)] = f /\ \A i \in DOMAIN loaded[p] : info'[p][loaded[p][i]] = info[p][loaded[p][i]]
      BY <1>types, <1>exts, <3>1, <3>2, <3>3, CurrentNotLoaded
    <3> QED
      BY <2>ih, <3>1, <3>2, <3>3, <3>4 DEF Rendered, Declares
  <2>2. CASE OpenStub(p)
    <3>1. PICK c \in todo[p] : WriteStub(Current(p), c, Torn)
      BY <2>2 DEF OpenStub
    <3>2. pc[p] = "render" /\ UNCHANGED <<pc, next, info, todo, loaded>>
      BY <2>2 DEF OpenStub
    <3>3. \A e \in Exts, d \in Classes :
              e # Current(p) \/ d # c => genStubs'[e][d] = genStubs[e][d]
      BY <1>types, <1>current, <3>1, <3>2, TextAssumption, WriteFile
    <3>4. \A i \in DOMAIN loaded[p] : loaded[p][i] # Current(p)
      BY <1>stage, <3>2, CurrentNotLoaded DEF Stage
    <3> QED
      BY <1>current, <1>exts, <2>ih, <3>1, <3>2, <3>3, <3>4 DEF Rendered, Declares, Current
  <2>3. CASE CloseStub(p)
    <3>1. PICK c \in open[p] : /\ WriteStub(Current(p), c, info[p][Current(p)].stubs[c])
                               /\ todo'[p] = todo[p] \ {c}
      BY <1>types, <2>3 DEF CloseStub, Set
    <3>2. pc[p] = "render" /\ UNCHANGED <<pc, next, info, loaded>> /\ c \in Classes
      BY <1>types, <2>3, <3>1 DEF CloseStub
    <3>3. info[p][Current(p)].stubs[c] \in Sources \cup {Absent}
      <4>1. info[p][Current(p)] \in Infos
        BY <1>types, <1>stage, <1>current, <3>2 DEF Stage
      <4>2. info[p][Current(p)].stubs[c] # InvalidType
        BY <1>stage, <3>1, <3>2 DEF Stage
      <4> QED
        BY <3>2, <4>1, <4>2, InfosAssumption DEF Info
    <3>4. /\ genStubs'[Current(p)][c] = info[p][Current(p)].stubs[c]
          /\ \A e \in Exts, d \in Classes :
                e # Current(p) \/ d # c => genStubs'[e][d] = genStubs[e][d]
      BY <1>types, <1>current, <3>1, <3>2, <3>3, WriteFile
    <3>5. \A i \in DOMAIN loaded[p] : loaded[p][i] # Current(p)
      BY <1>stage, <3>2, CurrentNotLoaded DEF Stage
    <3>6. \A i \in DOMAIN loaded[p], d \in Classes :
              Declares(info[p][loaded[p][i]], d) =>
                  genStubs'[loaded[p][i]][d] = info[p][loaded[p][i]].stubs[d]
      BY <1>exts, <2>ih, <3>4, <3>5 DEF Rendered
    <3>7. \A d \in Classes \ (todo[p] \ {c}) :
              Declares(info[p][Current(p)], d) =>
                  genStubs'[Current(p)][d] = info[p][Current(p)].stubs[d]
      BY <1>current, <2>ih, <3>2, <3>4 DEF Rendered
    <3>8. Current(p)' = Current(p)
      BY <3>2 DEF Current
    <3> QED
      BY <3>1, <3>2, <3>6, <3>7, <3>8 DEF Rendered, Declares
  <2>4. CASE QueueExtension(p)
    <3>1. /\ loaded'[p] = Append(loaded[p], Current(p)) /\ UNCHANGED <<info, genStubs>>
          /\ pc[p] = "render" /\ pc'[p] = "setup" /\ todo[p] = {}
      BY <1>types, <2>4 DEF QueueExtension, Goto, Set
    <3>2. \A i \in DOMAIN loaded'[p] :
              loaded'[p][i] = Current(p) \/ (i \in DOMAIN loaded[p] /\ loaded'[p][i] = loaded[p][i])
      BY <1>types, <3>1
    <3>3. \A c \in Classes : Declares(info[p][Current(p)], c) =>
              genStubs[Current(p)][c] = info[p][Current(p)].stubs[c]
      BY <2>ih, <3>1 DEF Rendered
    <3> QED
      BY <2>ih, <3>1, <3>2, <3>3 DEF Rendered, Declares
  <2>5. CASE ~PluginSetup(p) /\ ~OpenStub(p) /\ ~CloseStub(p) /\ ~QueueExtension(p)
    <3>1. UNCHANGED <<genStubs, info, loaded>> /\ pc'[p] # "render"
      BY <1>types, <1>0, <1>ih, <2>5
      DEF LaunchStep, SkipUnloadable, AtEntry, PluginSetupRaises, SetupAborts, RenderRaises,
          CopyTreeRaises, FinishSetup, StartJvm, Uninstall, Install, AtInstall, FinishInstall, Exit,
          Goto, Set, diskVars, launchVars, Busy
    <3> QED
      BY <2>ih, <3>1 DEF Rendered, Declares
  <2> QED
    BY <2>1, <2>2, <2>3, <2>4, <2>5
<1> QED
  BY <1>1, <1>ih

\* What has left the queue stays installed in its version, or not at all.
LEMMA StepInstalled ==
    ASSUME LaunchInv, SoleInv', InstalledInv, NEW p \in Launches, LaunchStep(p)
    PROVE  InstalledInv'
<1>other. ASSUME NEW q \in Launches, q # p, Busy(q)', NEW i \in DOMAIN loaded'[q]
         PROVE  Dealt(q, loaded[q][i])'
  <2>1. TypeOK
    BY DEF LaunchInv
  <2>2. Busy(q) /\ loaded'[q] = loaded[q]
    BY <1>other, <2>1, OtherLaunch DEF Busy
  <2>3. Dealt(q, loaded[q][i])' = Dealt(q, loaded[q][i])
    BY <1>other, <2>1, <2>2, OtherLaunch, OthersQuiet, SameLaunch DEF Dealt
  <2> QED
    BY <1>other, <2>2, <2>3 DEF InstalledInv
<1>0. SUFFICES ASSUME Busy(p)', NEW i \in DOMAIN loaded'[p] PROVE Dealt(p, loaded[p][i])'
  BY <1>other DEF InstalledInv
<1>types. /\ installed \in [Exts \cup {Base} -> Jar \cup {Absent}]
          /\ info \in [Launches -> [Exts -> Infos \cup {Absent}]]
          /\ queue \in [Launches -> Seq(Entry)] /\ loaded \in [Launches -> Seq(Exts)]
          /\ pc \in [Launches -> {"down", "setup", "render", "jvm", "install", "up"}]
  BY DEF LaunchInv, TypeOK, Dir
<1>1. CASE Start(p)
  <2>1. loaded'[p] = <<>>
    BY <1>types, <1>1 DEF Start, LaunchInv, StageInv, Stage
  <2> QED
    BY <1>0, <2>1
<1>2. CASE ~Start(p)
  <2>ih. \A k \in DOMAIN loaded[p] : loaded[p][k] \in Exts /\ Dealt(p, loaded[p][k])
    BY <1>types, <1>0, <1>2, BusyBefore DEF InstalledInv, LaunchInv
  <2>1. CASE PluginSetup(p)
    <3>1. next[p] \in DOMAIN Order /\ UNCHANGED <<installed, queue, loaded>>
      BY <2>1, OrderAssumption DEF PluginSetup, AtEntry, LaunchInv, TypeOK, diskVars
    <3>2. info'[p][loaded[p][i]] = info[p][loaded[p][i]]
      BY <2>1, <3>1, <1>0, <1>types, CurrentNotLoaded DEF PluginSetup
    <3> QED
      BY <1>0, <2>ih, <3>1, <3>2 DEF Dealt
  <2>2. CASE QueueExtension(p)
    <3>1. PICK x : /\ x = [ext |-> Current(p), version |-> Embedded(p)]
                   /\ queue'[p] = Append(queue[p], x)
                   /\ loaded'[p] = Append(loaded[p], Current(p))
                   /\ UNCHANGED <<info, installed>>
      BY <2>2, <1>types DEF QueueExtension, Set
    <3>2. x.ext = Current(p)
      BY <3>1
    <3>3. queue'[p][Len(queue[p]) + 1] = x /\ Len(queue[p]) + 1 \in DOMAIN queue'[p]
      BY <3>1, <1>types
    <3>4. \A k \in DOMAIN queue[p] : k \in DOMAIN queue'[p] /\ queue'[p][k] = queue[p][k]
      BY <3>1, <1>types
    <3>5. loaded'[p][i] = Current(p) \/ (i \in DOMAIN loaded[p] /\ loaded'[p][i] = loaded[p][i])
      BY <3>1, <1>0, <1>types
    <3> QED
      BY <2>ih, <3>1, <3>2, <3>3, <3>4, <3>5 DEF Dealt
  <2>3. CASE Uninstall(p)
    <3>1. UNCHANGED <<info, loaded, queue>>
      BY <2>3 DEF Uninstall, launchVars
    <3>2. PICK e : installed' = Set(installed, e, Absent)
      BY <2>3 DEF Uninstall
    <3>3. installed'[loaded[p][i]] \in {installed[loaded[p][i]], Absent}
      BY <1>0, <2>ih, <3>1, <3>2, <1>types DEF Set
    <3> QED
      BY <1>0, <2>ih, <3>1, <3>3 DEF Dealt
  <2>4. CASE Install(p)
    <3>1. /\ queue[p] # <<>> /\ queue'[p] = Tail(queue[p])
          /\ UNCHANGED <<info, loaded>>
      BY <2>4, <1>types DEF Install, AtInstall, Set
    <3>2. PICK x \in Entry : x = Head(queue[p]) /\ x = queue[p][1] /\ 1 \in DOMAIN queue[p]
      BY <3>1, <1>types
    <3>3. \A k \in DOMAIN queue[p] \ {1} :
              k - 1 \in DOMAIN queue'[p] /\ queue'[p][k - 1] = queue[p][k]
      BY <3>1, <1>types
    <3>4. x.ext \in Exts \cup {Base} /\ Built(x.ext, x.version).version = x.version
      BY <3>2 DEF Entry, Built, NoJar
    <3>5. CASE loaded[p][i] = x.ext
      <4>1. PICK j \in DOMAIN loaded[p] :
                x.ext = loaded[p][j] /\ x.version = PluginVersion(info[p][loaded[p][j]])
        BY <1>0, <2>ih, <3>1, <3>2, <3>5, BaseAssumption DEF LaunchInv, QueueInv, Queued
      <4>2. installed'[x.ext] # Absent => installed'[x.ext].version = x.version
        BY <2>4, <3>2, <3>4, <1>types DEF Install, Set
      <4> QED
        BY <3>1, <3>5, <4>1, <4>2 DEF Dealt
    <3>6. CASE loaded[p][i] # x.ext
      <4>1. installed'[loaded[p][i]] = installed[loaded[p][i]]
        BY <1>0, <2>ih, <2>4, <3>1, <3>2, <3>4, <3>6, <1>types DEF Install, Set
      <4>2. (\E k \in DOMAIN queue[p] : queue[p][k].ext = loaded[p][i])
            => \E k \in DOMAIN queue'[p] : queue'[p][k].ext = loaded[p][i]
        BY <3>2, <3>3, <3>6
      <4> QED
        BY <1>0, <2>ih, <3>1, <4>1, <4>2 DEF Dealt
    <3> QED
      BY <3>5, <3>6
  <2>5. CASE ~PluginSetup(p) /\ ~QueueExtension(p) /\ ~Uninstall(p) /\ ~Install(p)
    <3>1. UNCHANGED <<info, loaded, queue, installed>>
      BY <1>types, <1>0, <1>2, <2>5
      DEF LaunchStep, SkipUnloadable, PluginSetupRaises, SetupAborts, OpenStub, CloseStub, RenderRaises,
          CopyTreeRaises, FinishSetup, StartJvm, FinishInstall, Exit, Goto, Set, diskVars, Busy
    <3> QED
      BY <1>0, <2>ih, <3>1 DEF Dealt
  <2> QED
    BY <2>1, <2>2, <2>3, <2>4, <2>5
<1> QED
  BY <1>1, <1>2

\* A jar is compiled from the generated directory while that directory holds
\* what the recorded version says.
LEMMA StepJar ==
    ASSUME LaunchInv, RenderedInv, JarMatchesVersion, NEW p \in Launches, LaunchStep(p)
    PROVE  JarMatchesVersion'
<1>types. /\ installed \in [Exts \cup {Base} -> Jar \cup {Absent}]
          /\ queue \in [Launches -> Seq(Entry)]
  BY DEF LaunchInv, TypeOK, Dir
<1>1. CASE Install(p)
  <2> SUFFICES ASSUME NEW e \in Exts, installed'[e] # Absent, installed'[e] # installed[e],
                      NEW c \in Classes, installed'[e].version.hash[c] # Absent
               PROVE  installed'[e].stubs[c] = installed'[e].version.hash[c]
    BY DEF JarMatchesVersion
  <2>1. PICK x \in Entry : x = Head(queue[p]) /\ x = queue[p][1] /\ 1 \in DOMAIN queue[p]
    BY <1>1, <1>types DEF Install, AtInstall
  <2>2. x.ext = e /\ e # Base /\ installed'[e] = Built(e, x.version)
    BY <1>1, <1>types, <2>1, BaseAssumption DEF Install, Set
  <2>3. PICK i \in DOMAIN loaded[p] :
            e = loaded[p][i] /\ x.version = PluginVersion(info[p][e])
    BY <2>1, <2>2 DEF LaunchInv, QueueInv, Queued
  <2>4. Rendered(p)
    BY <1>1 DEF RenderedInv, Busy, Install, AtInstall
  <2>5. installed'[e].stubs = genStubs[e] /\ installed'[e].version.hash = info[p][e].stubs
    BY <2>2, <2>3 DEF Built, PluginVersion
  <2> QED
    BY <2>3, <2>4, <2>5 DEF Rendered, Declares
<1>2. CASE Uninstall(p)
  <2>1. PICK e : installed' = Set(installed, e, Absent)
    BY <1>2 DEF Uninstall
  <2>2. \A f \in Exts : installed'[f] \in {installed[f], Absent}
    BY <2>1, <1>types DEF Set
  <2> QED
    BY <2>2 DEF JarMatchesVersion
<1>3. CASE ~Install(p) /\ ~Uninstall(p)
  <2>1. UNCHANGED installed
    BY <1>3
    DEF LaunchStep, Start, SkipUnloadable, PluginSetup, PluginSetupRaises, SetupAborts, OpenStub,
        CloseStub, RenderRaises, QueueExtension, CopyTreeRaises, FinishSetup, StartJvm,
        FinishInstall, Exit, diskVars
  <2> QED
    BY <2>1 DEF JarMatchesVersion
<1> QED
  BY <1>1, <1>2, <1>3

\* The installer leaves each extension installed, or what does not compile.
LEMMA StepSettled ==
    ASSUME LaunchInv, ExactInv, SoleInv', SettledInv, NEW p \in Launches, LaunchStep(p)
    PROVE  SettledInv'
<1>other. ASSUME NEW q \in Launches, q # p, pc'[q] = "install" PROVE AllSettled(q)'
  <2>1. TypeOK
    BY DEF LaunchInv
  <2>2. pc[q] = "install" /\ Busy(q)
    BY <1>other, <2>1, OtherLaunch DEF Busy
  <2> QED
    BY <1>other, <2>1, <2>2, OtherLaunch, OthersQuiet, SameLaunch DEF SettledInv
<1>0. SUFFICES ASSUME pc'[p] = "install", NEW i \in DOMAIN loaded'[p] PROVE Settled(p, loaded[p][i])'
  BY <1>other DEF SettledInv, AllSettled
<1>types. /\ queue \in [Launches -> Seq(Entry)] /\ loaded \in [Launches -> Seq(Exts)]
          /\ installed \in [Exts \cup {Base} -> Jar \cup {Absent}]
          /\ pc \in [Launches -> {"down", "setup", "render", "jvm", "install", "up"}]
          /\ classpath \in [Launches -> Dir]
  BY DEF LaunchInv, TypeOK, Dir
<1>1. CASE StartJvm(p)
  <2>1. /\ UNCHANGED <<loaded, queue, installed>> /\ pc[p] = "jvm"
        /\ classpath'[p] = installed
    BY <1>1, <1>types DEF StartJvm, Set, diskVars
  <2>2. loaded[p][i] \in Exts /\ i \in 1 .. Len(loaded[p]) /\ Len(loaded[p]) \in Nat
    BY <1>0, <1>types, <2>1
  <2>3. Len(queue[p]) = Len(loaded[p]) + 1 /\ queue[p][i + 1] = Asked(p, i)
    BY <2>1, <2>2 DEF ExactInv, Exact
  <2>4. i + 1 \in DOMAIN queue[p] /\ queue[p][i + 1].ext = loaded[p][i]
    BY <1>types, <2>2, <2>3 DEF Asked
  <2> QED
    BY <1>types, <2>1, <2>2, <2>4 DEF Settled, Jars
<1>2. CASE ~StartJvm(p)
  <2>ih. pc[p] = "install" /\ (Uninstall(p) \/ Install(p))
    BY <1>0, <1>types, <1>2
    DEF LaunchStep, Start, SkipUnloadable, AtEntry, PluginSetup, PluginSetupRaises, SetupAborts,
        OpenStub, CloseStub, RenderRaises, QueueExtension, CopyTreeRaises, FinishSetup, Uninstall,
        Install, AtInstall, FinishInstall, Exit, Goto, Set
  <2>same. UNCHANGED <<loaded, classpath, genStubs>>
    BY <2>ih DEF Uninstall, Install, launchVars
  <2>settled. loaded[p][i] \in Exts /\ Settled(p, loaded[p][i])
    BY <1>0, <1>types, <2>ih, <2>same DEF SettledInv, AllSettled
  <2>compiles. Compiles(p, loaded[p][i])' = Compiles(p, loaded[p][i])
    BY <2>same DEF Compiles
  <2>1. CASE Uninstall(p)
    <3>1. PICK x \in Entry : /\ x = queue[p][1] /\ 1 \in DOMAIN queue[p]
                             /\ installed' = Set(installed, x.ext, Absent)
      BY <2>1, <1>types DEF Uninstall, AtInstall
    <3>2. queue' = queue
      BY <2>1 DEF Uninstall, launchVars
    <3>3. \/ installed'[loaded[p][i]] = installed[loaded[p][i]]
          \/ installed'[loaded[p][i]] = Absent /\ x.ext = loaded[p][i]
      BY <1>types, <2>settled, <3>1 DEF Set
    <3> QED
      BY <2>same, <2>settled, <2>compiles, <3>1, <3>2, <3>3 DEF Settled
  <2>2. CASE Install(p)
    <3>1. queue'[p] = Tail(queue[p]) /\ queue[p] # <<>>
      BY <2>2, <1>types DEF Install, AtInstall, Set
    <3>2. PICK x \in Entry : /\ x = Head(queue[p]) /\ x = queue[p][1]
                             /\ \A k \in DOMAIN queue[p] \ {1} :
                                   k - 1 \in DOMAIN queue'[p] /\ queue'[p][k - 1] = queue[p][k]
      BY <1>types, <3>1
    <3>3. \/ installed[x.ext] # Absent /\ installed' = installed
          \/ installed[x.ext] = Absent /\ Compiles(p, x.ext)
             /\ installed' = Set(installed, x.ext, Built(x.ext, x.version))
          \/ installed[x.ext] = Absent /\ ~Compiles(p, x.ext) /\ installed' = installed
      BY <2>2, <3>2 DEF Install
    <3>4. Built(x.ext, x.version) # Absent /\ x.ext \in Exts \cup {Base}
      <4>1. x.ext \in Exts \cup {Base} /\ x.version \in PluginVersions
        BY <3>2 DEF Entry
      <4>2. genStubs \in [Exts -> Files] /\ genJava \in [Exts -> JavaTexts \cup {Absent}]
        BY DEF LaunchInv, TypeOK
      <4>3. Built(x.ext, x.version) \in Jar
        BY <4>1, <4>2, RecordTypes DEF Built, Jar, NoJar
      <4> QED
        BY <4>1, <4>3, RecordTypes
    <3>5. CASE loaded[p][i] = x.ext
      BY <1>types, <2>same, <2>settled, <2>compiles, <3>3, <3>4, <3>5 DEF Settled, Set
    <3>6. CASE loaded[p][i] # x.ext
      <4>1. installed'[loaded[p][i]] = installed[loaded[p][i]]
        BY <1>types, <2>settled, <3>3, <3>6 DEF Set
      <4>2. (\E k \in DOMAIN queue[p] : queue[p][k].ext = loaded[p][i])
            => \E k \in DOMAIN queue'[p] : queue'[p][k].ext = loaded[p][i]
        BY <3>2, <3>6
      <4> QED
        BY <2>same, <2>settled, <2>compiles, <4>1, <4>2 DEF Settled
    <3> QED
      BY <3>5, <3>6
  <2> QED
    BY <2>ih, <2>1, <2>2
<1> QED
  BY <1>1, <1>2

\* One launch at a time keeps the disk consistent with what it has in memory.
THEOREM DiskInductive == ASSUME OneAtATime PROVE Spec => []DiskInv
<1>1. Init => DiskInv
  BY DEF Init, NoJars, DiskInv, SoleInv, RenderedInv, InstalledInv, JarMatchesVersion, SettledInv, Busy
<1>2. ASSUME LaunchInv, ExactInv, DiskInv, [Next]_vars PROVE DiskInv'
  <2>1. ASSUME NEW p \in Launches, LaunchStep(p) PROVE DiskInv'
    <3>1. TypeOK
      BY <1>2 DEF LaunchInv
    <3>2. SoleInv'
      BY <1>2, <2>1, <3>1, StepSole DEF DiskInv
    <3> QED
      BY <1>2, <2>1, <3>2, StepRendered, StepInstalled, StepJar, StepSettled DEF DiskInv
  <2>2. CASE UNCHANGED <<diskVars, launchVars>>
    <3>1. \A q \in Launches : /\ Busy(q)' = Busy(q) /\ Rendered(q)' = Rendered(q)
                               /\ \A e : Dealt(q, e)' = Dealt(q, e)
                               /\ AllSettled(q)' = AllSettled(q)
      BY <2>2, SameLaunch DEF launchVars
    <3>2. UNCHANGED <<pc, loaded, installed>>
      BY <2>2 DEF diskVars, launchVars
    <3> QED
      BY <1>2, <3>1, <3>2
      DEF DiskInv, SoleInv, RenderedInv, InstalledInv, JarMatchesVersion, SettledInv
  <2> QED
    BY <1>2, <2>1, <2>2 DEF Next, Upgrade, vars
<1> QED
  BY <1>1, <1>2, LaunchInductive, ExactInductive, PTL DEF Spec

\* The plugin version recorded with a jar tells what the jar was compiled from,
\* after any sequence of upgrades, launches and crashes.
THEOREM VersionTellsStubs == ASSUME OneAtATime PROVE Spec => []JarMatchesVersion
  BY DiskInductive, PTL DEF DiskInv

\* A launch never comes up with a jar compiled from other stubs than the ones it
\* rendered.
THEOREM NeverStale == ASSUME OneAtATime PROVE Spec => []NoStaleJar
<1>1. ASSUME LaunchInv, DiskInv, NEW p \in Launches, Ready(p), NEW i \in DOMAIN loaded[p],
             installed[loaded[p][i]] # Absent,
             NEW c \in Classes, Declares(info[p][loaded[p][i]], c)
      PROVE  installed[loaded[p][i]].stubs[c] = info[p][loaded[p][i]].stubs[c]
  <2>1. queue[p] = <<>> /\ Dealt(p, loaded[p][i])
    BY <1>1 DEF Ready, DiskInv, InstalledInv, Busy
  <2>types. loaded[p] \in Seq(Exts) /\ loaded[p][i] \in Exts
    BY <1>1 DEF LaunchInv, TypeOK
  <2>2. installed[loaded[p][i]].version = PluginVersion(info[p][loaded[p][i]])
    BY <1>1, <2>1 DEF Dealt
  <2>3. installed[loaded[p][i]].version.hash = info[p][loaded[p][i]].stubs
    BY <2>2 DEF PluginVersion
  <2> QED
    BY <1>1, <2>types, <2>3 DEF DiskInv, JarMatchesVersion, Declares
<1>2. LaunchInv /\ DiskInv => NoStaleJar
  BY <1>1 DEF NoStaleJar, LoadedExts
<1> QED
  BY <1>2, LaunchInductive, DiskInductive, PTL

\* Good stubs are compiled, whatever an earlier launch left in their place.
THEOREM GoodStubsAreCompiled == ASSUME OneAtATime PROVE Spec => []GoodStubsCompile
<1>1. ASSUME DiskInv, NEW p \in Launches, Ready(p), Base \in Jars(classpath[p]),
             NEW i \in DOMAIN loaded[p],
             \A c \in Classes : IF Declares(info[p][loaded[p][i]], c)
                                THEN info[p][loaded[p][i]].stubs[c] \notin Broken
                                ELSE genStubs[loaded[p][i]][c] = Absent
      PROVE  installed[loaded[p][i]] # Absent
  <2>1. queue[p] = <<>> /\ Rendered(p) /\ Settled(p, loaded[p][i])
    BY <1>1 DEF Ready, Busy, DiskInv, RenderedInv, SettledInv, AllSettled
  <2>2. \A c \in Classes : genStubs[loaded[p][i]][c] \notin Broken
    BY <1>1, <2>1, TextAssumption DEF Rendered
  <2> QED
    BY <1>1, <2>1, <2>2 DEF Settled, Compiles
<1>2. DiskInv => GoodStubsCompile
  BY <1>1 DEF GoodStubsCompile, LoadedExts
<1> QED
  BY <1>2, DiskInductive, PTL
-----------------------------------------------------------------------------
\* What the queue holds is asked for in the version that is wanted, and once.
Ordered(p) ==
    /\ \A k \in DOMAIN queue[p] : /\ queue[p][k].ext \in Requested(p)
                                  /\ queue[p][k].version = Wanted(p, queue[p][k].ext)
    /\ \A j, k \in DOMAIN queue[p] : queue[p][j].ext = queue[p][k].ext => j = k
OrderedInv == \A p \in Launches : Ordered(p)

Pending(p, e)  == \E k \in DOMAIN queue[p] : queue[p][k].ext = e
Outdated(p, e) == classpath[p][e] # Absent /\ classpath[p][e].version # Wanted(p, e)

\* How far the installer has got with one extension, compared with what the JVM
\* started with.
Followed(p, e) ==
    IF e \notin Requested(p) THEN installed[e] = classpath[p][e]
    ELSE IF Pending(p, e)
    THEN installed[e] = classpath[p][e] \/ (installed[e] = Absent /\ Outdated(p, e))
    ELSE IF classpath[p][e] # Absent /\ ~Outdated(p, e) THEN installed[e] # Absent
    ELSE installed[e] # Absent <=> Compiles(p, e)
AllFollowed(p) == \A e \in Exts \cup {Base} : Followed(p, e)
FollowedInv == \A p \in Launches : pc[p] = "install" => AllFollowed(p)

\* An extension is queued when it becomes wanted, and was not before.
LEMMA QueueOrdered ==
    ASSUME LaunchInv, NEW p \in Launches, Ordered(p), QueueExtension(p)
    PROVE  Ordered(p)'
<1>types. /\ queue \in [Launches -> Seq(Entry)] /\ loaded \in [Launches -> Seq(Exts)]
  BY DEF LaunchInv, TypeOK
<1>1. /\ next[p] \in DOMAIN Order /\ Current(p) \in Exts
  BY OrderAssumption DEF QueueExtension, LaunchInv, StageInv, Stage, Current
<1>2. PICK x : /\ x = [ext |-> Current(p), version |-> PluginVersion(info[p][Current(p)])]
               /\ queue'[p] = Append(queue[p], x)
               /\ loaded'[p] = Append(loaded[p], Current(p)) /\ info' = info
  BY <1>types DEF QueueExtension, Embedded, Set
<1>3. x.ext = Current(p) /\ x.ext # Base /\ x.version = PluginVersion(info[p][x.ext])
  BY <1>1, <1>2, BaseAssumption
<1>4. Requested(p)' = Requested(p) \cup {Current(p)}
  <2>1. /\ DOMAIN loaded'[p] = DOMAIN loaded[p] \cup {Len(loaded[p]) + 1}
        /\ loaded'[p][Len(loaded[p]) + 1] = Current(p)
        /\ \A i \in DOMAIN loaded[p] : loaded'[p][i] = loaded[p][i]
    BY <1>types, <1>2
  <2>2. LoadedExts(p)' = LoadedExts(p) \cup {Current(p)}
    BY <2>1 DEF LoadedExts
  <2> QED
    BY <2>2 DEF Requested
<1>5. \A e : Wanted(p, e)' = Wanted(p, e)
  BY <1>2 DEF Wanted
<1>6. /\ \A k \in DOMAIN queue'[p] : \/ k \in DOMAIN queue[p] /\ queue'[p][k] = queue[p][k]
                                     \/ k = Len(queue[p]) + 1 /\ queue'[p][k] = x
  BY <1>types, <1>2
<1>7. x.ext \notin Requested(p)
  BY <1>1, <1>3, CurrentNotLoaded DEF Requested, LoadedExts
<1>8. \A k \in DOMAIN queue'[p] : /\ queue'[p][k].ext \in Requested(p)'
                                  /\ queue'[p][k].version = Wanted(p, queue'[p][k].ext)
  BY <1>3, <1>4, <1>6 DEF Ordered, Wanted
<1>9. \A j, k \in DOMAIN queue'[p] : queue'[p][j].ext = queue'[p][k].ext => j = k
  BY <1>6, <1>7 DEF Ordered
<1> QED
  BY <1>5, <1>8, <1>9 DEF Ordered

\* The queue keeps asking for each extension once.
LEMMA StepOrdered ==
    ASSUME LaunchInv, OrderedInv, NEW p \in Launches, LaunchStep(p)
    PROVE  OrderedInv'
<1>other. ASSUME NEW q \in Launches, q # p PROVE Ordered(q)'
  BY <1>other, OtherLaunch DEF LaunchInv, OrderedInv, Ordered, Requested, LoadedExts, Wanted
<1>0. SUFFICES Ordered(p)'
  BY <1>other DEF OrderedInv
<1>types. /\ queue \in [Launches -> Seq(Entry)] /\ loaded \in [Launches -> Seq(Exts)]
          /\ info \in [Launches -> [Exts -> Infos \cup {Absent}]]
  BY DEF LaunchInv, TypeOK
<1>ih. Ordered(p)
  BY DEF OrderedInv
<1>1. CASE Start(p)
  <2>1. queue'[p] = <<BaseEntry>>
    BY <1>1, <1>types DEF Start, Set
  <2> QED
    BY <2>1 DEF Ordered, Requested, Wanted, BaseEntry
<1>2. CASE Exit(p)
  <2>1. queue'[p] = <<>>
    BY <1>2, <1>types DEF Exit, Set
  <2> QED
    BY <2>1 DEF Ordered
<1>3. CASE QueueExtension(p)
  BY <1>3, <1>ih, QueueOrdered
<1>4. CASE PluginSetup(p)
  <2>1. next[p] \in DOMAIN Order /\ UNCHANGED <<queue, loaded>>
    BY <1>4, OrderAssumption DEF PluginSetup, AtEntry, LaunchInv, TypeOK
  <2>2. \A i \in DOMAIN loaded[p] : info'[p][loaded[p][i]] = info[p][loaded[p][i]]
    BY <1>4, <2>1, <1>types, CurrentNotLoaded DEF PluginSetup
  <2>3. Requested(p)' = Requested(p) /\ \A e \in Requested(p) : Wanted(p, e)' = Wanted(p, e)
    BY <2>1, <2>2 DEF Requested, LoadedExts, Wanted
  <2> QED
    BY <1>ih, <2>1, <2>3 DEF Ordered
<1>5. CASE Install(p)
  <2>1. /\ queue'[p] = Tail(queue[p]) /\ queue[p] # <<>> /\ UNCHANGED <<info, loaded>>
    BY <1>5, <1>types DEF Install, AtInstall, Set
  <2>2. \A k \in DOMAIN queue'[p] : k \in Nat /\ k + 1 \in DOMAIN queue[p]
                                    /\ queue'[p][k] = queue[p][k + 1]
    BY <1>types, <2>1
  <2>3. Requested(p)' = Requested(p) /\ \A e : Wanted(p, e)' = Wanted(p, e)
    BY <2>1 DEF Requested, LoadedExts, Wanted
  <2>4. \A j, k \in DOMAIN queue'[p] : queue'[p][j].ext = queue'[p][k].ext => j = k
    <3> SUFFICES ASSUME NEW j \in DOMAIN queue'[p], NEW k \in DOMAIN queue'[p],
                        queue'[p][j].ext = queue'[p][k].ext
                 PROVE  j = k
      OBVIOUS
    <3>1. j + 1 = k + 1
      BY <1>ih, <2>2 DEF Ordered
    <3> QED
      BY <2>2, <3>1
  <2> QED
    BY <1>ih, <2>2, <2>3, <2>4 DEF Ordered
<1>6. CASE \/ SkipUnloadable(p) \/ PluginSetupRaises(p) \/ OpenStub(p) \/ CloseStub(p) \/ RenderRaises(p)
           \/ CopyTreeRaises(p) \/ FinishSetup(p) \/ StartJvm(p) \/ Uninstall(p) \/ FinishInstall(p)
  <2>1. UNCHANGED <<queue, info, loaded>>
    BY <1>6
    DEF SkipUnloadable, PluginSetupRaises, OpenStub, CloseStub, RenderRaises, CopyTreeRaises,
        SetupAborts, FinishSetup, StartJvm, Uninstall, FinishInstall, launchVars
  <2> QED
    BY <1>ih, <2>1 DEF Ordered, Requested, LoadedExts, Wanted
<1> QED
  BY <1>1, <1>2, <1>3, <1>4, <1>5, <1>6 DEF LaunchStep

\* What is known of the installer's progress depends on the disk and on the
\* launch only.
LEMMA SameFollowed ==
    ASSUME NEW q \in Launches, UNCHANGED diskVars,
           /\ info'[q] = info[q] /\ queue'[q] = queue[q] /\ loaded'[q] = loaded[q]
           /\ classpath'[q] = classpath[q]
    PROVE  AllFollowed(q)' = AllFollowed(q)
<1>1. /\ Requested(q)' = Requested(q)
      /\ \A e : /\ Pending(q, e)' = Pending(q, e) /\ Outdated(q, e)' = Outdated(q, e)
                /\ Compiles(q, e)' = Compiles(q, e)
  BY DEF Requested, LoadedExts, Pending, Outdated, Wanted, Compiles, diskVars
<1>2. \A e : Followed(q, e)' = Followed(q, e)
  BY <1>1 DEF Followed, diskVars
<1> QED
  BY <1>2 DEF AllFollowed

\* The installer goes through the queue, and does with each extension what the
\* versions of the moment when the JVM started demand.
LEMMA StepFollowed ==
    ASSUME LaunchInv, ExactInv, OrderedInv, SoleInv', FollowedInv,
           NEW p \in Launches, LaunchStep(p)
    PROVE  FollowedInv'
<1>other. ASSUME NEW q \in Launches, q # p, pc'[q] = "install" PROVE AllFollowed(q)'
  <2>1. TypeOK
    BY DEF LaunchInv
  <2>2. pc[q] = "install" /\ Busy(q)
    BY <1>other, <2>1, OtherLaunch DEF Busy
  <2>3. AllFollowed(q)' = AllFollowed(q)
    BY <1>other, <2>1, <2>2, OtherLaunch, OthersQuiet, SameFollowed
  <2> QED
    BY <2>2, <2>3 DEF FollowedInv
<1>0. SUFFICES ASSUME pc'[p] = "install", NEW e \in Exts \cup {Base} PROVE Followed(p, e)'
  BY <1>other DEF FollowedInv, AllFollowed
<1>types. /\ queue \in [Launches -> Seq(Entry)] /\ loaded \in [Launches -> Seq(Exts)]
          /\ installed \in [Exts \cup {Base} -> Jar \cup {Absent}]
          /\ pc \in [Launches -> {"down", "setup", "render", "jvm", "install", "up"}]
          /\ classpath \in [Launches -> Dir]
  BY DEF LaunchInv, TypeOK, Dir
<1>1. CASE StartJvm(p)
  <2>1. /\ UNCHANGED <<loaded, queue, installed>> /\ pc[p] = "jvm" /\ classpath'[p] = installed
    BY <1>1, <1>types DEF StartJvm, Set, diskVars
  <2>2. Requested(p)' = Requested(p) /\ Pending(p, e)' = Pending(p, e)
    BY <2>1 DEF Requested, LoadedExts, Pending
  <2>3. ASSUME e \in Requested(p) PROVE Pending(p, e)
    <3>1. /\ Len(loaded[p]) \in Nat /\ Len(queue[p]) = Len(loaded[p]) + 1
          /\ queue[p][1] = BaseEntry
          /\ \A i \in 1 .. Len(loaded[p]) : queue[p][i + 1] = Asked(p, i)
      BY <1>types, <2>1 DEF ExactInv, Exact
    <3>2. DOMAIN queue[p] = 1 .. Len(loaded[p]) + 1 /\ DOMAIN loaded[p] = 1 .. Len(loaded[p])
      BY <1>types, <3>1
    <3>3. CASE e = Base
      BY <3>1, <3>2, <3>3 DEF Pending, BaseEntry
    <3>4. CASE e # Base
      <4>1. PICK i \in DOMAIN loaded[p] : e = loaded[p][i]
        BY <2>3, <3>4 DEF Requested, LoadedExts
      <4>2. i \in 1 .. Len(loaded[p]) /\ i + 1 \in DOMAIN queue[p]
        BY <3>1, <3>2, <4>1
      <4>3. queue[p][i + 1].ext = e
        <5>1. queue[p][i + 1] = Asked(p, i)
          BY <3>1, <4>2
        <5> QED
          BY <4>1, <5>1 DEF Asked
      <4> QED
        BY <4>2, <4>3 DEF Pending
    <3> QED
      BY <3>3, <3>4
  <2> QED
    BY <2>1, <2>2, <2>3 DEF Followed
<1>2. CASE ~StartJvm(p)
  <2>ih. pc[p] = "install" /\ (Uninstall(p) \/ Install(p))
    BY <1>0, <1>types, <1>2
    DEF LaunchStep, Start, SkipUnloadable, AtEntry, PluginSetup, PluginSetupRaises, SetupAborts,
        OpenStub, CloseStub, RenderRaises, QueueExtension, CopyTreeRaises, FinishSetup, Uninstall,
        Install, AtInstall, FinishInstall, Exit, Goto, Set
  <2>same. UNCHANGED <<loaded, info, classpath, genStubs>>
    BY <2>ih DEF Uninstall, Install, launchVars
  <2>followed. Followed(p, e)
    BY <1>0, <2>ih DEF FollowedInv, AllFollowed
  <2>asked. /\ Requested(p)' = Requested(p) /\ Outdated(p, e)' = Outdated(p, e)
            /\ Compiles(p, e)' = Compiles(p, e)
    BY <2>same DEF Requested, LoadedExts, Outdated, Wanted, Compiles
  <2>x. PICK x \in Entry : /\ x = Head(queue[p]) /\ x = queue[p][1] /\ 1 \in DOMAIN queue[p]
                           /\ x.ext \in Exts \cup {Base}
    <3>1. queue[p] \in Seq(Entry) /\ queue[p] # <<>>
      BY <1>types, <2>ih DEF Uninstall, Install, AtInstall
    <3>2. /\ Head(queue[p]) \in Entry /\ Head(queue[p]) = queue[p][1]
          /\ 1 \in DOMAIN queue[p]
      BY <3>1
    <3> QED
      BY <3>2 DEF Entry
  <2>head. /\ x.ext \in Requested(p) /\ x.version = Wanted(p, x.ext) /\ Pending(p, x.ext)
    BY <2>x DEF OrderedInv, Ordered, Pending
  <2>1. CASE Uninstall(p)
    <3>1. /\ installed[x.ext] # Absent /\ installed[x.ext].version # x.version
          /\ installed' = Set(installed, x.ext, Absent) /\ queue' = queue
      BY <2>1, <2>x DEF Uninstall, launchVars
    <3>2. Pending(p, e)' = Pending(p, e)
      BY <3>1 DEF Pending
    <3>3. CASE e = x.ext
      <4>1. installed[e] = classpath[p][e] /\ Outdated(p, e)
        BY <2>followed, <2>head, <3>1, <3>3 DEF Followed, Outdated
      <4>2. installed'[e] = Absent
        BY <1>types, <3>1, <3>3 DEF Set
      <4> QED
        BY <2>asked, <2>head, <3>2, <3>3, <4>1, <4>2 DEF Followed
    <3>4. CASE e # x.ext
      <4>1. installed'[e] = installed[e]
        BY <1>types, <1>0, <2>x, <3>1, <3>4 DEF Set
      <4> QED
        BY <2>same, <2>followed, <2>asked, <3>2, <4>1 DEF Followed
    <3> QED
      BY <3>3, <3>4
  <2>2. CASE Install(p)
    <3>1. queue'[p] = Tail(queue[p]) /\ queue[p] # <<>>
      BY <2>2, <1>types DEF Install, AtInstall, Set
    <3>2. /\ \A k \in DOMAIN queue[p] \ {1} :
                k - 1 \in DOMAIN queue'[p] /\ queue'[p][k - 1] = queue[p][k]
          /\ \A k \in DOMAIN queue'[p] :
                k + 1 \in DOMAIN queue[p] \ {1} /\ queue'[p][k] = queue[p][k + 1]
      BY <1>types, <3>1
    <3>3. Pending(p, e)' <=> Pending(p, e) /\ e # x.ext
      <4>1. \A k \in DOMAIN queue[p] : queue[p][k].ext = x.ext => k = 1
        BY <2>x DEF OrderedInv, Ordered
      <4> QED
        BY <2>x, <3>2, <4>1 DEF Pending
    <3>4. Built(x.ext, x.version) # Absent
      <4>1. x.ext \in Exts \cup {Base} /\ x.version \in PluginVersions
        BY <2>x DEF Entry
      <4>2. genStubs \in [Exts -> Files] /\ genJava \in [Exts -> JavaTexts \cup {Absent}]
        BY DEF LaunchInv, TypeOK
      <4>3. Built(x.ext, x.version) \in Jar
        BY <4>1, <4>2, RecordTypes DEF Built, Jar, NoJar
      <4> QED
        BY <4>3, RecordTypes
    <3>5. \/ installed[x.ext] # Absent /\ installed[x.ext].version = x.version /\ installed' = installed
          \/ installed[x.ext] = Absent /\ Compiles(p, x.ext)
             /\ installed' = Set(installed, x.ext, Built(x.ext, x.version))
          \/ installed[x.ext] = Absent /\ ~Compiles(p, x.ext) /\ installed' = installed
      BY <2>2, <2>x DEF Install
    <3>6. CASE e = x.ext
      <4>1. ~Pending(p, e)' /\ e \in Requested(p)
        BY <2>head, <3>3, <3>6
      <4>2. installed[e] = classpath[p][e] \/ (installed[e] = Absent /\ Outdated(p, e))
        BY <2>followed, <2>head, <3>6 DEF Followed
      <4>3. CASE installed[e] # Absent
        <5>1. installed'[e] = installed[e] /\ installed[e] = classpath[p][e] /\ ~Outdated(p, e)
          BY <2>head, <3>5, <3>6, <4>2, <4>3 DEF Outdated
        <5> QED
          BY <2>same, <2>asked, <4>1, <4>3, <5>1 DEF Followed
      <4>4. CASE installed[e] = Absent
        <5>1. installed'[e] # Absent <=> Compiles(p, e)
          BY <1>types, <2>x, <3>4, <3>5, <3>6, <4>4 DEF Set
        <5>2. classpath[p][e] = Absent \/ Outdated(p, e)
          BY <4>2, <4>4
        <5> QED
          BY <2>same, <2>asked, <4>1, <5>1, <5>2 DEF Followed
      <4> QED
        BY <4>3, <4>4
    <3>7. CASE e # x.ext
      <4>1. installed'[e] = installed[e]
        BY <1>types, <1>0, <2>x, <3>5, <3>7 DEF Set
      <4> QED
        BY <2>same, <2>followed, <2>asked, <3>3, <3>7, <4>1 DEF Followed
    <3> QED
      BY <3>6, <3>7
  <2> QED
    BY <2>ih, <2>1, <2>2
<1> QED
  BY <1>1, <1>2

\* When the queue is empty, the extensions that are installed are those that
\* Bootstrap has after a start.
LEMMA FollowedIsOneStep ==
    ASSUME LaunchInv, FollowedInv, NEW p \in Launches, Ready(p), NEW was, NEW old,
           was = Jars(classpath[p]),
           old = {e \in was \cap Requested(p) : classpath[p][e].version # Wanted(p, e)}
    PROVE  Jars(installed) = After(was, old, Compilable(Requested(p), UsesBase, NotCompiling, was, old),
                                   Requested(p), Requested(p))
<1> DEFINE all == Exts \cup {Base}
<1>1. DOMAIN installed = all /\ DOMAIN classpath[p] = all /\ loaded[p] \in Seq(Exts)
  BY DEF LaunchInv, TypeOK, Dir
<1>2. Requested(p) \subseteq all
  BY <1>1 DEF Requested, LoadedExts
<1>3. \A e \in all : (e \in was <=> classpath[p][e] # Absent)
                     /\ (e \in old <=> e \in Requested(p) /\ Outdated(p, e))
  BY <1>1 DEF Jars, Outdated
<1>4. ASSUME NEW e \in all
      PROVE  Compiles(p, e) <=> e \notin NotCompiling /\ UsesBase[e] \subseteq was
  <2>1. CASE e = Base
    BY <2>1, BaseAssumption DEF Compiles, NotCompiling, UsesBase
  <2>2. CASE e # Base
    <3>1. e \in Exts /\ UsesBase[e] = {Base}
      BY <2>2 DEF UsesBase
    <3> QED
      BY <2>2, <3>1 DEF Compiles, NotCompiling
  <2> QED
    BY <2>1, <2>2
<1>5. \A e \in all : ~Pending(p, e) /\ Followed(p, e)
  BY DEF Ready, Pending, FollowedInv, AllFollowed
<1>6. ASSUME NEW e \in all
      PROVE  installed[e] # Absent <=>
                \/ e \in was /\ ~(e \in old /\ e \in Requested(p))
                \/ /\ e \in Requested(p) /\ e \notin NotCompiling
                   /\ e \notin was \/ e \in old
                   /\ UsesBase[e] \subseteq was
  BY <1>3, <1>4, <1>5 DEF Followed
<1>7. was \subseteq all
  BY <1>1 DEF Jars
<1> HIDE DEF all
<1> QED
  BY <1>1, <1>2, <1>6, <1>7 DEF Jars, After, Compilable

\* A launch does in its many steps what Bootstrap takes a start of Ghidra to do in
\* one, whatever upgrades, kills and earlier launches came before.
THEOREM StartIsOneStep == ASSUME OneAtATime PROVE Spec => []StartAsOneStep
<1>1. Init => OrderedInv /\ FollowedInv
  BY DEF Init, OrderedInv, Ordered, FollowedInv
<1>2. ASSUME LaunchInv, ExactInv, DiskInv, SoleInv', OrderedInv, FollowedInv, [Next]_vars
      PROVE  OrderedInv' /\ FollowedInv'
  <2>1. ASSUME NEW p \in Launches, LaunchStep(p) PROVE OrderedInv' /\ FollowedInv'
    BY <1>2, <2>1, StepOrdered, StepFollowed
  <2>2. CASE UNCHANGED <<diskVars, launchVars>>
    <3>1. \A q \in Launches : AllFollowed(q)' = AllFollowed(q)
      BY <2>2, SameFollowed DEF launchVars
    <3> QED
      BY <1>2, <2>2, <3>1
      DEF OrderedInv, Ordered, Requested, LoadedExts, Wanted, FollowedInv, launchVars
  <2> QED
    BY <1>2, <2>1, <2>2 DEF Next, Upgrade, vars
<1>3. DiskInv => SoleInv
  BY DEF DiskInv
<1>4. LaunchInv /\ FollowedInv => StartAsOneStep
  BY FollowedIsOneStep DEF StartAsOneStep
<1> QED
  BY <1>1, <1>2, <1>3, <1>4, LaunchInductive, ExactInductive, DiskInductive, PTL DEF Spec
-----------------------------------------------------------------------------
\* A launch has remembered the directory of every extension it rendered.
Remembered(p) ==
    /\ \A i \in DOMAIN loaded[p] : loaded[p][i] \in stubDirs[p]
    /\ pc[p] = "render" => Current(p) \in stubDirs[p]
DirsInv == \A p \in Launches : Remembered(p)

\* The only launch there is stays up with what the installer left it.
UpInv == \A p \in Launches : pc[p] = "up" => AllSettled(p)

\* A launch forgets no directory before it ends.
LEMMA StepDirs ==
    ASSUME LaunchInv, DirsInv, NEW p \in Launches, LaunchStep(p)
    PROVE  DirsInv'
<1>other. ASSUME NEW q \in Launches, q # p PROVE Remembered(q)'
  BY <1>other, OtherLaunch DEF LaunchInv, DirsInv, Remembered, Current
<1>0. SUFFICES Remembered(p)'
  BY <1>other DEF DirsInv
<1>types. /\ loaded \in [Launches -> Seq(Exts)] /\ stubDirs \in [Launches -> SUBSET Exts]
          /\ pc \in [Launches -> {"down", "setup", "render", "jvm", "install", "up"}]
  BY DEF LaunchInv, TypeOK
<1>ih. Remembered(p)
  BY DEF DirsInv
<1>1. CASE PluginSetup(p)
  <2>1. stubDirs'[p] = stubDirs[p] \cup {Current(p)} /\ UNCHANGED <<loaded, next>>
    BY <1>1, <1>types DEF PluginSetup, Set
  <2> QED
    BY <1>ih, <2>1 DEF Remembered, Current
<1>2. CASE QueueExtension(p)
  <2>1. /\ loaded'[p] = Append(loaded[p], Current(p)) /\ stubDirs' = stubDirs
        /\ pc'[p] = "setup" /\ Current(p) \in stubDirs[p]
    BY <1>2, <1>types, <1>ih DEF QueueExtension, Set, Goto, Remembered
  <2>2. \A i \in DOMAIN loaded'[p] :
            loaded'[p][i] = Current(p) \/ (i \in DOMAIN loaded[p] /\ loaded'[p][i] = loaded[p][i])
    BY <1>types, <2>1
  <2> QED
    BY <1>ih, <2>1, <2>2 DEF Remembered
<1>3. CASE Exit(p)
  <2>1. loaded'[p] = <<>> /\ pc'[p] = "down"
    BY <1>3, <1>types DEF Exit, Set, Goto
  <2> QED
    BY <2>1 DEF Remembered
<1>4. CASE ~PluginSetup(p) /\ ~QueueExtension(p) /\ ~Exit(p)
  <2>1. /\ UNCHANGED <<loaded, stubDirs>>
        /\ pc'[p] = "render" => pc[p] = "render" /\ next' = next
    BY <1>4, <1>types
    DEF LaunchStep, Start, SkipUnloadable, AtEntry, PluginSetupRaises, SetupAborts, OpenStub,
        CloseStub, RenderRaises, CopyTreeRaises, FinishSetup, StartJvm, Uninstall, Install,
        AtInstall, FinishInstall, Goto, Set, launchVars
  <2> QED
    BY <1>ih, <2>1 DEF Remembered, Current
<1> QED
  BY <1>1, <1>2, <1>3, <1>4

\* Nothing happens to an installation while the launch that made it is up.
LEMMA StepUp ==
    ASSUME OneLaunch, LaunchInv, SettledInv, NEW p \in Launches, LaunchStep(p)
    PROVE  UpInv'
<1>0. SUFFICES ASSUME pc'[p] = "up" PROVE AllSettled(p)'
  BY DEF OneLaunch, UpInv
<1>1. pc[p] = "install" /\ FinishInstall(p)
  BY <1>0
  DEF LaunchInv, TypeOK, LaunchStep, Start, SkipUnloadable, PluginSetup, AtEntry, PluginSetupRaises,
      SetupAborts, OpenStub, CloseStub, RenderRaises, QueueExtension, CopyTreeRaises, FinishSetup,
      StartJvm, Uninstall, Install, AtInstall, FinishInstall, Exit, Goto, Set, launchVars
<1>2. UNCHANGED <<loaded, queue, installed, classpath, genStubs>>
  BY <1>1 DEF FinishInstall, diskVars
<1>3. AllSettled(p)' = AllSettled(p)
  BY <1>2 DEF AllSettled, Settled, Compiles
<1> QED
  BY <1>1, <1>3 DEF SettledInv

\* The compiler diagnostic is in the exception for a class that does not load if
\* and only if there is no jar, and else the error of the class loader.
THEOREM DiagnosisIsTrue == ASSUME OneLaunch PROVE Spec => []DiagnosisTruthful
<1>1. Init => DirsInv /\ UpInv
  BY DEF Init, DirsInv, Remembered, UpInv
<1>2. ASSUME LaunchInv, DiskInv, DirsInv, UpInv, [Next]_vars PROVE DirsInv' /\ UpInv'
  <2>1. ASSUME NEW p \in Launches, LaunchStep(p) PROVE DirsInv' /\ UpInv'
    BY <1>2, <2>1, StepDirs, StepUp DEF DiskInv
  <2>2. CASE UNCHANGED <<diskVars, launchVars>>
    BY <1>2, <2>2, SameLaunch DEF DirsInv, Remembered, UpInv, Current, launchVars
  <2> QED
    BY <1>2, <2>1, <2>2 DEF Next, Upgrade, vars
<1>3. ASSUME LaunchInv, DirsInv, UpInv, NEW p \in Launches, pc[p] = "up", NEW i \in DOMAIN loaded[p],
             loaded[p][i] \notin Jars(classpath[p])
      PROVE  /\ "compiler diagnostic" \in Diagnosis(p, loaded[p][i])
                    <=> installed[loaded[p][i]] = Absent
             /\ "load error" \in Diagnosis(p, loaded[p][i])
                    <=> installed[loaded[p][i]] # Absent
  <2>1. queue[p] = <<>>
    BY <1>3 DEF LaunchInv, StageInv, Stage
  <2>2. Settled(p, loaded[p][i]) /\ loaded[p][i] \in stubDirs[p]
    BY <1>3 DEF UpInv, AllSettled, DirsInv, Remembered
  <2> QED
    BY <1>3, <2>1, <2>2 DEF Settled, Diagnosis
<1>4. LaunchInv /\ DirsInv /\ UpInv => DiagnosisTruthful
  <2>1. ASSUME LaunchInv, DirsInv, UpInv, NEW p \in Launches, pc[p] = "up",
               NEW e \in LoadedExts(p) \ Jars(classpath[p])
        PROVE  /\ "compiler diagnostic" \in Diagnosis(p, e) <=> installed[e] = Absent
               /\ "load error" \in Diagnosis(p, e) <=> installed[e] # Absent
    <3>1. PICK k \in DOMAIN loaded[p] : e = loaded[p][k]
      BY <2>1 DEF LoadedExts
    <3>2. loaded[p][k] \notin Jars(classpath[p])
      BY <2>1, <3>1
    <3> QED
      BY <1>3, <2>1, <3>1, <3>2
  <2> QED
    BY <2>1 DEF DiagnosisTruthful
<1>5. OneAtATime
  BY DEF OneAtATime
<1> QED
  BY <1>1, <1>2, <1>4, <1>5, LaunchInductive, DiskInductive, PTL DEF Spec
=============================================================================
