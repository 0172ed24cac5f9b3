------------------------------ MODULE DecafSetup ------------------------------
(***************************************************************************)
(* A launch of Ghidra through pyghidra with decaf installed: decaf_setup    *)
(* (decaf_setup.py) renders a Java stub per plugin into a directory it      *)
(* keeps under the user's home, copies extra Java sources beside them, and  *)
(* queues every extension with a plugin version that embeds a hash of the   *)
(* stubs; pyghidra's launcher then reinstalls what the version says is out  *)
(* of date.                                                                 *)
(*                                                                          *)
(* On disk, and so across launches and crashes: the generated directories   *)
(* and the installed jars.  In a launch: the position of decaf_setup, the   *)
(* launcher's queue and LoadedPlugins.  Python packages are upgraded at any *)
(* time (declared).  The launcher itself is pyghidra's; it is modelled from *)
(* the comments at decaf_setup.py:333-355 and bootstrap.py:3-19.            *)
(***************************************************************************)
EXTENDS Naturals, Sequences, FiniteSets, ExtensionsDir

CONSTANTS Launches,     \* processes that start Ghidra
          Exts,         \* decaf extensions: names, and entry points
          Order,        \* the entry points of decaf.init as enumerated
          Base,         \* the extension "PyGhidra Decaf" itself
          BaseVersion,  \* its plugin version
          Classes,      \* plugin class names
          Sources,      \* texts of a rendered stub
          Broken,       \* those javac rejects
          Torn,         \* what is in a stub file while it is being written
          InvalidType,  \* stands for a plugin whose type is no PluginType
          Absent,       \* no file, no jar, no such plugin
          Versions,     \* version strings of extensions
          JavaTexts,    \* contents of an extra Java source file
          JavaDir,      \* java_source names a directory
          Releases,     \* for each, the DecafExtensionInfos of its releases
          Raises,       \* plugin_setup raises
          Unloadable,   \* the entry point fails to load
          Exclusive     \* nobody starts a launch while another is being set up

Files == [Classes -> Sources \cup {Absent}]
Info  == [version : Versions,
          stubs   : [Classes -> Sources \cup {InvalidType, Absent}],
          java    : JavaTexts \cup {JavaDir, Absent}]

\* What plugin_setup may return.
Infos == UNION {Releases[e] : e \in Exts}

\* details.plugin_version: the md5 of the rendered stubs, taken as injective
\* (32 bits of it are kept).
Unhashed(i)      == [version |-> i.version, hash |-> [c \in Classes |-> Absent]]  \* a mutant
PluginVersion(i) == [version |-> i.version, hash |-> i.stubs]
PluginVersions   == {BaseVersion} \cup
                    [version : Versions, hash : [Classes -> Sources \cup {InvalidType, Absent}]]

Jar   == [version : PluginVersions, stubs : Files, java : JavaTexts \cup {Absent}]
Dir   == [Exts \cup {Base} -> Jar \cup {Absent}]
Entry == [ext : Exts \cup {Base}, version : PluginVersions]

ASSUME OrderAssumption == /\ Order \in Seq(Exts)
                          /\ \A i, j \in DOMAIN Order : Order[i] = Order[j] => i = j
ASSUME BaseAssumption  == Base \notin Exts
ASSUME TextAssumption  == /\ Torn \in Sources /\ Broken \subseteq Sources
                          /\ {Absent, InvalidType} \cap Sources = {}
                          /\ Absent # InvalidType
                          /\ {Absent, JavaDir} \cap JavaTexts = {} /\ Absent # JavaDir
ASSUME InfosAssumption == /\ Infos \subseteq Info
                          /\ \A e \in Exts : Releases[e] \subseteq Infos
                          /\ Absent \notin Info \cup Jar
                          /\ {Raises, Unloadable} \cap Infos = {}
ASSUME ExclusiveAssumption == Exclusive \in BOOLEAN

VARIABLES declared,   \* what each entry point's package now says
          genStubs,   \* ~/.config/decaf/<version>/<ext>/<class>.java
          genJava,    \* the extra Java source copied there
          installed,  \* the jars under Ghidra's Extensions directory
          pc,         \* where each launch is
          next,       \* the entry point decaf_setup is at
          info,       \* the ext_info objects fetched by this launch
          todo,       \* plugins of the current extension not yet rendered
          open,       \* the plugin whose stub file is open for writing, if any
          stubDirs,   \* GENERATED_STUB_DIRS
          queue,      \* extensions given to launcher.install_plugin
          loaded,     \* LoadedPlugins
          classpath   \* the jars as this JVM started with them

diskVars   == <<genStubs, genJava, installed>>
launchVars == <<pc, next, info, todo, open, stubDirs, queue, loaded, classpath>>
vars == <<declared, diskVars, launchVars>>

BaseEntry == [ext |-> Base, version |-> BaseVersion]
NoJars    == [e \in Exts \cup {Base} |-> Absent]
NoJar     == [version |-> BaseVersion, stubs |-> [c \in Classes |-> Absent], java |-> Absent]

Init == /\ declared \in {d \in [Exts -> Infos] : \A e \in Exts : d[e] \in Releases[e]}
        /\ genStubs = [e \in Exts |-> [c \in Classes |-> Absent]]
        /\ genJava = [e \in Exts |-> Absent]
        /\ installed = NoJars
        /\ pc = [p \in Launches |-> "down"]
        /\ next = [p \in Launches |-> 1]
        /\ info = [p \in Launches |-> [e \in Exts |-> Absent]]
        /\ todo = [p \in Launches |-> {}]
        /\ open = [p \in Launches |-> {}]
        /\ stubDirs = [p \in Launches |-> {}]
        /\ queue = [p \in Launches |-> <<>>]
        /\ loaded = [p \in Launches |-> <<>>]
        /\ classpath = [p \in Launches |-> NoJars]
-----------------------------------------------------------------------------
Set(f, p, v) == [f EXCEPT ![p] = v]
Goto(p, l) == pc' = Set(pc, p, l)
Current(p) == Order[next[p]]
AtEntry(p) == pc[p] = "setup" /\ next[p] <= Len(Order)

\* The package of e is upgraded or edited; running launches keep what they
\* have read.
Upgrade(e) ==
    /\ \E d \in (Releases[e] \cup {Raises, Unloadable}) \ {declared[e]} :
          declared' = [declared EXCEPT ![e] = d]
    /\ UNCHANGED <<diskVars, launchVars>>

\* The launch is somewhere between the start of decaf_setup and the end of the
\* installation.
Busy(p) == pc[p] \notin {"down", "up"}

\* pyghidra calls decaf_setup, which queues decaf's own Java sources first.
Start(p) ==
    /\ pc[p] = "down"
    /\ Exclusive => \A q \in Launches : ~Busy(q)
    /\ Goto(p, "setup")
    /\ queue' = Set(queue, p, <<BaseEntry>>)
    /\ UNCHANGED <<declared, diskVars, next, info, todo, open, stubDirs, loaded, classpath>>

\* Mutant of SkipUnloadable: the entry point after it is dropped too.
SkipTwo(p) ==
    /\ AtEntry(p)
    /\ declared[Current(p)] = Unloadable
    /\ next' = Set(next, p, next[p] + 2)
    /\ UNCHANGED <<declared, diskVars, pc, info, todo, open, stubDirs, queue, loaded, classpath>>

\* _load_entry_points logs an entry point that does not load, and drops it.
SkipUnloadable(p) ==
    /\ AtEntry(p)
    /\ declared[Current(p)] = Unloadable
    /\ next' = Set(next, p, next[p] + 1)
    /\ UNCHANGED <<declared, diskVars, pc, info, todo, open, stubDirs, queue, loaded, classpath>>

\* Mutant of PluginSetup: the directory is emptied first.
PluginSetupFresh(p) ==
    /\ AtEntry(p)
    /\ LET e == Current(p) IN
          /\ declared[e] \in Infos
          /\ info' = [info EXCEPT ![p][e] = declared[e]]
          /\ todo' = Set(todo, p, {c \in Classes : declared[e].stubs[c] # Absent})
          /\ stubDirs' = Set(stubDirs, p, stubDirs[p] \cup {e})
          /\ genStubs' = Set(genStubs, e, [c \in Classes |-> Absent])
    /\ Goto(p, "render")
    /\ UNCHANGED <<declared, genJava, installed, next, open, queue, loaded, classpath>>

\* ext_info = plugin_setup(launcher); its directory is made and remembered.
PluginSetup(p) ==
    /\ AtEntry(p)
    /\ LET e == Current(p) IN
          /\ declared[e] \in Infos
          /\ info' = [info EXCEPT ![p][e] = declared[e]]
          /\ todo' = Set(todo, p, {c \in Classes : declared[e].stubs[c] # Absent})
          /\ stubDirs' = Set(stubDirs, p, stubDirs[p] \cup {e})
    /\ Goto(p, "render")
    /\ UNCHANGED <<declared, diskVars, next, open, queue, loaded, classpath>>

\* An exception leaves decaf_setup; the launcher logs it and goes on with what
\* is queued.
SetupAborts(p) ==
    /\ Goto(p, "jvm")
    /\ UNCHANGED <<declared, diskVars, next, info, todo, open, stubDirs, queue, loaded, classpath>>

PluginSetupRaises(p) ==
    /\ AtEntry(p)
    /\ declared[Current(p)] = Raises
    /\ SetupAborts(p)

\* What is in the stub file of a plugin becomes x.
WriteStub(e, c, x) == genStubs' = [genStubs EXCEPT ![e][c] = x]

\* Mutant of OpenStub: a stub that is there is not written again.
OpenMissing(p) ==
    /\ pc[p] = "render"
    /\ open[p] = {}
    /\ \E c \in todo[p] :
          /\ info[p][Current(p)].stubs[c] # InvalidType
          /\ IF genStubs[Current(p)][c] = Absent
             THEN WriteStub(Current(p), c, Torn) /\ open' = Set(open, p, {c}) /\ UNCHANGED todo
             ELSE todo' = Set(todo, p, todo[p] \ {c}) /\ UNCHANGED <<genStubs, open>>
    /\ UNCHANGED <<declared, genJava, installed, pc, next, info, stubDirs, queue, loaded,
                   classpath>>

\* Render one plugin of the extension; the stub is always written.  Opening the
\* file truncates it ...
OpenStub(p) ==
    /\ pc[p] = "render"
    /\ open[p] = {}
    /\ \E c \in todo[p] :
          /\ info[p][Current(p)].stubs[c] # InvalidType
          /\ WriteStub(Current(p), c, Torn)
          /\ open' = Set(open, p, {c})
    /\ UNCHANGED <<declared, genJava, installed, pc, next, info, todo, stubDirs, queue,
                   loaded, classpath>>

\* ... and the text is there when it is closed.
CloseStub(p) ==
    /\ pc[p] = "render"
    /\ \E c \in open[p] :
          /\ WriteStub(Current(p), c, info[p][Current(p)].stubs[c])
          /\ todo' = Set(todo, p, todo[p] \ {c})
    /\ open' = Set(open, p, {})
    /\ UNCHANGED <<declared, genJava, installed, pc, next, info, stubDirs, queue,
                   loaded, classpath>>

\* _build_additional_imports raises ValueError.
RenderRaises(p) ==
    /\ pc[p] = "render"
    /\ open[p] = {}
    /\ \E c \in todo[p] : info[p][Current(p)].stubs[c] = InvalidType
    /\ SetupAborts(p)

\* Mutant of Embedded: the hash is left out once there is a jar.
EmbeddedOnce(p) == IF installed[Current(p)] = Absent
                   THEN PluginVersion(info[p][Current(p)]) ELSE Unhashed(info[p][Current(p)])

\* The plugin version embeds the hash unconditionally.
Embedded(p) == PluginVersion(info[p][Current(p)])

\* Copy java_source, queue the extension under its plugin version, and only
\* then append it to LoadedPlugins.
QueueExtension(p) ==
    /\ pc[p] = "render"
    /\ todo[p] = {}
    /\ LET e == Current(p)
           i == info[p][e]
       IN /\ i.java # JavaDir
          /\ genJava' = IF i.java = Absent THEN genJava ELSE Set(genJava, e, i.java)
          /\ queue' = Set(queue, p, Append(queue[p], [ext |-> e, version |-> Embedded(p)]))
          /\ loaded' = Set(loaded, p, Append(loaded[p], e))
    /\ next' = Set(next, p, next[p] + 1)
    /\ Goto(p, "setup")
    /\ UNCHANGED <<declared, genStubs, installed, info, todo, open, stubDirs, classpath>>

\* Mutant of CopyTreeRaises: LoadedPlugins is appended to before the copy.
LoadedBeforeCopy(p) ==
    /\ pc[p] = "render"
    /\ todo[p] = {}
    /\ info[p][Current(p)].java = JavaDir
    /\ loaded' = Set(loaded, p, Append(loaded[p], Current(p)))
    /\ Goto(p, "jvm")
    /\ UNCHANGED <<declared, diskVars, next, info, todo, open, stubDirs, queue, classpath>>

\* shutil.copytree refuses a target that exists, and the target was made by
\* PluginSetup.
CopyTreeRaises(p) ==
    /\ pc[p] = "render"
    /\ todo[p] = {}
    /\ info[p][Current(p)].java = JavaDir
    /\ SetupAborts(p)

FinishSetup(p) ==
    /\ pc[p] = "setup"
    /\ next[p] > Len(Order)
    /\ Goto(p, "jvm")
    /\ UNCHANGED <<declared, diskVars, next, info, todo, open, stubDirs, queue, loaded, classpath>>
-----------------------------------------------------------------------------
\* The launcher (external).  A JVM sees the jars that were there when it started.
StartJvm(p) ==
    /\ pc[p] = "jvm"
    /\ classpath' = Set(classpath, p, installed)
    /\ Goto(p, "install")
    /\ UNCHANGED <<declared, diskVars, next, info, todo, open, stubDirs, queue, loaded>>

AtInstall(p) == pc[p] = "install" /\ queue[p] # <<>>

\* _uninstall_old_plugin: the stored plugin version differs, so the extension's
\* directory is removed.
Uninstall(p) ==
    /\ AtInstall(p)
    /\ LET x == Head(queue[p]) IN
          /\ installed[x.ext] # Absent
          /\ installed[x.ext].version # x.version
          /\ installed' = Set(installed, x.ext, Absent)
    /\ UNCHANGED <<declared, genStubs, genJava, launchVars>>

\* The extensions that have a jar in dir.
Jars(dir) == {e \in DOMAIN dir : dir[e] # Absent}

\* What javac makes of a source directory.  Decaf's own sources depend on
\* nothing; a stub extends a class of the base jar, and every file in the
\* generated directory is compiled, whoever put it there.
Compiles(p, e) == e # Base => /\ Base \in Jars(classpath[p])
                              /\ \A c \in Classes : genStubs[e][c] \notin Broken

Built(e, v) == IF e = Base THEN [NoJar EXCEPT !.version = v]
               ELSE [version |-> v, stubs |-> genStubs[e], java |-> genJava[e]]

\* _install_plugin: nothing to do when the jar is there; otherwise compile, and
\* leave no directory behind when that fails.
Install(p) ==
    /\ AtInstall(p)
    /\ LET x == Head(queue[p]) IN
          \/ /\ installed[x.ext] # Absent
             /\ installed[x.ext].version = x.version
             /\ UNCHANGED installed
          \/ /\ installed[x.ext] = Absent
             /\ installed' = IF Compiles(p, x.ext)
                             THEN Set(installed, x.ext, Built(x.ext, x.version))
                             ELSE installed
    /\ queue' = Set(queue, p, Tail(queue[p]))
    /\ UNCHANGED <<declared, genStubs, genJava, pc, next, info, todo, open, stubDirs, loaded,
                   classpath>>

FinishInstall(p) ==
    /\ pc[p] = "install"
    /\ queue[p] = <<>>
    /\ Goto(p, "up")
    /\ UNCHANGED <<declared, diskVars, next, info, todo, open, stubDirs, queue, loaded, classpath>>

\* The process ends, by itself or not: what it had in memory is gone, and a stub
\* it was writing stays as it is.
Exit(p) ==
    /\ pc[p] # "down"
    /\ Goto(p, "down")
    /\ next' = Set(next, p, 1)
    /\ info' = Set(info, p, [e \in Exts |-> Absent])
    /\ todo' = Set(todo, p, {})
    /\ open' = Set(open, p, {})
    /\ stubDirs' = Set(stubDirs, p, {})
    /\ queue' = Set(queue, p, <<>>)
    /\ loaded' = Set(loaded, p, <<>>)
    /\ classpath' = Set(classpath, p, NoJars)
    /\ UNCHANGED <<declared, diskVars>>

LaunchStep(p) ==
    \/ Start(p) \/ SkipUnloadable(p) \/ PluginSetup(p) \/ PluginSetupRaises(p)
    \/ OpenStub(p) \/ CloseStub(p) \/ RenderRaises(p) \/ QueueExtension(p)
    \/ CopyTreeRaises(p) \/ FinishSetup(p) \/ StartJvm(p) \/ Uninstall(p) \/ Install(p)
    \/ FinishInstall(p) \/ Exit(p)

Next == \/ \E e \in Exts : Upgrade(e)
        \/ \E p \in Launches : LaunchStep(p)

Spec == Init /\ [][Next]_vars

\* A step of a launch that is not cut off before it is up.
Uncut(p) == LaunchStep(p) /\ (pc'[p] = "down" => pc[p] = "up")

\* Ghidra is launched again and again, and a launch that is not killed goes on.
FairSpec == Spec /\ \A p \in Launches : WF_vars(Uncut(p))

\* Mutant of Diagnosis: the exception of the second compilation is swallowed.
NoDiagnostic(p, e) == {"stub did not compile", "load error"}

\* _diagnose_plugin_load_failure, for an extension one of whose classes does not
\* load: what the exception says.  Whatever the reason, that the generated stub
\* did not compile; and then, the stubs being compiled again, the diagnostic of
\* the compiler, or else the error of the class loader.
Diagnosis(p, e) ==
    {"stub did not compile",
     IF e \in stubDirs[p] /\ ~Compiles(p, e) THEN "compiler diagnostic" ELSE "load error"}
-----------------------------------------------------------------------------
LoadedExts(p) == {loaded[p][i] : i \in DOMAIN loaded[p]}
Declares(i, c) == i.stubs[c] # Absent

\* Every variable has its type.
TypeOK == /\ declared \in [Exts -> Infos \cup {Raises, Unloadable}]
          /\ genStubs \in [Exts -> Files]
          /\ genJava \in [Exts -> JavaTexts \cup {Absent}]
          /\ installed \in Dir
          /\ pc \in [Launches -> {"down", "setup", "render", "jvm", "install", "up"}]
          /\ next \in [Launches -> 1 .. Len(Order) + 1]
          /\ info \in [Launches -> [Exts -> Infos \cup {Absent}]]
          /\ todo \in [Launches -> SUBSET Classes]
          /\ open \in [Launches -> SUBSET Classes]
          /\ stubDirs \in [Launches -> SUBSET Exts]
          /\ queue \in [Launches -> Seq(Entry)]
          /\ loaded \in [Launches -> Seq(Exts)]
          /\ classpath \in [Launches -> Dir]

\* The launch is about to come up: all that it queued is dealt with.
Ready(p) == pc[p] = "install" /\ queue[p] = <<>>

\* A launch never comes up with a stale jar: if an extension it loaded has a jar,
\* the jar was compiled from the stubs this launch rendered.
NoStaleJar ==
    \A p \in Launches : Ready(p) =>
        \A e \in LoadedExts(p) : installed[e] # Absent =>
            \A c \in Classes : Declares(info[p][e], c) =>
                installed[e].stubs[c] = info[p][e].stubs[c]

\* The plugin version recorded with a jar tells what it was compiled from, so
\* comparing versions, and no stub, is enough to find a stale jar.
JarMatchesVersion ==
    \A e \in Exts : installed[e] # Absent =>
        \A c \in Classes : installed[e].version.hash[c] # Absent =>
            installed[e].stubs[c] = installed[e].version.hash[c]

\* Launches that overlap do no harm to an extension whose package is left alone:
\* its jar holds the stubs the package declares, all of them, unless javac was
\* given a stub that another launch was writing, and accepted it.
UnchangedNeverStale ==
    \A e \in Exts, d \in Infos :
        Releases[e] = {d} /\ installed[e] # Absent =>
            \A c \in Classes : Declares(d, c) =>
                installed[e].stubs[c] \in {d.stubs[c]} \cup ({Torn} \ Broken)

\* A jar is thrown away only by a launch that queued its extension, and only when
\* the package is not the one the jar was compiled for: unchanged packages are not
\* reinstalled on the next launch, nor after a crash.
NoSpuriousReinstall ==
    [][\A e \in Exts : installed[e] # Absent /\ installed'[e] = Absent =>
          \E p \in Launches :
              /\ e \in LoadedExts(p)
              /\ \/ info[p][e].stubs # installed[e].version.hash
                 \/ info[p][e].version # installed[e].version.version]_vars

\* An extension is in LoadedPlugins, where decaf_register will look for it, if
\* and only if it was queued for compilation with its own plugin version; the
\* failure of one extension leaves no other half registered.
QueuedIffLoaded ==
    \A p \in Launches : pc[p] \in {"setup", "render", "jvm"} =>
        queue[p] = <<BaseEntry>> \o
            [i \in DOMAIN loaded[p] |->
                [ext |-> loaded[p][i], version |-> PluginVersion(info[p][loaded[p][i]])]]

\* An extension whose plugins all render to good Java is compiled by a launch
\* that started with decaf's jar, whatever earlier launches left half written,
\* unless a stub of a plugin it no longer declares is still there.
GoodStubsCompile ==
    \A p \in Launches : Ready(p) /\ Base \in Jars(classpath[p]) =>
        \A e \in LoadedExts(p) :
            (\A c \in Classes : IF Declares(info[p][e], c)
                                THEN info[p][e].stubs[c] \notin Broken
                                ELSE genStubs[e][c] = Absent)
            => installed[e] # Absent

\* What a launch asks the installer for, and in which version.
Requested(p) == LoadedExts(p) \cup {Base}
Wanted(p, e) == IF e = Base THEN BaseVersion ELSE PluginVersion(info[p][e])
UsesBase     == [e \in Exts \cup {Base} |-> IF e = Base THEN {} ELSE {Base}]
NotCompiling == {e \in Exts : \E c \in Classes : genStubs[e][c] \in Broken}

\* A launch does to the Extensions directory, in all its steps, what Bootstrap
\* takes a start of Ghidra to do in one: whatever upgrades and kills came before,
\* what is there when it comes up follows from what was there when the JVM
\* started, and from which versions differed then.
StartAsOneStep ==
    \A p \in Launches : Ready(p) =>
        LET was == Jars(classpath[p])
            old == {e \in was \cap Requested(p) : classpath[p][e].version # Wanted(p, e)}
        IN  Jars(installed) =
                After(was, old, Compilable(Requested(p), UsesBase, NotCompiling, was, old),
                      Requested(p), Requested(p))

\* The exception for a class that does not load carries a compiler diagnostic if
\* and only if the extension is not installed, and the error of the class loader
\* if and only if its jar came after the JVM had started, so that the next launch
\* has it: the second compilation sees what the first one saw.  (What the sentence
\* before them claims is NamesTrueCause.)
DiagnosisTruthful ==
    \A p \in Launches : pc[p] = "up" /\ Base \in Jars(classpath[p]) =>
        \A e \in LoadedExts(p) \ Jars(classpath[p]) :
            /\ "compiler diagnostic" \in Diagnosis(p, e) <=> installed[e] = Absent
            /\ "load error" \in Diagnosis(p, e) <=> installed[e] # Absent

\* The exception for a class that does not load names the true cause
\* (_diagnostics.py:34): it does not say that the stub did not compile when it did,
\* and the jar only came after the JVM had started.
NamesTrueCause ==
    \A p \in Launches : pc[p] = "up" /\ Base \in Jars(classpath[p]) =>
        \A e \in LoadedExts(p) \ Jars(classpath[p]) :
            "stub did not compile" \in Diagnosis(p, e) => installed[e] = Absent

\* What decaf_setup can queue, what javac can compile, and what is compiled.
Renders(e)  == /\ declared[e] \in Infos
               /\ declared[e].java # JavaDir
               /\ \A c \in Classes : declared[e].stubs[c] # InvalidType
Good(e)     == /\ Renders(e)
               /\ \A c \in Classes : IF Declares(declared[e], c)
                                     THEN declared[e].stubs[c] \notin Broken
                                     ELSE genStubs[e][c] \notin Broken
UpToDate(e) == /\ installed[e] # Absent
               /\ \A c \in Classes : Declares(declared[e], c) =>
                     installed[e].stubs[c] = declared[e].stubs[c]

\* Whatever earlier launches left half written, and whichever stubs did not
\* compile before: when the packages are left alone and launches are no longer
\* cut off, every extension whose stubs are good ends up with a jar of those
\* stubs, unless one before it makes decaf_setup fail or a stub that it no longer
\* declares does not compile.
EventuallyUpToDate ==
    <>[][\E p \in Launches : Uncut(p)]_vars =>
        <>[](\A k \in DOMAIN Order :
                /\ Good(Order[k])
                /\ \A j \in 1 .. k - 1 : declared[Order[j]] = Unloadable \/ Renders(Order[j])
                => UpToDate(Order[k]))

\* The jar of a loaded extension was compiled with the extra Java source the
\* extension ships.
JavaSourceCompiled ==
    \A p \in Launches : pc[p] = "up" =>
        \A e \in LoadedExts(p) :
            installed[e] # Absent /\ info[p][e].java # Absent =>
                installed[e].java = info[p][e].java
=============================================================================
