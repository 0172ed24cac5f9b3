------------------------------- MODULE Bootstrap -------------------------------
(***************************************************************************)
(* pyghidra_decaf_bootstrap (bootstrap.py): start Ghidra in a subprocess up *)
(* to MaxRuns times, so that each start compiles the extensions whose       *)
(* dependencies were compiled by an earlier one, and stop when a run adds   *)
(* nothing to the Extensions directory.                                     *)
(*                                                                          *)
(* The directory to watch is guessed from GHIDRA_INSTALL_DIR, and replaced  *)
(* by the one pyghidra reports.  What a run does to the disk is one action: *)
(* subprocess.run blocks.  It has the effect that DecafSetup has step by    *)
(* step (StartAsOneStep there): outdated extensions are removed, and every  *)
(* missing one whose dependencies were there when the JVM started is        *)
(* compiled.                                                                *)
(***************************************************************************)
EXTENDS Naturals, FiniteSets, ExtensionsDir

CONSTANTS Exts,      \* the extensions every launch asks pyghidra to install
          Deps,      \* for each, the extensions its Java sources use
          Broken,    \* extensions that never compile
          Dirs,      \* Extensions directories of the Ghidra versions on the host
          RealDir,   \* the one the Ghidra that runs uses
          NoDir,     \* Python's None
          Outcomes,  \* how a run may end
          MaxRuns    \* max_runs

ASSUME DepsAssumption == Deps \in [Exts -> SUBSET Exts] /\ Broken \subseteq Exts
ASSUME DirsAssumption == RealDir \in Dirs /\ NoDir \notin Dirs
ASSUME RunsAssumption == /\ MaxRuns \in Nat \ {0}
                         /\ Outcomes \subseteq {"reports", "silent", "dies"}

VARIABLES present,      \* the extension directories in each of Dirs
          made,         \* the Dirs that exist
          settings,     \* the Dirs whose version directory exists
          match,        \* the directory whose name matches GHIDRA_INSTALL_DIR
          outdated,     \* installed extensions with another plugin version
          pc, i,
          extDir, baseline, baselineDir, before,
          reported,     \* what the subprocess printed as __DECAF_EXT_PATH__
          reportedSeen, \* reported_ext_seen
          compiled,     \* the extensions of the final summary
          rc,           \* exit code
          built,        \* extensions compiled since the bootstrap started
          allReported   \* every run so far got through and reported

hostVars == <<present, made, settings, match, outdated, built, allReported>>
loopVars == <<i, extDir, baseline, baselineDir, before, reportedSeen>>
vars == <<hostVars, pc, loopVars, reported, compiled, rc>>

\* get_extension_dirs
Listing(d) == IF d = NoDir THEN {} ELSE present[d]

\* find_ghidra_extensions_dir
Heuristic == IF match \in settings THEN match ELSE NoDir

\* Extensions directories that do not exist are empty; other Ghidra versions
\* may be installed, and the name may match the wrong one or none.
Init == /\ present \in [Dirs -> SUBSET Exts]
        /\ made \in {m \in SUBSET Dirs : \A d \in Dirs \ m : present[d] = {}}
        /\ settings \in {s \in SUBSET Dirs : made \subseteq s}
        /\ match \in Dirs \cup {NoDir}
        /\ outdated \in SUBSET present[RealDir]
        /\ pc = "start"
        /\ i = 1
        /\ extDir = NoDir
        /\ baseline = {}
        /\ baselineDir = NoDir
        /\ before = {}
        /\ reported = NoDir
        /\ reportedSeen = FALSE
        /\ compiled = {}
        /\ rc = 0
        /\ built = {}
        /\ allReported = TRUE
-----------------------------------------------------------------------------
\* GHIDRA_INSTALL_DIR is not set or not a directory.
ConfigError ==
    /\ pc = "start"
    /\ rc' = 1
    /\ pc' = "done"
    /\ UNCHANGED <<hostVars, loopVars, reported, compiled>>

\* The first guess and its listing.
Guess ==
    /\ pc = "start"
    /\ extDir' = Heuristic
    /\ baseline' = Listing(Heuristic)
    /\ baselineDir' = Heuristic
    /\ pc' = "before"
    /\ UNCHANGED <<hostVars, i, before, reportedSeen, reported, compiled, rc>>

Before ==
    /\ pc = "before"
    /\ before' = Listing(extDir)
    /\ pc' = "run"
    /\ UNCHANGED <<hostVars, i, extDir, baseline, baselineDir, reportedSeen, reported,
                   compiled, rc>>

\* The extensions a JVM that starts now can compile, of those it has to.
Buildable == Compilable(Exts, Deps, Broken, present[RealDir], outdated)

\* A start of Ghidra has compared the versions of the extensions in S, and has
\* got through the compilation of those in C.
StartGhidra(S, C) ==
    /\ present' = [present EXCEPT ![RealDir] = After(@, outdated, Buildable, S, C)]
    /\ made' = IF Buildable \cap C = {} THEN made ELSE made \cup {RealDir}
    /\ settings' = settings \cup {RealDir}
    /\ outdated' = outdated \ S
    /\ built' = built \cup (Buildable \cap C)
    /\ UNCHANGED match

\* The subprocess: pyghidra.start() returns and the runner prints the path, or
\* cannot; or start() raises on the way, which the runner swallows.
Run ==
    /\ pc = "run"
    /\ \E o \in Outcomes :
          /\ IF o = "dies" THEN \E S \in SUBSET Exts : \E C \in SUBSET S : StartGhidra(S, C)
                           ELSE StartGhidra(Exts, Exts)
          /\ reported' = IF o = "reports" THEN RealDir ELSE NoDir
          /\ allReported' = (allReported /\ o = "reports")
    /\ pc' = "resolve"
    /\ UNCHANGED <<loopVars, compiled, rc>>

\* _resolve_extensions_dir: the reported path, or else the guess of today.
Resolved == IF reported # NoDir THEN reported ELSE Heuristic

\* Another directory than the one watched so far is taken, and it becomes the
\* baseline.
Moves == Resolved # NoDir /\ Resolved # extDir
Watched == IF Moves THEN Resolved ELSE extDir
BaselineKept == FALSE   \* a mutant of Rebases
Rebases == Moves /\ baselineDir # Resolved

\* after - before
New == Listing(Watched) \ (IF Rebases THEN Listing(Watched) ELSE before)

\* if not new and i > 1: break
NothingNew == New = {}   \* a mutant of Converged
Converged == New = {} /\ i > 1

\* for i in range(1, max_runs + 1)
OneRunMore  == i > MaxRuns   \* a mutant of Exhausted
Exhausted   == i = MaxRuns

Resolve ==
    /\ pc = "resolve"
    /\ reportedSeen' = (reportedSeen \/ reported # NoDir)
    /\ extDir' = Watched
    /\ baseline' = IF Rebases THEN Listing(Watched) ELSE baseline
    /\ baselineDir' = IF Rebases THEN Watched ELSE baselineDir
    /\ IF Converged \/ Exhausted
       THEN pc' = "final" /\ i' = i
       ELSE pc' = "before" /\ i' = i + 1
    /\ UNCHANGED <<hostVars, before, reported, compiled, rc>>

\* Nothing was watched: exit code 1.
Blind == ~reportedSeen /\ (extDir = NoDir \/ extDir \notin made)

FinalError ==
    /\ pc = "final"
    /\ Blind
    /\ rc' = 1
    /\ pc' = "done"
    /\ UNCHANGED <<hostVars, loopVars, reported, compiled>>

FinalSummary ==
    /\ pc = "final"
    /\ ~Blind
    /\ compiled' = Listing(extDir) \ baseline
    /\ pc' = "done"
    /\ UNCHANGED <<hostVars, loopVars, reported, rc>>

Next == \/ ConfigError \/ Guess \/ Before \/ Run \/ Resolve \/ FinalError \/ FinalSummary

Spec == Init /\ [][Next]_vars
-----------------------------------------------------------------------------
\* Every variable has its type, and no more than MaxRuns runs are made.
TypeOK == /\ present \in [Dirs -> SUBSET Exts]
          /\ made \subseteq Dirs
          /\ settings \subseteq Dirs
          /\ match \in Dirs \cup {NoDir}
          /\ outdated \subseteq Exts
          /\ pc \in {"start", "before", "run", "resolve", "final", "done"}
          /\ i \in 1 .. MaxRuns
          /\ {extDir, baselineDir} \subseteq Dirs \cup {NoDir}
          /\ baseline \subseteq Exts /\ before \subseteq Exts
          /\ reported \in {RealDir, NoDir}
          /\ reportedSeen \in BOOLEAN
          /\ compiled \subseteq Exts
          /\ rc \in {0, 1}
          /\ built \subseteq Exts
          /\ allReported \in BOOLEAN

\* The summary claims only extensions that this bootstrap compiled, whichever
\* directories were watched on the way.
SummaryTruthful == compiled \subseteq built

\* When every run gets through and reports, exit code 0 means that the
\* dependency chain, of a depth of at most MaxRuns, has settled, whichever
\* directory was guessed at first and wherever jars were before.
SettledWhenReported == pc = "done" /\ rc = 0 /\ allReported => Buildable = {}

\* Exit code 0 means that the dependency chain has settled: starting Ghidra once
\* more would compile nothing.
SettledOnSuccess == pc = "done" /\ rc = 0 => Buildable = {}
=============================================================================
