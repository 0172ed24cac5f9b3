---------------------------- MODULE BootstrapProofs ----------------------------
(***************************************************************************)
(* The bootstrap never claims an extension it did not compile, for any      *)
(* extensions, dependencies, number of runs and ways a run may end; and it  *)
(* leaves nothing to compile when every run gets through and reports.       *)
(***************************************************************************)
EXTENDS Bootstrap, TLAPS

\* The baseline is a listing of the directory being watched, and everything
\* that has appeared there since was compiled by a run of this bootstrap.
BaselineInv ==
    pc \in {"before", "run", "resolve", "final"} =>
        /\ baselineDir = extDir
        /\ Listing(extDir) \ baseline \subseteq built

IInv == TypeOK /\ BaselineInv /\ SummaryTruthful
-----------------------------------------------------------------------------
\* A listing is a set of extensions, and the heuristic finds a directory or none.
LEMMA ListingType ==
    ASSUME TypeOK
    PROVE  /\ \A d \in Dirs \cup {NoDir} : Listing(d) \subseteq Exts
           /\ Heuristic \in Dirs \cup {NoDir}
           /\ Resolved \in Dirs \cup {NoDir}
           /\ Watched \in Dirs \cup {NoDir}
  BY DirsAssumption DEF TypeOK, Listing, Heuristic, Resolved, Watched

\* What a start of Ghidra adds to any directory, it has compiled.
LEMMA StartGhidraFacts ==
    ASSUME TypeOK, NEW S \in SUBSET Exts, NEW C \in SUBSET S, StartGhidra(S, C)
    PROVE  /\ present' \in [Dirs -> SUBSET Exts] /\ made' \subseteq Dirs
           /\ settings' \subseteq Dirs /\ match' = match
           /\ outdated' \subseteq Exts /\ built' \subseteq Exts
           /\ built \subseteq built'
           /\ \A d \in Dirs : present'[d] \subseteq present[d] \cup built'
<1>1. Buildable \subseteq Exts
  BY DEF Buildable, Compilable
<1>2. present' \in [Dirs -> SUBSET Exts]
  BY <1>1, DirsAssumption DEF TypeOK, StartGhidra, After
<1>3. \A d \in Dirs : present'[d] \subseteq present[d] \cup built'
  BY <1>1, DirsAssumption DEF TypeOK, StartGhidra, After
<1> QED
  BY <1>1, <1>2, <1>3, DirsAssumption DEF TypeOK, StartGhidra, After

\* The strengthening holds in the initial states.
LEMMA InitIInv == Init => IInv
<1> SUFFICES ASSUME Init PROVE IInv
  OBVIOUS
<1>1. outdated \subseteq Exts
  BY DirsAssumption DEF Init
<1>2. made \subseteq Dirs /\ settings \subseteq Dirs
  BY DEF Init
<1>3. i \in 1 .. MaxRuns
  BY RunsAssumption DEF Init
<1>4. BaselineInv /\ SummaryTruthful
  BY DEF Init, BaselineInv, SummaryTruthful
<1> QED
  BY <1>1, <1>2, <1>3, <1>4 DEF Init, IInv, TypeOK

\* Every step preserves the strengthening.
LEMMA StepIInv == IInv /\ [Next]_vars => IInv'
<1> SUFFICES ASSUME IInv, [Next]_vars PROVE IInv'
  OBVIOUS
<1> USE DEF IInv, SummaryTruthful, loopVars, hostVars
<1>1. CASE ConfigError
  BY <1>1 DEF ConfigError, TypeOK, BaselineInv
<1>2. CASE Guess
  BY <1>2, ListingType DEF Guess, TypeOK, BaselineInv, Listing
<1>3. CASE Before
  BY <1>3, ListingType DEF Before, TypeOK, BaselineInv, Listing
<1>4. CASE Run
  <2>1. PICK S \in SUBSET Exts, C \in SUBSET Exts : C \subseteq S /\ StartGhidra(S, C)
    BY <1>4 DEF Run
  <2>2. UNCHANGED <<loopVars, compiled, rc>> /\ pc' = "resolve" /\ pc = "run"
        /\ reported' \in {RealDir, NoDir} /\ allReported' \in BOOLEAN
    BY <1>4 DEF Run, TypeOK
  <2>3. TypeOK'
    BY <2>1, <2>2, StartGhidraFacts DEF TypeOK
  <2>4. BaselineInv'
    BY <2>1, <2>2, StartGhidraFacts DEF TypeOK, BaselineInv, Listing
  <2>5. SummaryTruthful'
    BY <2>1, <2>2, StartGhidraFacts
  <2> QED
    BY <2>3, <2>4, <2>5
<1>5. CASE Resolve
  <2>1. i' \in 1 .. MaxRuns
    BY <1>5, RunsAssumption DEF Resolve, Exhausted, TypeOK
  <2>2. TypeOK'
    BY <1>5, <2>1, ListingType DEF Resolve, TypeOK
  <2>3. BaselineInv'
    <3>1. baselineDir = extDir /\ Listing(extDir) \ baseline \subseteq built
      BY <1>5 DEF Resolve, BaselineInv
    <3>2. CASE Moves
      <4>1. Rebases /\ Watched = Resolved
        BY <3>1, <3>2 DEF Rebases, Moves, Watched
      <4> QED
        BY <1>5, <4>1 DEF Resolve, BaselineInv, Listing
    <3>3. CASE ~Moves
      BY <1>5, <3>1, <3>3 DEF Resolve, BaselineInv, Rebases, Watched, Listing
    <3> QED
      BY <3>2, <3>3
  <2> QED
    BY <1>5, <2>2, <2>3 DEF Resolve
<1>6. CASE FinalError
  BY <1>6 DEF FinalError, TypeOK, BaselineInv
<1>7. CASE FinalSummary
  BY <1>7, ListingType DEF FinalSummary, TypeOK, BaselineInv
<1>8. CASE UNCHANGED vars
  BY <1>8 DEF vars, TypeOK, BaselineInv, Listing
<1> QED
  BY <1>1, <1>2, <1>3, <1>4, <1>5, <1>6, <1>7, <1>8 DEF Next

\* Type correctness, and with it the bound on the number of runs.
THEOREM TypeCorrect == Spec => []TypeOK
  BY InitIInv, StepIInv, PTL DEF Spec, IInv

\* The final summary is truthful whichever directories were watched on the way.
THEOREM Truthful == Spec => []SummaryTruthful
  BY InitIInv, StepIInv, PTL DEF Spec, IInv
-----------------------------------------------------------------------------
\* depth ranks the extensions by what they depend on, and MaxRuns is enough.
DepthBounded(depth) ==
    /\ depth \in [Exts -> 0 .. MaxRuns - 1]
    /\ \A e \in Exts : \A d \in Deps[e] : depth[d] < depth[e]

\* As long as every run gets through and reports: k runs leave nothing to build
\* of a depth below k, and from the second run on the loop watches the directory
\* that the runs change.
ProgressInv(depth) ==
    allReported =>
        /\ pc = "start" => i = 1
        /\ pc \in {"before", "run"} => \A e \in Exts : depth[e] < i - 1 => e \notin Buildable
        /\ pc \in {"before", "run"} /\ i > 1 => outdated = {} /\ extDir = RealDir
        /\ pc = "run" /\ i > 1 => before = present[RealDir]
        /\ pc = "resolve" => /\ \A e \in Exts : depth[e] < i => e \notin Buildable
                             /\ outdated = {} /\ reported = RealDir
                             /\ i > 1 => /\ extDir = RealDir
                                         /\ present[RealDir] \subseteq before => Buildable = {}
        /\ pc = "final" => Buildable = {}
        /\ pc = "done" /\ rc = 0 => Buildable = {}

\* What a run of Ghidra that gets through leaves to build.
LEMMA RunBuilds ==
    ASSUME NEW depth, DepthBounded(depth), TypeOK, StartGhidra(Exts, Exts), NEW k \in Nat,
           \A e \in Exts : depth[e] < k => e \notin Buildable,
           k # 0 => outdated = {}
    PROVE  /\ outdated' = {}
           /\ \A e \in Exts : depth[e] < k + 1 => e \notin Buildable'
           /\ k # 0 /\ present'[RealDir] \subseteq present[RealDir] => Buildable' = {}
<1>1. /\ outdated' = {} /\ Buildable \subseteq Exts /\ present[RealDir] \subseteq Exts
      /\ present'[RealDir] = (present[RealDir] \ outdated) \cup Buildable
  BY DirsAssumption DEF StartGhidra, After, TypeOK, Buildable, Compilable
<1>2. ASSUME NEW e \in Exts, depth[e] < k + 1, e \in Buildable' PROVE FALSE
  <2>1. e \notin Broken /\ e \notin present'[RealDir] /\ Deps[e] \subseteq present'[RealDir]
    BY <1>1, <1>2 DEF Buildable, Compilable
  <2>2. \A d \in Deps[e] : d \in Exts /\ depth[d] < k
    BY <1>2, DepsAssumption DEF DepthBounded
  <2>3. Deps[e] \subseteq present[RealDir]
    BY <1>1, <2>1, <2>2
  <2>4. e \notin present[RealDir] \/ e \in outdated
    BY <1>1, <2>1
  <2>5. e \in Buildable
    BY <2>1, <2>3, <2>4 DEF Buildable, Compilable
  <2> QED
    BY <1>1, <2>1, <2>5
<1>3. ASSUME k # 0, present'[RealDir] \subseteq present[RealDir] PROVE Buildable' = {}
  <2>1. outdated = {} /\ Buildable \subseteq present[RealDir]
    BY <1>1, <1>3
  <2>2. Buildable = {}
    BY <2>1 DEF Buildable, Compilable
  <2>3. present'[RealDir] = present[RealDir]
    BY <1>1, <2>1, <2>2
  <2> QED
    BY <1>1, <2>1, <2>2, <2>3 DEF Buildable, Compilable
<1> QED
  BY <1>1, <1>2, <1>3

\* Every run that gets through and reports brings the chain one level further.
LEMMA StepProgress ==
    ASSUME NEW depth, DepthBounded(depth), IInv, ProgressInv(depth), [Next]_vars
    PROVE  ProgressInv(depth)'
<1> SUFFICES ASSUME allReported' PROVE ProgressInv(depth)'
  BY DEF ProgressInv
<1>i. i \in 1 .. MaxRuns /\ MaxRuns \in Nat \ {0} /\ i \in Nat
  BY RunsAssumption DEF IInv, TypeOK
<1>1. CASE ConfigError
  BY <1>1 DEF ConfigError, ProgressInv
<1>2. CASE Guess
  <2>1. pc = "start" /\ i = 1 /\ allReported
    BY <1>2 DEF Guess, ProgressInv, hostVars
  <2>2. \A e \in Exts : ~(depth[e] < 1 - 1)
    BY RunsAssumption DEF DepthBounded
  <2> QED
    BY <1>2, <2>1, <2>2 DEF Guess, ProgressInv, loopVars, hostVars
<1>3. CASE Before
  BY <1>3, DirsAssumption DEF Before, ProgressInv, Buildable, Compilable, Listing, hostVars
<1>4. CASE Run
  <2>1. /\ pc = "run" /\ pc' = "resolve" /\ StartGhidra(Exts, Exts)
        /\ reported' = RealDir /\ allReported
        /\ UNCHANGED loopVars
    BY <1>4 DEF Run
  <2>2. /\ \A e \in Exts : depth[e] < i - 1 => e \notin Buildable
        /\ i > 1 => outdated = {} /\ extDir = RealDir /\ before = present[RealDir]
    BY <2>1 DEF ProgressInv
  <2>3. i - 1 \in Nat /\ (i - 1 # 0 <=> i > 1) /\ (i - 1) + 1 = i
    BY <1>i
  <2>4. /\ outdated' = {}
        /\ \A e \in Exts : depth[e] < (i - 1) + 1 => e \notin Buildable'
        /\ i - 1 # 0 /\ present'[RealDir] \subseteq present[RealDir] => Buildable' = {}
    BY <2>1, <2>2, <2>3, RunBuilds DEF IInv
  <2> QED
    BY <2>1, <2>2, <2>3, <2>4 DEF ProgressInv, loopVars
<1>5. CASE Resolve
  <2>1. /\ pc = "resolve" /\ UNCHANGED <<hostVars, rc>> /\ allReported
        /\ \A e \in Exts : depth[e] < i => e \notin Buildable
        /\ outdated = {} /\ reported = RealDir
        /\ i > 1 => /\ extDir = RealDir
                    /\ present[RealDir] \subseteq before => Buildable = {}
    BY <1>5 DEF Resolve, ProgressInv, hostVars
  <2>2. UNCHANGED <<present, outdated>> /\ Buildable' = Buildable
    BY <2>1 DEF hostVars, Buildable, Compilable
  <2>3. extDir' = RealDir
    BY <1>5, <2>1, DirsAssumption DEF Resolve, Watched, Moves, Resolved
  <2>4. CASE Converged \/ Exhausted
    <3>1. Buildable = {}
      <4>1. CASE Exhausted
        BY <1>i, <2>1, <4>1 DEF Exhausted, Buildable, Compilable, DepthBounded
      <4>2. CASE Converged
        <5>1. i > 1 /\ New = {} /\ extDir = RealDir
          BY <2>1, <4>2 DEF Converged
        <5>2. ~Rebases /\ Listing(Watched) = present[RealDir]
          BY <2>1, <5>1, DirsAssumption DEF Rebases, Moves, Watched, Resolved, Listing
        <5> QED
          BY <2>1, <5>1, <5>2 DEF New
      <4> QED
        BY <2>4, <4>1, <4>2
    <3> QED
      BY <1>5, <2>2, <2>4, <3>1 DEF Resolve, ProgressInv
  <2>5. CASE ~(Converged \/ Exhausted)
    <3>1. pc' = "before" /\ i' = i + 1
      BY <1>5, <2>5 DEF Resolve
    <3>2. i' - 1 = i
      BY <1>i, <3>1
    <3> QED
      BY <2>1, <2>2, <2>3, <3>1, <3>2 DEF ProgressInv
  <2> QED
    BY <2>4, <2>5
<1>6. CASE FinalError
  BY <1>6 DEF FinalError, ProgressInv
<1>7. CASE FinalSummary
  BY <1>7 DEF FinalSummary, ProgressInv, Buildable, Compilable, hostVars
<1>8. CASE UNCHANGED vars
  BY <1>8 DEF vars, ProgressInv, Buildable, Compilable, hostVars, loopVars
<1> QED
  BY <1>1, <1>2, <1>3, <1>4, <1>5, <1>6, <1>7, <1>8 DEF Next

\* When every run gets through and reports, exit code 0 means that nothing is
\* left to build, for every dependency graph that MaxRuns is enough for and
\* whatever was on the disk before.
THEOREM Settled ==
    ASSUME NEW depth, DepthBounded(depth)
    PROVE  Spec => []SettledWhenReported
<1>1. Init => ProgressInv(depth)
  BY DEF Init, ProgressInv
<1>2. ProgressInv(depth) => SettledWhenReported
  BY DEF ProgressInv, SettledWhenReported
<1>3. Spec => []IInv
  BY InitIInv, StepIInv, PTL DEF Spec
<1> QED
  BY <1>1, <1>2, <1>3, StepProgress, PTL DEF Spec
=============================================================================
