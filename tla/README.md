# A verification development for pyghidra-decaf

TLA+ models of pyghidra-decaf, TLC runs that check them on small instances, and
TLAPS proofs of the main results for every value of the constants.  Paths below
are relative to `pyghidra_decaf/src/pyghidra_decaf/` in the repository.

## The system

pyghidra-decaf lets a Python package contribute Ghidra plugins.  Ghidra loads
Java classes only, so decaf generates one Java class ("stub") per plugin, has it
compiled into an extension by pyghidra, and binds the Python class to it when
Ghidra starts.

| component | state | operations | hard behaviour |
|---|---|---|---|
| `decaf_setup.py`: stub generation | files under `~/.config/decaf/<version>/`, `LoadedPlugins`, `GENERATED_STUB_DIRS` | `decaf_setup`, once per launch, before the JVM starts | state on disk that survives launches, crashes and upgrades; a later step (pyghidra's) that decides by a version string alone; one extension failing among several; two launches at once |
| `bootstrap.py` | a loop over subprocesses, the directory it watches, a baseline | `bootstrap` | convergence seen only through directory listings; runs that die; several Ghidra versions on one host |
| `decaf/pyghidra_decaf.py`: `decaf_load`, `decaf_register` | `_plugin_types`, the static `initializer` of each Java class | once per launch, after the JVM has started | set-once fields; a failure among several registrations; names built in two places |
| `decaf/_diagnostics.py` | none | explains a class that does not load | what it claims against what it knows |
| `decaf/plugin.py`, `java/*.java` | handler fields and docking actions of each plugin object | constructor, hooks, `close`, `dispose` | reflection that may fail half way; a constructor entered twice; objects in several tools |
| `tamer/program.py`: `GhidraTransactionContext` | reference count, transaction, error flag | `acquire`, `release`, `flag_error`, `with` | nesting, exceptions from Ghidra, threads |
| `util.py`: `AtomicCounter` | a counter with a lock | `+=`, `-=`, comparisons, `reset` | several steps that look like one |
| `tamer/program.py`: `DecompiledFunction` | what the decompiler said when the object was made; a symbol cache and a flag | lookups of variables and labels, `update()` | three moments in time in one answer; a load that raises half way |
| `tamer/program.py`: C text, `util.py`: `paginate` | none | a comment at a line, a type written in C, a page | numbers clamped at both ends, the order of stars and brackets |
| `tamer/program.py`: the rest | none of its own | queries of functions, data types, references | none: Ghidra answers |
| `launch.py` | none | data types and an abstract launcher | names with two meanings |

A launch goes through them in this order: `decaf_setup` (entry point
`pyghidra.setup`) calls every `decaf.init` entry point, writes stubs and queues
extensions; pyghidra starts the JVM, whose classpath is then fixed, and
installs, that is compiles, what is queued and out of date; `decaf_load` (entry
point `pyghidra.pre_launch`) calls every `decaf.load` entry point and sets the
initializers; Ghidra constructs plugins and calls `init()`, which runs the
Python constructor, which sets the handler fields.  What was compiled in one
launch can be loaded in the next one only: that is what the bootstrap is for.

What makes each component correct:

- setup: a launch never runs a jar made from other stubs than its own; nothing
  unchanged is reinstalled; a crash heals; `LoadedPlugins` and the queue agree.
- bootstrap: exit code 0 means the chain is settled, and the summary claims what
  was compiled and nothing else.
- load: it succeeds only if every registration is in force; a class keeps its
  first Python class; a failure cuts off a suffix.
- diagnostics: what is said of a class that does not load is the true cause.
- plugins: no object is in service half wired; docking actions are released.
- counter: a call takes effect once, by what it asks for; a comparison is true of
  some moment; nobody waits for ever.
- decompiled function: a symbol is paired with its own variable, and no label is
  missing or kept under a wrong name, however loads and edits interleave.
- text: a comment goes where its line is, a type has the size it is written
  with, pages tile what they page.
- transactions: a block is inside an open transaction; none is leaked; a flag
  decides the outcome of its own transaction; what Ghidra throws or others release
  does no more harm than it must.

## Modules

| module | models | state and actions |
|---|---|---|
| `TransactionScope` | the promise of a shared transaction (abstract) | `Begin`, `Enter`, `Leave`, `Flag`, `Finish`; `Stray` is a release that nobody acquired, `LeaveRefused` the exit of a block whose count it took; `Refuse` is a throw of the program, which keeps the transaction or loses it |
| `TransactionContext` | `GhidraTransactionContext` | `refCount`, `txid`, `error` are the attributes; `pc` is where each activation of `with` is; one action per attribute access. `inside` and `stray` are the callers' side: who entered and has not left, and how many counts releases without an acquire have taken from them; `open`, `flagged`, `outcome`, `dropped` are the program's, the last a transaction lost in a throwing `endTransaction` |
| `CounterCalls` | what each operation of a counter asks for | used by the next two |
| `AtomicInteger` | the promise of a counter (abstract) | `Invoke`, one step of effect (`Get`, `GetOther`, `Change`), `Respond`; a step of effect does what the call that is under way asks for, and no step without a call changes anything |
| `AtomicCounter` | `AtomicCounter`, for any number of threads and counters | `value` and `holder` are `_value` and `_lock`; `pc` is where each thread is; every access to the lock and to the integer is an action |
| `DecafSetup` | `decaf_setup`, pyghidra's installer, `_diagnose_plugin_load_failure` | `genStubs`, `genJava`, `installed` are on disk; `next`, `info`, `todo`, `open`, `queue`, `loaded`, `stubDirs` belong to a launch, and `classpath` is what its JVM started with. `Start` ... `FinishSetup` are `decaf_setup`, with the writing of a stub in two steps (`OpenStub`, `CloseStub`), so that other launches and crashes find the file half written; `StartJvm` ... `FinishInstall` are external; `Upgrade` and `Exit` happen at any time. `Diagnosis` is what an exception would say in a state |
| `ExtensionsDir` | what a start of Ghidra makes of the Extensions directory (external) | two operators; `Bootstrap` takes a start to have this effect, and `StartAsOneStep` says that the steps of `DecafSetup` have it |
| `Bootstrap` | `bootstrap` | its local variables, and the directories of the host; `Run` is a subprocess |
| `DecafLoad` | `decaf_load`, `decaf_register`, `setInitializer` | `pluginTypes`, `initializer`; `todo` is what an entry point returned; `classpath` is what the JVM can load. `decaf_register` is one action per outcome |
| `PluginLifecycle` | plugin objects in Java and Python; extends `DecafLoad`, and implements it | `phase` is where Ghidra is with an object; `fields` are the handler fields bound, and `Hooks` those that the Java classes declare; `docking` is `_docking_actions`, `owned` and `live` are history |
| `DecompiledFunction` | `DecompiledFunction`, the `update()` of its variables and labels | `high` and `inCode` are what was decompiled; `table`, `labels`, `loaded` are `_ghidra_vars`, `_labels`, `_vars_loaded`; `pc` and `pos` are where `_load_vars` is. `Rename` and `RenameLabel` are edits of the program by anyone, `Update` those made through the object |
| `FunctionText` | `add_pre_comment_at_c_line`, `_get_data_type`, `paginate` | functions of their arguments; a step asks one question and answers it |
| `MC*` | values of the constants; `MCTamer` joins `DecompiledFunction` and `FunctionText` | |
| `*Proofs` | theorems, one module for each of the modules above but the abstract ones | |

Every definition that stands for code has its lines in `PROJECT.json`.  An
operator whose comment begins with "Mutant of" is a plausible fault of the
operator it names, and no action uses it: with it in place of the right one the
property listed beside it in `PROJECT.json` must fail.

### What is abstracted

- The text of a stub is a member of `Sources`; two plugins have the same text
  only if every field that enters the template agrees.  The md5 of the stubs is
  taken as injective (the code keeps 32 bits of it).
- An extension has one plugin per class name, and at most one entry of
  `java_source`.
- pyghidra is modelled from what the code says of it in comments
  (`decaf_setup.py:333-355`, `bootstrap.py:3-19`): it removes an extension whose
  stored plugin version differs, compiles what is missing, leaves no directory
  when a compilation fails, and logs an exception of an entry point.  A stub
  compiles when its text does and decaf's own jar was there as the JVM started.
- `Bootstrap` sees a launch as one step, with the effect on the Extensions
  directory that `DecafSetup` has in several: both state it with the operators of
  `ExtensionsDir`, and `StartAsOneStep` is checked and proved.  A run that dies has
  compared some versions and compiled some of the extensions it compared.
- Launches may overlap.  `Exclusive` restricts that: nobody starts a launch while
  another is between the beginning of `decaf_setup` and the end of the
  installation, as a user does who waits for Ghidra to come up; nothing in the
  code enforces it.
- `TransactionContext` takes an operation of its counter as one step: that is
  what `AtomicCounter` is shown to implement.  Everything between two of them, and
  between two attribute accesses, is a point where another thread runs.
- `Disciplined` calls on a context overlap only while another scope stays in its
  block, and a release that nobody acquired is made while no other call is under way;
  until the count it took is settled, calls do not overlap.  What happens without
  that is `tx_threads`.  A throwing `endTransaction` leaves the transaction open or
  loses it.
- `AtomicCounter` starts at 0, as every counter in the code does, and its lock is
  a holder: no call takes the same lock twice at once.
- `DecompiledFunction` has addresses in order and a name for each; what Ghidra
  returns for a property is left out, and so are the index of a label and all
  strings, which nothing reads.
- A line of the listing is the addresses of its tokens and the nearest address
  that Ghidra knows; a type is a base name, a number of stars, and a list: what
  stands between the first brackets, and what follows them, more brackets or a star.
- In `PluginLifecycle`, the fields are bound in one step with a failure after
  any prefix: everything happens on one thread, and nothing can look in between.

## Runs

| run | result | bounds | shows |
|---|---|---|---|
| `tx_shared` | pass | 4 scopes, 2 identifiers | all safety properties, the refinement, and that the last release ends the transaction; calls overlap while another scope is inside, releases are made without an acquire, and Ghidra throws and may lose the transaction as it does |
| `tx_threads` | violation | 2 scopes | without such a scope a block can run outside any transaction |
| `counter_any` | pass | 2 threads, 2 counters, at most 2 calls each, 12 calls of every kind | a call takes effect once, by what it asks for; answers of a moment, unless both operands change; and every call returns |
| `counter_compare` | violation | same, without the comparison of a counter with itself | a comparison of two counters is true of no moment |
| `setup_stubs` | pass | 2 extensions, 2 plugins each; 3 package states of one that is edited, 3 of one that may fail; bad and torn stubs | staleness, healing, no needless reinstallation, queue and `LoadedPlugins` agree, which of the two errors a diagnosis carries, the Extensions directory is what `Bootstrap` expects, and launches that are left alone bring every good extension up to date |
| `setup_overlap` | pass | 2 launches at the same time, 2 extensions, one plugin; one package is left alone and one gets new versions; javac accepts a half-written stub | no needless reinstallation, and a package that is left alone keeps a jar of its stubs |
| `setup_java` | violation | 1 extension | an edited `java_source` is not recompiled |
| `setup_diagnosis` | violation | 1 extension | a stub that did compile is said not to have compiled |
| `bootstrap_any` | pass | 3 extensions in a chain, 2 directories, 3 runs | truthful summary, whatever the runs do; settled if all of them report |
| `bootstrap_dies` | violation | same | settled is claimed too early when runs die |
| `life_any` | pass | up to 3 plugins, 6 lists of up to 3 entry points, any loadable classes; 2 plugin objects, 2 docking actions; everything may fail | registration, wiring, release |
| `tamer_any` | pass | a parameter, a local, a global, 3 names, 2 addresses, 3 edits; listings of up to 3 lines, types of up to 2 stars, brackets and what may follow them, up to 4 items to page | pairing of symbols, labels, comment lines, sizes of types, pages |

Why these bounds are enough to be of use: the transaction context distinguishes
"no scope", "one" and "several", and a race needs two calls under way, with a
third scope inside around them; the fourth is one more than any of its steps
can tell apart.  Two identifiers let one be stale while the other is open.  No
call on a counter is inside two locks, so two threads and two counters have every
order of the four accesses; the second call of a thread finds what the first
left.

A stub can be absent, good, changed, bad and torn, and two plugins make an
extension whose stubs are partly written.  The package states of the first
extension change metadata, drop a plugin and bring it back, and bump the version
with a stub that does not compile; those of the second render to no type, ship a
file, and ship a directory.  The failing extension comes second, so that there is
something queued before it that it could harm; either may raise, or not load at
all.  In `setup_overlap` the two launches meet at every pair of positions, and
`AnyLaunch` identifies states that differ in which launch is which; the second
extension has no plugin, so that its upgrades, which end in another version of
its jar, are all that happens to it.  Two directories are one right and one wrong guess, and three extensions are
the deepest chain that the three runs of the code settle.

Two entry points with an unloadable one between them, a repeated name in a second
list with another Python class or with the same, one name used by two
extensions, and a class generated under another name than it is looked up under
are the smallest instances of each failure.  Two plugin objects may
have the same class or not.  Three edits exchange the names of two
variables through a free one, at any moments of the load; the local may be in the
variable table or not.  Listings
numbered from zero and from one, with lines that have no address, an address of
their own and one nearby, have every case of the clamp and of the search, asked
for from -1 to two beyond the end.  `tamer_any` asks its questions of an
untouched function only, since the two halves share no state.

`life_any` identifies states that differ in the names of plugin objects and
docking actions only, and `tamer_any` those that differ in the names of variables
and labels (`Symmetry`); their properties are invariants that name none.

Deadlock is checked except where the system stops: `Bootstrap` is a program that
ends, the threads of `counter_any` make a bounded number of calls, and in
`tamer_any` everything is loaded and no edit is left.  That the threads of
`counter_any` do not stop for another reason is `CallsReturn`.

### Fairness

`tx_shared` assumes weak fairness of every step of a call that is under way: a
thread that has entered `acquire` or `release` runs on.  Nothing is assumed of
callers: no block has to end, and none has to start.  `counter_any` assumes the
same of calls on a counter; a thread that waits for a lock gets it, as every
thread makes a bounded number of calls.  `setup_stubs` assumes weak fairness of the steps
of a launch other than those that cut it off: Ghidra is started again, and a
start that is not killed goes on.  `EventuallyUpToDate` says in itself that
upgrades and kills end at some time; without that nothing can be promised.

### What the violations mean

Each is a place where the code does something else than a doc or a comment says;
`PROJECT.json` quotes the sentence and the line.  They are behaviours of
ordinary use: a thread, an edit, a run that fails.

Some things were seen while modelling for which there is no run.

- When launches overlap while a package changes, `JarMatchesVersion` and
  `NoStaleJar` fail: they share the generated directory, and one compiles what the
  other wrote under its own version.  A package that is left alone keeps a jar of
  its own stubs (`UnchangedNeverStale`), with one exception: a file that is empty
  or cut short because another launch is writing it, if javac accepts it, gets
  into the jar, under the version of the whole stub; it then stays there until
  the package changes.
- After a run that reported its directory, a run that reports nothing is resolved
  by the heuristic again, and the guess replaces the directory that the comment at
  `bootstrap.py:166-168` calls authoritative.  The summary stays truthful.
- With `Chain4` of `MCBootstrap`, a chain of four extensions,
  `SettledWhenReported` fails: the loop ends after `max_runs`, with exit code 0.
- The data hooks of `DecafPlugin.java:35-38` (`DataHooks`: what types a plugin
  takes, and what it has open) are declared and never bound, although
  `docs/gap-analysis-ghidra-pyghidra-decaf.md:114` says that all lifecycle callbacks
  are wired.  `NeverHalfWired` names these four and demands all the others.
- A plugin whose `qualname` is what the comment at `launch.py:51` says, fully
  qualified, is never found: `launch.py:67-69` and `pyghidra_decaf.py:105` put the
  module name before it, and the stub is generated as `module_name.class_name`
  (`decaf_setup.py:281-295`).  `life_any` has such a plugin.
- A directory in `java_source` makes `decaf_setup` fail: `copytree`
  (`decaf_setup.py:371`) copies into the directory that lines 269-270 have made
  (`CopyTreeRaises`).  Neither this extension nor those after it are installed.
- `release()` refuses a caller who has not acquired only when the count is zero
  (`program.py:82`).  With others inside, it takes one of their counts: the
  transaction ends before the last of them has left, and as many of them as there
  were stray releases get the exception instead.
- Two plugins of one extension with the same `class_name` in different modules
  have one stub file.
- A comment for line `len(lines)` goes to the first line: the test is `>=`
  (`program.py:413`), where the comment below it says that only lines outside of
  1 to `len(lines)` do.  `CommentPlaced` counts the last line among those outside, by
  name.
- `_get_data_type` makes one pointer of `int **`, which has the size it should, and
  drops what follows the first brackets, in `int[3][2]` and in `int[2]*` alike;
  `SizeAsWritten` says what is written up to them.  An update to a type it does not
  know leaves the type as it is and reports no error.

## Proofs

TLAPS checks these for every value of the constants that satisfies the named
assumptions.

**TransactionContext** (`TransactionContextProofs`, assuming `Disciplined`: calls
overlap only while another scope is inside, and not with a release that nobody
acquired while that has an effect).  The safety properties are not
inductive: that a transaction is open whenever someone is inside says nothing of
a call that is under way.  `IInv` therefore says at which labels the counter, the stored identifier,
the fresh identifier and the flag agree with the program's side.  The counter and the
stray releases together are the number of scopes counted in (`CountInv`); a scope that is about to start or
end the transaction finds the counter at zero (`EmptyInv`), so it is the only one
away from rest, and `_txid` and the flag follow the program's transaction through its
steps (`TxInv`, `FlagInv`).  From it follow `TypeCorrect`, `InsideIsProtected`,
`NothingForgotten`, the action properties `FlaggedIsAborted` and `DroppedForGood` (once
the transaction is lost the stored identifier never changes and is not open), and
`Refinement`: each step of the context is a step of `TransactionScope` or leaves it unchanged.

**AtomicCounter** (`AtomicCounterProofs`, for any threads, counters and calls).  A
lock is held exactly by the thread between taking and leaving it (`TypeCorrect`), so
what a thread has read is still there when it writes.  `Refinement` says of every
step which one of `AtomicInteger` it is: a write is the `Change` of the call that
the thread makes, the read of a comparison its `Get` or `GetOther`, and the others
leave the integers alone.  For
`AnswersAreOfAMoment` the invariant says that the moments recorded since a
comparison began hold the present one, and the one at which its left-hand side
was read.  That its exception is
needed is what `counter_compare` shows.

**DecafSetup** (`DecafSetupProofs`).  There are three layers.

What a launch has in memory is its own, so it is consistent however many launches
overlap.  `LaunchInv` says what each launch has at each of its stages and that its
queue asks for the versions of what it loaded; `ExactInv`, that the queue is
decaf's own entry and then `LoadedPlugins`, entry by entry.  `TypeCorrect` and
`QueuedWithLoaded` follow.  The action property `OnlyOutdatedRemoved` needs one
invariant more, `VersionInv`: a jar of an extension is recorded under the version
of a package, so that two versions that differ differ in the hash or in the
package's own version.

For a package that is left alone, `UnchangedIsNeverStale` is proved of launches
that overlap in any way.  `UnchangedInv` follows one class of it from the
declaration (`Kept`) over the stub (`KeptStub`: whoever writes it writes the same
text; until then it is missing, or half written by the launch that has it open)
to the jar (`KeptJar`: a launch that installs has rendered all of it, so the file
is not missing).  The half-written text is excluded from the jar only if javac
rejects it, which is why the property has the exception.

The rest assumes `OneAtATime`: `Exclusive`, or a single launch.  Without it
`JarMatchesVersion` and `NoStaleJar` are false.  `DiskInv` says that the launch
being set up is alone (`SoleInv`), so that the generated directory holds what it
rendered (`RenderedInv`), what has left its queue is installed in its version or
not at all (`InstalledInv`), and what the installer has passed is installed or
does not compile (`SettledInv`).  From it follow `VersionTellsStubs`, `NeverStale` and
`GoodStubsAreCompiled`.  `StartIsOneStep` compares, extension by extension, the disk
with what the JVM started with (`FollowedInv`): untouched, waiting in the queue and
perhaps removed, or dealt with; it rests on every extension being in the queue at
most once (`OrderedInv`).  `DiagnosisIsTrue` says which of the two errors an exception carries
(that its first sentence is true is what `setup_diagnosis` refutes); it is about a
launch that is already up and assumes `OneLaunch`, since a later launch may change the disk under it.

**DecafLoad** (`DecafLoadProofs`, for any plugins, entry points and classpath).
`LoadInv`: what is left of the list of an entry point is a suffix of it, the
registrations before it are in force, and no others are, until `decaf_load` has
failed.  From then on nothing changes: the initializer of `PyGhidraDecafPlugin`,
which is set first, keeps a second `decaf_load` out.  `DoneIsRegistered`,
`FirstWins` and `InOrder` follow.

**PluginLifecycle** (`PluginLifecycleProofs`).  `LifecycleImplementsLoad` carries the
theorems of `DecafLoad` over to the composition.  `InstanceInv` says of one object
what it has bound in each phase, and of the others that a step of one leaves them
alone; `WiredWholly` compares what `plugin.py` binds with what the Java classes
declare (`BoundHooks`: all but the four data hooks), and rests on the finalizer being
the first field bound; `AllReleased` rests on `_docking_actions` holding every action
that is not released.

**DecompiledFunction** (`DecompiledFunctionProofs`).  `IInv` relates the caches to
the program of the moment of the decompilation, except where it was edited since;
`LoadIsWhole` needs that every address passed by a load that is under way is
already in the cache, also when an earlier load raised.

**FunctionText** (`FunctionTextProofs`).  `PagesOfAnything`: what is skipped, what is
yielded and what is left in the iterator make up the sequence, for every offset and
limit (from three pieces that lie end to end, `Pieces`).  `SizesAsWritten`: for every
base, number of stars and brackets, up to the first brackets.  `CommentsArePlaced`: for
every listing and line number, with the last line among those that go to the first;
that the search
from the front finds the first line rests on the order of the natural numbers
being well-founded (`EarliestIs`).

**Bootstrap** (`BootstrapProofs`).  `Truthful` needs that whatever is in the
watched directory is either in the baseline or was built since; that holds
because the baseline is replaced whenever the directory is.  `Settled` takes a
function `depth` that ranks every extension above those it depends on and is at
most `MaxRuns` (`DepthBounded`): after k runs that got through and reported,
everything of depth k that can be built is there (`ProgressInv`).  The chain of
four above has no such function for three runs.

**What stays with TLC.**  Liveness (`LastReleaseEnds`, `CallsReturn`,
`EventuallyUpToDate`), since fairness and `ENABLED` are out of the
prover's reach.  `setup_stubs` has one launch; what the theorems say of several
that are set up one after the other is not run.  Every invariant and action property of a passing run is proved.

## Plan

1. Done: the modules above, and their theorems.
2. Next: `DecafSetup` and `DecafLoad` in one composition, through the classpath
   (`DecafLoad` takes any set of classes for granted now; between `Bootstrap` and
   `DecafSetup` the gap is closed by `StartAsOneStep`); several plugins with one
   `class_name`; a lock that two launches would have to share, once the code has
   one.

## Not modelled

The launcher wrapper forwards attributes.  `decaf/docking.py` and `stubs/` have
no behaviour.  In `decaf/plugin.py` and `java/*.java`, `goto`, `set_selection`, the
properties and the values that hooks pass through go to Ghidra and back.  Queries
of a Ghidra program in `tamer/program.py` return what Ghidra returns.  The build
(`tasks.py`), CI and tests are not part of the running system.
