------------------------------- MODULE DecafLoad -------------------------------
(***************************************************************************)
(* decaf_load (decaf/pyghidra_decaf.py): once the JVM is up, tell every     *)
(* generated plugin class which Python class drives it.  The Java classes   *)
(* are found by name in LoadedPlugins, which decaf_setup left in the same   *)
(* process; a class takes one initializer, once.                            *)
(*                                                                          *)
(* decaf_load runs on one thread and calls the decaf.load entry points one  *)
(* after the other.  Each returns a list of (name, Python class) pairs, and *)
(* decaf_register is one action for each pair.  An exception leaves         *)
(* decaf_load: pyghidra logs it and starts Ghidra all the same, and a       *)
(* program may call pyghidra.start() again.                                 *)
(***************************************************************************)
EXTENDS Naturals, Sequences

CONSTANTS Exts,         \* extensions in LoadedPlugins
          Names,        \* qualified names: of Python classes, of Java classes
          Packages,     \* Java packages
          Package,      \* java_package of each extension
          PyClasses,    \* Python plugin classes
          DecafPython,  \* DecafGhidraPlugin, the one of PyGhidraDecafPlugin
          Null,         \* no initializer, no type
          PluginLists,  \* what LoadedPlugins may hold: plugins in scan order
          LoaderLists,  \* what the decaf.load entry points may be
          Unloadable,   \* an entry point that fails to load
          Raises        \* an entry point that raises when called

\* name is python_fq_name (module_name.qualname), class module_name.class_name.
Plugin       == [ext : Exts, name : Names, class : Names]
Registration == [name : Names, py : PyClasses]

Classes   == Packages \X Names
BaseClass == <<"pyghidra_decaf.jplugin", "PyGhidraDecafPlugin">>

\* The class that decaf_setup generates for a plugin, and the one that
\* decaf_register looks for.
Generated(plugin) == <<Package[plugin.ext], plugin.class>>
JavaClass(plugin) == <<Package[plugin.ext], plugin.name>>

ASSUME PackageAssumption == Package \in [Exts -> Packages] /\ BaseClass \notin Classes
ASSUME ListsAssumption ==
    /\ PluginLists \subseteq Seq(Plugin)
    /\ LoaderLists \subseteq Seq(Seq(Registration) \cup {Unloadable, Raises})
    /\ {Unloadable, Raises} \cap Seq(Registration) = {} /\ Unloadable # Raises
ASSUME NullAssumption ==
    /\ DecafPython \notin PyClasses
    /\ Null \notin PyClasses \cup {DecafPython}

VARIABLES plugins,      \* LoadedPlugins, one plugin after the other
          loaders,      \* the decaf.load entry points
          classpath,    \* the classes this JVM can load
          pc,
          at,           \* the entry point decaf_load is at
          todo,         \* pairs it returned and not yet registered
          pluginTypes,  \* _plugin_types
          initializer   \* the static field of each plugin class

hostVars == <<plugins, loaders, classpath>>
loadVars == <<pc, at, todo, pluginTypes, initializer>>
vars == <<hostVars, loadVars>>

\* What decaf_setup and the launcher may have left: a class is missing when its
\* jar was not there as the JVM started, whether or not it compiles.
Init == /\ plugins \in PluginLists
        /\ loaders \in LoaderLists
        /\ classpath \in SUBSET ({BaseClass} \cup {Generated(plugins[i]) : i \in DOMAIN plugins})
        /\ pc = "start"
        /\ at = 1
        /\ todo = <<>>
        /\ pluginTypes = [n \in Names |-> Null]
        /\ initializer = [c \in Classes \cup {BaseClass} |-> Null]
-----------------------------------------------------------------------------
\* Mutant of Fail: the next entry point is tried.
FailQuietly == pc' = "loaders"

\* An exception leaves decaf_load.
Fail == pc' = "failed"

\* Mutant of SetInitializer: the last one wins.
ReplaceInitializer(c, py) == initializer' = [initializer EXCEPT ![c] = py]

\* setInitializer on a class that has none; the other case throws.
SetInitializer(c, py) ==
    /\ initializer[c] = Null
    /\ initializer' = [initializer EXCEPT ![c] = py]

\* PyGhidraDecafPlugin gets its initializer first.
SetDecafInitializer ==
    /\ pc = "start"
    /\ BaseClass \in classpath
    /\ SetInitializer(BaseClass, DecafPython)
    /\ pc' = "loaders"
    /\ at' = 1
    /\ UNCHANGED <<hostVars, todo, pluginTypes>>

\* It is not on the classpath (a first launch), or decaf_load ran before.
DecafInitializerFails ==
    /\ pc = "start"
    /\ BaseClass \notin classpath \/ initializer[BaseClass] # Null
    /\ Fail
    /\ UNCHANGED <<hostVars, at, todo, pluginTypes, initializer>>

AtLoader == pc = "loaders" /\ at <= Len(loaders)

\* _load_entry_points logs an entry point that does not load, and drops it.
SkipUnloadable ==
    /\ AtLoader
    /\ loaders[at] = Unloadable
    /\ at' = at + 1
    /\ UNCHANGED <<hostVars, pc, todo, pluginTypes, initializer>>

CallLoader ==
    /\ AtLoader
    /\ loaders[at] \notin {Unloadable, Raises}
    /\ todo' = loaders[at]
    /\ at' = at + 1
    /\ pc' = "register"
    /\ UNCHANGED <<hostVars, pluginTypes, initializer>>

LoaderRaises ==
    /\ AtLoader
    /\ loaders[at] = Raises
    /\ Fail
    /\ UNCHANGED <<hostVars, at, todo, pluginTypes, initializer>>

\* decaf_register is called with the next pair; whatever becomes of it, the
\* type is recorded first.
Registering(r) ==
    /\ pc = "register"
    /\ todo # <<>>
    /\ r = Head(todo)
    /\ pluginTypes' = [pluginTypes EXCEPT ![r.name] = r.py]

\* Plugin i is the first in LoadedPlugins with that name, and so the match: the
\* type of a plugin that decaf_setup has rendered is always one of the two.
Match(name, i) == /\ i \in DOMAIN plugins
                  /\ plugins[i].name = name
                  /\ \A j \in 1 .. i - 1 : plugins[j].name # name

Register ==
    /\ \E r \in Registration, i \in DOMAIN plugins :
          /\ Registering(r)
          /\ Match(r.name, i)
          /\ JavaClass(plugins[i]) \in classpath
          /\ SetInitializer(JavaClass(plugins[i]), r.py)
    /\ todo' = Tail(todo)
    /\ UNCHANGED <<hostVars, pc, at>>

\* The class has an initializer: AssertException.
RegisterTwice ==
    /\ \E r \in Registration, i \in DOMAIN plugins :
          /\ Registering(r)
          /\ Match(r.name, i)
          /\ JavaClass(plugins[i]) \in classpath
          /\ initializer[JavaClass(plugins[i])] # Null
    /\ Fail
    /\ UNCHANGED <<hostVars, at, todo, initializer>>

\* No plugin has that name: DecafLoadException.
RegisterUnmatched ==
    /\ \E r \in Registration :
          /\ Registering(r)
          /\ \A i \in DOMAIN plugins : plugins[i].name # r.name
    /\ Fail
    /\ UNCHANGED <<hostVars, at, todo, initializer>>

\* The class cannot be loaded: the DecafLoadException of
\* _diagnose_plugin_load_failure.
RegisterUnloadable ==
    /\ \E r \in Registration, i \in DOMAIN plugins :
          /\ Registering(r)
          /\ Match(r.name, i)
          /\ JavaClass(plugins[i]) \notin classpath
    /\ Fail
    /\ UNCHANGED <<hostVars, at, todo, initializer>>

EndLoader ==
    /\ pc = "register"
    /\ todo = <<>>
    /\ pc' = "loaders"
    /\ UNCHANGED <<hostVars, at, todo, pluginTypes, initializer>>

Finish ==
    /\ pc = "loaders"
    /\ at > Len(loaders)
    /\ pc' = "done"
    /\ UNCHANGED <<hostVars, at, todo, pluginTypes, initializer>>

\* pyghidra.start() is called again in the same process.
Again ==
    /\ pc \in {"done", "failed"}
    /\ pc' = "start"
    /\ at' = 1
    /\ todo' = <<>>
    /\ UNCHANGED <<hostVars, pluginTypes, initializer>>

LoadStep ==
    \/ SetDecafInitializer \/ DecafInitializerFails
    \/ SkipUnloadable \/ CallLoader \/ LoaderRaises
    \/ Register \/ RegisterTwice \/ RegisterUnmatched \/ RegisterUnloadable
    \/ EndLoader \/ Finish

Next == LoadStep \/ Again

Spec == Init /\ [][Next]_vars
-----------------------------------------------------------------------------
\* The registrations of this process, as <<entry point, position>>, in the
\* order in which decaf_load meets them.
Called        == {k \in DOMAIN loaders : loaders[k] \notin {Unloadable, Raises}}
Registrations == UNION {{<<k, j>> : j \in DOMAIN loaders[k]} : k \in Called}
Pair(a)       == loaders[a[1]][a[2]]
Before(a, b)  == a[1] < b[1] \/ (a[1] = b[1] /\ a[2] < b[2])
First(a)      == \A b \in Registrations : Before(b, a) => Pair(b).name # Pair(a).name

\* Java class c is driven by the Python class of registration a.
Drives(a, c) == /\ \E i \in DOMAIN plugins : Match(Pair(a).name, i) /\ c = JavaClass(plugins[i])
                /\ initializer[c] = Pair(a).py

\* Every variable has its type.
TypeOK == /\ plugins \in PluginLists
          /\ loaders \in LoaderLists
          /\ classpath \subseteq Classes \cup {BaseClass}
          /\ pc \in {"start", "loaders", "register", "done", "failed"}
          /\ at \in 1 .. Len(loaders) + 1
          /\ todo \in Seq(Registration)
          /\ pluginTypes \in [Names -> PyClasses \cup {Null}]
          /\ initializer \in [Classes \cup {BaseClass} -> PyClasses \cup {DecafPython, Null}]

\* decaf_load ends normally only if every pair that an entry point returned is
\* in force: no registration was dropped, and none was hidden by another one of
\* the same name, neither in Java nor in _plugin_types.
DoneMeansRegistered ==
    pc = "done" => \A a \in Registrations :
        /\ \E c \in Classes : Drives(a, c)
        /\ pluginTypes[Pair(a).name] = Pair(a).py

\* A generated class is driven by the first registration of its name and by no
\* other, however often decaf_load runs and wherever it fails.
FirstRegistrationWins ==
    \A c \in Classes : initializer[c] # Null =>
        \E a \in Registrations : First(a) /\ Drives(a, c)

\* Registrations take effect in order: the first of a name is in force only if
\* all those that decaf_load meets before it are, so a failure cuts the rest off
\* and nothing in between.
RegisteredInOrder ==
    \A a, b \in Registrations :
        Before(a, b) /\ First(b) /\ (\E c \in Classes : Drives(b, c)) => \E c \in Classes : Drives(a, c)
=============================================================================
