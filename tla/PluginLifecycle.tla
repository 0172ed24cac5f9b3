---------------------------- MODULE PluginLifecycle ----------------------------
(***************************************************************************)
(* Plugin instances: the Java base classes with their handler fields        *)
(* (DecafPlugin.java, DecafProgramPlugin.java), the generated init() and    *)
(* the Python classes that bind themselves to the fields                    *)
(* (decaf/plugin.py).  DecafLoad says which Python class a Java class has.  *)
(*                                                                          *)
(* Ghidra constructs an instance per tool, calls init(), then the hooks,    *)
(* close() and dispose(), all on its event-dispatch thread and after        *)
(* decaf_load; an instance whose init() throws is disposed of.  A hook runs *)
(* the handler in its field: the one bound from Python, or the default.     *)
(***************************************************************************)
EXTENDS DecafLoad

CONSTANTS Instances,     \* plugin objects, over the tools of a session
          Actions,       \* docking actions
          ProgramNames,  \* names of plugins of type ProgramPlugin
          BindMayFail,   \* may _set_field throw (a jar of another version)?
          LookupMayFail, \* may _get_private_class throw?
          UserMayRaise   \* may Python code of the plugin's author raise?

ASSUME LifecycleAssumption ==
    /\ ProgramNames \subseteq Names
    /\ {BindMayFail, LookupMayFail, UserMayRaise} \subseteq BOOLEAN

VARIABLES phase,     \* where Ghidra is with each instance
          class,     \* its Java class
          fields,    \* handler fields set from Python
          docking,   \* _docking_actions
          owned,     \* the docking actions its Python object ever created
          live       \* docking actions not disposed

instanceVars == <<phase, class, fields, docking, owned, live>>
allVars == <<vars, instanceVars>>

\* The fields DecafPlugin.__init__ sets, in that order ...
BaseFields == <<"finalizer", "processEvent", "readConfigState", "writeConfigState",
    "writeDataState", "readDataState", "serviceAdded", "serviceRemoved", "canClose",
    "canCloseDomainObject", "prepareToSave", "saveData", "hasUnsaveData", "close",
    "restoreTransientState", "getTransientState", "dataStateRestoreCompleted",
    "getUndoRedoState", "restoreUndoRedoState">>

\* ... and those DecafProgramPlugin.__init__ sets after it.
ProgramFields == <<"programActivated", "postProgramActivated", "programClosed",
    "programOpened", "programDeactivated", "locationChanged", "selectionChanged",
    "highlightChanged">>

SetOf(s) == {s[k] : k \in DOMAIN s}

IsProgram(c) == c # BaseClass /\ c[2] \in ProgramNames

\* Mutant of Bindings: the finalizer is bound last.
FinalizerLast(c) == Tail(BaseFields) \o (IF IsProgram(c) THEN ProgramFields ELSE <<>>)
                        \o <<"finalizer">>

\* What the constructors of plugin.py bind for an instance of c.
Bindings(c) == BaseFields \o (IF IsProgram(c) THEN ProgramFields ELSE <<>>)

\* The handler fields the Java classes declare; each of their methods delegates to
\* its own.  The first four say which data the plugin takes and has open.
DataHooks == {"getSupportedDataTypes", "acceptData", "accept", "getData"}
PluginHooks == DataHooks \cup
    {"finalizer", "processEvent", "readConfigState", "writeConfigState", "writeDataState",
     "readDataState", "serviceAdded", "serviceRemoved", "canClose", "canCloseDomainObject",
     "prepareToSave", "saveData", "hasUnsaveData", "close", "restoreTransientState",
     "getTransientState", "dataStateRestoreCompleted", "getUndoRedoState", "restoreUndoRedoState"}
ProgramHooks == {"programActivated", "postProgramActivated", "programClosed", "programOpened",
    "programDeactivated", "locationChanged", "selectionChanged", "highlightChanged"}
Hooks(c) == IF IsProgram(c) THEN PluginHooks \cup ProgramHooks ELSE PluginHooks

LifecycleInit == /\ Init
                 /\ phase = [i \in Instances |-> "absent"]
                 /\ class = [i \in Instances |-> BaseClass]
                 /\ fields = [i \in Instances |-> {}]
                 /\ docking = [i \in Instances |-> {}]
                 /\ owned = [i \in Instances |-> {}]
                 /\ live = {}
-----------------------------------------------------------------------------
\* Ghidra handles instances when decaf_load is over.
Ghidra == pc \in {"done", "failed"} /\ UNCHANGED vars

To(i, p) == phase' = [phase EXCEPT ![i] = p]

\* Mutant of Bind: the program handlers are bound whatever the class is.
BindAsProgram(i, s) == fields' = [fields EXCEPT ![i] = @ \cup SetOf(s \o ProgramFields)]

Bind(i, s) == fields' = [fields EXCEPT ![i] = @ \cup SetOf(s)]

\* A tool makes a plugin object, with every handler at its default.
Construct(i) ==
    /\ Ghidra
    /\ phase[i] = "absent"
    /\ \E c \in classpath : class' = [class EXCEPT ![i] = c]
    /\ To(i, "constructed")
    /\ UNCHANGED <<fields, docking, owned, live>>

\* init() without an initializer: a generated class warns and goes on without
\* Python; PyGhidraDecafPlugin has no such test, and throws.
InitWithoutPython(i) ==
    /\ Ghidra
    /\ phase[i] = "constructed"
    /\ initializer[class[i]] = Null
    /\ To(i, IF class[i] = BaseClass THEN "failed" ELSE "idle")
    /\ UNCHANGED <<class, fields, docking, owned, live>>

\* init() calls the Python class, whose constructor runs DecafPlugin.__init__.
InitPython(i) ==
    /\ Ghidra
    /\ phase[i] = "constructed"
    /\ initializer[class[i]] # Null
    /\ docking' = [docking EXCEPT ![i] = {}]
    /\ To(i, "binding")
    /\ UNCHANGED <<class, fields, owned, live>>

\* The base class is not found.  DecafPlugin logs that and returns; what
\* DecafProgramPlugin looks up after it throws.
LookupFails(i) ==
    /\ LookupMayFail
    /\ Ghidra
    /\ phase[i] = "binding"
    /\ To(i, IF IsProgram(class[i]) THEN "failed" ELSE "ready")
    /\ UNCHANGED <<class, fields, docking, owned, live>>

\* All fields are set, one by one ...
BindAll(i) ==
    /\ Ghidra
    /\ phase[i] = "binding"
    /\ Bind(i, Bindings(class[i]))
    /\ To(i, "ready")
    /\ UNCHANGED <<class, docking, owned, live>>

\* Mutant of BindFails: what _set_field throws is logged, as for the base class.
BindFailsQuietly(i) ==
    /\ BindMayFail
    /\ Ghidra
    /\ phase[i] = "binding"
    /\ \E n \in 0 .. Len(Bindings(class[i])) - 1 : Bind(i, SubSeq(Bindings(class[i]), 1, n))
    /\ To(i, "ready")
    /\ UNCHANGED <<class, docking, owned, live>>

\* ... or one of them throws, and the constructor and init() with it.
BindFails(i) ==
    /\ BindMayFail
    /\ Ghidra
    /\ phase[i] = "binding"
    /\ \E n \in 0 .. Len(Bindings(class[i])) - 1 : Bind(i, SubSeq(Bindings(class[i]), 1, n))
    /\ To(i, "failed")
    /\ UNCHANGED <<class, docking, owned, live>>

\* Mutant of ReenterConstructor: the constructor does not notice.
ConstructAgain(i) ==
    /\ Ghidra
    /\ phase[i] = "ready"
    /\ docking' = [docking EXCEPT ![i] = {}]
    /\ UNCHANGED <<phase, class, fields, owned, live>>

\* The constructor is entered a second time for the same object.  DecafPlugin
\* returns at once; DecafProgramPlugin binds its fields again, to the same
\* methods, which may throw again.
ReenterConstructor(i) ==
    /\ Ghidra
    /\ phase[i] = "ready"
    /\ \/ UNCHANGED phase
       \/ IsProgram(class[i]) /\ (BindMayFail \/ LookupMayFail) /\ To(i, "failed")
    /\ UNCHANGED <<class, fields, docking, owned, live>>

\* The author's constructor, running on after super().__init__, makes a docking
\* action, or raises.
AuthorAddsAction(i, a) ==
    /\ a \notin UNION {owned[j] : j \in Instances}
    /\ docking' = [docking EXCEPT ![i] = @ \cup {a}]
    /\ owned' = [owned EXCEPT ![i] = @ \cup {a}]
    /\ live' = live \cup {a}

InitAddsAction(i) ==
    /\ Ghidra
    /\ phase[i] = "ready"
    /\ \E a \in Actions : AuthorAddsAction(i, a)
    /\ UNCHANGED <<phase, class, fields>>

InitRaises(i) ==
    /\ UserMayRaise
    /\ Ghidra
    /\ phase[i] = "ready"
    /\ To(i, "failed")
    /\ UNCHANGED <<class, fields, docking, owned, live>>

\* init() returns and the plugin is in service.
EnterService(i) ==
    /\ Ghidra
    /\ phase[i] = "ready"
    /\ To(i, "serving")
    /\ UNCHANGED <<class, fields, docking, owned, live>>

\* Ghidra calls a hook other than close and dispose; Python runs, and here makes
\* a docking action, only when the field was bound.
Hook(i) ==
    /\ Ghidra
    /\ phase[i] \in {"serving", "idle"}
    /\ \E h \in Hooks(class[i]) \ {"finalizer", "close"}, a \in Actions :
          /\ h \in fields[i]
          /\ AuthorAddsAction(i, a)
    /\ UNCHANGED <<phase, class, fields>>

\* close(): super.close(), then the handler; Ghidra calls dispose after it.
Close(i) ==
    /\ Ghidra
    /\ phase[i] \in {"serving", "idle"}
    /\ To(i, "closed")
    /\ UNCHANGED <<class, fields, docking, owned, live>>

\* dispose() of an instance that Python was never bound to: the finalizer does
\* nothing, and super.dispose() runs.
DisposeDefault(i) ==
    /\ Ghidra
    /\ phase[i] \in {"closed", "failed"}
    /\ "finalizer" \notin fields[i]
    /\ To(i, "disposed")
    /\ UNCHANGED <<class, fields, docking, owned, live>>

\* dispose(): the finalizer disposes of the docking actions one by one, then
\* super.dispose() runs.
Dispose(i) ==
    /\ Ghidra
    /\ phase[i] \in {"closed", "failed"}
    /\ "finalizer" \in fields[i]
    /\ live' = live \ docking[i]
    /\ To(i, "disposed")
    /\ UNCHANGED <<class, fields, docking, owned>>

\* An action's dispose raises: those after it stay, and super.dispose() is not
\* reached.
DisposeRaises(i) ==
    /\ UserMayRaise
    /\ Ghidra
    /\ phase[i] \in {"closed", "failed"}
    /\ "finalizer" \in fields[i]
    /\ \E D \in SUBSET docking[i] : D # docking[i] /\ live' = live \ D
    /\ To(i, "broken")
    /\ UNCHANGED <<class, fields, docking, owned>>

InstanceStep(i) ==
    \/ Construct(i) \/ InitWithoutPython(i) \/ InitPython(i) \/ LookupFails(i)
    \/ BindAll(i) \/ BindFails(i) \/ ReenterConstructor(i) \/ InitAddsAction(i)
    \/ InitRaises(i) \/ EnterService(i) \/ Hook(i) \/ Close(i)
    \/ DisposeDefault(i) \/ Dispose(i) \/ DisposeRaises(i)

LifecycleNext == \/ Next /\ UNCHANGED instanceVars
                 \/ \E i \in Instances : InstanceStep(i)

LifecycleSpec == LifecycleInit /\ [][LifecycleNext]_allVars
-----------------------------------------------------------------------------
\* Every variable has its type.
LifecycleTypeOK ==
    /\ TypeOK
    /\ phase \in [Instances -> {"absent", "constructed", "idle", "binding", "ready", "serving",
                                "failed", "closed", "disposed", "broken"}]
    /\ class \in [Instances -> classpath \cup {BaseClass}]
    /\ fields \in [Instances -> SUBSET (PluginHooks \cup ProgramHooks)]
    /\ \A i \in Instances : fields[i] \subseteq Hooks(class[i])
    /\ docking \in [Instances -> SUBSET Actions]
    /\ owned \in [Instances -> SUBSET Actions]
    /\ live \subseteq Actions

\* Of the hooks its Java class declares, a plugin in service runs every one in
\* Python but the four for data, which no constructor binds although
\* gap-analysis:114 says that all lifecycle callbacks are wired; or, if its base
\* class was not found, none.  A binding that stops half way never stays in
\* service, and even then dispose reaches Python.
NeverHalfWired ==
    \A i \in Instances :
        /\ phase[i] \in {"ready", "serving"} =>
              \/ Hooks(class[i]) \ fields[i] = DataHooks
              \/ fields[i] = {} /\ ~IsProgram(class[i])
        /\ fields[i] # {} => "finalizer" \in fields[i]

\* Every docking action that a plugin's Python code made is released when the
\* plugin is disposed of, however its constructor ended, unless releasing one
\* raises or the finalizer could not be bound.
ActionsReleased ==
    \A i \in Instances : phase[i] = "disposed" /\ fields[i] # {} => owned[i] \cap live = {}
=============================================================================
