------------------------- MODULE PluginLifecycleProofs -------------------------
(***************************************************************************)
(* Theorems about plugin instances, for any number of them, any author code *)
(* and any decaf_load: how a binding ends, what becomes of the docking      *)
(* actions.                                                                 *)
(***************************************************************************)
EXTENDS PluginLifecycle, DecafLoadProofs

\* The handler fields that the constructors bind for a class.
Bound(c) == SetOf(Bindings(c))

\* Python has not got hold of an instance before its constructor has run, and
\* then the list the finalizer goes through has every action.
Early(j) ==
    /\ phase[j] \in {"absent", "constructed", "idle", "binding"} => fields[j] = {}
    /\ phase[j] \in {"absent", "constructed", "binding"} => owned[j] = {}
    /\ owned[j] \subseteq docking[j]

\* What the properties say of one instance.
Wired(j) ==
    /\ phase[j] \in {"ready", "serving"} =>
          fields[j] = Bound(class[j]) \/ (fields[j] = {} /\ ~IsProgram(class[j]))
    /\ fields[j] # {} => "finalizer" \in fields[j]
Released(j)  == phase[j] = "disposed" /\ fields[j] # {} => owned[j] \cap live = {}

InstanceOk(j) == Early(j) /\ Wired(j) /\ Released(j)

InstanceInv == LifecycleTypeOK /\ \A j \in Instances : InstanceOk(j)
-----------------------------------------------------------------------------
FieldNames == SetOf(BaseFields) \cup SetOf(ProgramFields)

\* A function on 1 .. n is a sequence.
LEMMA FunctionIsSeq == ASSUME NEW S, NEW n \in Nat, NEW f \in [1 .. n -> S] PROVE f \in Seq(S)
  OBVIOUS

\* Appending to a sequence that is not empty leaves its first element.
LEMMA Longer ==
    ASSUME NEW S, NEW s \in Seq(S), NEW t \in Seq(S), Len(s) # 0
    PROVE  s \o t \in Seq(S) /\ Len(s \o t) \in Nat \ {0} /\ (s \o t)[1] = s[1]
  OBVIOUS

\* The lists of handler fields are sequences of names.
LEMMA FieldLists ==
    /\ BaseFields \in Seq(FieldNames) /\ Len(BaseFields) = 19 /\ BaseFields[1] = "finalizer"
    /\ ProgramFields \in Seq(FieldNames)
<1>1. /\ DOMAIN BaseFields = 1 .. 19 /\ Len(BaseFields) = 19 /\ BaseFields[1] = "finalizer"
      /\ BaseFields = [k \in 1 .. 19 |-> BaseFields[k]]
  BY DEF BaseFields
<1>2. DOMAIN ProgramFields = 1 .. 8 /\ ProgramFields = [k \in 1 .. 8 |-> ProgramFields[k]]
  BY DEF ProgramFields
<1>3. /\ \A k \in 1 .. 19 : BaseFields[k] \in FieldNames
      /\ \A k \in 1 .. 8 : ProgramFields[k] \in FieldNames
  BY <1>1, <1>2 DEF FieldNames, SetOf
<1>4. BaseFields \in [1 .. 19 -> FieldNames] /\ ProgramFields \in [1 .. 8 -> FieldNames]
  BY <1>1, <1>2, <1>3
<1> QED
  BY <1>1, <1>4, FunctionIsSeq

\* The finalizer is bound before any other handler.
LEMMA FinalizerFirst ==
    ASSUME NEW c
    PROVE  /\ Bindings(c) \in Seq(FieldNames) /\ Len(Bindings(c)) \in Nat \ {0}
           /\ Bindings(c)[1] = "finalizer"
           /\ "finalizer" \in Bound(c)
<1> DEFINE rest == IF IsProgram(c) THEN ProgramFields ELSE <<>>
<1>1. /\ BaseFields \in Seq(FieldNames) /\ Len(BaseFields) = 19
      /\ BaseFields[1] = "finalizer"
  BY FieldLists
<1>2. rest \in Seq(FieldNames)
  BY FieldLists
<1>3. Bindings(c) = BaseFields \o rest
  BY DEF Bindings
<1> HIDE DEF rest
<1>4. /\ Bindings(c) \in Seq(FieldNames) /\ Len(Bindings(c)) \in Nat \ {0}
      /\ Bindings(c)[1] = "finalizer"
  BY <1>1, <1>2, <1>3, Longer
<1>5. 1 \in DOMAIN Bindings(c)
  BY <1>4
<1> QED
  BY <1>4, <1>5 DEF Bound, SetOf

\* The elements of a concatenation are those of its parts.
LEMMA SetOfConcat ==
    ASSUME NEW S, NEW s \in Seq(S), NEW t \in Seq(S)
    PROVE  SetOf(s \o t) = SetOf(s) \cup SetOf(t)
<1> DEFINE u == s \o t
<1>1. \A k \in DOMAIN s : k \in DOMAIN u /\ u[k] = s[k]
  OBVIOUS
<1>2. \A k \in DOMAIN t : k + Len(s) \in DOMAIN u /\ u[k + Len(s)] = t[k]
  OBVIOUS
<1>3. ASSUME NEW k \in DOMAIN u
      PROVE  \/ k \in DOMAIN s /\ u[k] = s[k]
             \/ k - Len(s) \in DOMAIN t /\ u[k] = t[k - Len(s)]
  BY <1>3
<1> HIDE DEF u
<1>4. ASSUME NEW x \in SetOf(u) PROVE x \in SetOf(s) \cup SetOf(t)
  <2>1. PICK k \in DOMAIN u : x = u[k]
    BY <1>4 DEF SetOf
  <2> QED
    BY <1>3, <2>1 DEF SetOf
<1>5. ASSUME NEW x \in SetOf(s) \cup SetOf(t) PROVE x \in SetOf(u)
  <2>1. CASE x \in SetOf(s)
    BY <1>1, <2>1 DEF SetOf
  <2>2. CASE x \in SetOf(t)
    <3>1. PICK k \in DOMAIN t : x = t[k]
      BY <2>2 DEF SetOf
    <3>2. k + Len(s) \in DOMAIN u /\ u[k + Len(s)] = x
      BY <1>2, <3>1
    <3> QED
      BY <3>2 DEF SetOf
  <2> QED
    BY <1>5, <2>1, <2>2
<1>6. SetOf(u) = SetOf(s) \cup SetOf(t)
  BY <1>4, <1>5
<1> QED
  BY <1>6 DEF u

\* plugin.py binds the handlers that Java declares, but for the four for data.
LEMMA BoundHooks == ASSUME NEW c PROVE Bound(c) = Hooks(c) \ DataHooks
<1>1. SetOf(BaseFields) = PluginHooks \ DataHooks
  <2>1. DOMAIN BaseFields = 1 .. 19
    BY DEF BaseFields
  <2>2. SetOf(BaseFields) = {BaseFields[k] : k \in 1 .. 19}
    BY <2>1 DEF SetOf
  <2> QED
    <3>1. /\ BaseFields[1] = "finalizer" /\ BaseFields[2] = "processEvent"
          /\ BaseFields[3] = "readConfigState" /\ BaseFields[4] = "writeConfigState"
          /\ BaseFields[5] = "writeDataState" /\ BaseFields[6] = "readDataState"
          /\ BaseFields[7] = "serviceAdded" /\ BaseFields[8] = "serviceRemoved"
          /\ BaseFields[9] = "canClose" /\ BaseFields[10] = "canCloseDomainObject"
          /\ BaseFields[11] = "prepareToSave" /\ BaseFields[12] = "saveData"
          /\ BaseFields[13] = "hasUnsaveData" /\ BaseFields[14] = "close"
          /\ BaseFields[15] = "restoreTransientState" /\ BaseFields[16] = "getTransientState"
          /\ BaseFields[17] = "dataStateRestoreCompleted" /\ BaseFields[18] = "getUndoRedoState"
          /\ BaseFields[19] = "restoreUndoRedoState"
      BY DEF BaseFields
    <3>2. ASSUME NEW x \in PluginHooks \ DataHooks PROVE \E k \in 1 .. 19 : x = BaseFields[k]
      BY <3>1 DEF PluginHooks
    <3>3. ASSUME NEW k \in 1 .. 19 PROVE BaseFields[k] \in PluginHooks \ DataHooks
      BY <3>1 DEF PluginHooks, DataHooks
    <3> QED
      BY <2>2, <3>2, <3>3
<1>2. SetOf(ProgramFields) = ProgramHooks
  <2>1. DOMAIN ProgramFields = 1 .. 8
    BY DEF ProgramFields
  <2>2. SetOf(ProgramFields) = {ProgramFields[k] : k \in 1 .. 8}
    BY <2>1 DEF SetOf
  <2> QED
    BY <2>2 DEF ProgramFields, ProgramHooks
<1>3. ProgramHooks \cap DataHooks = {}
  BY DEF ProgramHooks, DataHooks
<1>4. SetOf(<<>>) = {}
  BY DEF SetOf
<1>5. /\ SetOf(BaseFields \o ProgramFields) = SetOf(BaseFields) \cup SetOf(ProgramFields)
      /\ SetOf(BaseFields \o <<>>) = SetOf(BaseFields) \cup SetOf(<<>>)
  <2>1. <<>> \in Seq(FieldNames)
    OBVIOUS
  <2> QED
    BY <2>1, FieldLists, SetOfConcat, ZenonT(30)
<1>6. CASE IsProgram(c)
  <2>1. Bound(c) = SetOf(BaseFields \o ProgramFields) /\ Hooks(c) = PluginHooks \cup ProgramHooks
    BY <1>6 DEF Bound, Bindings, Hooks
  <2> QED
    BY <1>1, <1>2, <1>3, <1>5, <2>1
<1>7. CASE ~IsProgram(c)
  <2>1. Bound(c) = SetOf(BaseFields \o <<>>) /\ Hooks(c) = PluginHooks
    BY <1>7 DEF Bound, Bindings, Hooks
  <2> QED
    BY <1>1, <1>4, <1>5, <2>1
<1> QED
  BY <1>6, <1>7

\* Every hook is one of the two classes'.
LEMMA HooksAre == ASSUME NEW c PROVE Hooks(c) \subseteq PluginHooks \cup ProgramHooks
  BY DEF Hooks

\* The fields bound before one of them throws: none, or the finalizer and others.
LEMMA BoundBefore ==
    ASSUME NEW c, NEW n \in 0 .. Len(Bindings(c)) - 1
    PROVE  /\ SetOf(SubSeq(Bindings(c), 1, n)) \subseteq Bound(c)
           /\ SetOf(SubSeq(Bindings(c), 1, n)) # {}
                 => "finalizer" \in SetOf(SubSeq(Bindings(c), 1, n))
<1> DEFINE s == Bindings(c)
           t == SubSeq(s, 1, n)
<1>1. s \in Seq(FieldNames) /\ Len(s) \in Nat \ {0} /\ s[1] = "finalizer"
  BY FinalizerFirst
<1> HIDE DEF s
<1>2. n \in Nat /\ n < Len(s)
  BY <1>1 DEF s
<1>3. DOMAIN t = 1 .. n /\ \A k \in 1 .. n : t[k] = s[k] /\ k \in DOMAIN s
  BY <1>1, <1>2
<1>4. SetOf(t) = {s[k] : k \in 1 .. n}
  BY <1>3 DEF SetOf
<1>5. n # 0 => 1 \in 1 .. n
  BY <1>2
<1>6. n = 0 => SetOf(t) = {}
  BY <1>4
<1> QED
  BY <1>1, <1>3, <1>4, <1>5, <1>6 DEF Bound, SetOf, s

\* A step of an instance is no step of decaf_load.
LEMMA InstanceStepLeavesLoad ==
    ASSUME NEW i \in Instances, InstanceStep(i)
    PROVE  UNCHANGED vars /\ pc \in {"done", "failed"}
  BY DEF InstanceStep, Construct, InitWithoutPython, InitPython, LookupFails, BindAll, BindFails,
     ReenterConstructor, InitAddsAction, InitRaises, EnterService, Hook, Close, DisposeDefault,
     Dispose, DisposeRaises, Ghidra

\* The life of the instances adds nothing to decaf_load.
THEOREM LifecycleImplementsLoad == LifecycleSpec => Spec
<1>1. LifecycleInit => Init
  BY DEF LifecycleInit
<1>2. [LifecycleNext]_allVars => [Next]_vars
  BY InstanceStepLeavesLoad DEF LifecycleNext, allVars
<1> QED
  BY <1>1, <1>2, PTL DEF LifecycleSpec, Spec

\* ---- the steps

\* The strengthening holds in the initial states.
LEMMA InitInstanceInv == LifecycleInit => InstanceInv
<1> SUFFICES ASSUME LifecycleInit PROVE InstanceInv
  OBVIOUS
<1>1. TypeOK
  BY InitLoadInv DEF LifecycleInit, LoadInv
<1> QED
  BY <1>1 DEF LifecycleInit, InstanceInv, LifecycleTypeOK, InstanceOk, Early, Wired, Released

\* A step of decaf_load touches no instance.
LEMMA LoadStepInstanceInv ==
    ASSUME InstanceInv, Next, UNCHANGED instanceVars
    PROVE  InstanceInv'
<1>1. TypeOK'
  BY StepTypeOK DEF InstanceInv, LifecycleTypeOK
<1>2. classpath' = classpath
  BY DEF Next, LoadStep, SetDecafInitializer, DecafInitializerFails, SkipUnloadable, CallLoader,
     LoaderRaises, Register, RegisterTwice, RegisterUnmatched, RegisterUnloadable, EndLoader,
     Finish, Again, hostVars
<1> QED
  BY <1>1, <1>2 DEF InstanceInv, LifecycleTypeOK, InstanceOk, Early, Wired, Released,
     instanceVars

\* A step of instance i leaves the others as they are.
LEMMA StepOfOne ==
    ASSUME InstanceInv, NEW i \in Instances, InstanceStep(i)
    PROVE  /\ \A j \in Instances \ {i} :
                 /\ phase'[j] = phase[j] /\ class'[j] = class[j]
                 /\ fields'[j] = fields[j] /\ docking'[j] = docking[j] /\ owned'[j] = owned[j]
           /\ \A j \in Instances : owned[j] \cap live' \subseteq live
           /\ LifecycleTypeOK'
<1>types. /\ phase \in [Instances -> {"absent", "constructed", "idle", "binding", "ready", "serving",
                                      "failed", "closed", "disposed", "broken"}]
          /\ class \in [Instances -> classpath \cup {BaseClass}]
          /\ fields \in [Instances -> SUBSET (PluginHooks \cup ProgramHooks)]
          /\ docking \in [Instances -> SUBSET Actions] /\ owned \in [Instances -> SUBSET Actions]
          /\ initializer \in [Classes \cup {BaseClass} -> PyClasses \cup {DecafPython, Null}]
          /\ classpath \subseteq Classes \cup {BaseClass} /\ live \subseteq Actions
  BY DEF InstanceInv, LifecycleTypeOK, TypeOK
<1>wired. \A j \in Instances : fields[j] \subseteq Hooks(class[j]) /\ InstanceOk(j)
  BY DEF InstanceInv, LifecycleTypeOK
<1>load. /\ UNCHANGED <<plugins, loaders, classpath, pc, at, todo, pluginTypes, initializer>>
         /\ TypeOK'
  BY InstanceStepLeavesLoad DEF vars, hostVars, loadVars, TypeOK, InstanceInv, LifecycleTypeOK
<1>1. CASE Construct(i)
  <2>1. fields[i] = {} /\ UNCHANGED <<fields, docking, owned, live>>
    BY <1>1, <1>wired DEF Construct, InstanceOk, Early
  <2>2. /\ class' \in [Instances -> classpath \cup {BaseClass}]
        /\ \A j \in Instances \ {i} : class'[j] = class[j]
    BY <1>1, <1>types DEF Construct
  <2>3. \A j \in Instances : fields[j] \subseteq Hooks(class'[j])
    BY <1>wired, <2>1, <2>2
  <2> QED
    BY <1>1, <1>types, <1>load, <2>1, <2>2, <2>3 DEF Construct, To, LifecycleTypeOK
<1>2. CASE InitPython(i)
  BY <1>2, <1>types, <1>wired, <1>load DEF InitPython, To, LifecycleTypeOK
<1>3. CASE BindAll(i) \/ BindFails(i)
  <2>1. PICK S \in SUBSET Bound(class[i]) : fields' = [fields EXCEPT ![i] = @ \cup S]
    BY <1>3, BoundBefore DEF BindAll, BindFails, Bind, Bound
  <2>2. /\ UNCHANGED <<class, docking, owned, live>>
        /\ phase' = [phase EXCEPT ![i] = "ready"] \/ phase' = [phase EXCEPT ![i] = "failed"]
    BY <1>3 DEF BindAll, BindFails, To
  <2>3. Bound(class[i]) \subseteq Hooks(class[i]) /\ Hooks(class[i]) \subseteq PluginHooks \cup ProgramHooks
    BY BoundHooks, HooksAre
  <2>4. /\ fields' \in [Instances -> SUBSET (PluginHooks \cup ProgramHooks)]
        /\ \A j \in Instances \ {i} : fields'[j] = fields[j]
        /\ fields'[i] = fields[i] \cup S
    BY <1>types, <2>1, <2>3
  <2>5. \A j \in Instances : fields'[j] \subseteq Hooks(class[j])
    BY <1>wired, <2>1, <2>3, <2>4
  <2> QED
    BY <1>types, <1>load, <2>2, <2>4, <2>5 DEF LifecycleTypeOK
<1>4. CASE \/ InitWithoutPython(i) \/ LookupFails(i) \/ ReenterConstructor(i) \/ InitRaises(i)
           \/ EnterService(i) \/ Close(i) \/ DisposeDefault(i)
  <2>1. /\ UNCHANGED <<class, fields, docking, owned, live>>
        /\ \/ phase' = phase
           \/ \E ph \in {"idle", "ready", "serving", "failed", "closed", "disposed"} :
                 phase' = [phase EXCEPT ![i] = ph]
    BY <1>4 DEF InitWithoutPython, LookupFails, ReenterConstructor, InitRaises, EnterService, Close,
       DisposeDefault, To
  <2> QED
    BY <1>types, <1>wired, <1>load, <2>1 DEF LifecycleTypeOK
<1>5. CASE InitAddsAction(i) \/ Hook(i)
  <2>1. PICK a \in Actions : AuthorAddsAction(i, a)
    BY <1>5 DEF InitAddsAction, Hook
  <2>2. UNCHANGED <<phase, class, fields>>
    BY <1>5 DEF InitAddsAction, Hook
  <2>3. \A j \in Instances : a \notin owned[j]
    BY <2>1 DEF AuthorAddsAction
  <2> QED
    BY <1>types, <1>wired, <1>load, <2>1, <2>2, <2>3 DEF AuthorAddsAction, LifecycleTypeOK
<1>6. CASE Dispose(i) \/ DisposeRaises(i)
  <2>1. /\ UNCHANGED <<class, fields, docking, owned>> /\ live' \subseteq live
        /\ phase' = [phase EXCEPT ![i] = "disposed"] \/ phase' = [phase EXCEPT ![i] = "broken"]
    BY <1>6 DEF Dispose, DisposeRaises, To
  <2> QED
    BY <1>types, <1>wired, <1>load, <2>1 DEF LifecycleTypeOK
<1> QED
  BY <1>1, <1>2, <1>3, <1>4, <1>5, <1>6 DEF InstanceStep

\* A step of an instance keeps what the properties say of it.
LEMMA StepInstanceOk ==
    ASSUME InstanceInv, NEW i \in Instances, InstanceStep(i)
    PROVE  InstanceOk(i)'
<1>types. /\ phase \in [Instances -> {"absent", "constructed", "idle", "binding", "ready", "serving",
                                      "failed", "closed", "disposed", "broken"}]
          /\ class \in [Instances -> classpath \cup {BaseClass}]
          /\ fields \in [Instances -> SUBSET (PluginHooks \cup ProgramHooks)]
          /\ docking \in [Instances -> SUBSET Actions] /\ owned \in [Instances -> SUBSET Actions]
  BY DEF InstanceInv, LifecycleTypeOK
<1>ok. Early(i) /\ Wired(i) /\ Released(i)
  BY DEF InstanceInv, InstanceOk
<1>load. UNCHANGED <<initializer>>
  BY InstanceStepLeavesLoad DEF vars, loadVars
<1>1. CASE Construct(i)
  <2>1. /\ phase[i] = "absent" /\ phase'[i] = "constructed"
        /\ UNCHANGED <<fields, docking, owned, live>>
    BY <1>1, <1>types DEF Construct, To
  <2> QED
    BY <1>ok, <1>load, <2>1 DEF InstanceOk, Early, Wired, Released
<1>2. CASE InitWithoutPython(i)
  <2>1. /\ phase[i] = "constructed" /\ phase'[i] \in {"failed", "idle"}
        /\ UNCHANGED <<class, fields, docking, owned, live>>
    BY <1>2, <1>types DEF InitWithoutPython, To
  <2> QED
    BY <1>ok, <1>load, <2>1 DEF InstanceOk, Early, Wired, Released
<1>3. CASE InitPython(i)
  <2>1. /\ phase[i] = "constructed" /\ phase'[i] = "binding"
        /\ UNCHANGED <<class, fields, owned, live>>
    BY <1>3, <1>types DEF InitPython, To
  <2> QED
    BY <1>ok, <1>load, <2>1 DEF InstanceOk, Early, Wired, Released
<1>4. CASE LookupFails(i)
  <2>1. /\ phase[i] = "binding"
        /\ phase'[i] = "failed" \/ (phase'[i] = "ready" /\ ~IsProgram(class[i]))
        /\ UNCHANGED <<class, fields, docking, owned, live>>
    BY <1>4, <1>types DEF LookupFails, To
  <2> QED
    BY <1>ok, <1>load, <2>1 DEF InstanceOk, Early, Wired, Released
<1>5. CASE BindAll(i)
  <2>1. /\ phase[i] = "binding" /\ phase'[i] = "ready"
        /\ fields'[i] = fields[i] \cup Bound(class[i])
        /\ UNCHANGED <<class, docking, owned, live>>
    BY <1>5, <1>types DEF BindAll, To, Bind, Bound
  <2>2. fields[i] = {} /\ "finalizer" \in Bound(class[i])
    BY <1>ok, <2>1, FinalizerFirst DEF Early
  <2> QED
    BY <1>ok, <1>load, <2>1, <2>2 DEF InstanceOk, Early, Wired, Released
<1>6. CASE BindFails(i)
  <2>1. PICK S \in SUBSET Bound(class[i]) :
            (S # {} => "finalizer" \in S) /\ fields' = [fields EXCEPT ![i] = @ \cup S]
    BY <1>6, BoundBefore DEF BindFails, Bind
  <2>2. /\ phase[i] = "binding" /\ phase'[i] = "failed"
        /\ fields'[i] = fields[i] \cup S
        /\ UNCHANGED <<class, docking, owned, live>>
    BY <1>6, <1>types, <2>1 DEF BindFails, To
  <2> QED
    BY <1>ok, <1>load, <2>1, <2>2 DEF InstanceOk, Early, Wired, Released
<1>7. CASE ReenterConstructor(i)
  <2>1. /\ phase[i] = "ready" /\ phase'[i] \in {"ready", "failed"}
        /\ UNCHANGED <<class, fields, docking, owned, live>>
    BY <1>7, <1>types DEF ReenterConstructor, To
  <2> QED
    BY <1>ok, <1>load, <2>1 DEF InstanceOk, Early, Wired, Released
<1>8. CASE InitAddsAction(i) \/ Hook(i)
  <2>1. PICK a \in Actions : AuthorAddsAction(i, a)
    BY <1>8 DEF InitAddsAction, Hook
  <2>2. /\ phase[i] \in {"ready", "serving", "idle"} /\ (phase[i] = "idle" => fields[i] # {})
        /\ UNCHANGED <<phase, class, fields>>
    BY <1>8 DEF InitAddsAction, Hook
  <2>3. docking'[i] = docking[i] \cup {a} /\ owned'[i] = owned[i] \cup {a}
    BY <1>types, <2>1 DEF AuthorAddsAction
  <2> QED
    BY <1>ok, <1>load, <2>2, <2>3 DEF InstanceOk, Early, Wired, Released
<1>9. CASE InitRaises(i) \/ EnterService(i)
  <2>1. /\ phase[i] = "ready" /\ phase'[i] \in {"failed", "serving"}
        /\ UNCHANGED <<class, fields, docking, owned, live>>
    BY <1>9, <1>types DEF InitRaises, EnterService, To
  <2> QED
    BY <1>ok, <1>load, <2>1 DEF InstanceOk, Early, Wired, Released
<1>10. CASE Close(i)
  <2>1. /\ phase[i] \in {"serving", "idle"} /\ phase'[i] = "closed"
        /\ UNCHANGED <<class, fields, docking, owned, live>>
    BY <1>10, <1>types DEF Close, To
  <2> QED
    BY <1>ok, <1>load, <2>1 DEF InstanceOk, Early, Wired, Released
<1>11. CASE DisposeDefault(i)
  <2>1. /\ phase[i] \in {"closed", "failed"} /\ phase'[i] = "disposed"
        /\ "finalizer" \notin fields[i]
        /\ UNCHANGED <<class, fields, docking, owned, live>>
    BY <1>11, <1>types DEF DisposeDefault, To
  <2> QED
    BY <1>ok, <1>load, <2>1 DEF InstanceOk, Early, Wired, Released
<1>12. CASE Dispose(i)
  <2>1. /\ phase[i] \in {"closed", "failed"} /\ phase'[i] = "disposed"
        /\ live' = live \ docking[i]
        /\ UNCHANGED <<class, fields, docking, owned>>
    BY <1>12, <1>types DEF Dispose, To
  <2> QED
    BY <1>ok, <1>load, <2>1 DEF InstanceOk, Early, Wired, Released
<1>13. CASE DisposeRaises(i)
  <2>1. /\ phase[i] \in {"closed", "failed"} /\ phase'[i] = "broken"
        /\ UNCHANGED <<class, fields, docking, owned>>
    BY <1>13, <1>types DEF DisposeRaises, To
  <2> QED
    BY <1>ok, <1>load, <2>1 DEF InstanceOk, Early, Wired, Released
<1> QED
  BY <1>1, <1>2, <1>3, <1>4, <1>5, <1>6, <1>7, <1>8, <1>9, <1>10, <1>11, <1>12, <1>13
  DEF InstanceStep

\* Nor does it disturb what they say of the other instances.
LEMMA OtherInstanceOk ==
    ASSUME InstanceInv, NEW i \in Instances, InstanceStep(i), NEW j \in Instances \ {i}
    PROVE  InstanceOk(j)'
<1>1. /\ phase'[j] = phase[j] /\ class'[j] = class[j]
      /\ fields'[j] = fields[j] /\ docking'[j] = docking[j] /\ owned'[j] = owned[j]
      /\ owned[j] \cap live' \subseteq live
  BY StepOfOne
<1>2. initializer' = initializer
  BY InstanceStepLeavesLoad DEF vars, loadVars
<1>3. Early(j) /\ Wired(j) /\ Released(j)
  BY DEF InstanceInv, InstanceOk
<1> QED
  BY <1>1, <1>2, <1>3 DEF InstanceOk, Early, Wired, Released

\* The strengthening holds in every reachable state.
THEOREM LifecycleInductive == LifecycleSpec => []InstanceInv
<1>1. ASSUME InstanceInv, [LifecycleNext]_allVars PROVE InstanceInv'
  <2>1. CASE \E i \in Instances : InstanceStep(i)
    <3>1. PICK i \in Instances : InstanceStep(i)
      BY <2>1
    <3>2. \A j \in Instances : InstanceOk(j)'
      BY <1>1, <3>1, StepInstanceOk, OtherInstanceOk
    <3> QED
      BY <1>1, <3>1, <3>2, StepOfOne DEF InstanceInv
  <2>2. CASE Next /\ UNCHANGED instanceVars
    BY <1>1, <2>2, LoadStepInstanceInv
  <2>3. CASE UNCHANGED allVars
    <3>1. /\ UNCHANGED instanceVars
          /\ UNCHANGED <<plugins, loaders, classpath, pc, at, todo, pluginTypes, initializer>>
      BY <2>3 DEF allVars, vars, hostVars, loadVars
    <3> QED
      BY <1>1, <3>1 DEF InstanceInv, LifecycleTypeOK, TypeOK, InstanceOk, Early, Wired, Released,
         instanceVars
  <2> QED
    BY <1>1, <2>1, <2>2, <2>3 DEF LifecycleNext
<1> QED
  BY <1>1, InitInstanceInv, PTL DEF LifecycleSpec

\* Type correctness of decaf_load and of the instances.
THEOREM LifecycleTypeCorrect == LifecycleSpec => []LifecycleTypeOK
  BY LifecycleInductive, PTL DEF InstanceInv

\* No plugin is ever in service with part of the hooks its Java class declares,
\* but for the four that are bound for none; and dispose of one that has any hook
\* reaches Python.
THEOREM WiredWholly == LifecycleSpec => []NeverHalfWired
<1>1. \A c : Hooks(c) \ Bound(c) = DataHooks
  BY BoundHooks DEF Hooks, PluginHooks
<1>2. InstanceInv => NeverHalfWired
  BY <1>1 DEF InstanceInv, InstanceOk, Wired, NeverHalfWired
<1> QED
  BY <1>2, LifecycleInductive, PTL

\* Disposing of a plugin releases every docking action its Python code made.
THEOREM AllReleased == LifecycleSpec => []ActionsReleased
<1>1. InstanceInv => ActionsReleased
  BY DEF InstanceInv, InstanceOk, Released, ActionsReleased
<1> QED
  BY <1>1, LifecycleInductive, PTL
=============================================================================
