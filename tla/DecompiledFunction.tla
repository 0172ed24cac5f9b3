--------------------------- MODULE DecompiledFunction ---------------------------
(***************************************************************************)
(* DecompiledFunction (tamer/program.py): a function decompiled once, when  *)
(* the object is made, whose symbols are looked up later.  The first lookup *)
(* loads them: parameters, locals and globals bear the names they had when  *)
(* the function was decompiled, the variable table and the labels are those *)
(* of the program at the time of the lookup.  The program is edited in      *)
(* between and meanwhile, by this object's own update() and by others; a    *)
(* load may raise anywhere and is then made again by the next lookup.       *)
(*                                                                          *)
(* A symbol stands for one variable of the function: params and locals are  *)
(* in the variable table (a local only once somebody has named it), globals *)
(* are not.  Variables of a function have distinct names; Ghidra refuses a  *)
(* rename that would break this.  The index of a label and the strings are  *)
(* left out: nothing reads them.  A function that was not decompiled in     *)
(* time has no high function, and its lookups never get past ReadTable.     *)
(***************************************************************************)
EXTENDS Integers

CONSTANTS Params, Locals, Globals,   \* the symbols of the function
          Names,                     \* of symbols and labels
          Size,                      \* addresses of the body: 1 .. Size
          None,                      \* Python's None
          MaxEdits                   \* bound: edits of the program

Variables == Params \cup Locals
Symbols   == Variables \cup Globals
Body      == 1 .. Size

ASSUME SymbolsAssumption == /\ Params \cap Locals = {} /\ Globals \cap Variables = {}
                            /\ Symbols \cap Int = {}
                            /\ None \notin Names \cup Symbols \cup Int
ASSUME BoundsAssumption == Size \in Nat /\ MaxEdits \in Nat

VARIABLES name,      \* the name of each symbol in the program
          committed, \* the locals that are in the variable table
          labelName, \* the primary label at each address, or None
          high,      \* the names of the symbols when the function was decompiled
          inCode,    \* the names that occur in the C code
          pc,        \* where _load_vars is
          pos,       \* the address it is at
          loaded,    \* _vars_loaded
          table,     \* _ghidra_vars: name -> variable
          labels,    \* _labels: name -> address
          edited,    \* symbols and addresses edited since the decompilation
          edits      \* how many edits were made

programVars == <<name, committed, labelName, edited, edits>>
objectVars == <<high, inCode, pc, pos, loaded, table, labels>>
functionVars == <<programVars, objectVars>>

DistinctNames(f) == \A v, w \in Variables : v # w => f[v] # f[w]

\* The constructor decompiles the function.
FunctionInit ==
    /\ name \in {f \in [Symbols -> Names] : DistinctNames(f)}
    /\ committed \in SUBSET Locals
    /\ labelName \in [Body -> Names \cup {None}]
    /\ high = name
    /\ inCode \in SUBSET Names
    /\ pc = "idle" /\ pos = 1 /\ loaded = FALSE
    /\ table = [n \in Names |-> None]
    /\ labels = [n \in Names |-> None]
    /\ edited = {} /\ edits = 0
-----------------------------------------------------------------------------
\* ---- edits of the program, through update() or by others

\* HighFunctionDBUtil.updateDBVariable, the Rename of a variable.
Rename(s, n) ==
    /\ edits < MaxEdits
    /\ name' = [name EXCEPT ![s] = n]
    /\ DistinctNames(name')
    /\ committed' = committed \cup ({s} \cap Locals)
    /\ edited' = edited \cup {s}
    /\ edits' = edits + 1
    /\ UNCHANGED <<labelName, objectVars>>

\* Symbol.setName; also the creation and the removal of a label.
RenameLabel(a, n) ==
    /\ edits < MaxEdits
    /\ labelName' = [labelName EXCEPT ![a] = n]
    /\ edited' = edited \cup {a}
    /\ edits' = edits + 1
    /\ UNCHANGED <<name, committed, objectVars>>

Edited == \/ \E s \in Symbols, n \in Names : Rename(s, n)
          \/ \E a \in Body, n \in Names \cup {None} : RenameLabel(a, n)

\* ---- what the loaded object answers

\* The symbols of a set that bear a name in the decompiled function.
Bearing(S, n) == {s \in S : high[s] = n}

\* get_symbol: params, then locals, then globals, then labels.
GetSymbol(n) ==
    IF Bearing(Variables, n) # {} THEN CHOOSE s \in Bearing(Variables, n) : TRUE
    ELSE IF Bearing(Globals, n) # {} THEN CHOOSE s \in Bearing(Globals, n) : TRUE
    ELSE labels[n]

\* The _variable of a symbol: paired by name when the symbols are loaded.
Variable(s) == table[high[s]]

\* GhidraVariable.update and CodeLabel.update of what get_symbol found.
Update(n, new) ==
    /\ pc = "idle" /\ loaded
    /\ \/ GetSymbol(n) \in Symbols /\ Rename(GetSymbol(n), new)
       \/ GetSymbol(n) \in Body /\ labelName[GetSymbol(n)] # None
          /\ RenameLabel(GetSymbol(n), new)

\* ---- _load_vars

\* A lookup, when nothing is loaded yet.
Lookup == /\ pc = "idle"
          /\ ~loaded
          /\ pc' = "table"
          /\ UNCHANGED <<programVars, high, inCode, pos, loaded, table, labels>>

\* The symbols of the high function are paired with variables by name.
ReadVariables(vs) ==
    /\ pc = "table"
    /\ table' = [n \in Names |-> IF \E v \in vs : name[v] = n
                                 THEN CHOOSE v \in vs : name[v] = n ELSE None]
    /\ pc' = "scan"
    /\ UNCHANGED <<programVars, high, inCode, pos, labels>>

\* Mutant of ReadTable: the flag is set before the work is done.
FlagFirst == ReadVariables(Params \cup committed) /\ loaded' = TRUE

\* Mutant of ReadTable: the parameters only.
ParamsOnly == ReadVariables(Params) /\ UNCHANGED loaded

\* function.getAllVariables()
ReadTable == ReadVariables(Params \cup committed) /\ UNCHANGED loaded

\* Mutant of TestLabel: pos moves on before the label is stored.
MoveOn ==
    /\ pc = "scan" /\ pos < Size
    /\ pc' = IF labelName[pos] \in inCode THEN "store" ELSE "scan"
    /\ pos' = pos + 1
    /\ UNCHANGED <<programVars, high, inCode, loaded, table, labels>>

\* isinstance(sym, CodeSymbol) and sym.getName() in c_code
TestLabel ==
    /\ pc = "scan" /\ pos <= Size
    /\ IF labelName[pos] \in inCode THEN pc' = "store" /\ pos' = pos
                                    ELSE pc' = "scan" /\ pos' = pos + 1
    /\ UNCHANGED <<programVars, high, inCode, loaded, table, labels>>

\* self._labels[str(sym.getName())] = lbl: the name is asked for again.
StoreLabel ==
    /\ pc = "store" /\ labelName[pos] # None
    /\ labels' = [labels EXCEPT ![labelName[pos]] = pos]
    /\ pos' = pos + 1
    /\ pc' = "scan"
    /\ UNCHANGED <<programVars, high, inCode, loaded, table>>

\* while pos <= end_addr ends.
Loaded == /\ pc = "scan" /\ pos > Size
          /\ loaded' = TRUE
          /\ pc' = "idle" /\ pos' = 1
          /\ UNCHANGED <<programVars, high, inCode, table, labels>>

\* Ghidra throws, or the address after pos does not exist: what was loaded so
\* far stays.
LoadRaises == /\ pc # "idle"
              /\ pc' = "idle" /\ pos' = 1
              /\ UNCHANGED <<programVars, high, inCode, loaded, table, labels>>

FunctionNext == \/ Edited \/ \E n, new \in Names : Update(n, new)
                \/ Lookup \/ ReadTable \/ TestLabel \/ StoreLabel \/ Loaded \/ LoadRaises

FunctionSpec == FunctionInit /\ [][FunctionNext]_functionVars
-----------------------------------------------------------------------------
\* Every variable has its type, and the flag is not up while a load is under
\* way.
FunctionTypeOK ==
    /\ name \in [Symbols -> Names] /\ high \in [Symbols -> Names]
    /\ committed \subseteq Locals
    /\ labelName \in [Body -> Names \cup {None}]
    /\ inCode \subseteq Names
    /\ pc \in {"idle", "table", "scan", "store"}
    /\ pos \in 1 .. Size + 1
    /\ loaded \in BOOLEAN /\ (loaded => pc = "idle")
    /\ table \in [Names -> Variables \cup {None}]
    /\ labels \in [Names -> Body \cup {None}]
    /\ edited \subseteq Symbols \cup Body /\ edits \in 0 .. MaxEdits

\* The low-level variable paired with a symbol is the one that backs it, or is
\* None because there is none, as long as nobody renamed either of the two
\* since the function was decompiled: the pairing is by name, of names read at
\* two different times.
OwnVariable ==
    loaded => \A s \in Variables :
        /\ Variable(s) \in {s, None} \cup edited
        /\ s \in (Params \cup committed) \ edited => Variable(s) = s

\* Once a lookup has answered, every label that is in the C code is found by
\* its name, unless it was edited since the decompilation: a load that raised
\* half way leaves no hole.
NothingMissed ==
    loaded => \A a \in Body \ edited :
        labelName[a] \in inCode => GetSymbol(labelName[a]) # None

\* A label is kept under its own name and occurs in the C code, unless it was
\* edited since the decompilation, be it between the two times the load asks
\* for its name.
LabelsTruthful ==
    \A n \in Names : labels[n] # None =>
        labels[n] \in edited \/ (labelName[labels[n]] = n /\ n \in inCode)
=============================================================================
