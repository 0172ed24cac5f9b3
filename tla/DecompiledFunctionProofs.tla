------------------------ MODULE DecompiledFunctionProofs ------------------------
(***************************************************************************)
(* What holds of a decompiled function for any symbols, names and labels,   *)
(* however the program is edited and however often a load raises.           *)
(***************************************************************************)
EXTENDS DecompiledFunction, TLAPS

\* Variables have distinct names, and an unedited symbol has the name it was
\* decompiled with.
NameInv ==
    /\ DistinctNames(name) /\ DistinctNames(high)
    /\ \A s \in Symbols \ edited : name[s] = high[s]

\* The labels before pos have been seen to.
ScanInv ==
    /\ pc = "table" => pos = 1
    /\ pc = "idle" => pos = 1
    /\ pc = "store" => pos \in Body /\ (labelName[pos] \in inCode \/ pos \in edited)
    /\ \A a \in Body \ edited :
          /\ labelName[a] \in inCode
          /\ loaded \/ (pc \in {"scan", "store"} /\ a < pos)
          => labels[labelName[a]] # None

\* OwnVariable from the moment the variable table has been read.
PairInv ==
    loaded \/ pc \in {"scan", "store"} => \A s \in Variables :
        /\ Variable(s) \in {s, None} \cup edited
        /\ s \in (Params \cup committed) \ edited => Variable(s) = s

IInv == FunctionTypeOK /\ NameInv /\ ScanInv /\ PairInv /\ LabelsTruthful
-----------------------------------------------------------------------------
\* The strengthening holds when the object has been made.
LEMMA InitIInv == FunctionInit => IInv
<1> SUFFICES ASSUME FunctionInit PROVE IInv
  OBVIOUS
<1>1. FunctionTypeOK
  <2>1. name \in [Symbols -> Names] /\ high = name
    BY DEF FunctionInit
  <2>2. pos \in 1 .. Size + 1 /\ edits \in 0 .. MaxEdits
    BY BoundsAssumption DEF FunctionInit
  <2>3. /\ table \in [Names -> Variables \cup {None}]
        /\ labels \in [Names -> Body \cup {None}]
    BY DEF FunctionInit
  <2>4. /\ committed \subseteq Locals /\ inCode \subseteq Names
        /\ labelName \in [Body -> Names \cup {None}]
        /\ pc = "idle" /\ loaded = FALSE /\ edited = {}
    BY DEF FunctionInit
  <2> QED
    BY <2>1, <2>2, <2>3, <2>4 DEF FunctionTypeOK
<1>2. NameInv /\ ScanInv /\ PairInv
  BY DEF FunctionInit, NameInv, ScanInv, PairInv
<1>3. LabelsTruthful
  BY DEF FunctionInit, LabelsTruthful
<1> QED
  BY <1>1, <1>2, <1>3 DEF IInv

\* Renaming a variable preserves the strengthening.
LEMMA RenameIInv ==
    ASSUME IInv, NEW s \in Symbols, NEW n \in Names, Rename(s, n)
    PROVE  IInv'
<1> USE DEF IInv, Rename, objectVars
<1>1. FunctionTypeOK'
  BY BoundsAssumption DEF FunctionTypeOK, Symbols
<1>2. NameInv'
  BY DEF NameInv, FunctionTypeOK
<1>3. ScanInv' /\ LabelsTruthful'
  BY DEF ScanInv, LabelsTruthful
<1>4. PairInv'
  BY DEF PairInv, Variable
<1> QED
  BY <1>1, <1>2, <1>3, <1>4

\* Renaming, making or removing a label preserves the strengthening.
LEMMA LabelIInv ==
    ASSUME IInv, NEW a \in Body, NEW n \in Names \cup {None}, RenameLabel(a, n)
    PROVE  IInv'
<1> USE DEF IInv, RenameLabel, objectVars
<1>1. FunctionTypeOK'
  BY BoundsAssumption DEF FunctionTypeOK
<1>2. NameInv' /\ PairInv'
  BY DEF NameInv, PairInv, Variable, DistinctNames
<1>3. ScanInv'
  BY DEF ScanInv, FunctionTypeOK
<1>4. LabelsTruthful'
  BY DEF LabelsTruthful, FunctionTypeOK
<1> QED
  BY <1>1, <1>2, <1>3, <1>4

\* Every step preserves the strengthening.
LEMMA StepIInv == IInv /\ FunctionNext => IInv'
<1> SUFFICES ASSUME IInv, FunctionNext PROVE IInv'
  OBVIOUS
<1> USE DEF programVars
<1>0. FunctionTypeOK /\ NameInv /\ ScanInv /\ PairInv /\ LabelsTruthful
  BY DEF IInv
<1>1. CASE Edited
  BY <1>1, RenameIInv, LabelIInv DEF Edited
<1>2. ASSUME NEW n \in Names, NEW new \in Names, Update(n, new)
      PROVE  IInv'
  BY <1>2, RenameIInv, LabelIInv DEF Update
<1>3. CASE Lookup
  BY <1>0, <1>3 DEF Lookup, IInv, FunctionTypeOK, NameInv, ScanInv, PairInv, Variable, LabelsTruthful, DistinctNames
<1>4. CASE ReadTable
  <2> DEFINE vs == Params \cup committed
  <2>0. vs \subseteq Variables /\ vs \subseteq Symbols
    BY <1>0 DEF FunctionTypeOK, Variables, Symbols
  <2>1. /\ table' = [n \in Names |-> IF \E v \in vs : name[v] = n
                                    THEN CHOOSE v \in vs : name[v] = n ELSE None]
        /\ pc = "table" /\ pc' = "scan" /\ pos' = pos
        /\ UNCHANGED <<programVars, high, inCode, labels, loaded>>
    BY <1>4 DEF ReadTable, ReadVariables
  <2>2. \A n \in Names : \/ (table'[n] \in vs /\ name[table'[n]] = n)
                          \/ (table'[n] = None /\ \A v \in vs : name[v] # n)
    BY <2>1
  <2>3. FunctionTypeOK'
    BY <1>0, <2>0, <2>1, <2>2 DEF FunctionTypeOK
  <2>4. PairInv'
    <3> SUFFICES ASSUME NEW s \in Variables
                 PROVE  /\ table'[high[s]] \in {s, None} \cup edited
                        /\ s \in vs \ edited => table'[high[s]] = s
      BY <2>1 DEF PairInv, Variable
    <3>1. high[s] \in Names /\ s \in Symbols
      BY <1>0 DEF FunctionTypeOK, Symbols
    <3>2. ASSUME table'[high[s]] # None, table'[high[s]] \notin edited
          PROVE  table'[high[s]] = s
      <4> DEFINE v == table'[high[s]]
      <4>1. v \in vs /\ name[v] = high[s]
        BY <2>2, <3>1, <3>2
      <4>2. v \in Variables /\ high[v] = high[s]
        BY <1>0, <2>0, <3>2, <4>1 DEF NameInv
      <4> QED
        BY <1>0, <4>2 DEF NameInv, DistinctNames
    <3>3. ASSUME s \in vs \ edited
          PROVE  table'[high[s]] = s
      <4>1. name[s] = high[s]
        BY <1>0, <3>1, <3>3 DEF NameInv
      <4>2. table'[high[s]] \in vs /\ name[table'[high[s]]] = name[s]
        BY <2>2, <3>1, <3>3, <4>1
      <4> QED
        BY <1>0, <2>0, <4>2 DEF NameInv, DistinctNames
    <3> QED
      BY <3>2, <3>3
  <2>5. NameInv' /\ LabelsTruthful'
    BY <1>0, <2>1 DEF NameInv, DistinctNames, LabelsTruthful
  <2>6. ~loaded /\ pos = 1
    BY <1>0, <2>1 DEF FunctionTypeOK, ScanInv
  <2>7. ScanInv'
    BY <1>0, <2>1, <2>6 DEF ScanInv, Body
  <2> QED
    BY <2>3, <2>4, <2>5, <2>7 DEF IInv
<1>5. CASE TestLabel
  <2>1. FunctionTypeOK' /\ NameInv' /\ PairInv' /\ LabelsTruthful'
    BY <1>0, <1>5, BoundsAssumption
    DEF TestLabel, FunctionTypeOK, NameInv, DistinctNames, PairInv, Variable, LabelsTruthful
  <2>2. ScanInv'
    BY <1>0, <1>5 DEF TestLabel, FunctionTypeOK, ScanInv, Body
  <2> QED
    BY <2>1, <2>2 DEF IInv
<1>6. CASE StoreLabel
  <2>1. pos \in Body /\ labelName[pos] \in Names
    BY <1>0, <1>6 DEF StoreLabel, ScanInv, FunctionTypeOK
  <2>2. FunctionTypeOK' /\ NameInv' /\ PairInv'
    BY <1>0, <1>6, <2>1, BoundsAssumption
    DEF StoreLabel, FunctionTypeOK, NameInv, DistinctNames, PairInv, Variable, Body
  <2>3. ScanInv'
    BY <1>0, <1>6, <2>1, SymbolsAssumption DEF StoreLabel, FunctionTypeOK, ScanInv, Body
  <2>4. LabelsTruthful'
    BY <1>0, <1>6, <2>1 DEF StoreLabel, FunctionTypeOK, ScanInv, LabelsTruthful
  <2> QED
    BY <2>2, <2>3, <2>4 DEF IInv
<1>7. CASE Loaded
  BY <1>0, <1>7, BoundsAssumption
  DEF Loaded, IInv, FunctionTypeOK, NameInv, DistinctNames, ScanInv, PairInv, Variable, LabelsTruthful, Body
<1>8. CASE LoadRaises
  BY <1>0, <1>8, BoundsAssumption
  DEF LoadRaises, IInv, FunctionTypeOK, NameInv, DistinctNames, ScanInv, PairInv, Variable, LabelsTruthful, Body
<1> QED
  BY <1>1, <1>2, <1>3, <1>4, <1>5, <1>6, <1>7, <1>8 DEF FunctionNext

\* A stuttering step preserves the strengthening.
LEMMA StutterIInv == IInv /\ UNCHANGED functionVars => IInv'
  BY DEF IInv, FunctionTypeOK, NameInv, DistinctNames, ScanInv, PairInv, Variable, LabelsTruthful,
         functionVars, programVars, objectVars

\* The strengthening holds in every reachable state.
LEMMA Inductive == FunctionSpec => []IInv
  BY InitIInv, StepIInv, StutterIInv, PTL DEF FunctionSpec

\* Every variable has its type, and no load is under way once the flag is up.
THEOREM TypeCorrect == FunctionSpec => []FunctionTypeOK
  BY Inductive, PTL DEF IInv

\* A symbol is paired with the variable that backs it, unless one of the two was
\* renamed since the decompilation.
THEOREM PairedWithOwn == FunctionSpec => []OwnVariable
<1>1. IInv => OwnVariable
  BY DEF IInv, PairInv, OwnVariable
<1> QED
  BY <1>1, Inductive, PTL

\* A load that raised and was made again misses no label.
THEOREM LoadIsWhole == FunctionSpec => []NothingMissed
<1>1. IInv => NothingMissed
  <2> SUFFICES ASSUME IInv, loaded, NEW a \in Body \ edited, labelName[a] \in inCode
               PROVE  GetSymbol(labelName[a]) # None
    BY DEF NothingMissed
  <2> DEFINE n == labelName[a]
  <2>1. labels[n] # None
    BY DEF IInv, ScanInv
  <2>2. CASE Bearing(Variables, n) # {}
    <3>1. GetSymbol(n) \in Bearing(Variables, n)
      BY <2>2 DEF GetSymbol
    <3> QED
      BY <3>1, SymbolsAssumption DEF Bearing, Symbols
  <2>3. CASE Bearing(Variables, n) = {} /\ Bearing(Globals, n) # {}
    <3>1. GetSymbol(n) \in Bearing(Globals, n)
      BY <2>3 DEF GetSymbol
    <3> QED
      BY <3>1, SymbolsAssumption DEF Bearing, Symbols
  <2>4. CASE Bearing(Variables, n) = {} /\ Bearing(Globals, n) = {}
    BY <2>1, <2>4 DEF GetSymbol
  <2> QED
    BY <2>2, <2>3, <2>4
<1> QED
  BY <1>1, Inductive, PTL

\* A label is kept under its own name, which is in the C code, unless edited.
THEOREM LabelsAreOwn == FunctionSpec => []LabelsTruthful
  BY Inductive, PTL DEF IInv
=============================================================================
