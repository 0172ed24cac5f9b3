----------------------- MODULE TransactionContextProofs -----------------------
(***************************************************************************)
(* What holds of a transaction context whose calls overlap only inside an   *)
(* enclosing block, for any number of scopes and transaction identifiers,   *)
(* with releases that nobody acquired, and whether or not the program       *)
(* refuses to start or to end a transaction or loses it meanwhile.          *)
(***************************************************************************)
EXTENDS TransactionContext, FiniteSetTheorems, TLAPS

\* Two scopes are in the middle of a call only while a third is in its block
\* and no stray release has an effect.
Enclosed == \A s, o \in Scopes :
    \/ s = o \/ pc[s] \in RestLabels \/ pc[o] \in RestLabels
    \/ Calm /\ \E k \in Scopes : pc[k] = "body"

\* The counter and the counts that strays took are those of the scopes inside,
\* and where each scope stands tells whether it is one of them, except between
\* the two halves of a release.
CountInv ==
    /\ refCount + stray = Cardinality(inside)
    /\ \A s \in Scopes :
          /\ pc[s] = "body" => s \in inside
          /\ pc[s] \in {"out", "test", "endCheck", "end", "clearTx"} \cup AcquireLabels
                => s \notin inside
          /\ pc[s] = "uncount" => refCount > 0

\* The steps that start or end a transaction find the count at zero.
EmptyInv ==
    \A s \in Scopes :
        pc[s] \in {"checkTx", "clearError", "resetCount", "start", "store",
                   "endCheck", "end", "clearTx"} => refCount = 0

\* How _txid follows the program's transaction through the steps of a call.
TxInv ==
    /\ refCount > 0 => txid # NoTx
    /\ (~dropped /\ \A s \in Scopes : pc[s] \notin {"store", "clearTx"})
          => open = {txid} \ {NoTx}
    /\ \A s \in Scopes :
          /\ pc[s] \in {"clearError", "resetCount", "start", "store"} => txid = NoTx
          /\ pc[s] \in {"count", "end"} => txid # NoTx
          /\ pc[s] = "store" => fresh[s] \in TxId /\ open = {fresh[s]}
          /\ pc[s] = "clearTx" => open = {} /\ ~dropped

\* What is left of a context whose transaction was lost.
DropInv ==
    dropped => txid # NoTx /\ open = {} /\ outcome = "failed"

\* _error says whether the open transaction was flagged.
FlagInv ==
    /\ flagged \subseteq open
    /\ txid \in open => (error <=> txid \in flagged)
    /\ \A s \in Scopes :
          /\ pc[s] \in {"resetCount", "start", "store"} => ~error
          /\ pc[s] = "store" => flagged = {}

IInv == TypeOK /\ Enclosed /\ CountInv /\ EmptyInv /\ TxInv /\ DropInv /\ FlagInv
-----------------------------------------------------------------------------
\* A set of scopes has no elements exactly when it counts zero, and counting a
\* scope in or out changes its number by one.
LEMMA CountFacts ==
    ASSUME NEW S \in SUBSET Scopes
    PROVE  /\ Cardinality(S) \in Nat
           /\ Cardinality(S) = 0 <=> S = {}
           /\ \A s : s \notin S => Cardinality(S \cup {s}) = Cardinality(S) + 1
           /\ \A s \in S : Cardinality(S \ {s}) = Cardinality(S) - 1
<1>1. IsFiniteSet(S)
  BY ScopesAssumption, FS_Subset
<1> QED
  BY <1>1, FS_CardinalityType, FS_EmptySet, FS_AddElement, FS_RemoveElement

\* The strengthening holds in the initial state.
LEMMA InitIInv == Init => IInv
<1> SUFFICES ASSUME Init PROVE IInv
  OBVIOUS
<1> USE NoTxAssumption DEF Init, Labels, RestLabels, AcquireLabels, ReleaseLabels
<1>1. Cardinality(inside) = 0
  BY FS_EmptySet
<1>2. TypeOK
  BY DEF TypeOK
<1>3. CountInv
  BY <1>1 DEF CountInv
<1>4. Enclosed /\ EmptyInv /\ TxInv /\ DropInv /\ FlagInv
  BY DEF Enclosed, EmptyInv, TxInv, DropInv, FlagInv
<1> QED
  BY <1>2, <1>3, <1>4 DEF IInv

\* The labels at which a transaction is being started or ended.
Edges == {"checkTx", "clearError", "resetCount", "start", "store",
          "endCheck", "end", "clearTx"}

\* Whoever takes a step finds no other scope starting or ending a transaction,
\* and whoever starts or ends one finds all others at rest.
LEMMA LoneEdge ==
    ASSUME Disciplined, IInv, NEW s \in Scopes, Step(s)
    PROVE  /\ \A o \in Scopes \ {s} : pc[o] \notin Edges
           /\ pc[s] \in Edges => \A o \in Scopes \ {s} : pc[o] \in RestLabels
<1>1. (Calm /\ pc[s] = "body") \/ Safe(s)
  BY DEF Step, CallStep, At, Move, Acquire, CheckCount, CheckTx, ClearError,
     ResetCount, StartTx, StartTxFails, StoreTx, CountIn, FlagError, Release,
     UnmatchedRelease, Guard, CountOut, TestCount, EndCheck, EndTx, EndTxFails,
     ClearTx, Ends
<1>2. Calm => \A o \in Scopes : pc[o] \in Edges => \A k \in Scopes : pc[k] # "body"
  BY CountFacts DEF IInv, TypeOK, EmptyInv, CountInv, Edges, Calm
<1>3. \A o \in Scopes : pc[o] \in Edges => pc[o] \notin RestLabels
  BY DEF Edges, RestLabels
<1>4. \A o \in Scopes \ {s} : pc[o] \notin Edges
  BY <1>1, <1>2, <1>3 DEF Safe, Alone
<1>5. pc[s] \in Edges => \A o \in Scopes \ {s} : pc[o] \in RestLabels
  BY <1>2, <1>3 DEF IInv, Enclosed
<1> QED
  BY <1>4, <1>5

\* Every step of a scope preserves the strengthening when calls overlap only
\* inside an enclosing block.
LEMMA StepIInv ==
    ASSUME Disciplined, IInv, NEW s \in Scopes, Step(s)
    PROVE  IInv'
<1> USE NoTxAssumption
    DEF IInv, TypeOK, Enclosed, CountInv, EmptyInv, TxInv, DropInv, FlagInv, At, Goto,
        Move, Safe, Alone, Calm, contextVars, callerVars, programVars, Labels, RestLabels, AcquireLabels, ReleaseLabels
<1>0. Cardinality(inside) \in Nat /\ (Cardinality(inside) = 0 <=> inside = {})
  BY CountFacts
<1>a. /\ \A o \in Scopes \ {s} : pc[o] \notin Edges
      /\ pc[s] \in Edges => \A o \in Scopes \ {s} : pc[o] \in RestLabels
  BY LoneEdge
<1>1. CASE Acquire(s)
  BY <1>a, <1>1 DEF Edges, Acquire
<1>2. CASE CheckCount(s)
  BY <1>a, <1>0, <1>2 DEF Edges, CheckCount
<1>3. CASE CheckTx(s)
  BY <1>a, <1>3 DEF Edges, CheckTx
<1>4. CASE ClearError(s)
  <2>1. txid = NoTx /\ txid \notin open
    BY <1>a, <1>4 DEF Edges, ClearError
  <2>2. Enclosed' /\ CountInv' /\ EmptyInv' /\ TxInv' /\ DropInv'
    BY <1>a, <1>4 DEF Edges, ClearError
  <2>3. TypeOK' /\ FlagInv'
    BY <1>4, <2>1 DEF ClearError
  <2> QED
    BY <2>2, <2>3
<1>5. CASE ResetCount(s)
  BY <1>a, <1>0, <1>5 DEF Edges, ResetCount
<1>6. CASE StartTx(s)
  BY <1>a, <1>6 DEF Edges, StartTx
<1>7. CASE StartTxFails(s)
  BY <1>a, <1>7 DEF Edges, StartTxFails
<1>8. CASE StoreTx(s)
  BY <1>a, <1>8 DEF Edges, StoreTx
<1>9. CASE CountIn(s)
  BY <1>a, <1>0, CountFacts, <1>9 DEF Edges, CountIn
<1>10. CASE FlagError(s)
  BY <1>a, <1>10 DEF Edges, FlagError
<1>11. CASE Release(s)
  BY <1>a, <1>11 DEF Edges, Release
<1>12. CASE UnmatchedRelease(s)
  BY <1>a, <1>12 DEF Edges, UnmatchedRelease
<1>13. CASE Guard(s)
  <2>1. CASE refCount = 0 /\ s \in inside
    <3>1. /\ Cardinality(inside \ {s}) = Cardinality(inside) - 1
          /\ stray = Cardinality(inside) /\ stray # 0
      BY <2>1, <1>0, CountFacts
    <3>2. /\ inside' = inside \ {s} /\ stray' = stray - 1 /\ stray' \in Nat
          /\ UNCHANGED <<contextVars, fresh, programVars>>
          /\ pc' = [pc EXCEPT ![s] = "out"]
      BY <2>1, <3>1, <1>13, <1>0 DEF Guard
    <3>3. \A o \in Scopes \ {s} : pc[o] \in RestLabels
      BY <1>13, <3>1 DEF Guard
    <3> QED
      BY <1>a, <1>0, <2>1, <3>1, <3>2, <3>3 DEF Edges
  <2>2. CASE refCount = 0 /\ s \notin inside
    <3>1. /\ UNCHANGED <<contextVars, fresh, callerVars, programVars>>
          /\ pc' = [pc EXCEPT ![s] = "out"]
      BY <2>2, <1>13 DEF Guard
    <3> QED
      BY <1>a, <2>2, <3>1, <1>13 DEF Edges, Guard
  <2>3. CASE refCount # 0
    BY <1>a, <1>13, <2>3 DEF Edges, Guard
  <2> QED
    BY <2>1, <2>2, <2>3
<1>14. CASE CountOut(s)
  <2>1. CASE s \in inside
    BY <1>a, <1>0, CountFacts, <1>14, <2>1 DEF Edges, CountOut
  <2>2. CASE s \notin inside
    BY <1>a, <1>0, <1>14, <2>2 DEF Edges, CountOut
  <2> QED
    BY <2>1, <2>2
<1>15. CASE TestCount(s)
  BY <1>a, <1>0, <1>15 DEF Edges, TestCount
<1>16. CASE EndCheck(s)
  BY <1>a, <1>16 DEF Edges, EndCheck
<1>17. CASE EndTx(s)
  BY <1>a, <1>17 DEF Edges, EndTx, Ends
<1>18. CASE EndTxFails(s)
  BY <1>a, <1>18 DEF Edges, EndTxFails
<1>19. CASE ClearTx(s)
  BY <1>a, <1>19 DEF Edges, ClearTx
<1> QED
  BY <1>1, <1>2, <1>3, <1>4, <1>5, <1>6, <1>7, <1>8, <1>9, <1>10, <1>11, <1>12, <1>13, <1>14, <1>15, <1>16, <1>17, <1>18, <1>19 DEF Step, CallStep

\* A stuttering step preserves the strengthening.
LEMMA StutterIInv == IInv /\ UNCHANGED vars => IInv'
  BY DEF IInv, TypeOK, Enclosed, CountInv, EmptyInv, TxInv, DropInv, FlagInv, Calm,
     vars, contextVars, callerVars, programVars

\* The strengthening holds in every reachable state.
THEOREM Inductive == ASSUME Disciplined PROVE Spec => []IInv
<1>1. IInv /\ [Next]_vars => IInv'
  BY StepIInv, StutterIInv DEF Next
<1> QED
  BY InitIInv, <1>1, PTL DEF Spec

\* Type correctness: the counter never goes negative, however acquires,
\* releases and failures follow each other.
THEOREM TypeCorrect == ASSUME Disciplined PROVE Spec => []TypeOK
  BY Inductive, PTL DEF IInv

\* While more scopes are inside than strays have taken counts, the transaction
\* the context remembers is open, unless the program lost it.
THEOREM InsideIsProtected == ASSUME Disciplined PROVE Spec => []InsideHasTransaction
<1>1. IInv => InsideHasTransaction
  <2> SUFFICES ASSUME IInv, Cardinality(inside) > stray, ~dropped
               PROVE  txid \in open
    BY DEF InsideHasTransaction
  <2>1. refCount > 0 /\ txid # NoTx
    BY CountFacts DEF IInv, TypeOK, CountInv, TxInv
  <2>2. \A s \in Scopes : pc[s] \notin {"store", "clearTx"}
    BY <2>1 DEF IInv, EmptyInv
  <2> QED
    BY <2>1, <2>2 DEF IInv, TxInv
<1> QED
  BY <1>1, Inductive, PTL

\* Between calls no transaction is leaked, and the identifier of an ended one
\* is remembered only if the program lost it.
THEOREM NothingForgotten == ASSUME Disciplined PROVE Spec => []NoForgottenTransaction
<1>1. IInv => NoForgottenTransaction
  BY DEF IInv, NoForgottenTransaction, AtRest, RestLabels, TypeOK, TxInv, DropInv
<1> QED
  BY <1>1, Inductive, PTL

\* Every step but EndTx leaves the transactions open or loses one with a
\* failure; EndTx commits exactly the unflagged ones.
THEOREM FlaggedIsAborted == ASSUME Disciplined PROVE Spec => OutcomeFollowsFlag
<1> DEFINE A == \A id \in open \ open' :
                    \/ outcome' = IF id \in flagged THEN "aborted" ELSE "committed"
                    \/ dropped' /\ outcome' = "failed"
<1>1. ASSUME IInv, NEW s \in Scopes, Step(s)
      PROVE  A
  <2>1. CASE EndTx(s)
    <3>1. open \ open' = {txid} /\ outcome' = IF error THEN "aborted" ELSE "committed"
      BY <2>1 DEF EndTx, Ends
    <3>2. error <=> txid \in flagged
      BY <2>1, <1>1 DEF EndTx, Ends, IInv, FlagInv
    <3> QED
      BY <3>1, <3>2
  <2>2. CASE EndTxFails(s)
    BY <2>2, <1>1 DEF EndTxFails, IInv, TypeOK
  <2>3. CASE ~EndTx(s) /\ ~EndTxFails(s)
    <3>1. open \subseteq open'
      BY <1>1, <2>3 DEF Step, CallStep, Move, programVars, StartTx, StoreTx, CountIn,
         FlagError, Guard, CountOut, Acquire, CheckCount, CheckTx, ClearError, ResetCount,
         StartTxFails, Release, UnmatchedRelease, TestCount, EndCheck, ClearTx
    <3> QED
      BY <3>1
  <2> QED
    BY <2>1, <2>2, <2>3
<1>2. IInv /\ [Next]_vars => [A]_vars
  BY <1>1 DEF Next
<1> QED
  BY <1>2, Inductive, PTL DEF Spec, OutcomeFollowsFlag

\* A context that lost its transaction never opens another nor reports a commit.
THEOREM DroppedForGood == ASSUME Disciplined PROVE Spec => NoCommitOnceDropped
<1> DEFINE A == dropped => dropped' /\ open' = {} /\ outcome' = "failed"
<1>1. ASSUME IInv, NEW s \in Scopes, Step(s)
      PROVE  A
  <2>1. IInv'
    BY <1>1, StepIInv
  <2>2. dropped => dropped'
    BY <1>1 DEF Step, CallStep, Move, programVars, StartTx, StoreTx, CountIn,
       FlagError, Guard, CountOut, Acquire, CheckCount, CheckTx, ClearError, ResetCount,
       StartTxFails, Release, UnmatchedRelease, TestCount, EndCheck, EndTx, Ends,
       EndTxFails, ClearTx, IInv, TypeOK
  <2> QED
    BY <2>1, <2>2 DEF IInv, DropInv
<1>2. IInv /\ [Next]_vars => [A]_vars
  BY <1>1 DEF Next
<1> QED
  BY <1>2, Inductive, PTL DEF Spec, NoCommitOnceDropped

\* Every step is a step of the abstract transaction, or a stutter of it.
LEMMA StepRefines ==
    ASSUME Disciplined, IInv, NEW s \in Scopes, Step(s)
    PROVE  [Scope!Next]_Scope!scopeVars
<1> USE DEF Scope!scopeVars, callerVars, programVars, contextVars, At
<1> DEFINE Same == UNCHANGED <<callerVars, programVars>>
<1>0. /\ refCount = Scope!Holding /\ refCount \in Nat
      /\ open \subseteq TxId /\ flagged \subseteq open /\ txid \in TxId \cup {NoTx}
  <2>1. Scope!Cardinality(inside) = Cardinality(inside)
    BY DEF Scope!Cardinality, Cardinality
  <2> QED
    BY <2>1, CountFacts DEF IInv, TypeOK, CountInv, FlagInv, Scope!Holding
<1>1. CASE StartTx(s)
  <2>1. refCount = 0 /\ open = {} /\ flagged = {} /\ ~dropped /\ open' # {}
    BY <1>1, LoneEdge, NoTxAssumption
    DEF StartTx, Edges, IInv, TypeOK, EmptyInv, TxInv, DropInv, FlagInv, RestLabels
  <2>2. Scope!Begin
    BY <1>0, <1>1, <2>1 DEF StartTx, Scope!Begin
  <2> QED
    BY <2>2 DEF Scope!Next
<1>2. CASE CountIn(s)
  <2>1. (open # {} \/ dropped) /\ s \notin inside
    BY <1>2, LoneEdge, NoTxAssumption
    DEF CountIn, Edges, IInv, TypeOK, CountInv, TxInv, RestLabels, AcquireLabels
  <2>2. Scope!Enter(s)
    BY <1>2, <2>1 DEF CountIn, Scope!Enter
  <2> QED
    BY <2>2 DEF Scope!Next
<1>3. CASE FlagError(s)
  <2>1. CASE txid \in open
    <3>1. Scope!Flag
      BY <1>3, <2>1 DEF FlagError, Scope!Flag
    <3> QED
      BY <3>1 DEF Scope!Next
  <2>2. CASE txid \notin open
    BY <1>3, <2>2 DEF FlagError
  <2> QED
    BY <2>1, <2>2
<1>4. CASE CountOut(s)
  <2>1. refCount > 0
    BY <1>4 DEF CountOut, IInv, CountInv
  <2>2. CASE s \in inside
    <3>1. Scope!Leave(s)
      BY <1>0, <1>4, <2>1, <2>2 DEF CountOut, Scope!Leave
    <3> QED
      BY <3>1 DEF Scope!Next
  <2>3. CASE s \notin inside
    <3>1. Scope!Stray
      BY <1>0, <1>4, <2>1, <2>3 DEF CountOut, Scope!Stray
    <3> QED
      BY <3>1 DEF Scope!Next
  <2> QED
    BY <2>2, <2>3
<1>5. CASE EndTx(s)
  <2>1. refCount = 0 /\ open = {txid} /\ flagged = IF error THEN {txid} ELSE {}
    BY <1>5, LoneEdge, NoTxAssumption
    DEF EndTx, Ends, Edges, IInv, TypeOK, EmptyInv, TxInv, DropInv, FlagInv, RestLabels
  <2>2. Scope!Finish
    BY <1>0, <1>5, <2>1 DEF EndTx, Ends, Scope!Finish
  <2> QED
    BY <2>2 DEF Scope!Next
<1>6. CASE Guard(s)
  <2>1. CASE refCount = 0 /\ s \in inside
    <3>1. Scope!LeaveRefused(s)
      BY <1>0, <1>6, <2>1 DEF Guard, Scope!LeaveRefused
    <3> QED
      BY <3>1 DEF Scope!Next
  <2>2. CASE ~(refCount = 0 /\ s \in inside)
    <3>1. Same
      BY <1>6, <2>2 DEF Guard
    <3> QED
      BY <3>1
  <2> QED
    BY <2>1, <2>2
<1>7. CASE StoreTx(s)
  BY <1>7 DEF StoreTx
<1>8. CASE \/ Acquire(s) \/ CheckCount(s) \/ CheckTx(s) \/ ClearError(s)
           \/ ResetCount(s) \/ StartTxFails(s) \/ Release(s)
           \/ UnmatchedRelease(s) \/ TestCount(s) \/ EndCheck(s)
           \/ ClearTx(s)
  BY <1>8 DEF Acquire, CheckCount, CheckTx, ClearError, ResetCount, StartTxFails,
         Move, Release, UnmatchedRelease, TestCount, EndCheck, ClearTx
<1>9. CASE EndTxFails(s)
  <2>1. refCount = 0 /\ (open = {txid} \/ (dropped /\ open = {}))
    BY <1>9, LoneEdge, NoTxAssumption
    DEF EndTxFails, Edges, IInv, TypeOK, EmptyInv, TxInv, DropInv, RestLabels
  <2>2. CASE open' = open
    <3>1. UNCHANGED <<flagged, dropped>>
      BY <1>0, <1>9, <2>2 DEF EndTxFails, IInv, TypeOK
    <3>2. Scope!Refuse
      BY <1>0, <1>9, <2>1, <2>2, <3>1 DEF EndTxFails, Scope!Refuse
    <3> QED
      BY <3>2 DEF Scope!Next
  <2>3. CASE open' # open
    <3>1. open # {} /\ open' = {} /\ flagged' = {} /\ dropped'
      BY <1>9, <2>1, <2>3 DEF EndTxFails
    <3>2. Scope!Refuse
      BY <1>0, <1>9, <2>1, <3>1 DEF EndTxFails, Scope!Refuse
    <3> QED
      BY <3>2 DEF Scope!Next
  <2> QED
    BY <2>2, <2>3
<1> QED
  BY <1>1, <1>2, <1>3, <1>4, <1>5, <1>6, <1>7, <1>8, <1>9 DEF Step, CallStep

\* The context implements the abstract transaction: open from before the first
\* scope enters until the last count is gone, rolled back iff flagged, and not
\* replaced once the program lost it.
THEOREM Refinement == ASSUME Disciplined PROVE Spec => ImplementsScope
<1>1. Init => Scope!Init
  BY DEF Init, Scope!Init
<1>2. IInv /\ [Next]_vars => [Scope!Next]_Scope!scopeVars
  <2>1. UNCHANGED vars => UNCHANGED Scope!scopeVars
    BY DEF vars, callerVars, programVars, Scope!scopeVars
  <2> QED
    BY <2>1, StepRefines DEF Next
<1> QED
  BY <1>1, <1>2, Inductive, PTL DEF Spec, ImplementsScope, Scope!Spec
=============================================================================
