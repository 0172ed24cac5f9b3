-------------------------- MODULE TransactionContext --------------------------
(***************************************************************************)
(* GhidraTransactionContext (tamer/program.py): a context object that many *)
(* `with` blocks share.  An AtomicCounter holds the number of blocks        *)
(* inside; the first acquire starts a program transaction, the release that *)
(* brings the count back to zero ends it.                                   *)
(*                                                                          *)
(* A scope is one activation of a `with context:` block.  Each access to    *)
(* the counter is atomic (the counter has a lock), and so is each attribute *)
(* access; everything between two of them is a point where another thread   *)
(* may run.  Disciplined says how the context is shared: calls overlap only *)
(* while some other scope is inside its block, and do not overlap with or   *)
(* after a release that nobody acquired, until its effect is gone.  A       *)
(* context used on one thread, and workers joined by a block that encloses  *)
(* them, both obey it; FALSE lets threads share the context as they like.   *)
(*                                                                          *)
(* Program.startTransaction and endTransaction are Ghidra's: the first      *)
(* returns an identifier that is not in use, the second ends an open one    *)
(* and throws for anything else.  Either may throw (StartMayFail,           *)
(* EndMayFail): the program may be closed or locked.  A throwing            *)
(* endTransaction may leave the transaction open or may have lost it.       *)
(***************************************************************************)
EXTENDS Integers, FiniteSets

CONSTANTS Scopes,        \* activations of `with context:` blocks
          TxId,          \* identifiers of program transactions
          NoTx,          \* Python's None in _txid
          Disciplined,   \* do calls overlap only inside an enclosing block?
          MayMismatch,   \* may a caller release without having acquired?
          StartMayFail,  \* may startTransaction throw?
          EndMayFail     \* may endTransaction throw?

ASSUME ScopesAssumption == IsFiniteSet(Scopes)
ASSUME NoTxAssumption == NoTx \notin TxId
ASSUME FlagsAssumption ==
    {Disciplined, MayMismatch, StartMayFail, EndMayFail} \subseteq BOOLEAN

VARIABLES refCount,  \* _ref_count
          txid,      \* _txid
          error,     \* _error
          pc,        \* where each scope is in acquire, its block or release
          fresh,     \* what startTransaction returned, before it is stored
          inside,    \* the scopes that acquired and have not yet released
          stray,     \* counts that releases nobody acquired have taken away
          open,      \* transactions open in the program
          flagged,   \* open transactions in which an error was flagged
          outcome,   \* how the program last ended a transaction
          dropped    \* did a throwing endTransaction lose the transaction?

contextVars == <<refCount, txid, error>>
callerVars == <<inside, stray>>
programVars == <<open, flagged, outcome, dropped>>
vars == <<contextVars, pc, fresh, callerVars, programVars>>

AcquireLabels == {"checkCount", "checkTx", "clearError", "resetCount", "start",
                  "store", "count"}
ReleaseLabels == {"guard", "uncount", "test", "endCheck", "end", "clearTx"}
RestLabels    == {"out", "body"}
Labels        == RestLabels \cup AcquireLabels \cup ReleaseLabels

Init == /\ refCount = 0
        /\ txid = NoTx
        /\ error = FALSE
        /\ pc = [s \in Scopes |-> "out"]
        /\ fresh = [s \in Scopes |-> NoTx]
        /\ inside = {}
        /\ stray = 0
        /\ open = {}
        /\ flagged = {}
        /\ outcome = "none"
        /\ dropped = FALSE
-----------------------------------------------------------------------------
\* No other call is under way.
Alone(s) == \A o \in Scopes \ {s} : pc[o] \in RestLabels

\* No release without an acquire is under way or still has an effect.
Calm == /\ stray = 0
        /\ \A k \in Scopes : pc[k] \in {"guard", "uncount"} => k \in inside

\* No other call is under way, or another scope stays in its block.
Safe(s) == Alone(s) \/ (Calm /\ \E o \in Scopes \ {s} : pc[o] = "body")

\* s is at label l and may take its next step.
At(s, l) == /\ pc[s] = l
            /\ Disciplined => Safe(s)

Goto(s, l) == pc' = [pc EXCEPT ![s] = l]

\* A step of control only, a test or a call.
Move(s, l, m) == /\ At(s, l)
                 /\ Goto(s, m)
                 /\ UNCHANGED <<contextVars, fresh, callerVars, programVars>>

\* ---- acquire() and _start_transaction()

\* __enter__ calls acquire.
Acquire(s) == Move(s, "out", "checkCount")

\* if self._ref_count == 0: self._start_transaction()
CheckCount(s) == Move(s, "checkCount", IF refCount = 0 THEN "checkTx" ELSE "count")

\* Mutant of CheckTx: a transaction is started whether or not one is remembered.
StartAnyway(s) == Move(s, "checkTx", "clearError")

\* if self._txid is None
CheckTx(s) == Move(s, "checkTx", IF txid = NoTx THEN "clearError" ELSE "count")

\* Mutant of ClearError: the flag of the last transaction stays.
KeepError(s) == Move(s, "clearError", "resetCount")

ClearError(s) ==
    /\ At(s, "clearError")
    /\ error' = FALSE
    /\ Goto(s, "resetCount")
    /\ UNCHANGED <<refCount, txid, fresh, callerVars, programVars>>

ResetCount(s) ==
    /\ At(s, "resetCount")
    /\ refCount' = 0
    /\ Goto(s, "start")
    /\ UNCHANGED <<txid, error, fresh, callerVars, programVars>>

\* program.startTransaction returns an identifier ...
StartTx(s) ==
    /\ At(s, "start")
    /\ \E id \in TxId \ open :
          /\ open' = open \cup {id}
          /\ fresh' = [fresh EXCEPT ![s] = id]
    /\ Goto(s, "store")
    /\ UNCHANGED <<contextVars, callerVars, flagged, outcome, dropped>>

\* ... or throws: the exception leaves acquire, so the scope is not counted.
StartTxFails(s) == StartMayFail /\ Move(s, "start", "out")

\* self._txid = <what startTransaction returned>
StoreTx(s) ==
    /\ At(s, "store")
    /\ txid' = fresh[s]
    /\ fresh' = [fresh EXCEPT ![s] = NoTx]
    /\ Goto(s, "count")
    /\ UNCHANGED <<refCount, error, callerVars, programVars>>

\* self._ref_count += 1; the block runs.
CountIn(s) ==
    /\ At(s, "count")
    /\ refCount' = refCount + 1
    /\ inside' = inside \cup {s}
    /\ Goto(s, "body")
    /\ UNCHANGED <<txid, error, fresh, stray, programVars>>

\* ---- flag_error(), from inside a block or from anywhere else
FlagError(s) ==
    /\ pc[s] \in RestLabels
    /\ Disciplined => Safe(s) \/ (Calm /\ pc[s] = "body")
    /\ error' = TRUE
    /\ flagged' = flagged \cup (open \cap {txid})
    /\ UNCHANGED <<refCount, txid, pc, fresh, callerVars, open, outcome, dropped>>

\* ---- release() and _end_transaction()

\* The block ends, normally or with an exception: __exit__ does the same.
Release(s) == Move(s, "body", "guard")

\* A release that no acquire precedes, with or without others inside.
UnmatchedRelease(s) == /\ MayMismatch
                       /\ Disciplined => Alone(s)
                       /\ Move(s, "out", "guard")

\* Mutant of Guard: the test is left out.
NoGuard(s) == Move(s, "guard", "uncount")

\* if self._ref_count == 0: raise RuntimeError.  A scope that is refused has
\* left its block all the same: a stray release took its count.
Guard(s) ==
    /\ At(s, "guard")
    /\ IF refCount = 0
       THEN /\ Goto(s, "out")
            /\ inside' = inside \ {s}
            /\ stray' = IF s \in inside THEN stray - 1 ELSE stray
       ELSE /\ Goto(s, "uncount")
            /\ UNCHANGED callerVars
    /\ UNCHANGED <<contextVars, fresh, programVars>>

\* self._ref_count -= 1, whoever asks for it.
CountOut(s) ==
    /\ At(s, "uncount")
    /\ refCount' = refCount - 1
    /\ inside' = inside \ {s}
    /\ stray' = IF s \in inside THEN stray ELSE stray + 1
    /\ Goto(s, "test")
    /\ UNCHANGED <<txid, error, fresh, programVars>>

\* Mutant of TestCount: off by one.
TestCountAtOne(s) == Move(s, "test", IF refCount <= 1 THEN "endCheck" ELSE "out")

\* if self._ref_count == 0: self._end_transaction()
TestCount(s) == Move(s, "test", IF refCount = 0 THEN "endCheck" ELSE "out")

\* Mutant of EndCheck: the test is inverted.
EndCheckInverted(s) == Move(s, "endCheck", IF txid = NoTx THEN "end" ELSE "out")

\* if self._txid is not None
EndCheck(s) == Move(s, "endCheck", IF txid # NoTx THEN "end" ELSE "out")

\* The program ends the transaction: committed, or rolled back.
Ends(s, commit) ==
    /\ At(s, "end")
    /\ txid \in open
    /\ open' = open \ {txid}
    /\ flagged' = flagged \ {txid}
    /\ outcome' = IF commit THEN "committed" ELSE "aborted"
    /\ Goto(s, "clearTx")
    /\ UNCHANGED <<contextVars, fresh, callerVars, dropped>>

\* Mutant of EndTx: the flag is passed as it is.
EndTxSwapped(s) == Ends(s, error)

\* program.endTransaction(self._txid, not self._error) ends the transaction ...
EndTx(s) == Ends(s, ~error)

\* ... or throws, and _txid keeps its value; the program may have lost the
\* transaction.
EndTxFails(s) ==
    /\ EndMayFail \/ txid \notin open
    /\ At(s, "end")
    /\ open' \in {open} \cup (IF EndMayFail THEN {open \ {txid}} ELSE {})
    /\ flagged' = flagged \cap open'
    /\ dropped' = (dropped \/ open' # open)
    /\ outcome' = "failed"
    /\ Goto(s, "out")
    /\ UNCHANGED <<contextVars, fresh, callerVars>>

\* Mutant of ClearTx: the identifier is kept.
KeepTx(s) == Move(s, "clearTx", "out")

\* self._txid = None
ClearTx(s) ==
    /\ At(s, "clearTx")
    /\ txid' = NoTx
    /\ Goto(s, "out")
    /\ UNCHANGED <<refCount, error, fresh, callerVars, programVars>>
-----------------------------------------------------------------------------
\* The steps of a call that is under way.
CallStep(s) ==
    \/ CheckCount(s) \/ CheckTx(s) \/ ClearError(s) \/ ResetCount(s)
    \/ StartTx(s) \/ StartTxFails(s) \/ StoreTx(s) \/ CountIn(s)
    \/ Guard(s) \/ CountOut(s) \/ TestCount(s) \/ EndCheck(s)
    \/ EndTx(s) \/ EndTxFails(s) \/ ClearTx(s)

Step(s) == \/ Acquire(s) \/ FlagError(s) \/ Release(s) \/ UnmatchedRelease(s)
           \/ CallStep(s)

Next == \E s \in Scopes : Step(s)

Spec == Init /\ [][Next]_vars

\* A call that is under way is not abandoned by its thread.
Fairness == \A s \in Scopes : WF_vars(CallStep(s))

FairSpec == Spec /\ Fairness
-----------------------------------------------------------------------------
AtRest == \A s \in Scopes : pc[s] \in RestLabels

\* Every variable has its type; in particular the counter never goes below
\* zero, because release refuses to decrement it when it is zero.
TypeOK == /\ refCount \in Nat
          /\ txid \in TxId \cup {NoTx}
          /\ error \in BOOLEAN
          /\ pc \in [Scopes -> Labels]
          /\ fresh \in [Scopes -> TxId \cup {NoTx}]
          /\ inside \subseteq Scopes
          /\ stray \in Nat
          /\ open \subseteq TxId
          /\ flagged \subseteq open
          /\ outcome \in {"none", "committed", "aborted", "failed"}
          /\ dropped \in BOOLEAN

\* While more scopes are inside than releases were made without an acquire,
\* they are inside an open program transaction: no release of another block,
\* no failed start and no failed end takes it away, and a stray release takes
\* it only together with the last count.  The one other exception is a
\* transaction that a throwing endTransaction lost.
InsideHasTransaction ==
    Cardinality(inside) > stray => txid \in open \/ dropped

\* Between calls the program has open exactly the transaction the context
\* remembers: none is leaked, even when endTransaction threw, and the
\* identifier of an ended transaction is kept only if the program lost it in a
\* throwing endTransaction; then nothing is open.
NoForgottenTransaction ==
    AtRest => open = IF dropped THEN {} ELSE {txid} \ {NoTx}

\* A transaction is rolled back if an error was flagged while it was open, and
\* committed otherwise; a flag never carries over to the next transaction.
\* Only a transaction that is lost in a throwing endTransaction ends in
\* neither way, and that is reported as a failure.
OutcomeFollowsFlag ==
    [][\A id \in open \ open' :
          \/ outcome' = IF id \in flagged THEN "aborted" ELSE "committed"
          \/ dropped' /\ outcome' = "failed"]_vars

\* A context whose transaction was lost in a throwing endTransaction keeps its
\* identifier and never recovers: it opens no other transaction, so later
\* blocks run outside any, and never again ends one as committed; each last
\* release throws instead.
NoCommitOnceDropped ==
    [][dropped => dropped' /\ open' = {} /\ outcome' = "failed"]_vars

\* The context implements the promise of TransactionScope, whichever releases
\* are made without an acquire and whatever the program refuses or loses.
Scope == INSTANCE TransactionScope
             WITH strays <- stray, open <- open # {}, flagged <- flagged # {}
ImplementsScope == Scope!Spec

\* Once the last block has left, its transaction ends unless a block enters
\* again or endTransaction has thrown.
LastReleaseEnds ==
    (open # {} /\ inside = {}) ~> (open = {} \/ inside # {} \/ outcome = "failed")
=============================================================================
