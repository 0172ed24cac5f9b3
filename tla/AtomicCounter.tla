----------------------------- MODULE AtomicCounter -----------------------------
(***************************************************************************)
(* AtomicCounter (util.py): an integer behind a re-entrant lock.  Every     *)
(* access to the integer is a step of its own, and other threads run        *)
(* between any two steps.  A comparison of two counters calls value() of    *)
(* the one and then of the other; no call holds two locks.                  *)
(***************************************************************************)
EXTENDS CounterCalls

CONSTANTS Threads,
          MaxCalls,   \* bound: how many calls a thread makes
          Free        \* the holder of a lock nobody holds

ASSUME FreeAssumption == Free \notin Threads
ASSUME MaxCallsAssumption == MaxCalls \in Nat

VARIABLES value,    \* _value of each counter
          holder,   \* the thread inside each counter's _lock
          pc,       \* where each thread is in its call
          call,     \* the call each thread is making, or made last
          second,   \* is it at the right-hand side of a comparison?
          read,     \* what it read before writing
          got,      \* what increment, decrement or value() returned
          left,     \* the left-hand side of a comparison
          made,     \* how many calls each thread has made
          moments   \* the operands of its comparison since it began

vars == <<value, holder, pc, call, second, read, got, left, made, moments>>

Init == /\ value = [c \in Counters |-> 0]
        /\ holder = [c \in Counters |-> Free]
        /\ pc = [t \in Threads |-> "idle"]
        /\ call = [t \in Threads |-> CHOOSE c \in Calls : TRUE]
        /\ second = [t \in Threads |-> FALSE]
        /\ read = [t \in Threads |-> 0]
        /\ got = [t \in Threads |-> 0]
        /\ left = [t \in Threads |-> 0]
        /\ made = [t \in Threads |-> 0]
        /\ moments = [t \in Threads |-> {}]
-----------------------------------------------------------------------------
\* The counter whose lock the thread wants or holds.
Target(t) == IF second[t] THEN call[t].other ELSE call[t].counter

Goto(t, l) == pc' = [pc EXCEPT ![t] = l]

Invoke(t) ==
    /\ pc[t] = "idle"
    /\ made[t] < MaxCalls
    /\ \E c \in Calls :
          /\ call' = [call EXCEPT ![t] = c]
          /\ moments' = [moments EXCEPT ![t] =
                IF c.op = "compare" THEN {Operands(c, value)} ELSE {}]
    /\ made' = [made EXCEPT ![t] = @ + 1]
    /\ Goto(t, "lock")
    /\ UNCHANGED <<value, holder, second, read, got, left>>

\* The thread gets into the lock.
Enter(t) ==
    /\ pc[t] = "lock"
    /\ holder' = [holder EXCEPT ![Target(t)] = t]
    /\ Goto(t, IF call[t].op = "reset" THEN "write" ELSE "read")
    /\ UNCHANGED <<value, call, second, read, got, left, made, moments>>

\* Mutant of Lock: nobody waits.
NoWait(t) == Enter(t)

\* with self._lock: (an RLock lets its holder in again)
Lock(t) == holder[Target(t)] \in {Free, t} /\ Enter(t)

\* self._value, in value() or as the first half of += and -=
Read(t) ==
    /\ pc[t] = "read"
    /\ IF call[t].op \in Reading
       THEN /\ got' = [got EXCEPT ![t] = value[Target(t)]]
            /\ Goto(t, "unlock")
            /\ UNCHANGED read
       ELSE /\ read' = [read EXCEPT ![t] = value[Target(t)]]
            /\ Goto(t, "write")
            /\ UNCHANGED got
    /\ UNCHANGED <<value, holder, call, second, left, made, moments>>

Write(t) ==
    /\ pc[t] = "write"
    /\ value' = [value EXCEPT ![call[t].counter] =
                    IF call[t].op = "reset" THEN 0 ELSE read[t] + By(call[t])]
    /\ read' = [read EXCEPT ![t] = 0]
    /\ moments' = [u \in Threads |->
                      IF pc[u] # "idle" /\ call[u].op = "compare"
                      THEN moments[u] \cup {Operands(call[u], value')}
                      ELSE moments[u]]
    /\ Goto(t, IF call[t].op \in Returning THEN "return" ELSE "unlock")
    /\ UNCHANGED <<holder, call, second, got, left, made>>

\* return self._value, still under the lock
Return(t) ==
    /\ pc[t] = "return"
    /\ got' = [got EXCEPT ![t] = value[Target(t)]]
    /\ Goto(t, "unlock")
    /\ UNCHANGED <<value, holder, call, second, read, left, made, moments>>

\* After the left-hand side of a comparison the thread goes on to the other
\* counter; every other call ends here.
Proceed(t) ==
    /\ pc[t] = "unlock"
    /\ second' = [second EXCEPT ![t] = ComparesCounters(call[t]) /\ ~second[t]]
    /\ left' = [left EXCEPT ![t] = IF second'[t] THEN got[t] ELSE 0]
    /\ Goto(t, IF second'[t] THEN "lock" ELSE "idle")
    /\ moments' = [moments EXCEPT ![t] = IF second'[t] THEN @ ELSE {}]
    /\ UNCHANGED <<value, call, read, got, made>>

\* Mutant of Unlock: a comparison of two counters keeps the lock of the first
\* while it waits for that of the second.
HoldBoth(t) ==
    /\ Proceed(t)
    /\ holder' = [c \in Counters |-> IF holder[c] = t /\ ~second'[t] THEN Free ELSE holder[c]]

\* The with block ends.
Unlock(t) == Proceed(t) /\ holder' = [holder EXCEPT ![Target(t)] = Free]

CallStep(t) == Lock(t) \/ Read(t) \/ Write(t) \/ Return(t) \/ Unlock(t)

Next == \E t \in Threads : Invoke(t) \/ CallStep(t)

Spec == Init /\ [][Next]_vars

FairSpec == Spec /\ \A t \in Threads : WF_vars(CallStep(t))
-----------------------------------------------------------------------------
\* Mutant of Answer: the operands are swapped.
SwappedAnswer(t) ==
    Holds(call[t].rel, got[t], IF second[t] THEN left[t] ELSE call[t].other)

\* What a comparison is about to return.
Answer(t) == IF second[t] THEN Holds(call[t].rel, left[t], got[t])
                          ELSE Holds(call[t].rel, got[t], call[t].other)

Answering(t) == /\ pc[t] = "unlock" /\ call[t].op = "compare"
                /\ ComparesCounters(call[t]) => second[t]
-----------------------------------------------------------------------------
\* Every variable has its type, and whoever holds the lock of a counter is
\* between taking and leaving it.
CounterTypeOK ==
    /\ value \in [Counters -> Int]
    /\ holder \in [Counters -> Threads \cup {Free}]
    /\ pc \in [Threads -> {"idle", "lock", "read", "write", "return", "unlock"}]
    /\ call \in [Threads -> Calls]
    /\ second \in [Threads -> BOOLEAN]
    /\ read \in [Threads -> Int] /\ got \in [Threads -> Int] /\ left \in [Threads -> Int]
    /\ made \in [Threads -> 0 .. MaxCalls]
    /\ \A t \in Threads, c \in Counters :
          holder[c] = t <=> pc[t] \notin {"idle", "lock"} /\ c = Target(t)

\* Where a call stands, as AtomicInteger sees it.  What an increment returns
\* is known once it has written.
Stage(t) ==
    CASE pc[t] = "idle"                                          -> "idle"
      [] pc[t] \in {"lock", "read", "write"}                      ->
            IF second[t] THEN "left" ELSE "called"
      [] pc[t] = "unlock" /\ ComparesCounters(call[t]) /\ ~second[t] -> "left"
      [] OTHER                                                   -> "done"

\* Every call takes effect once, atomically, by what it asks for, and returns
\* the value of that step: the update of no call is lost or made twice, however
\* the reads and writes of += , -=, increment, decrement and reset interleave.
Atomic == INSTANCE AtomicInteger
    WITH stage <- [t \in Threads |-> Stage(t)],
         got <- [t \in Threads |-> IF pc[t] = "return" THEN value[Target(t)] ELSE got[t]]
ImplementsAtomic == Atomic!Spec

\* The answer was true at some moment since the comparison began.
TrueOfAMoment(t) ==
    \E m \in moments[t] : Answer(t) = Holds(call[t].rel, m[1], m[2])

\* A comparison answers what was true at some moment since it began: the
\* docstring of AtomicCounter calls it atomic, also between two counters.  The
\* code takes one lock after the other, so this fails of two counters.
AnswerOfOneMoment == \A t \in Threads : Answering(t) => TrueOfAMoment(t)

\* What is left of it: a comparison, with an integer or another counter,
\* answers what was true at some moment since it began, unless each of its
\* operands changed in between (AnswerOfOneMoment has that case).
AnswerOfAMoment ==
    \A t \in Threads : Answering(t) =>
        \/ TrueOfAMoment(t)
        \/ \A i \in {1, 2} : \E m, n \in moments[t] : m[i] # n[i]

\* Every call returns: threads that compare two counters in opposite orders do
\* not wait for each other.  Calls are finite in number, so a thread that waits
\* for a lock need not be favoured by it.
CallsReturn == \A t \in Threads : (pc[t] # "idle") ~> (pc[t] = "idle")
=============================================================================
