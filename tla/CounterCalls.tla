----------------------------- MODULE CounterCalls -----------------------------
(***************************************************************************)
(* The calls on AtomicCounters (util.py) and what each of them asks for.    *)
(*                                                                          *)
(* A call is a record: the operation, the counter it is made on, and what   *)
(* it is given (the amount of += and -=, the relation and the right-hand    *)
(* side of a comparison).                                                   *)
(***************************************************************************)
EXTENDS Integers

CONSTANTS Counters,
          Calls       \* the calls that threads make

ASSUME CallsAssumption ==
    /\ Calls # {}
    /\ \A call \in Calls :
        /\ call.op \in {"increment", "decrement", "iadd", "isub", "reset", "value", "compare"}
        /\ call.counter \in Counters
        /\ call.op \in {"iadd", "isub"} => call.by \in Int
        /\ call.op = "compare" => call.other \in Counters \cup Int
ASSUME CountersAssumption == Counters \cap Int = {}

\* isinstance(other, AtomicCounter)
ComparesCounters(c) == c.op = "compare" /\ c.other \in Counters

\* What the call adds.
By(c) == CASE c.op = "increment" -> 1
           [] c.op = "decrement" -> -1
           [] c.op = "iadd"      -> c.by
           [] c.op = "isub"      -> -c.by
           [] OTHER              -> 0

\* The operations that return the value they have written.
Returning == {"increment", "decrement"}

\* The operations that only read.
Reading == {"value", "compare"}

Operands(c, v) == <<v[c.counter], IF c.other \in Counters THEN v[c.other] ELSE c.other>>

\* The six comparisons; != is the negation of ==.
Holds(rel, x, y) == CASE rel = "eq" -> x = y
                      [] rel = "ne" -> ~(x = y)
                      [] rel = "lt" -> x < y
                      [] rel = "le" -> x <= y
                      [] rel = "gt" -> x > y
                      [] rel = "ge" -> x >= y
=============================================================================
