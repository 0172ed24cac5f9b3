---------------------------- MODULE MCAtomicCounter ----------------------------
(***************************************************************************)
(* Two counters, and calls of every kind: comparisons of the two in both    *)
(* orders, of one with itself and with an integer.                          *)
(***************************************************************************)
EXTENDS AtomicCounter

CONSTANTS a, b

On(op, c)           == [op |-> op, counter |-> c]
Add(op, c, n)       == [op |-> op, counter |-> c, by |-> n]
Compare(c, rel, o)  == [op |-> "compare", counter |-> c, rel |-> rel, other |-> o]

SomeCalls == {On("increment", a), On("decrement", b), On("reset", a), On("value", b),
              Add("iadd", b, 2), Add("isub", a, 2),
              Compare(a, "lt", b), Compare(b, "ge", a), Compare(a, "eq", a),
              Compare(a, "gt", 0), Compare(b, "ne", a), Compare(b, "le", a)}

\* Without the comparison of a counter with itself.
CallsOnTwo == SomeCalls \ {Compare(a, "eq", a)}
=============================================================================
