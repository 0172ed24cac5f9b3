-------------------------------- MODULE MCTamer --------------------------------
(***************************************************************************)
(* A decompiled function with a parameter, a local and a global, and what   *)
(* is computed from numbers and text.  The two share no state, so the       *)
(* questions are asked of an untouched function only.                       *)
(***************************************************************************)
EXTENDS DecompiledFunction, FunctionText, TLC

Init == FunctionInit /\ TextInit

Untouched == asked.fn = "none" /\ pc = "idle" /\ ~loaded /\ edits = 0 /\ inCode = {} /\ committed = {}
             /\ \A a \in Body : labelName[a] = None

Next == \/ asked.fn = "none" /\ FunctionNext /\ UNCHANGED textVars
        \/ Untouched /\ TextNext /\ UNCHANGED functionVars

Spec == Init /\ [][Next]_<<functionVars, textVars>>

Symmetry == Permutations(Names)

\* Lines without an address, with a token that has one, with one only nearby,
\* and with an address after a token that has none.
Shapes == {[tokens |-> <<>>, closest |-> None], [tokens |-> <<1>>, closest |-> 2],
           [tokens |-> <<None>>, closest |-> 3], [tokens |-> <<None, 2, 1>>, closest |-> 3],
           [tokens |-> <<None>>, closest |-> None]}

\* Up to three lines, numbered from zero or from one.
SomeListings ==
    {[i \in 1 .. k |-> [number |-> first + i - 1, tokens |-> f[i].tokens, closest |-> f[i].closest]] :
        first \in {0, 1}, k \in 0 .. 3, f \in [1 .. 3 -> Shapes]}

SomeRequests == -1 .. 5

SomeOffsets == {-1, 0, 1, 3, 5}

SomeLimits == {-2, 0, 1, 2, 6, None}

SomeTexts == [base : {"int", "Foo", "bar"}, stars : 0 .. 2,
              dims : {<<>>, <<2>>, <<0>>, <<-1>>, <<None>>, <<3, 2>>, <<2, Star>>}]

SomeItems == UNION {[1 .. n -> {1, 2}] : n \in 0 .. 4}
=============================================================================
