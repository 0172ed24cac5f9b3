--------------------------- MODULE TransactionScope ---------------------------
(***************************************************************************)
(* What a reference-counted transaction promises to the `with` blocks that *)
(* share it: one program transaction is open from before the first scope   *)
(* enters until after the last one has left, and it is committed unless a   *)
(* scope flagged an error while it was open.  A release that nobody        *)
(* acquired takes a count from those inside, so the transaction may end     *)
(* that much earlier and as many of them are refused when they leave.  A    *)
(* transaction that the program loses while it refuses to end it is never   *)
(* replaced.  TransactionContext implements this when it is used as         *)
(* Disciplined says.                                                        *)
(***************************************************************************)
EXTENDS Integers, FiniteSets

CONSTANT Scopes      \* activations of `with context:` blocks

VARIABLES inside,    \* the scopes that entered and have not yet left
          strays,    \* counts taken from them by releases of others
          open,      \* is a program transaction open?
          flagged,   \* has an error been flagged in the open transaction?
          outcome,   \* how the last transaction ended
          dropped    \* did the program lose the transaction?

scopeVars == <<inside, strays, open, flagged, outcome, dropped>>

\* How many scopes still hold the transaction.
Holding == Cardinality(inside) - strays

Init == /\ inside = {}
        /\ strays = 0
        /\ open = FALSE
        /\ flagged = FALSE
        /\ outcome = "none"
        /\ dropped = FALSE

Begin == /\ ~open /\ ~dropped
         /\ Holding = 0
         /\ open' = TRUE
         /\ flagged' = FALSE
         /\ UNCHANGED <<inside, strays, outcome, dropped>>

Enter(s) == /\ open \/ dropped
            /\ s \notin inside
            /\ inside' = inside \cup {s}
            /\ UNCHANGED <<strays, open, flagged, outcome, dropped>>

Leave(s) == /\ s \in inside
            /\ Holding > 0
            /\ inside' = inside \ {s}
            /\ UNCHANGED <<strays, open, flagged, outcome, dropped>>

\* Its count is gone: it leaves with an exception.
LeaveRefused(s) == /\ s \in inside
                   /\ Holding = 0
                   /\ inside' = inside \ {s}
                   /\ strays' = strays - 1
                   /\ UNCHANGED <<open, flagged, outcome, dropped>>

\* A release that nobody acquired.
Stray == /\ Holding > 0
         /\ strays' = strays + 1
         /\ UNCHANGED <<inside, open, flagged, outcome, dropped>>

Flag == /\ open
        /\ flagged' = TRUE
        /\ UNCHANGED <<inside, strays, open, outcome, dropped>>

Finish == /\ open
          /\ Holding = 0
          /\ open' = FALSE
          /\ flagged' = FALSE
          /\ outcome' = IF flagged THEN "aborted" ELSE "committed"
          /\ UNCHANGED <<inside, strays, dropped>>

\* The program refuses to end it: it stays open, or it is lost for good.
Refuse == /\ open \/ dropped
          /\ Holding = 0
          /\ outcome' = "failed"
          /\ \/ UNCHANGED <<open, flagged, dropped>>
             \/ /\ open' = FALSE
                /\ flagged' = FALSE
                /\ dropped' = TRUE
          /\ UNCHANGED <<inside, strays>>

Next == \/ Begin
        \/ \E s \in Scopes : Enter(s) \/ Leave(s) \/ LeaveRefused(s)
        \/ Stray
        \/ Flag
        \/ Finish
        \/ Refuse

Spec == Init /\ [][Next]_scopeVars
=============================================================================
