----------------------------- MODULE AtomicInteger -----------------------------
(***************************************************************************)
(* What AtomicCounter promises: between its invocation and its response a   *)
(* call takes effect once, in a single step, by exactly what it asks for,   *)
(* and what it returns is the value of that step.  A comparison of two      *)
(* counters is promised no more than two such readings, the left-hand side  *)
(* first.                                                                   *)
(***************************************************************************)
EXTENDS CounterCalls

CONSTANT Threads

VARIABLES value,     \* the integer in each counter
          call,      \* the call each thread is making, or made last
          stage,     \* how far it has come
          got        \* the last value each thread was given

integerVars == <<value, call, stage, got>>

Init == /\ value = [c \in Counters |-> 0]
        /\ call = [t \in Threads |-> CHOOSE c \in Calls : TRUE]
        /\ stage = [t \in Threads |-> "idle"]
        /\ got = [t \in Threads |-> 0]

Invoke(t) == /\ stage[t] = "idle"
             /\ \E c \in Calls : call' = [call EXCEPT ![t] = c]
             /\ stage' = [stage EXCEPT ![t] = "called"]
             /\ UNCHANGED <<value, got>>

\* value() or a comparison reads the counter it is made on.
Get(t) == /\ stage[t] = "called"
          /\ call[t].op \in Reading
          /\ got' = [got EXCEPT ![t] = value[call[t].counter]]
          /\ stage' = [stage EXCEPT ![t] =
                          IF ComparesCounters(call[t]) THEN "left" ELSE "done"]
          /\ UNCHANGED <<value, call>>

\* The comparison reads its right-hand side.
GetOther(t) == /\ stage[t] = "left"
               /\ got' = [got EXCEPT ![t] = value[call[t].other]]
               /\ stage' = [stage EXCEPT ![t] = "done"]
               /\ UNCHANGED <<value, call>>

Change(t) == /\ stage[t] = "called"
             /\ call[t].op \notin Reading
             /\ value' = [value EXCEPT ![call[t].counter] =
                             IF call[t].op = "reset" THEN 0 ELSE @ + By(call[t])]
             /\ got' = [got EXCEPT ![t] = IF call[t].op \in Returning
                                          THEN value'[call[t].counter] ELSE @]
             /\ stage' = [stage EXCEPT ![t] = "done"]
             /\ UNCHANGED call

Respond(t) == /\ stage[t] = "done"
              /\ stage' = [stage EXCEPT ![t] = "idle"]
              /\ UNCHANGED <<value, call, got>>

Next == \E t \in Threads :
            Invoke(t) \/ Get(t) \/ GetOther(t) \/ Change(t) \/ Respond(t)

Spec == Init /\ [][Next]_integerVars
=============================================================================
