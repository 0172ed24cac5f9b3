-------------------------- MODULE AtomicCounterProofs --------------------------
(***************************************************************************)
(* What holds of AtomicCounter for any number of threads and counters and   *)
(* any calls on them.                                                       *)
(***************************************************************************)
EXTENDS AtomicCounter, TLAPS

\* Where a call stands, and which operations get there.
PlaceInv ==
    \A t \in Threads :
        /\ second[t] => ComparesCounters(call[t]) /\ pc[t] # "idle"
        /\ pc[t] = "read" => call[t].op # "reset"
        /\ pc[t] \in {"write", "return"} => call[t].op \notin {"value", "compare"}
        /\ pc[t] = "return" => call[t].op \in Returning

\* What a thread has read under a lock stays the value until it writes or
\* leaves the lock.
ReadInv ==
    \A t \in Threads :
        /\ pc[t] = "write" /\ call[t].op # "reset" => read[t] = value[call[t].counter]
        /\ pc[t] = "unlock" /\ call[t].op \in {"value", "compare"} => got[t] = value[Target(t)]

\* The moments of a comparison are pairs of integers, the present one is among
\* them, and so is the one at which the left-hand side was read.
MomentInv ==
    \A t \in Threads :
        /\ \A m \in moments[t] : m \in Int \X Int
        /\ pc[t] # "idle" /\ call[t].op = "compare" => Operands(call[t], value) \in moments[t]
        /\ second[t] => \E m \in moments[t] : m[1] = left[t]

MomentsType == moments \in [Threads -> SUBSET (Int \X Int)]

IInv == CounterTypeOK /\ PlaceInv /\ ReadInv /\ MomentsType /\ MomentInv
-----------------------------------------------------------------------------
\* A call is a record of the kind CallsAssumption says.
LEMMA CallFacts ==
    ASSUME NEW c \in Calls
    PROVE  /\ c.counter \in Counters
           /\ By(c) \in Int
           /\ c.op \in {"increment", "decrement", "iadd", "isub", "reset", "value", "compare"}
           /\ c.op = "compare" => c.other \in Counters \cup Int
  BY CallsAssumption DEF By

\* The operands of a comparison are two integers.
LEMMA OperandsType ==
    ASSUME NEW c \in Calls, c.op = "compare", NEW v \in [Counters -> Int]
    PROVE  Operands(c, v) \in Int \X Int
  BY CallFacts, CountersAssumption DEF Operands

\* A thread that is past idle in a call is at a counter.
LEMMA TargetType ==
    ASSUME IInv, NEW t \in Threads
    PROVE  Target(t) \in Counters
  BY CallFacts DEF IInv, CounterTypeOK, PlaceInv, Target, ComparesCounters

\* Two threads are never inside the lock of one counter.
LEMMA Exclusion ==
    ASSUME IInv, NEW t \in Threads, NEW u \in Threads, t # u,
           pc[t] \notin {"idle", "lock"}, pc[u] \notin {"idle", "lock"}
    PROVE  Target(t) # Target(u)
  BY TargetType DEF IInv, CounterTypeOK

\* The strengthening holds in the initial state.
LEMMA InitIInv == Init => IInv
<1> SUFFICES ASSUME Init PROVE IInv
  OBVIOUS
<1>1. call \in [Threads -> Calls]
  BY CallsAssumption DEF Init
<1> QED
  BY <1>1, FreeAssumption, MaxCallsAssumption
  DEF Init, IInv, CounterTypeOK, PlaceInv, ReadInv, MomentsType, MomentInv

\* Every step of a thread preserves the strengthening.
LEMMA StepIInv ==
    ASSUME IInv, NEW t \in Threads, Invoke(t) \/ CallStep(t)
    PROVE  IInv'
<1> USE DEF Goto, Enter, Proceed
<1>0. CounterTypeOK /\ PlaceInv /\ ReadInv /\ MomentsType /\ MomentInv
  BY DEF IInv
<1>1. CASE Invoke(t)
  <2>1. PICK c \in Calls : /\ call' = [call EXCEPT ![t] = c]
                           /\ moments' = [moments EXCEPT ![t] =
                                IF c.op = "compare" THEN {Operands(c, value)} ELSE {}]
    BY <1>1 DEF Invoke
  <2>2. ~second[t]
    BY <1>0, <1>1 DEF PlaceInv, Invoke
  <2>3. \A u \in Threads : Target(u)' = IF u = t THEN c.counter ELSE Target(u)
    BY <1>0, <1>1, <2>1, <2>2 DEF Invoke, Target, CounterTypeOK
  <2>4. CounterTypeOK'
    BY <1>0, <1>1, <2>1, <2>3, MaxCallsAssumption DEF Invoke, CounterTypeOK
  <2>5. PlaceInv' /\ ReadInv'
    BY <1>0, <1>1, <2>1, <2>2, <2>3 DEF Invoke, CounterTypeOK, PlaceInv, ReadInv
  <2>6. c.op = "compare" => Operands(c, value) \in Int \X Int
    BY <1>0, OperandsType DEF CounterTypeOK
  <2>7. MomentsType' /\ MomentInv'
    BY <1>0, <1>1, <2>1, <2>2, <2>6 DEF Invoke, MomentsType, MomentInv, CounterTypeOK
  <2> QED
    BY <2>4, <2>5, <2>7 DEF IInv
<1>2. CASE Lock(t)
  <2>1. \A u \in Threads : Target(u)' = Target(u)
    BY <1>2 DEF Lock, Target
  <2>2. CounterTypeOK'
    BY <1>0, <1>2, <2>1, TargetType, FreeAssumption DEF Lock, CounterTypeOK
  <2>3. PlaceInv' /\ ReadInv' /\ MomentsType' /\ MomentInv'
    BY <1>0, <1>2, <2>1 DEF Lock, CounterTypeOK, PlaceInv, ReadInv, MomentsType, MomentInv
  <2> QED
    BY <2>2, <2>3 DEF IInv
<1>3. CASE Read(t)
  <2>1. \A u \in Threads : Target(u)' = Target(u)
    BY <1>3 DEF Read, Target
  <2>2. value[Target(t)] \in Int /\ call[t] \in Calls
    BY <1>0, TargetType DEF CounterTypeOK
  <2>3. CounterTypeOK'
    BY <1>0, <1>3, <2>1, <2>2 DEF Read, CounterTypeOK
  <2>4. PlaceInv'
    BY <1>0, <1>3 DEF Read, CounterTypeOK, PlaceInv, Returning, Reading
  <2>5. call[t].op # "compare" => Target(t) = call[t].counter
    BY <1>0 DEF PlaceInv, ComparesCounters, Target
  <2>6. ReadInv'
    BY <1>0, <1>3, <2>1, <2>2, <2>5 DEF Read, CounterTypeOK, ReadInv, Reading
  <2>7. MomentsType' /\ MomentInv'
    BY <1>0, <1>3 DEF Read, CounterTypeOK, MomentsType, MomentInv
  <2> QED
    BY <2>3, <2>4, <2>6, <2>7 DEF IInv
<1>4. CASE Write(t)
  <2>1. \A u \in Threads : Target(u)' = Target(u)
    BY <1>4 DEF Write, Target
  <2>2. Target(t) = call[t].counter /\ call[t].op # "compare"
    BY <1>0, <1>4 DEF Write, PlaceInv, ComparesCounters, Target
  <2>3. value' \in [Counters -> Int]
    BY <1>0, <1>4, CallFacts DEF Write, CounterTypeOK
  <2>4. \A u \in Threads \ {t} : pc[u] \notin {"idle", "lock"} => value'[Target(u)] = value[Target(u)]
    BY <1>0, <1>4, <2>2, Exclusion, TargetType DEF Write, CounterTypeOK
  <2>5. CounterTypeOK'
    BY <1>0, <1>4, <2>1, <2>3 DEF Write, CounterTypeOK
  <2>6. PlaceInv'
    BY <1>0, <1>4 DEF Write, CounterTypeOK, PlaceInv
  <2>7. \A u \in Threads : pc[u] = "write" => Target(u) = call[u].counter
    BY <1>0 DEF PlaceInv, ComparesCounters, Target
  <2>8. ReadInv'
    BY <1>0, <1>4, <2>1, <2>2, <2>4, <2>7 DEF Write, CounterTypeOK, PlaceInv, ReadInv
  <2>9. \A u \in Threads : call[u].op = "compare" => Operands(call[u], value') \in Int \X Int
    BY <1>0, <2>3, OperandsType DEF CounterTypeOK
  <2>10. \A u \in Threads :
             moments'[u] = IF pc[u] # "idle" /\ call[u].op = "compare"
                           THEN moments[u] \cup {Operands(call[u], value')} ELSE moments[u]
    BY <1>4 DEF Write
  <2>11. call' = call /\ second' = second /\ left' = left
         /\ \A u \in Threads : pc'[u] = "idle" <=> pc[u] = "idle"
    BY <1>0, <1>4 DEF Write, CounterTypeOK
  <2>12. MomentsType'
    <3>1. \A u \in Threads : moments'[u] \in SUBSET (Int \X Int)
      BY <1>0, <2>9, <2>10 DEF MomentsType
    <3>2. moments' = [u \in Threads |-> moments'[u]]
      BY <1>4 DEF Write
    <3> QED
      BY <3>1, <3>2 DEF MomentsType
  <2>13. MomentInv'
    <3>1. \A u \in Threads : \A m \in moments'[u] : m \in Int \X Int
      BY <2>12 DEF MomentsType
    <3>2. \A u \in Threads : pc'[u] # "idle" /\ call'[u].op = "compare"
                                => Operands(call'[u], value') \in moments'[u]
      BY <2>10, <2>11
    <3>3. \A u \in Threads : moments[u] \subseteq moments'[u]
      BY <2>10
    <3>4. \A u \in Threads : second'[u] => \E m \in moments'[u] : m[1] = left'[u]
      BY <1>0, <2>11, <3>3 DEF MomentInv
    <3> QED
      BY <3>1, <3>2, <3>4 DEF MomentInv
  <2> QED
    BY <2>5, <2>6, <2>8, <2>12, <2>13 DEF IInv
<1>5. CASE Return(t)
  <2>1. \A u \in Threads : Target(u)' = Target(u)
    BY <1>5 DEF Return, Target
  <2>2. value[Target(t)] \in Int
    BY <1>0, TargetType DEF CounterTypeOK
  <2>3. CounterTypeOK' /\ PlaceInv'
    BY <1>0, <1>5, <2>1, <2>2 DEF Return, CounterTypeOK, PlaceInv
  <2>4. ReadInv' /\ MomentsType' /\ MomentInv'
    BY <1>0, <1>5, <2>1 DEF Return, CounterTypeOK, PlaceInv, ReadInv, MomentsType, MomentInv, Returning
  <2> QED
    BY <2>3, <2>4 DEF IInv
<1>6. CASE Unlock(t)
  <2>1. \A u \in Threads \ {t} : Target(u)' = Target(u)
    BY <1>0, <1>6 DEF Unlock, Target, CounterTypeOK
  <2>2. holder' = [holder EXCEPT ![Target(t)] = Free] /\ Target(t) \in Counters
    BY <1>6, TargetType DEF Unlock
  <2>3. \A u \in Threads, c \in Counters :
            holder'[c] = u <=> pc'[u] \notin {"idle", "lock"} /\ c = Target(u)'
    BY <1>0, <1>6, <2>1, <2>2, FreeAssumption, Exclusion DEF Unlock, CounterTypeOK
  <2>4. CounterTypeOK'
    BY <1>0, <1>6, <2>2, <2>3 DEF Unlock, CounterTypeOK
  <2>5. PlaceInv' /\ ReadInv'
    BY <1>0, <1>6, <2>1 DEF Unlock, CounterTypeOK, PlaceInv, ReadInv
  <2>6. second'[t] => /\ ~second[t] /\ call[t].op = "compare"
                      /\ got[t] = value[call[t].counter]
    BY <1>0, <1>6 DEF Unlock, CounterTypeOK, ReadInv, Target, ComparesCounters
  <2>7. second'[t] => \E m \in moments[t] : m[1] = left'[t]
    BY <1>0, <1>6, <2>6 DEF Unlock, CounterTypeOK, MomentInv, Operands
  <2>8. MomentsType' /\ MomentInv'
    BY <1>0, <1>6, <2>6, <2>7 DEF Unlock, CounterTypeOK, MomentsType, MomentInv
  <2> QED
    BY <2>4, <2>5, <2>8 DEF IInv
<1> QED
  BY <1>1, <1>2, <1>3, <1>4, <1>5, <1>6 DEF CallStep

\* A stuttering step preserves the strengthening.
LEMMA StutterIInv == IInv /\ UNCHANGED vars => IInv'
  BY DEF IInv, CounterTypeOK, PlaceInv, ReadInv, MomentsType, MomentInv, Target, vars

\* The strengthening holds in every reachable state.
LEMMA Inductive == Spec => []IInv
<1>1. IInv /\ [Next]_vars => IInv'
  BY StepIInv, StutterIInv DEF Next
<1> QED
  BY InitIInv, <1>1, PTL DEF Spec

\* Every variable keeps its type, and the lock of a counter is held exactly by
\* the thread that is between taking and leaving it.
THEOREM TypeCorrect == Spec => []CounterTypeOK
  BY Inductive, PTL DEF IInv

\* A comparison answers what was true at some moment since it began, unless
\* each of its operands changed in between.
THEOREM AnswersAreOfAMoment == Spec => []AnswerOfAMoment
<1>1. IInv => AnswerOfAMoment
  <2> SUFFICES ASSUME IInv, NEW t \in Threads, Answering(t),
                      \/ \A m, n \in moments[t] : m[1] = n[1]
                      \/ \A m, n \in moments[t] : m[2] = n[2]
               PROVE  \E m \in moments[t] : Answer(t) = Holds(call[t].rel, m[1], m[2])
    BY DEF AnswerOfAMoment, TrueOfAMoment
  <2> DEFINE now == Operands(call[t], value)
  <2>1. now \in moments[t] /\ got[t] = value[Target(t)] /\ call[t] \in Calls
    BY DEF IInv, MomentInv, ReadInv, CounterTypeOK, Answering
  <2>2. CASE second[t]
    <3>1. now[2] = got[t] /\ Answer(t) = Holds(call[t].rel, left[t], got[t])
      BY <2>1, <2>2 DEF IInv, PlaceInv, ComparesCounters, Operands, Target, Answer
    <3>2. PICK m \in moments[t] : m[1] = left[t]
      BY <2>2 DEF IInv, MomentInv
    <3>3. now[1] = left[t] \/ m[2] = got[t]
      BY <2>1, <3>1, <3>2
    <3> QED
      BY <2>1, <3>1, <3>2, <3>3
  <2>3. CASE ~second[t]
    <3>1. call[t].other \notin Counters
      BY <2>3 DEF Answering, ComparesCounters
    <3>2. now[1] = got[t] /\ now[2] = call[t].other
      BY <2>1, <2>3, <3>1 DEF Operands, Target
    <3> QED
      BY <2>1, <2>3, <3>2 DEF Answer
  <2> QED
    BY <2>2, <2>3
<1> QED
  BY <1>1, Inductive, PTL

\* The abstract counter asks of a call what the concrete one does.
LEMMA SameCalls ==
    ASSUME NEW c \in Calls
    PROVE  /\ Atomic!By(c) = By(c)
           /\ Atomic!ComparesCounters(c) <=> ComparesCounters(c)
           /\ Atomic!Returning = Returning /\ Atomic!Reading = Reading
  BY DEF Atomic!By, By, Atomic!ComparesCounters, ComparesCounters,
     Atomic!Returning, Returning, Atomic!Reading, Reading

\* The stages and the answers of the threads as AtomicInteger sees them.
StageOf == [t \in Threads |-> Stage(t)]
Given == [t \in Threads |-> IF pc[t] = "return" THEN value[Target(t)] ELSE got[t]]

\* A step of one thread leaves the stage and the answer of the others alone.
LEMMA OthersSame ==
    ASSUME IInv, NEW t \in Threads, Invoke(t) \/ CallStep(t), NEW u \in Threads \ {t}
    PROVE  Stage(u)' = Stage(u) /\ Given'[u] = Given[u]
<1> USE DEF Goto, Enter, Proceed
<1>0. CounterTypeOK /\ PlaceInv
  BY DEF IInv
<1>1. /\ pc'[u] = pc[u] /\ call'[u] = call[u] /\ second'[u] = second[u] /\ got'[u] = got[u]
  BY <1>0 DEF CounterTypeOK, CallStep, Invoke, Lock, Read, Write, Return, Unlock
<1>2. Target(u)' = Target(u) /\ ComparesCounters(call[u])' = ComparesCounters(call[u])
  BY <1>1 DEF Target, ComparesCounters
<1>3. Stage(u)' = Stage(u)
  BY <1>1, <1>2 DEF Stage, ComparesCounters
<1>4. pc[u] = "return" => value'[Target(u)] = value[Target(u)]
  <2>1. CASE Write(t) /\ pc[u] = "return"
    <3>1. Target(t) = call[t].counter /\ Target(t) # Target(u) /\ Target(u) \in Counters
      BY <1>0, <2>1, Exclusion, TargetType DEF Write, PlaceInv, ComparesCounters, Target
    <3> QED
      BY <1>0, <2>1, <3>1 DEF Write, CounterTypeOK
  <2>2. CASE ~Write(t)
    BY <2>2 DEF CallStep, Invoke, Lock, Read, Return, Unlock
  <2> QED
    BY <2>1, <2>2
<1> QED
  BY <1>1, <1>2, <1>3, <1>4 DEF Given

\* Every step of a thread is one of the abstract counter, for the same call,
\* or a stutter of it.
LEMMA StepRefines ==
    ASSUME IInv, NEW t \in Threads, Invoke(t) \/ CallStep(t)
    PROVE  [Atomic!Next]_Atomic!integerVars
<1> DEFINE c == call[t]
           Same == UNCHANGED <<value, call, StageOf, Given>>
<1> USE DEF Goto, Enter, Proceed
<1>0. CounterTypeOK /\ PlaceInv /\ ReadInv /\ c \in Calls /\ c.counter \in Counters
  BY CallFacts DEF IInv, CounterTypeOK
<1>a. \A u \in Threads \ {t} : StageOf'[u] = StageOf[u] /\ Given'[u] = Given[u]
  BY OthersSame DEF StageOf
<1>b. \A x : StageOf'[t] = x => StageOf' = [StageOf EXCEPT ![t] = x]
  BY <1>a, Zenon DEF StageOf
<1>c. \A x : Given'[t] = x => Given' = [Given EXCEPT ![t] = x]
  BY <1>a, Zenon DEF Given
<1>d. StageOf'[t] = StageOf[t] => StageOf' = StageOf
  BY <1>a, Zenon DEF StageOf
<1>e. Given'[t] = Given[t] => Given' = Given
  BY <1>a, Zenon DEF Given
<1>f. /\ Atomic!By(c) = By(c) /\ (Atomic!ComparesCounters(c) <=> ComparesCounters(c))
      /\ Atomic!Returning = Returning /\ Atomic!Reading = Reading
  BY <1>0, SameCalls
<1>g. Same => UNCHANGED Atomic!integerVars
  BY DEF Atomic!integerVars, StageOf, Given
<1>1. CASE Invoke(t)
  <2>1. PICK k \in Calls : call' = [call EXCEPT ![t] = k]
    BY <1>1 DEF Invoke
  <2>2. StageOf[t] = "idle" /\ StageOf'[t] = "called" /\ Given'[t] = Given[t]
    BY <1>0, <1>1 DEF Invoke, StageOf, Given, Stage, CounterTypeOK, PlaceInv
  <2>3. StageOf' = [StageOf EXCEPT ![t] = "called"] /\ Given' = Given /\ value' = value
    BY <1>1, <1>b, <1>e, <2>2 DEF Invoke
  <2>4. Atomic!Invoke(t)
    BY <2>1, <2>2, <2>3 DEF Atomic!Invoke, StageOf, Given
  <2> QED
    BY <2>4 DEF Atomic!Next
<1>2. CASE Lock(t)
  <2>1. StageOf'[t] = StageOf[t] /\ Given'[t] = Given[t] /\ value' = value /\ call' = call
    BY <1>0, <1>2 DEF Lock, StageOf, Given, Stage, CounterTypeOK
  <2> QED
    BY <1>d, <1>e, <1>g, <2>1
<1>3. CASE Read(t)
  <2>0. value' = value /\ call' = call /\ second' = second /\ pc[t] = "read"
    BY <1>3 DEF Read
  <2>1. CASE c.op \in Reading /\ ~second[t]
    <3>1. /\ StageOf[t] = "called"
          /\ StageOf'[t] = IF ComparesCounters(c) THEN "left" ELSE "done"
          /\ Given'[t] = value[c.counter]
      BY <1>0, <1>3, <2>0, <2>1
      DEF Read, StageOf, Given, Stage, CounterTypeOK, Target
    <3>2. /\ StageOf' = [StageOf EXCEPT ![t] = IF ComparesCounters(c) THEN "left" ELSE "done"]
          /\ Given' = [Given EXCEPT ![t] = value[c.counter]]
      BY <1>b, <1>c, <3>1
    <3>3. Atomic!Get(t)
      BY <1>f, <2>0, <2>1, <3>1, <3>2 DEF Atomic!Get, StageOf, Given
    <3> QED
      BY <3>3 DEF Atomic!Next
  <2>2. CASE c.op \in Reading /\ second[t]
    <3>1. /\ StageOf[t] = "left" /\ StageOf'[t] = "done" /\ Given'[t] = value[c.other]
      BY <1>0, <1>3, <2>0, <2>2
      DEF Read, StageOf, Given, Stage, CounterTypeOK, Target
    <3>2. /\ StageOf' = [StageOf EXCEPT ![t] = "done"]
          /\ Given' = [Given EXCEPT ![t] = value[c.other]]
      BY <1>b, <1>c, <3>1
    <3>3. Atomic!GetOther(t)
      BY <2>0, <3>1, <3>2 DEF Atomic!GetOther, StageOf, Given
    <3> QED
      BY <3>3 DEF Atomic!Next
  <2>3. CASE c.op \notin Reading
    <3>1. StageOf'[t] = StageOf[t] /\ Given'[t] = Given[t]
      BY <1>0, <1>3, <2>0, <2>3 DEF Read, StageOf, Given, Stage, CounterTypeOK
    <3> QED
      BY <1>d, <1>e, <1>g, <2>0, <3>1
  <2> QED
    BY <2>1, <2>2, <2>3
<1>4. CASE Write(t)
  <2>1. /\ pc[t] = "write" /\ c.op \notin Reading /\ ~second[t] /\ Target(t) = c.counter
        /\ call' = call /\ second' = second /\ got' = got
    BY <1>0, <1>4 DEF Write, PlaceInv, ComparesCounters, Target, Reading
  <2>2. value' = [value EXCEPT ![c.counter] = IF c.op = "reset" THEN 0 ELSE @ + By(c)]
    BY <1>0, <1>4 DEF Write, ReadInv
  <2>3. /\ pc'[t] = IF c.op \in Returning THEN "return" ELSE "unlock"
        /\ ~ComparesCounters(c)
    BY <1>0, <1>4, <2>1 DEF Write, CounterTypeOK, ComparesCounters, Reading
  <2>4. StageOf[t] = "called" /\ StageOf'[t] = "done"
    BY <2>1, <2>3 DEF StageOf, Stage, ComparesCounters
  <2>5. Given'[t] = IF c.op \in Returning THEN value'[c.counter] ELSE Given[t]
    BY <2>1, <2>3 DEF Given, Target
  <2>6. /\ StageOf' = [StageOf EXCEPT ![t] = "done"]
        /\ Given' = [Given EXCEPT ![t] = IF c.op \in Returning THEN value'[c.counter] ELSE @]
    BY <1>b, <1>c, <2>4, <2>5
  <2>7. Atomic!Change(t)
    BY <1>f, <2>1, <2>2, <2>4, <2>6 DEF Atomic!Change, StageOf, Given
  <2> QED
    BY <2>7 DEF Atomic!Next
<1>5. CASE Return(t)
  <2>1. StageOf'[t] = StageOf[t] /\ Given'[t] = Given[t] /\ value' = value /\ call' = call
    BY <1>0, <1>5
    DEF Return, StageOf, Given, Stage, CounterTypeOK, PlaceInv, ComparesCounters, Returning, Target
  <2> QED
    BY <1>d, <1>e, <1>g, <2>1
<1>6. CASE Unlock(t)
  <2>0. /\ value' = value /\ call' = call /\ got' = got /\ pc[t] = "unlock"
        /\ second'[t] = (ComparesCounters(c) /\ ~second[t])
        /\ pc'[t] = IF second'[t] THEN "lock" ELSE "idle"
    BY <1>0, <1>6 DEF Unlock, CounterTypeOK
  <2>1. Given'[t] = Given[t]
    BY <2>0 DEF Given
  <2>2. CASE second'[t]
    <3>1. StageOf'[t] = StageOf[t]
      BY <2>0, <2>2 DEF StageOf, Stage
    <3> QED
      BY <1>d, <1>e, <1>g, <2>0, <2>1, <3>1
  <2>3. CASE ~second'[t]
    <3>1. StageOf[t] = "done" /\ StageOf'[t] = "idle"
      BY <2>0, <2>3 DEF StageOf, Stage
    <3>2. StageOf' = [StageOf EXCEPT ![t] = "idle"] /\ Given' = Given
      BY <1>b, <1>e, <2>1, <3>1
    <3>3. Atomic!Respond(t)
      BY <2>0, <3>1, <3>2 DEF Atomic!Respond, StageOf, Given
    <3> QED
      BY <3>3 DEF Atomic!Next
  <2> QED
    BY <2>2, <2>3
<1> QED
  BY <1>1, <1>2, <1>3, <1>4, <1>5, <1>6 DEF CallStep

\* AtomicCounter implements the atomic integer: every call takes effect once,
\* by what it asks for, so no update is lost, whatever the threads do.
THEOREM Refinement == Spec => ImplementsAtomic
<1>1. Init => Atomic!Init
  BY DEF Init, Atomic!Init, Stage
<1>2. IInv /\ [Next]_vars => [Atomic!Next]_Atomic!integerVars
  <2>1. UNCHANGED vars => UNCHANGED Atomic!integerVars
    BY DEF vars, Atomic!integerVars, Target, Stage, ComparesCounters
  <2> QED
    BY <2>1, StepRefines DEF Next
<1> QED
  BY <1>1, <1>2, Inductive, PTL DEF Spec, ImplementsAtomic, Atomic!Spec
=============================================================================
