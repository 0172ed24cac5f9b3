\* A comparison of two different counters whose operands change between its two reads.
SPECIFICATION Spec
CONSTANTS
    Threads = {t1, t2}
    a = a
    b = b
    Counters = {a, b}
    Calls <- CallsOnTwo
    MaxCalls = 2
    Free = Free
INVARIANTS
    AnswerOfOneMoment
\* The threads stop when they have made their calls.
CHECK_DEADLOCK FALSE
