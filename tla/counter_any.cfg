\* Two threads, two calls each at the most.
SPECIFICATION FairSpec
CONSTANTS
    Threads = {t1, t2}
    a = a
    b = b
    Counters = {a, b}
    Calls <- SomeCalls
    MaxCalls = 2
    Free = Free
INVARIANTS
    CounterTypeOK
    AnswerOfAMoment
PROPERTIES
    ImplementsAtomic
    CallsReturn
\* The threads stop when they have made their calls.
CHECK_DEADLOCK FALSE
