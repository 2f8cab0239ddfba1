SPECIFICATION Spec
CONSTANTS
    t1 = t1
    t2 = t2
    t3 = t3
    c1 = c1
    c2 = c2
    c3 = c3
    NULL = NULL
    Tasks <- MCTasks
    Comms <- MCComms
    Failures <- NoFailures
    Preempts = TRUE
    MaxEnds = 1
CHECK_DEADLOCK FALSE
INVARIANTS
    UsesLiveCommunicator
