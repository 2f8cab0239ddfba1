SPECIFICATION FairSpec
CONSTANTS
    t1 = t1
    t2 = t2
    t3 = t3
    c1 = c1
    c2 = c2
    c3 = c3
    NULL = NULL
    Tasks <- MCTasks
    Comms <- MCComms
    Failures <- AnyFailure
    Preempts = FALSE
    MaxEnds = 1
CHECK_DEADLOCK FALSE
INVARIANTS
    TasksTypeOK
    OneApplication
    UsesLiveCommunicator
    DestroysWhatHangs
    NothingLeftBehind
PROPERTIES
    KeepsWorking
