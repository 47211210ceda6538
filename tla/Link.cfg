CONSTANTS
    a=a
    b=b
    q1=q1
    q2=q2
    Runs={a,b}
    Asks={q1,q2}
    All=All
    Loads<-MCLoads
SPECIFICATION LiveSpec
CHECK_DEADLOCK FALSE
INVARIANTS
    LinkInv
    ResumedStaysResumed
    AnswerNotCancelled
PROPERTIES
    Arrives
