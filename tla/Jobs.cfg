CONSTANTS
    NoTarget=NoTarget
    j1=j1
    j2=j2
    t1=t1
    t2=t2
    Jobs={j1,j2}
    Targets={t1,t2}
    Global=2
    OwnerSlots=1
    MaxAttempts=2
    Loads<-MCLoads
SPECIFICATION FairSpec
CHECK_DEADLOCK FALSE
INVARIANTS
    JobsInv
    ArtifactOfLastClaim
    WaitingJobsAreIdle
PROPERTIES
    TerminalIsFinal
    JobsSettle
