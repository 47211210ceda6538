CONSTANTS
    c1=c1
    c2=c2
    Clients={c1,c2}
    NoClient=NoClient
    MaxEdits=2
    MaxOutbox=2
    MaxSends=2
    Loads<-MCLoads
SPECIFICATION FairSpec
CHECK_DEADLOCK FALSE
INVARIANTS
    PlanInv
    SeenDurable
    Converged
    NothingLost
PROPERTIES
    CommittedStays
    Settles
