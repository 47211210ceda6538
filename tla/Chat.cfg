CONSTANTS
    m1=m1
    m2=m2
    i1=i1
    n1=n1
    n2=n2
    j1=j1
    d1=d1
    d2=d2
    Messages={m1,m2}
    Invokes={i1}
    Notes={n1,n2}
    Jobs={j1}
    Drafts={d1,d2}
    NoItem=NoItem
    Thread<-MCThread
    MaxQueue=2
    MaxPending=2
    Loads<-MCLoads
SPECIFICATION LiveSpec
CHECK_DEADLOCK FALSE
INVARIANTS
    ChatInv
    ExactlyOnce
    OutcomesHold
PROPERTIES
    NothingWaits
