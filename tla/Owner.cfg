CONSTANTS
    l1=l1
    l2=l2
    t1=t1
    t2=t2
    t3=t3
    NoLogin=NoLogin
    Logins={l1,l2}
    Delegated={l2}
    Tasks={t1,t2,t3}
    Loads<-MCLoads
SPECIFICATION OwnerLive
CHECK_DEADLOCK FALSE
INVARIANTS
    OwnerInv
    SignedOutStaysOut
    BoundIsCurrent
    BoundIsOwner
PROPERTIES
    RequestsEnd
