CONSTANTS
    s1=s1
    s2=s2
    s3=s3
    c1=c1
    c2=c2
    Sockets={s1,s2,s3}
    Clients={c1,c2}
    NoSocket=NoSocket
    ClientOf<-MCClientOf
    MaxRooms = 3
    Loads<-MCLoads
SPECIFICATION LiveSpec
CHECK_DEADLOCK FALSE
INVARIANTS
    RoomsInv
    GivenPlanStays
PROPERTIES
    MemberStays
    WaitsEnd
    UnusedIsForgotten
