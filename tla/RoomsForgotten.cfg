CONSTANTS
    s1=s1
    s2=s2
    s3=s3
    c1=c1
    c2=c2
    Sockets={s1,s2,s3}
    Clients={c1,c2}
    NoSocket=NoSocket
    ClientOf<-MCClientOf
    MaxRooms=2
    Loads<-MCJoins
SPECIFICATION Spec
CHECK_DEADLOCK FALSE
INVARIANTS
    OneDocumentEver
