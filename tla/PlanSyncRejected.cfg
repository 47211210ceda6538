CONSTANTS
    c1=c1
    c2=c2
    Clients={c1}
    NoClient=NoClient
    MaxEdits=4
    MaxOutbox=2
    MaxSends=1
    Loads<-MCRejected
SPECIFICATION Spec
CHECK_DEADLOCK FALSE
PROPERTIES
    SettledByOwn
