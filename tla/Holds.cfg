CONSTANTS
    k1=k1
    k2=k2
    k3=k3
    browser=browser
    machine=machine
    rival=rival
    NoLink=NoLink
    NoLogin=NoLogin
    Links={k1,k2,k3}
    Logins={browser,machine,rival}
    Machines={machine}
    UserOf<-Accounts
    Loads<-MCLoads
SPECIFICATION LiveSpec
CHECK_DEADLOCK FALSE
INVARIANTS
    HoldsInv
    HoldIsBacked
PROPERTIES
    HoldsSettle
