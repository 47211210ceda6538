CONSTANTS
    Loads<-MCLoads
SPECIFICATION LiveSpec
CHECK_DEADLOCK FALSE
INVARIANTS
    ResearchInv
    ToldTruly
PROPERTIES
    RequestEnds
