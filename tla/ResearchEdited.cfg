CONSTANTS
    Loads<-MCEdited
SPECIFICATION ReadSpec
CHECK_DEADLOCK FALSE
PROPERTIES
    NoManualRepair
