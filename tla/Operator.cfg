SPECIFICATION FairSpec
CONSTANTS
    None = None
    Handlers = {"node setup driver", "CSIDriver"}
    Obsolete = {"obsolete"}
    Specs <- MCSpecs
    operatorImage = "driver"
    MaxUid = 2
    MaxLag = 2
    Faulty = TRUE
    Disturbances = 1
INVARIANTS TypeOK 
PROPERTIES OthersUntouched 
CHECK_DEADLOCK FALSE
