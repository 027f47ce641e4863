SPECIFICATION Spec
CONSTANTS
    None = None
    Handlers = {"node driver", "controller driver"}
    Obsolete = {"obsolete"}
    Specs <- MCSpecs
    operatorImage = "driver"
    MaxUid = 1
    MaxLag = 2
    Faulty = FALSE
    Disturbances = 1
INVARIANTS StatusCurrent
CHECK_DEADLOCK FALSE
