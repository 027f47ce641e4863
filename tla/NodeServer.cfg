SPECIFICATION FairSpec
CONSTANTS
    Kinds <- AllKinds
    Targets = {t1, t2}
    Workers = {w1, w2}
    MaxFaults = 2
    None = None
INVARIANTS TypeOK MountsBacked PublishSound
PROPERTIES KeepsData UnpublishComplete Teardown
CHECK_DEADLOCK FALSE
