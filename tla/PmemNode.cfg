SPECIFICATION Spec
CONSTANTS
    None = None
    Ids = {i1, i2}
    NumRegions = 3
    RegionSize <- MCRegionSize
    ReadOnly = {3}
    fsdaxalign = 1
    interleave = 2
    rawRegionAlign = 0
    FallbackAlign = 3
    BttOverhead = 1
    Foreign <- MCForeign
    Percentage = 35
    Maps <- MCMaps
    Sizes = {12}
    Faults = {"setup", "wipefs", "vg", "clear", "busy", "destroy", "api"}
SYMMETRY Symmetry
INVARIANTS TypeOK SpaceAccounted OneNamespacePerVolume  StoredParamsParse PercentageKept SetupFits DirectCapacityHonest
PROPERTIES DataKept EraseHonoured
