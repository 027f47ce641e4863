SPECIFICATION Spec
CONSTANTS
    n1 = n1
    n2 = n2
    i1 = i1
    i2 = i2
    None = None
    Names = {n1}
    Ids = {i1}
    volumeID <- MCSingle
    Sizes = {1, 4}
    lvmAlign = 2
    NumVGs = 2
    VGSize <- MCVGSize
    Workers = {w1}
    Faults = {}
INVARIANT RegisteredCleared
