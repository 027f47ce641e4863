SPECIFICATION Spec
CONSTANTS
    n1 = n1
    n2 = n2
    i1 = i1
    i2 = i2
    None = None
    Names = {n1, n2}
    Ids = {i1, i2}
    volumeID <- MCDistinct
    Sizes = {3}
    lvmAlign = 2
    NumVGs = 2
    VGSize <- MCVGSize
    Workers = {w1, w2}
    Faults = {}
SYMMETRY Symmetry
INVARIANTS IndInv PromiseKept CapacityHonest
