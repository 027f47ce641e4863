SPECIFICATION Spec
CONSTANTS
    i1 = i1
    i2 = i2
    d1 = d1
    d2 = d2
    Ids = {i1, i2}
    Data = {d1, d2}
    None = None
    Partial = Partial
    Writes <- MCWrites
    Callers = {c1, c2}
    Faults = {"open", "encode", "close", "rename", "remove", "sync"}
SYMMETRY Symmetry
INVARIANTS TypeOK 
PROPERTIES ImplementsStore NilMeansDurable
