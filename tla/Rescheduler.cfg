SPECIFICATION FairSpec
CONSTANTS
    None = None
    Nodes = {n1, n2}
    Instances = {a, b}
    MaxChanges = 2
INVARIANT ChecksHold
PROPERTIES  GivenUp GetsVolume
CHECK_DEADLOCK FALSE
