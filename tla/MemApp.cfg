SPECIFICATION FairSpec
CONSTANTS
    Apps = {a1}
    Verbs <- MCVerbs
    Names = {n1}
    Counts = {1, 3}
    Concs = {0, 2}
    Devices = {d1, d2}
    Fds = {f1, f2}
    Nodes = {k1}
    MaxCmds = 3
    None = None
INVARIANTS TypeOK CountsAreTrue DescriptorsAccounted
PROPERTY CommandEnds
CHECK_DEADLOCK FALSE
