SPECIFICATION Spec
CONSTANTS
    PodNames <- MCPodNames
    Matching <- MCMatching
    Nodes = {n1, n2}
    Looks = 2
    MaxOps = 4
    MaxFailures = 1
INVARIANTS TypeOK VerdictsAreTrue ClearIsComplete
CHECK_DEADLOCK FALSE
