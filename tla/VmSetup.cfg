SPECIFICATION VMFairSpec
CONSTANTS
    node1 = node1
    node2 = node2
    Hosts = {h1, h2}
    PlanNodes = {node1, node2}
    MasterNode = node1
    Vms <- MCVms
    Servers = {s1, s2, s3}
    Volumes = {v1, v2}
    MaxTests = 2
    MaxFaults = 1
    Missing = Missing
INVARIANTS VMTypeOK VolumeIsFree BoundToItsNode
PROPERTY SetupEnds
CHECK_DEADLOCK FALSE
