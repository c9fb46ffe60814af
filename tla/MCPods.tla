------------------------------- MODULE MCPods -------------------------------
EXTENDS Pods

\* The name of the first pod is the beginning of the second one's.
MCPodNames == {"shm", "shm1"}
MCMatching == [p \in MCPodNames |-> IF p = "shm" THEN MCPodNames ELSE {p}]
=============================================================================
