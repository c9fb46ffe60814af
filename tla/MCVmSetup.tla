------------------------------ MODULE MCVmSetup ------------------------------
EXTENDS VmSetup

CONSTANTS node1, node2

\* A machine bound to the master's node, and one that may move, made without a host.
MCVms == {[name |-> "a", node |-> node1, removable |-> FALSE, pinned |-> TRUE],
          [name |-> "b", node |-> node2, removable |-> TRUE, pinned |-> FALSE]}
=============================================================================
