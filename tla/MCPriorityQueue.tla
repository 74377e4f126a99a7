-------------------------- MODULE MCPriorityQueue --------------------------
EXTENDS PriorityQueue, TLC

Nodes == Permutations(Node)
=============================================================================
