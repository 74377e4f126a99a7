------------------------------ MODULE MCTimer ------------------------------
EXTENDS Timer, TLC

Nodes == Permutations(Node)
=============================================================================
