------------------------------- MODULE MCHeap -------------------------------
EXTENDS Heap

Symmetry == Permutations(ThreadSlot)
=============================================================================
