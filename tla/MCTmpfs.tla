------------------------------ MODULE MCTmpfs ------------------------------
EXTENDS Tmpfs

Names == {<<1>>, <<1, 2>>}
Symmetry == Permutations(Handle) \cup Permutations(Byte)
=============================================================================
