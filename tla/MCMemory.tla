-------------------------------- MODULE MCMemory --------------------------------
EXTENDS MemoryClaims, TLC
Symmetry == Permutations(Keys) \cup Permutations(Contents) \cup Permutations(Requests)
=============================================================================
