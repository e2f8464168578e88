---------------------------- MODULE MCNativeMemory ----------------------------
\* NativeMemory with one heap handle, two addresses and three generations.
EXTENDS NativeMemory, TLC

MCTimes == 1 .. 3
Symmetry == Permutations(Blocks) \union Permutations(Addresses)
===============================================================================
