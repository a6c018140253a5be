------------------------------ MODULE MCMemory ------------------------------
(* Instances of MemoryStore for TLC: its people and its keys are alike.      *)
EXTENDS MemoryStore, TLC

MemorySymmetry == Permutations(People) \union Permutations(Keys)
=============================================================================
