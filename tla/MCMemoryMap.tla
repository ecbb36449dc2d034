---------------------------- MODULE MCMemoryMap -----------------------------
(* Eight pages in a tree of three levels, up to three regions.             *)
EXTENDS MemoryMap, TLC
Symm == Permutations(MRs)
=============================================================================
