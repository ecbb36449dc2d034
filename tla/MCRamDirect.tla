----------------------------- MODULE MCRamDirect ----------------------------
(* Model values for RamDirect: three blocks, all owned or all but one, and *)
(* two data.                                                               *)
EXTENDS RamDirect, TLC

CONSTANTS r1, r2, r3, A

MCRefs      == {r1, r2, r3}
MCOwnedSome == {r1, r2}
MCData      == {Zero, A}
MCSymmetry  == Permutations(MCRefs)
MCOwnedSymmetry == Permutations(MCOwnedSome)
=============================================================================
