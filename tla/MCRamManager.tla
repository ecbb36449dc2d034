---------------------------- MODULE MCRamManager ----------------------------
(* Model values for RamManager: owned and ownerless blocks, two data.      *)
EXTENDS RamManager, TLC

CONSTANTS r1, r2, r3, A

MCOwnedAll  == {r1, r2, r3}
MCOwnedSome == {r1, r2}
MCData      == {Zero, A}
MCRefSymmetry   == Permutations(MCOwnedAll)
MCOwnedSymmetry == Permutations(MCOwnedSome)
=============================================================================
