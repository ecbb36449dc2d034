----------------------------- MODULE MCKObjects ------------------------------
(* Two objects, a directory with two children, one of which has a child,   *)
(* and two handle numbers, 4 and 0.                                        *)
EXTENDS KObjects, TLC

CONSTANTS o1, o2, p1

MCParent   == 1 :> 0 @@ 2 :> 0 @@ 3 :> 1
MCSymmetry == Permutations({o1, o2})
=============================================================================
