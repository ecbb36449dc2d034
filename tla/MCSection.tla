------------------------------ MODULE MCSection -----------------------------
(* Two slots for four offsets, two views, and another client's block, over *)
(* two frames.                                                             *)
EXTENDS Section, TLC

CONSTANTS b0, b1, r1, zero

MCRefs    == {b0, b1, r1}
MCData    == {zero} \cup Offsets
MCBlockOf == 0 :> b0 @@ 1 :> b1
MCViews   == {[off |-> 0, size |-> 2], [off |-> 2, size |-> 1]}

(* The properties say nothing of what follows a race. *)
MCUntilRaced == ~raced
=============================================================================
