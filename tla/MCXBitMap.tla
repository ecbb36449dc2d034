----------------------------- MODULE MCXBitMap ------------------------------
(* XBitMap with words of three bits, grown by less and by more than a word. *)
EXTENDS XBitMap

MCGrowths == {1, 2, 5}
=============================================================================
