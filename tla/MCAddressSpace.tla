--------------------------- MODULE MCAddressSpace ----------------------------
(* Six pages aligned by two, regions of one to three pages.                *)
EXTENDS AddressSpace
=============================================================================
