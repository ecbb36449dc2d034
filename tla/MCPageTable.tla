---------------------------- MODULE MCPageTable -----------------------------
(* Model values for PageTable: a root and a page of entries, of two        *)
(* entries each, beside two blocks of other clients, over two frames; a    *)
(* third page cannot be had.                                               *)
EXTENDS PageTable, TLC

CONSTANTS p1, p2, o1, o2

MCPages  == {p1, p2}
MCOthers == {o1, o2}
MCRefs   == MCPages \cup MCOthers
MCIndex  == {0, 1}
MCVmas   == {<<0, 0>>, <<0, 1>>, <<1, 0>>}
MCZero   == [x \in MCIndex |-> [P |-> FALSE, base |-> 0]]
MCData   == [MCIndex -> [P : BOOLEAN, base : 0 .. NumFrames - 1 \cup Pmas]]
MCWritten == {[x \in MCIndex |-> [P |-> x = 0, base |-> 1]]}
MCSymmetry == Permutations(MCPages) \cup Permutations(MCOthers)
=============================================================================
