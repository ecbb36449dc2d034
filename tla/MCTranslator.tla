---------------------------- MODULE MCTranslator ----------------------------
(* Model values for Translator: two virtual pages, one block that reaches  *)
(* into the second page, where another begins, and one block that is a     *)
(* single instruction.                                                     *)
EXTENDS Translator, TLC

MCEntries == {<<0, 0>>, <<0, 1>>, <<1, 0>>}
MCOneInsn == {<<0, 0>>}
Symm == Permutations(PPages)

(* Bound: three blocks at a time only while both virtual pages are one     *)
(* physical page, two at a time else.                                      *)
ThirdOnOnePage == s'.nb_tbs > 2 => \E p \in PPages : \A v \in VPages : since'[v] = {p}

(* States are told apart by what can still be read: the record of a block  *)
(* that cannot be found, does not run and has not just run is looked at by *)
(* nobody but a dropped block that runs, and tb_invalidated_flag only by a *)
(* round of the loop that comes from a block.                              *)
Read(t) == t \in s.hash \/ t = run \/ (next # NULL /\ next.tb = t)

Blocks ==
    IF run \in s.hash \cup {NULL}
    THEN [t \in Slots |-> IF Read(t) THEN <<s.tbs[t], s.target[t]>> ELSE NULL]
    ELSE <<s.tbs, s.target>>

View ==
    <<Blocks, s.nb_tbs, s.hash, s.list, s.bitmap, s.writes, s.cache, s.jumpers,
      s.tlb, s.dirty, s.tb_invalidated_flag /\ (run # NULL \/ next # NULL), s.crashed,
      map, since, run, nocache, next, retry>>
=============================================================================
