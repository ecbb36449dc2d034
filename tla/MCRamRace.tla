------------------------------ MODULE MCRamRace -----------------------------
(* Model values for RamRace: two threads, three blocks.                    *)
EXTENDS RamRace, TLC

CONSTANTS r1, r2, r3, t1, t2, A

MCRefs     == {r1, r2, r3}
MCThreads  == {t1, t2}
MCData     == {Zero, A}
MCRefSymmetry == Permutations(MCRefs)
(* What the properties say nothing of need not be explored. *)
MCUntilOvertaken == ~overtaken
MCSymmetry == MCRefSymmetry \cup Permutations(MCThreads)
=============================================================================
