------------------------------ MODULE SlotMap -------------------------------
(***************************************************************************)
(* What RamManager expects of its bitmap: a number of slots, the set of    *)
(* those in use, and the lowest one that is not.                           *)
(***************************************************************************)
EXTENDS Integers

VARIABLES size,     \* how many slots there are
          inUse     \* the slots that are marked

mvars == <<size, inUse>>

Init == size = 0 /\ inUse = {}

Grow == size' \in Nat /\ size' >= size /\ UNCHANGED inUse

Mark(s) == s \in 0 .. size - 1 /\ inUse' = inUse \cup {s} /\ UNCHANGED size

Release(s) == s \in 0 .. size - 1 /\ inUse' = inUse \ {s} /\ UNCHANGED size

Clear == size' = 0 /\ inUse' = {}

Next ==
    \/ Grow
    \/ \E s \in 0 .. size - 1 : Mark(s) \/ Release(s)
    \/ Clear

Spec == Init /\ [][Next]_mvars
=============================================================================
