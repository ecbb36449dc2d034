------------------------------ MODULE XBitMap -------------------------------
(***************************************************************************)
(* The bitmap of rammgr.h (struct XBitMap), word by word, as RamManager    *)
(* uses it for the slots of its page file.  A word is the set of the bit   *)
(* positions that are 1.  RamManager itself is modelled over the set of    *)
(* used slots; this module shows that the words implement that set.        *)
(***************************************************************************)
EXTENDS Integers, FiniteSetsExt

CONSTANTS BitsPerLong,  \* BITS_PER_LONG
          Growths,      \* the values mGrowCount may have
          MaxBits       \* bound: the bitmap is not grown past this

ASSUME BitMapAssumption ==
    /\ BitsPerLong \in Nat \ {0}
    /\ Growths \subseteq Nat \ {0}
    /\ MaxBits \in Nat

VARIABLES buf,      \* _buf, a vector of words
          bits      \* _bits

bvars == <<buf, bits>>

Positions == 0 .. BitsPerLong - 1
Words     == DOMAIN buf

LI(idx) == idx \div BitsPerLong
BI(idx) == idx % BitsPerLong

TestBit(idx) == idx < bits /\ BI(idx) \in buf[LI(idx)]

NoBit == -1

FindFullWords ==
    LET open == {l \in 0 .. LI(bits) - 1 : buf[l] # Positions}
    IN IF open = {} THEN NoBit
       ELSE Min(open) * BitsPerLong + Min(Positions \ buf[Min(open)])

(* The whole words first, then the bits of the last word that count.       *)
find0 ==
    LET open == {l \in 0 .. LI(bits) - 1 : buf[l] # Positions}
        tail == {i \in 0 .. BI(bits) - 1 : i \notin buf[LI(bits)]}
    IN IF open # {}
       THEN Min(open) * BitsPerLong + Min(Positions \ buf[Min(open)])
       ELSE IF tail # {} THEN LI(bits) * BitsPerLong + Min(tail)
       ELSE NoBit

Init == buf = << >> /\ bits = 0

(* New words are zero; a partly used word keeps its bits. *)
resize(n) ==
    LET numl == LI(n) + (IF BI(n) # 0 THEN 1 ELSE 0) IN
    /\ buf' = [l \in 0 .. numl - 1 |-> IF l \in Words THEN buf[l] ELSE {}]
    /\ bits' = n

SetShifted(idx, f) ==
    /\ buf' = [buf EXCEPT ![LI(idx)] =
                  IF f THEN @ \cup {BI(idx), BI(idx + 1)} ELSE @ \ {BI(idx)}]
    /\ UNCHANGED bits

setbit(idx, f) ==
    /\ buf' = [buf EXCEPT ![LI(idx)] =
                  IF f THEN @ \cup {BI(idx)} ELSE @ \ {BI(idx)}]
    /\ UNCHANGED bits

clear == buf' = << >> /\ bits' = 0

-----------------------------------------------------------------------------
(* RamManager's use of it *)

(* A slot is sought, and the map grows when there is none. *)
PageFilePreAlloc ==
    /\ find0 = NoBit
    /\ \E n \in Growths : bits + n <= MaxBits /\ resize(bits + n)

(* A slot that find0 gave, or one of a block that is released. *)
MarkSwapBlockUsed(idx, bUsed) == idx < bits /\ setbit(idx, bUsed)

Next ==
    \/ PageFilePreAlloc
    \/ \E idx \in 0 .. MaxBits - 1, bUsed \in BOOLEAN :
          MarkSwapBlockUsed(idx, bUsed)
    \/ clear

Spec == Init /\ [][Next]_bvars

-----------------------------------------------------------------------------
(* Properties *)

Marked == {idx \in 0 .. bits - 1 : TestBit(idx)}

(* The slot found is the lowest unmarked one, and there is none only when  *)
(* all are marked: also when the last word is used in part.                *)
FindsLowest ==
    IF Marked = 0 .. bits - 1 THEN find0 = NoBit
    ELSE find0 = Min(0 .. bits - 1 \ Marked)

Map == INSTANCE SlotMap WITH size <- bits, inUse <- Marked

(* Growing keeps every mark and adds none, within the last word too;       *)
(* marking and releasing a slot change that slot alone.                    *)
ImplementsSlotMap == Map!Spec
=============================================================================
