----------------------------- MODULE FlatTable ------------------------------
(***************************************************************************)
(* What a page table promises its users: one entry per virtual page, which *)
(* nothing but their own calls changes, until the table is lost.  An entry *)
(* has the P bit, for PageTable::R, and the physical address; the write    *)
(* and execute bits travel with it and are left out.                       *)
(***************************************************************************)
CONSTANTS Vmas,     \* virtual page addresses
          Pmas,     \* physical addresses
          NoEntry   \* an entry of zeros

VARIABLES entry,
          lost      \* nothing is promised any more

fvars == <<entry, lost>>

Init == entry = [v \in Vmas |-> NoEntry] /\ lost = FALSE

(* vmmap: a page that is mapped is not mapped again. *)
Map(v) ==
    /\ ~entry[v].P
    /\ \E pma \in Pmas : entry' = [entry EXCEPT ![v] = [P |-> TRUE, base |-> pma]]

(* vmattr: an entry may be hidden and shown again. *)
Attr(v) == \E f \in BOOLEAN : entry' = [entry EXCEPT ![v].P = f]

(* vmunmap *)
Unmap(v) == entry[v].P /\ entry' = [entry EXCEPT ![v] = NoEntry]

(* The table is destroyed. *)
Clear == entry' = [v \in Vmas |-> NoEntry]

(* Whatever the entries are then. *)
Lose == ~lost /\ lost'

Change == Clear \/ \E v \in Vmas : Map(v) \/ Attr(v) \/ Unmap(v)

Next == Lose \/ (~lost /\ ~lost' /\ Change)

Spec == Init /\ [][Next]_fvars
=============================================================================
