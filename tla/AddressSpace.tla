---------------------------- MODULE AddressSpace -----------------------------
(***************************************************************************)
(* The virtual address space of space.h: a list of regions (VMRegion) that *)
(* are free, handed out, or the gap behind one that was handed out, and in *)
(* each region a list of blocks of one protection (VMBlock).  Addresses    *)
(* and sizes are numbers of pages (VMBLOCK_SIZE_ALIGN), and Align is       *)
(* VMBLOCK_AT_ALIGN in pages.                                              *)
(*                                                                         *)
(* Of a region's attributes two matter: MEM_FREE, which every region is    *)
(* born with, and a type the client adds to what it is handed (main() of   *)
(* vos.cpp), in the same step here.  The client's own record is given.     *)
(***************************************************************************)
EXTENDS DList

CONSTANTS Room,         \* pages in the space
          Align,        \* VMBLOCK_AT_ALIGN / VMBLOCK_SIZE_ALIGN
          Sizes,        \* sizes the clients ask for
          Prots,        \* protections
          NOACCESS,     \* PAGE_NOACCESS
          MaxProtected  \* bound: the regions with blocks of their own

ASSUME AddressSpaceAssumption ==
    /\ Align \in Nat \ {0}
    /\ Room \in Nat /\ Room % Align = 0 /\ Room > 0
    /\ Sizes \subseteq Nat \ {0}
    /\ NOACCESS \in Prots
    /\ MaxProtected \in Nat

VARIABLES
    space,      \* the regions
    blocks,     \* the blocks of each region
    given,      \* the regions handed out and not given back
    wish,       \* the place asked for with each of them, 0 for any
    asked       \* the protection asked for each page, by calls within a block

asvars == <<space, blocks, given, wish, asked>>

Fine == space.fate = "ok" /\ \A x \in Nodes(space) : blocks[x].fate = "ok"

FreeRoom == [base |-> 0, size |-> Room, free |-> TRUE, typed |-> FALSE]

ASInit ==
    /\ space = Single(FreeRoom)
    /\ blocks = [x \in Ids |-> Empty]
    /\ given = {}
    /\ wish = [x \in Ids |-> <<0, 0>>]
    /\ asked = [x \in Ids |-> <<>>]

-----------------------------------------------------------------------------
(* allocSectionAddress *)

AlignUp(n) == ((n + Align - 1) \div Align) * Align

UsableIfFree(x, size) ==
    LET f == Field(space, x) IN
    f.free /\ f.base % Align = 0 /\ f.size >= AlignUp(size)

(* The type bits are MEM_FREE alone, and the region is not a gap. *)
Usable(x, size) ==
    LET f == Field(space, x) IN
    /\ f.free /\ ~f.typed
    /\ f.base % Align = 0
    /\ f.size >= AlignUp(size)

(* A region that ends where the wanted range does is passed over. *)
FitsAt(x, base, size) ==
    LET f == Field(space, x) IN
    Usable(x, size) /\ f.base <= base /\ f.base + f.size > base + AlignUp(size)

(* The first region, from either end, that will do; 0 if there is none. *)
FindFit(base, size, top) ==
    LET usable == {x \in Nodes(space) : Usable(x, size)} IN
    IF base # 0
    THEN FirstFrom(space, space.first, {x \in Nodes(space) : FitsAt(x, base, size)})
    ELSE IF top THEN LastUpTo(space, space.last, usable)
    ELSE FirstFrom(space, space.first, usable)

(* What is left of the last Align pages becomes a gap. *)
GapSplit(l, fit, size) ==
    IF AlignUp(size) > size THEN SplitAt(l, fit, size) ELSE l

(* The list after the region of size pages has been cut out of fit, and    *)
(* the region: in front of it what lies before base, or, from the top,     *)
(* all that is too much; behind it the rest and the gap.                   *)
CutOut(fit, base, size, top) ==
    LET off    == IF base = 0 THEN 0 ELSE base - Field(space, fit).base
        l1     == IF off = 0 THEN space ELSE SplitAt(space, fit, off)
        x1     == IF off = 0 THEN fit ELSE NextOf(l1, fit)
        down   == base = 0 /\ top
        l2     == SplitAt(l1, x1, IF down THEN Field(l1, x1).size - AlignUp(size)
                                  ELSE AlignUp(size))
        x2     == IF down THEN NextOf(l2, x1) ELSE x1
    IN [list |-> GapSplit(l2, x2, size), region |-> x2]

(* Room for the up to three nodes a call makes: the bound of the model. *)
NodesLeft(l, n) == l.made + n <= MaxNodes

allocSectionAddress(base, size, top) ==
    LET fit == FindFit(base, size, top)
        cut == CutOut(fit, base, size, top)
        x   == cut.region
    IN
    /\ Fine /\ NodesLeft(space, 3)
    /\ base % Align = 0
    /\ IF fit \notin Nodes(space)
       THEN /\ space' = Follow(space, IF fit = 0 THEN space.first ELSE fit)
            /\ UNCHANGED <<given, wish, asked>>
       ELSE /\ space' = SetField(cut.list, x, [Field(cut.list, x) EXCEPT !.typed = TRUE])
            /\ given' = given \cup {x}
            /\ wish' = [wish EXCEPT ![x] = <<base, size>>]
            /\ asked' = [asked EXCEPT ![x] =
                           [a \in 0 .. Room - 1 |-> NOACCESS]]
    /\ UNCHANGED blocks

-----------------------------------------------------------------------------
(* freeSectionAddress *)

MergesWith(l) == {y \in Nodes(l) : Field(l, y).free}

(* Backwards the loop still tests _next: it meets a null pointer, or the   *)
(* region at which the forward loop has stopped.                           *)
MergeBack(l, x) ==
    IF l.fate # "ok" \/ PrevOf(l, x) = 0 THEN l ELSE Follow(l, NextOf(l, x))

(* The client gives back g by its base; the first region of that base is   *)
(* taken, which may be one of size 0 in front of it.                       *)
freeSectionAddress(g) ==
    LET x == FirstFrom(space, space.first,
                 {y \in Nodes(space) : Field(space, y).base >= Field(space, g).base})
        merged == MergeBack(AbsorbWhile(space, x, MergesWith(space)), x)
    IN
    /\ Fine
    /\ g \in given \cap Nodes(space)
    /\ space' = IF merged.fate # "ok" THEN merged
                ELSE SetField(merged, x, [Field(merged, x) EXCEPT !.typed = FALSE,
                                                                  !.free = TRUE])
    /\ blocks' = [y \in Ids |-> IF y = x \/ y \notin Nodes(merged) THEN Empty
                                ELSE blocks[y]]
    /\ given' = given \ {g}
    /\ UNCHANGED <<wish, asked>>

-----------------------------------------------------------------------------
(* VMRegion::vmprotect *)

initBlock(x) ==
    IF blocks[x] # Empty THEN blocks[x]
    ELSE Single([base |-> Field(space, x).base, size |-> Field(space, x).size,
                 prot |-> NOACCESS])

SplitOff(l, p, want) == IF want = 0 \/ want = Field(l, p).size THEN l
                        ELSE SplitAt(l, p, want)

NotYetLast(l) == Nodes(l) \ {l.last}

(* merge(first, last) looks at _first and _last, not at its arguments. *)
merge(l) ==
    LET m == AbsorbWhile(l, l.first, NotYetLast(l)) IN
    IF m.fate = "ok" THEN Follow(m, NextOf(m, m.first)) ELSE m

AnyProtect(l, p) == Nodes(l)

SameProtect(l, p) == {y \in Nodes(l) : Field(l, y).prot = Field(l, p).prot}

mergeSameProtect(l, p) == MergeBack(AbsorbWhile(l, p, SameProtect(l, p)), p)

(* The last protection of the block; p may have been deleted by merge. *)
Protect(l, p, prot) ==
    LET m == Follow(l, p) IN
    IF m.fate # "ok" THEN m
    ELSE mergeSameProtect(SetField(m, p, [Field(m, p) EXCEPT !.prot = prot]), p)

(* The blocks after the call.  A range that runs past the region is        *)
(* refused, when its first block has been cut already.                     *)
Protected(x, base, size, prot) ==
    LET l0    == initBlock(x)
        hit   == EndsAfter(l0, l0.first, base)
        gap   == base - Field(l0, hit).base
        l1    == SplitOff(l0, hit, gap)
        from  == IF gap = 0 THEN hit ELSE NextOf(l1, hit)
        upto  == EndsAfter(l1, from, base + size - 1)
        l2    == SplitOff(l1, upto, base + size - Field(l1, upto).base)
        l3    == IF from # upto THEN merge(l2) ELSE l2
    IN IF upto = 0 THEN l1
       ELSE IF l3.fate # "ok" THEN l3 ELSE Protect(l3, from, prot)

(* The range ends in the block it begins in. *)
WithinBlock(x, base, size) ==
    LET l == initBlock(x) IN
    base + size <= End(l, EndsAfter(l, l.first, base))

vmprotect(x, base, size, prot) ==
    /\ Fine
    /\ x \in given \cap Nodes(space)
    /\ Field(space, x).base <= base /\ base < End(space, x)
    /\ NodesLeft(blocks[x], 3)
    /\ Cardinality({y \in Ids \ {x} : blocks[y] # Empty}) < MaxProtected
    /\ blocks' = [blocks EXCEPT ![x] = Protected(x, base, size, prot)]
    /\ asked' = [asked EXCEPT ![x] =
                    IF WithinBlock(x, base, size) /\ @ # <<>>
                    THEN [a \in 0 .. Room - 1 |->
                            IF a \in base .. base + size - 1 THEN prot ELSE @[a]]
                    ELSE <<>>]
    /\ UNCHANGED <<space, given, wish>>

-----------------------------------------------------------------------------
ASNext ==
    \/ \E base \in {b \in 0 .. Room - 1 : b % Align = 0}, size \in Sizes,
          top \in BOOLEAN : allocSectionAddress(base, size, top)
    \/ \E g \in given : freeSectionAddress(g)
    \/ \E x \in given, base \in 0 .. Room - 1, size \in Sizes, prot \in Prots :
          vmprotect(x, base, size, prot)

ASSpec == ASInit /\ [][ASNext]_asvars
-----------------------------------------------------------------------------
(* Properties *)

InUse == given \cap Nodes(space)

(* Every variable has its type. *)
ASTypeOK ==
    /\ Nodes(space) \subseteq Ids
    /\ space.fate \in {"ok", "null", "dangling"}
    /\ \A x \in Nodes(space) : Field(space, x) \in
          [base : 0 .. Room, size : 0 .. Room, free : BOOLEAN, typed : BOOLEAN]
    /\ DOMAIN blocks = Ids
    /\ given \subseteq Ids

(* While the program has not run into a bad pointer the regions cover the  *)
(* whole space, in order and each once, although linkNext leaves _prev of  *)
(* every second region wrong.  So no page belongs to two regions.          *)
RegionsTile == space.fate = "ok" => Tiles(space, 0, Room)

(* The same of the blocks of a region, after any vmprotect, refused ones   *)
(* and wrongly merged ones included.                                       *)
BlocksTile ==
    Fine => \A x \in Nodes(space) : blocks[x] # Empty =>
               Tiles(blocks[x], Field(space, x).base, Field(space, x).size)

(* A region in use lies where it was asked for, on an aligned address, and *)
(* has the size asked for, whatever was handed out, split off and merged   *)
(* around it.                                                              *)
AllocFits ==
    \A x \in InUse :
       LET f == Field(space, x) IN
       /\ f.size = wish[x][2] /\ f.base % Align = 0
       /\ wish[x][1] # 0 => f.base = wish[x][1]

(* The invariant of the space: types, and what its regions and their       *)
(* blocks cover.                                                           *)
SpaceInv == ASTypeOK /\ RegionsTile /\ BlocksTile /\ AllocFits

(* What has been handed out stays as it is until its holder gives it back, *)
(* save that freeing a region swallows those behind it: their MEM_FREE bit *)
(* is still set.                                                           *)
GivenStays ==
    [][\A x \in InUse : x \notin Nodes(space)' \/ Field(space, x)' # Field(space, x) =>
          \E g \in given \ given' : Field(space, g).base <= Field(space, x).base]_asvars

(* While the program runs a wrong _prev still leads to an earlier region,  *)
(* so that the search from the top ends.                                   *)
PrevLeadsBack ==
    space.fate = "ok" =>
        \A x \in Nodes(space) \ {space.first} :
           /\ PrevOf(space, x) \in Nodes(space) \ {x}
           /\ FirstFrom(space, PrevOf(space, x), {x}) = x

ProtAt(l, a) == Field(l, EndsAfter(l, l.first, a)).prot

(* Calls of vmprotect that stay within a block change the protection of    *)
(* their pages and of no others, unless one meets the null pointer behind  *)
(* the last block.  A call across blocks merges the wrong ones.            *)
ProtectExact ==
    Fine => \A x \in InUse :
       asked[x] # <<>> /\ blocks[x] # Empty =>
          \A a \in Field(space, x).base .. End(space, x) - 1 :
             ProtAt(blocks[x], a) = asked[x][a]
=============================================================================
