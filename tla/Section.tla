------------------------------- MODULE Section ------------------------------
(***************************************************************************)
(* KoSection and its views (pagetable.h) beside other clients of the RAM   *)
(* manager.  A section keeps a window of ACTIVE_BLOCKS blocks; the block   *)
(* at offset o lives in slot o % ACTIVE_BLOCKS, which it shares with every *)
(* other offset of the same remainder.  A view that has been given a       *)
(* block's address keeps it until onSectionBlockInvalid names the offset.  *)
(*                                                                         *)
(* Offsets are numbers of pages.  The section takes no lock of its own:    *)
(* get_block is one step for its call of the manager and one for the load, *)
(* with steps of other clients between them.  An offset's page is what     *)
(* load_from_file writes, the offset itself.                               *)
(***************************************************************************)
EXTENDS RamManager

CONSTANTS ACTIVE_BLOCKS,
          BlockOf,      \* _blocks: slot -> AddressRef
          NumOffsets,   \* _size, in pages
          Views         \* the UoView objects: each a [off, size] in pages

Offsets  == 0 .. NumOffsets - 1
SlotIds  == 0 .. ACTIVE_BLOCKS - 1

ASSUME SectionAssumption ==
    /\ ACTIVE_BLOCKS \in Nat \ {0}
    /\ BlockOf \in [SlotIds -> Owned]
    /\ \A j, k \in SlotIds : BlockOf[j] = BlockOf[k] => j = k
    /\ NumOffsets \in Nat \ {0}
    /\ Offsets \subseteq Data
    /\ Views \subseteq [off : Nat, size : Nat]

VARIABLES
    off,        \* _off of each slot
    users,      \* _users
    attached,   \* the views whose _section is set
    kept,       \* the address each view has for an offset, or NULL
    reused,     \* the <<view, offset>> whose slot another offset has taken
    get,        \* the get_block under way
    raced,      \* a block was evicted between the two steps of a get_block
    destroyed

sectionVars == <<off, users, attached, kept, reused, get, raced, destroyed>>
svars == <<vars, sectionVars>>

NoGet == [view |-> NULL, offset |-> 0, fresh |-> FALSE]
Index(o) == o % ACTIVE_BLOCKS
Block(o) == BlockOf[Index(o)]
Blocks   == {BlockOf[k] : k \in SlotIds}
Others   == Refs \ Blocks

SectionInit ==
    /\ Init
    /\ off = [k \in SlotIds |-> 0]
    /\ users = {}
    /\ attached = {}
    /\ kept = [v \in Views |-> [o \in Offsets |-> NULL]]
    /\ reused = {}
    /\ get = NoGet
    /\ raced = FALSE
    /\ destroyed = FALSE

-----------------------------------------------------------------------------
(* Telling the views *)

Hears(v, o) == o >= v.off               \* the view's end is not looked at

TellNobody(ks) == UNCHANGED kept

(* KoSection::onAddressInvalid for the slots ks: every user is told of the *)
(* offset the slot holds now.                                              *)
onAddressInvalid(ks) ==
    kept' = [v \in Views |-> [o \in Offsets |->
                IF v \in users /\ Hears(v, o) /\ \E k \in ks : off[k] = o
                THEN NULL ELSE kept[v][o]]]

(* The section's blocks that a step of the manager has told of. *)
JustTold == {k \in SlotIds : view[BlockOf[k]] # NULL /\ view'[BlockOf[k]] = NULL}

-----------------------------------------------------------------------------
(* Views *)

(* A view must end before the section's last page does. *)
ViewCreate(v) ==
    /\ ~destroyed
    /\ v.off + v.size < NumOffsets
    /\ v \notin attached
    /\ attached' = attached \cup {v}
    /\ users' = users \cup {v}
    /\ UNCHANGED <<vars, off, kept, reused, get, raced, destroyed>>

(* The addresses a view had are of no more use to it. *)
ViewClose(v) ==
    /\ v \in attached
    /\ get.view # v
    /\ attached' = attached \ {v}
    /\ users' = users \ {v}
    /\ kept' = [kept EXCEPT ![v] = [o \in Offsets |-> NULL]]
    /\ reused' = {p \in reused : p[1] # v}
    /\ UNCHANGED <<vars, off, get, raced, destroyed>>

-----------------------------------------------------------------------------
(* get_block *)

Covers(v, o) == v.off <= o /\ o < v.off + v.size

(* The call of the manager: the block is allocated, swapped in, or there.  *)
(* A call that fails, or finds no frame, makes get_block return 0.         *)
GetBlock(v, o) ==
    LET b == Block(o) IN
    /\ v \in users /\ ~destroyed /\ get = NoGet
    /\ status # "closed"
    /\ Covers(v, o)
    /\ \/ Resident(b) /\ UNCHANGED vars
       \/ RamAllocAddress(b, {}) \/ RamSwapIn(b)
    /\ get' = IF Resident(b)'
              THEN [view |-> v, offset |-> o, fresh |-> ~Allocated(b)]
              ELSE NoGet
    /\ onAddressInvalid(JustTold)
    /\ UNCHANGED <<off, users, attached, reused, raced, destroyed>>

LoadAtSlot(o) ==
    /\ ram' = [ram EXCEPT ![Index(o)] = <<o, 0>>]
    /\ said' = [said EXCEPT ![Block(o)] = <<o, 0>>]
    /\ UNCHANGED <<status, refVars, frames, slotVars, file, damaged>>

(* load_from_file writes where the block's addr points. *)
load_from_file(o) ==
    /\ ram' = [ram EXCEPT ![addr[Block(o)]] = <<o, 0>>]
    /\ said' = [said EXCEPT ![Block(o)] = <<o, 0>>]
    /\ UNCHANGED <<status, refVars, frames, slotVars, file, damaged>>

LoadsIfMoved == off[Index(get.offset)] # get.offset

NeedsLoad == get.fresh \/ off[Index(get.offset)] # get.offset

(* Nobody is told that the slot's former offset is gone. *)
GetBlockReturns ==
    LET o == get.offset
        k == Index(o)
        b == Block(o)
    IN
    /\ get # NoGet
    /\ IF NeedsLoad
       THEN /\ load_from_file(o)
            /\ off' = [off EXCEPT ![k] = o]
            /\ reused' = (reused \ {<<get.view, o>>}) \cup
                 {p \in users \X Offsets : kept[p[1]][p[2]] # NULL
                                            /\ Index(p[2]) = k /\ p[2] # o}
       ELSE /\ UNCHANGED <<status, refVars, frames, slotVars, ram, file, said,
                           damaged, off>>
            /\ reused' = reused \ {<<get.view, o>>}
    /\ view' = [view EXCEPT ![b] = addr[b]]
    /\ kept' = [kept EXCEPT ![get.view][o] = addr[b]]
    /\ raced' = (raced \/ ~Resident(b))
    /\ get' = NoGet
    /\ UNCHANGED <<users, attached, destroyed>>

-----------------------------------------------------------------------------
(* close and destroy *)

(* RamFreeAddress for one block of the section. *)
FreeBlock(k) ==
    /\ RamFreeAddress(BlockOf[k])
    /\ onAddressInvalid(JustTold)

(* close() is refused while there are users; it frees block by block. *)
SectionClose(k) ==
    /\ users = {} /\ get = NoGet
    /\ FreeBlock(k)
    /\ UNCHANGED <<off, users, attached, reused, get, raced, destroyed>>

(* destroy() tells every user of every slot, forgets the users and closes. *)
destroy ==
    /\ ~destroyed /\ get = NoGet
    /\ onAddressInvalid(SlotIds)
    /\ users' = {}
    /\ destroyed' = TRUE
    /\ UNCHANGED <<vars, off, attached, reused, get, raced>>

-----------------------------------------------------------------------------
(* The manager's other clients *)

OtherClient ==
    /\ \/ Create
       \/ Close
       \/ \E r \in Others :
            \/ RamAllocAddress(r, {})
            \/ RamFreeAddress(r)
            \/ RamSwapOut(r, FALSE)
            \/ RamSwapIn(r)
       \/ \E k \in SlotIds : RamSwapOut(BlockOf[k], FALSE)
    /\ onAddressInvalid(JustTold)
    /\ UNCHANGED <<off, users, attached, reused, get, raced, destroyed>>

SectionNext ==
    \/ \E v \in Views : ViewCreate(v) \/ ViewClose(v)
                          \/ \E o \in Offsets : GetBlock(v, o)
    \/ GetBlockReturns
    \/ \E k \in SlotIds : SectionClose(k)
    \/ destroy
    \/ OtherClient

SectionSpec == SectionInit /\ [][SectionNext]_svars
-----------------------------------------------------------------------------
(* Properties *)

(* Every variable of the section has its type. *)
SectionTypeOK ==
    /\ off \in [SlotIds -> Offsets]
    /\ users \subseteq attached /\ attached \subseteq Views
    /\ kept \in [Views -> [Offsets -> Frames \cup {NULL}]]
    /\ reused \subseteq Views \X Offsets
    /\ get \in [view : Views \cup {NULL}, offset : Offsets, fresh : BOOLEAN]
    /\ raced \in BOOLEAN /\ destroyed \in BOOLEAN

(* A block that get_block is not about to fill, and that no failed write   *)
(* has hit, holds the page of the offset its slot names, wherever the      *)
(* manager has moved it since: _off and the page change together, whatever *)
(* fails or is evicted on the way.                                         *)
BlockHoldsOffset ==
    ~raced => \A k \in SlotIds :
        LET b == BlockOf[k] IN
        Allocated(b) /\ b \notin damaged /\ (get # NoGet => b # Block(get.offset))
            => Content(b) = <<off[k], 0>>

(* An address that an attached view has kept leads to the page it was      *)
(* given for: eviction, exchange, release and destroy() all reach the view *)
(* through the manager and the section.  get_block itself does not: a slot *)
(* given to another offset leaves the old one's views with its address.    *)
ViewsFresh ==
    ~raced => \A v \in attached, o \in Offsets :
        kept[v][o] # NULL /\ <<v, o>> \notin reused =>
            /\ Resident(Block(o))
            /\ kept[v][o] = addr[Block(o)]
            /\ off[Index(o)] = o

(* No get_block reaches into a page of another client: their blocks hold   *)
(* what they put there, unless one was called in between and evicted the   *)
(* block get_block had brought in.                                         *)
SparesOthers == ~raced => DataIntegrity

(* The clients of a destroyed section keep nothing of it but addresses of  *)
(* offsets it had given up without telling them.                           *)
DestroyTellsAll ==
    destroyed => \A v \in attached, o \in Offsets :
        kept[v][o] # NULL => <<v, o>> \in reused

(* The invariant of the section: types, the window, and what destroy()     *)
(* leaves.                                                                 *)
SectionInv == SectionTypeOK /\ BlockHoldsOffset /\ DestroyTellsAll
=============================================================================
