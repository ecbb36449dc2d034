----------------------------- MODULE PageTable ------------------------------
(***************************************************************************)
(* The page table of pagetable.h (struct vm::PageTable) on top of the RAM  *)
(* manager, which it shares with other clients.  Its pages are blocks      *)
(* without an owner; a directory entry holds the RAM address its child had *)
(* when it was allocated.  get_pte walks by address and does not look      *)
(* whether the pages are in RAM: load() is what brings them there, each to *)
(* its own address, and locks them.                                        *)
(*                                                                         *)
(* Calls of the table run outside the manager's mutex, so a call is a      *)
(* sequence of steps, one per level or per call of the manager, with steps *)
(* of the other clients between them.  The constant Levels is 4 in the     *)
(* code (pml4, pdp, pd, pt).                                               *)
(***************************************************************************)
EXTENDS RamManager, Sequences

CONSTANTS Levels,       \* levels of the table
          Index,        \* indices of an entry in its page
          Pmas,         \* physical addresses the clients map
          Vmas,         \* virtual pages the clients use: paths of indices
          TablePages,   \* the AddressRef objects of the table
          Written,      \* bound: the data the other clients write
          MaxCalls,     \* bound: the calls of the other clients
          LoadFirst     \* the table's user walks it only after load()

NoEntry == [P |-> FALSE, base |-> 0]
Entry   == [P : BOOLEAN, base : Frames \cup Pmas]

ASSUME PageTableAssumption ==
    /\ Levels \in Nat \ {0}
    /\ Index # {}
    /\ Vmas \subseteq [1 .. Levels -> Index]
    /\ TablePages \subseteq Refs \ Owned
    /\ Written \subseteq Data
    /\ MaxCalls \in Nat
    /\ LoadFirst \in BOOLEAN
    /\ Data = [Index -> Entry]
    /\ Zero = [x \in Index |-> NoEntry]

VARIABLES
    pages,      \* _pages
    loaded,     \* PGT_LOADED in _attr
    ready,      \* the user's own note that the last load() returned true
    garbled,    \* a page of the table began with what a frame's last block left
    made,       \* the calls the other clients have made
    call        \* the call under way

tableVars == <<pages, loaded, ready, garbled>>
pvars == <<vars, tableVars, made, call>>

Idle == [op |-> "idle", vma |-> <<>>, arg |-> 0, level |-> 0, at |-> 0,
         fresh |-> NULL]
Gone == [Idle EXCEPT !.op = "gone"]
Crashed == [Idle EXCEPT !.op = "crashed"]

Others == Refs \ TablePages

-----------------------------------------------------------------------------
(* get_pte *)

Walking == call.op \in {"vmmap", "vmattr", "vmunmap", "get_pma"}

PteAt(i, x) == ram[i][1][x]

(* The entry of the walk's level. *)
Pte == PteAt(call.at, call.vma[call.level])

WritePte(i, x, e) ==
    ram' = [ram EXCEPT ![i] = <<[@[1] EXCEPT ![x] = e], @[2]>>]

OnlyRam == UNCHANGED <<status, refVars, frames, slotVars, file, clientVars>>

(* A call begins at the root; level 0 means that there is none.            *)
Enter(op, vma, arg) ==
    /\ call = Idle
    /\ status # "closed"
    /\ LoadFirst => ready
    /\ pages # <<>> \/ op = "vmmap"
    /\ call' = [op |-> op, vma |-> vma, arg |-> arg, fresh |-> NULL,
                level |-> IF pages = <<>> THEN 0 ELSE 1,
                at |-> IF pages = <<>> THEN 0 ELSE addr[pages[1]]]
    /\ UNCHANGED <<vars, tableVars>>

Descend ==
    /\ Walking /\ call.level \in 1 .. Levels - 1 /\ call.fresh = NULL
    /\ Pte.P
    /\ call' = [call EXCEPT !.at = Pte.base, !.level = @ + 1]
    /\ UNCHANGED <<vars, tableVars>>

NotFound ==
    /\ Walking /\ call.level \in 1 .. Levels - 1 /\ call.fresh = NULL
    /\ ~Pte.P
    /\ call.op # "vmmap"
    /\ call' = Idle
    /\ UNCHANGED <<vars, tableVars>>

NeedsPage ==
    /\ call.op = "vmmap" /\ call.fresh = NULL
    /\ call.level \in 0 .. Levels - 1
    /\ call.level > 0 => ~Pte.P

AllocUnlocked(p) == RamAllocAddress(p, {})

alloc_pgt_block(p) ==
    RamAllocAddress(p, IF loaded THEN {"LOCKED"} ELSE {})

(* The new page is the root, or waits in fresh to be entered.  Nothing     *)
(* clears it: the manager zeroes a frame it takes from another block, but  *)
(* a frame that was free comes with what its last block left, and these    *)
(* bytes are the page's entries.                                           *)
AllocPage(p) ==
    /\ NeedsPage
    /\ alloc_pgt_block(p)
    /\ flags'[p] # {}
    /\ pages' = Append(pages, p)
    /\ call' = IF call.level = 0
               THEN [call EXCEPT !.level = 1, !.at = addr'[p]]
               ELSE [call EXCEPT !.fresh = p]
    /\ garbled' = (ram'[addr'[p]] # ZeroPage)
    /\ UNCHANGED <<loaded, ready>>

(* vmmap returns E_OUTOFMEMORY and keeps the levels it has added, except   *)
(* that a root that could not be had is dereferenced.                      *)
AllocPageFails(p) ==
    /\ NeedsPage
    /\ \/ alloc_pgt_block(p) /\ flags'[p] = {}
       \/ ~(\E i \in Frames : FindFreeOrSwappableAddress(i)) /\ UNCHANGED vars
    /\ call' = IF call.level = 0 THEN Crashed ELSE Idle
    /\ UNCHANGED tableVars

Link ==
    /\ Walking /\ call.fresh # NULL
    /\ WritePte(call.at, call.vma[call.level],
                [P |-> TRUE, base |-> addr[call.fresh]])
    /\ call' = [call EXCEPT !.at = addr[call.fresh], !.level = @ + 1,
                            !.fresh = NULL]
    /\ OnlyRam
    /\ UNCHANGED tableVars

-----------------------------------------------------------------------------
(* The users of get_pte, once they have the entry *)

AtEntry(op) == call.op = op /\ call.level = Levels /\ call.fresh = NULL

SetPte(e) ==
    /\ WritePte(call.at, call.vma[Levels], e)
    /\ OnlyRam

RemapSilently ==
    /\ AtEntry("vmmap")
    /\ SetPte([P |-> TRUE, base |-> call.arg])

vmmap ==
    /\ AtEntry("vmmap")
    /\ IF Pte.P THEN UNCHANGED vars                      \* E_UNEXPECTED
       ELSE SetPte([P |-> TRUE, base |-> call.arg])

vmattr ==
    /\ AtEntry("vmattr")
    /\ SetPte([Pte EXCEPT !.P = (call.arg = 1)])

vmunmap ==
    /\ AtEntry("vmunmap")
    /\ IF ~Pte.P THEN UNCHANGED vars ELSE SetPte(NoEntry)

get_pma == AtEntry("get_pma") /\ UNCHANGED vars

UsePte ==
    /\ vmmap \/ vmattr \/ vmunmap \/ get_pma
    /\ call' = Idle
    /\ UNCHANGED tableVars

-----------------------------------------------------------------------------
(* load, unload, destroy *)

InOrder(op) == [Idle EXCEPT !.op = op, !.level = 1]

(* "first, mark all ram-block locked" *)
LoadMark ==
    /\ call = Idle
    /\ status # "closed"
    /\ loaded' = TRUE
    /\ ready' = FALSE
    /\ flags' = [r \in Refs |-> IF \E k \in DOMAIN pages : pages[k] = r
                                THEN flags[r] \cup {"LOCKED"} ELSE flags[r]]
    /\ call' = InOrder("load")
    /\ UNCHANGED <<status, addr, pfidx, frames, slotVars, ram, file, clientVars,
                   pages, garbled>>

(* SwapRamAndPageFile refuses to displace a locked block, and without a    *)
(* page file cannot seek.                                                  *)
SwapInRefused(p) ==
    LET i == addr[p] IN
    \/ SeekFails
    \/ frames[i] # NULL /\ ~Swappable(i)

(* "next, swap-in all page-table blocks", one at a time. *)
LoadPage ==
    /\ call.op = "load" /\ call.level <= Len(pages)
    /\ LET p == pages[call.level] IN
       \/ /\ ~Swapped(p)
          /\ UNCHANGED vars
          /\ call' = [call EXCEPT !.level = @ + 1]
       \/ /\ RamSwapIn(p)
          /\ call' = IF "SWAPPED" \in flags'[p] THEN Idle
                     ELSE [call EXCEPT !.level = @ + 1]
       \/ /\ Swapped(p) /\ SwapInRefused(p)
          /\ UNCHANGED vars
          /\ call' = Idle
    /\ UNCHANGED tableVars

LoadReturns ==
    /\ call.op = "load" /\ call.level > Len(pages)
    /\ ready' = TRUE
    /\ call' = Idle
    /\ UNCHANGED <<vars, pages, loaded, garbled>>

unload ==
    /\ call = Idle
    /\ loaded
    /\ loaded' = FALSE
    /\ ready' = FALSE
    /\ flags' = [r \in Refs |-> IF \E k \in DOMAIN pages : pages[k] = r
                                THEN flags[r] \ {"LOCKED"} ELSE flags[r]]
    /\ UNCHANGED <<status, addr, pfidx, frames, slotVars, ram, file, clientVars,
                   pages, garbled, call>>

(* The destructor frees the pages one by one. *)
destroy ==
    /\ call = Idle
    /\ call' = InOrder("destroy")
    /\ UNCHANGED <<vars, tableVars>>

DestroyPage ==
    /\ call.op = "destroy" /\ call.level <= Len(pages)
    /\ RamFreeAddress(pages[call.level])
    /\ call' = [call EXCEPT !.level = @ + 1]
    /\ UNCHANGED tableVars

DestroyReturns ==
    /\ call.op = "destroy" /\ call.level > Len(pages)
    /\ pages' = <<>>
    /\ loaded' = FALSE
    /\ ready' = FALSE
    /\ call' = Gone
    /\ UNCHANGED <<vars, garbled>>

-----------------------------------------------------------------------------
PtInit ==
    /\ Init
    /\ pages = <<>>
    /\ loaded = FALSE
    /\ ready = FALSE
    /\ garbled = FALSE
    /\ call = Idle
    /\ made = 0

Walk ==
    \/ \E v \in Vmas :
        \/ \E pma \in Pmas : Enter("vmmap", v, pma)
        \/ \E f \in {0, 1} : Enter("vmattr", v, f)
        \/ Enter("vmunmap", v, 0)
        \/ Enter("get_pma", v, 0)
    \/ Descend
    \/ NotFound
    \/ \E p \in TablePages : AllocPage(p) \/ AllocPageFails(p)
    \/ Link
    \/ UsePte

TableNext ==
    \/ Walk
    \/ LoadMark \/ LoadPage \/ LoadReturns
    \/ unload
    \/ destroy \/ DestroyPage \/ DestroyReturns

(* The other clients, sections, private blocks and further page tables,    *)
(* call the manager for their own blocks and write in their own pages.     *)
OtherCall(r) ==
    \/ \E lock \in SUBSET {"LOCKED"} : RamAllocAddress(r, lock)
    \/ RamFreeAddress(r)
    \/ \E bForce \in BOOLEAN : RamSwapOut(r, bForce)
    \/ RamSwapIn(r)
    \/ LockRef(r) \/ UnlockRef(r)
    \/ Translate(r)
    \/ \E d \in Written : ClientWrite(r, d)

OtherNext ==
    /\ \/ Create /\ UNCHANGED made
       \/ /\ \E r \in Others : OtherCall(r)
          /\ made < MaxCalls
          /\ made' = made + 1
    /\ UNCHANGED <<tableVars, call>>

(* What a walk through a garbled page reads and writes is anybody's guess. *)
PtNext ==
    /\ ~garbled
    /\ \/ TableNext /\ UNCHANGED made
       \/ OtherNext

PtSpec == PtInit /\ [][PtNext]_pvars

-----------------------------------------------------------------------------
(* The table as a whole, wherever its pages are *)

Owns(p) == \E k \in DOMAIN pages : pages[k] = p

(* The page of the table whose address is frame i, or NULL. *)
PageAt(i) ==
    LET here == {k \in DOMAIN pages : addr[pages[k]] = i}
    IN IF here = {} THEN NULL ELSE pages[CHOOSE k \in here : TRUE]

Table(p) == Content(p)[1]

(* The page of each level on the path of v, or NULL. *)
Path(v) ==
    LET page[k \in 1 .. Levels] ==
            IF k = 1 THEN pages[1]
            ELSE LET p == page[k - 1]
                 IN IF p = NULL \/ ~Table(p)[v[k - 1]].P THEN NULL
                    ELSE PageAt(Table(p)[v[k - 1]].base)
    IN page

Destroyed == pages = <<>> \/ call.op = "destroy"

FlatEntry(v) ==
    LET p == Path(v)[Levels]
    IN IF Destroyed \/ p = NULL THEN NoEntry ELSE Table(p)[v[Levels]]

-----------------------------------------------------------------------------
(* Properties *)

(* The table's variables have their types. *)
PtTypeOK ==
    /\ pages \in Seq(TablePages)
    /\ {loaded, ready, garbled} \subseteq BOOLEAN
    /\ call.op \in {"idle", "gone", "crashed", "load", "destroy",
                    "vmmap", "vmattr", "vmunmap", "get_pma"}
    /\ Walking => /\ call.vma \in Vmas
                  /\ call.level \in 0 .. Levels
                  /\ call.at \in Frames
                  /\ call.fresh \in TablePages \cup {NULL}

(* After load() has returned true every page of the table is in RAM and    *)
(* locked until unload(), whatever the other clients evict.                *)
ReadyInRam ==
    ready /\ call.op # "destroy" =>
        \A k \in DOMAIN pages : Resident(pages[k]) /\ Locked(pages[k])

(* The address a walk holds is that of the page its path leads to, also    *)
(* when other clients evict, free and swap out blocks between two levels,  *)
(* until a page of the table has been given a frame with old contents.     *)
WalkOnCourse ==
    Walking /\ call.level > 0 /\ ~garbled =>
        LET p == Path(call.vma)[call.level]
        IN p # NULL /\ Resident(p) /\ addr[p] = call.at

(* The pages of the table have been allocated at addresses of their own,   *)
(* so that a directory entry names one page.                               *)
DistinctBases ==
    \A j, k \in DOMAIN pages :
        call.op # "destroy" /\ addr[pages[j]] = addr[pages[k]] => j = k

(* The invariant of the table: types, the pages of a loaded table in RAM,  *)
(* and their addresses.                                                    *)
PtInv == PtTypeOK /\ ReadyInRam /\ DistinctBases

(* Until a page of the table has been given a frame with old contents the  *)
(* table's calls change no block of another client, though its walks write *)
(* by addresses alone and the others allocate, free, evict and write.      *)
OthersKeepData ==
    ~garbled => \A r \in Others \ damaged : Content(r) = said[r]

(* Another client has locked the block in the frame p must return to. *)
FrameLockedByOther(p) ==
    \E r \in Others : Locked(r) /\ Resident(r) /\ addr[r] = addr[p]

(* "next, swap-in all page-table blocks": while the page file works, load()*)
(* returns false only because another client, a second page table, has     *)
(* locked a block in the frame of one of the pages.  It is about tables    *)
(* that are loaded before they are walked (LoadFirst).                     *)
LoadBringsAll ==
    [][call.op = "load" /\ status = "open" /\ Faults = {} =>
          \/ call'.op = "load" \/ ready'
          \/ FrameLockedByOther(pages[call.level])]_pvars

Flat == INSTANCE FlatTable
           WITH entry <- [v \in Vmas |-> FlatEntry(v)], lost <- garbled

(* Through evictions, unload() and load(), and allocations that fail half  *)
(* way down, the table keeps one entry per virtual page, and only vmmap,   *)
(* vmattr and vmunmap of that page change it, until one of its pages has   *)
(* been given a frame with old contents.                                   *)
ImplementsFlatTable == Flat!Spec
=============================================================================
