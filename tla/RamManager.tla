----------------------------- MODULE RamManager -----------------------------
(***************************************************************************)
(* The RAM manager of rammgr.h (class vm::RamManager): a fixed array of    *)
(* RAM frames shared by any number of blocks.  A client owns an AddressRef *)
(* per block; the manager keeps the block in a frame or in a slot of the   *)
(* page file, moves it between the two, and tells the block's owner        *)
(* (IAddressOwner::onAddressInvalid) before the block leaves its frame.    *)
(* Every operation runs under mMutex, so each is one step here; RamRace    *)
(* splits the ones that test a flag before they lock.                      *)
(*                                                                         *)
(* An address is its frame number, addr / VM64_PAGE_SIZE.  A page is its   *)
(* data and a bit that says whether CodeBlockPage has been applied an odd  *)
(* number of times.                                                        *)
(***************************************************************************)
EXTENDS Integers, FiniteSets

CONSTANTS Refs,       \* the clients' AddressRef objects
          Owned,      \* those whose owner field is set
          NULL,       \* no reference, no frame, no block
          NumFrames,  \* aFlatPages
          GrowCount,  \* aGrowBlocks
          MaxSlots,   \* bound: the page file is not grown past this
          Data,       \* the data a client writes
          Zero,       \* the data of a zeroed page
          Torn,       \* the data of a page that was read or written in part
          Faults      \* the storage calls that may fail

ASSUME RamAssumption ==
    /\ NumFrames \in Nat \ {0}
    /\ GrowCount \in Nat \ {0}
    /\ MaxSlots \in Nat
    /\ Owned \subseteq Refs
    /\ NULL \notin Refs
    /\ NULL \notin Int
    /\ Zero \in Data
    /\ Torn \notin Data
    /\ Faults \subseteq {"seek", "read", "write"}

Frames == 0 .. NumFrames - 1
Slots  == 0 .. MaxSlots - 1
Flags  == {"VALID", "SWAPPED", "LOCKED"}          \* BLOCK_FLAGS
Page   == (Data \cup {Torn}) \X {0, 1}

ASSUME NoBlockIsNoPage == NULL \notin Page

VARIABLES
    status,     \* "closed", "open", or "nofile" (RAM without a page file)
    flags,      \* AddressRef::flags
    addr,       \* AddressRef::addr
    pfidx,      \* AddressRef::pfidx
    frames,     \* mAddressRefs
    bits,       \* mBlockBitMap.bits()
    used,       \* the bits set in mBlockBitMap
    ram,        \* mRamData
    file,       \* mStoageFile
    view,       \* the frame an owner translates its block to, or NULL
    said,       \* what each client last put in its block, or NULL
    damaged     \* the blocks hit by a failed page-file write

refVars   == <<flags, addr, pfidx>>
slotVars  == <<bits, used>>
clientVars == <<view, said, damaged>>
vars == <<status, flags, addr, pfidx, frames, bits, used, ram, file, view,
          said, damaged>>

-----------------------------------------------------------------------------
Allocated(r) == flags[r] # {}
Swapped(r)   == "SWAPPED" \in flags[r]
Locked(r)    == "LOCKED" \in flags[r]
Resident(r)  == Allocated(r) /\ ~Swapped(r)

(* The exclusive-or of CodeBlockPage is its own inverse. *)
CodeBlockPage(p) == <<p[1], 1 - p[2]>>

ZeroPage == <<Zero, 0>>
TornPage == <<Torn, 0>>

(* What the manager holds for r: the frame, or the decoded slot. *)
Content(r) ==
    IF ~Allocated(r) THEN NULL
    ELSE IF Swapped(r) THEN CodeBlockPage(file[pfidx[r]])
    ELSE ram[addr[r]]

(* onAddressInvalid reaches the block's owner, if it has one. *)
NotTold(r) == view
Told(r) == [view EXCEPT ![r] = IF r \in Owned THEN NULL ELSE @]

-----------------------------------------------------------------------------
(* Opening and closing *)

Init ==
    /\ status = "closed"
    /\ flags = [r \in Refs |-> {}]
    /\ addr = [r \in Refs |-> 0]
    /\ pfidx = [r \in Refs |-> 0]
    /\ frames = [i \in Frames |-> NULL]
    /\ bits = 0
    /\ used = {}
    /\ ram = [i \in Frames |-> ZeroPage]
    /\ file = [s \in Slots |-> ZeroPage]
    /\ view = [r \in Refs |-> NULL]
    /\ said = [r \in Refs |-> NULL]
    /\ damaged = {}

(* When create_file fails the zeroed frames stay in place and usable, with *)
(* no page file and mGrowCount still 0.                                    *)
Create ==
    /\ status = "closed"
    /\ ram' = [i \in Frames |-> ZeroPage]
    /\ file' = [s \in Slots |-> ZeroPage]
    /\ status' \in {"open", "nofile"}
    /\ UNCHANGED <<refVars, frames, slotVars, clientVars>>

(* The clients give their blocks back first (see README). *)
Close ==
    /\ status # "closed"
    /\ \A r \in Refs : ~Allocated(r)
    /\ status' = "closed"
    /\ frames' = [i \in Frames |-> NULL]
    /\ bits' = 0
    /\ used' = {}
    /\ UNCHANGED <<refVars, ram, file, clientVars>>

-----------------------------------------------------------------------------
(* Choosing a frame *)

FreeFrame(i) == status # "closed" /\ frames[i] = NULL

Swappable(i) == frames[i] # NULL /\ ~Locked(frames[i])

(* The scan keeps the first swappable frame and lets a later frame i take  *)
(* its place with a chance of 1/i, which for frame 1 is a certainty: frame *)
(* 0 is the victim only when frame 1 cannot be.                            *)
FindFreeOrSwappableAddress(i) ==
    /\ status # "closed"
    /\ IF \E j \in Frames : frames[j] = NULL
       THEN FreeFrame(i) /\ \A j \in 0 .. i - 1 : frames[j] # NULL
       ELSE /\ Swappable(i)
            /\ i = 0 => ~(1 \in Frames /\ Swappable(1))

-----------------------------------------------------------------------------
(* The page file *)

Growth == IF status = "open" THEN GrowCount ELSE 0    \* mGrowCount

PreAllocNoGrow(s) ==
    /\ s \in 0 .. bits
    /\ s < bits => s \notin used
    /\ \A t \in 0 .. s - 1 : t \in used
    /\ bits' = bits

(* s is the slot handed out: the lowest unused one or, when there is none, *)
(* the first of the slots the bitmap grows by.                             *)
PageFilePreAlloc(s) ==
    /\ s \in 0 .. bits
    /\ s < bits => s \notin used
    /\ \A t \in 0 .. s - 1 : t \in used
    /\ bits' = IF s = bits THEN bits + Growth ELSE bits
    /\ bits' <= MaxSlots

(* The transfer succeeds; the buffer has been encoded in place. *)
StoreToStorage(s, p) ==
    /\ status = "open"
    /\ file' = [file EXCEPT ![s] = CodeBlockPage(p)]

LoadRaw(s) == file[s]
LoadFromStorage(s) == CodeBlockPage(file[s])

SeekFails == status = "nofile" \/ "seek" \in Faults

(* A failed seek changes nothing.  A short write leaves the frame encoded  *)
(* and the slot as it was or torn.  hit are the blocks that lived in the   *)
(* frame and in the slot.                                                  *)
StoreFails(s, i, hit) ==
    \/ SeekFails /\ UNCHANGED <<ram, file, damaged>>
    \/ /\ "write" \in Faults
       /\ status = "open"
       /\ ram' = [ram EXCEPT ![i] = CodeBlockPage(@)]
       /\ \E p \in {file[s], TornPage} : file' = [file EXCEPT ![s] = p]
       /\ damaged' = damaged \cup hit

(* A short read leaves a torn buffer. *)
ReadFails == "read" \in Faults /\ status = "open"

-----------------------------------------------------------------------------
(* Allocation *)

(* The fields RamAllocAddress sets once frame i is free for r. *)
TakeFrame(r, i) ==
    /\ addr' = [addr EXCEPT ![r] = i]
    /\ frames' = [frames EXCEPT ![i] = r]
    /\ said' = [said EXCEPT ![r] = ram'[i]]
    /\ damaged' = damaged \ {r}
    /\ UNCHANGED status

(* A free frame is handed out as it is, with what its last block left. *)
AllocFree(r, i, lock) ==
    /\ FreeFrame(i)
    /\ flags' = [flags EXCEPT ![r] = lock \cup {"VALID"}]
    /\ pfidx' = [pfidx EXCEPT ![r] = 0]
    /\ UNCHANGED <<ram, file, slotVars, view>>
    /\ TakeFrame(r, i)

(* The frame's block goes to a new slot and the frame is zeroed. *)
AllocEvict(r, i, lock) ==
    LET v == frames[i] IN
    /\ Swappable(i)
    /\ \E s \in 0 .. bits :
        /\ PageFilePreAlloc(s)
        /\ StoreToStorage(s, ram[i])
        /\ used' = used \cup {s}
        /\ pfidx' = [pfidx EXCEPT ![v] = s, ![r] = 0]
    /\ view' = Told(v)
    /\ flags' = [flags EXCEPT ![v] = @ \cup {"SWAPPED"},
                              ![r] = lock \cup {"VALID"}]
    /\ ram' = [ram EXCEPT ![i] = ZeroPage]
    /\ TakeFrame(r, i)

(* The bitmap has grown by the time the store fails. *)
AllocStoreFails(i) ==
    /\ Swappable(i)
    /\ \E s \in 0 .. bits :
        /\ PageFilePreAlloc(s)
        /\ StoreFails(s, i, {frames[i]})
    /\ UNCHANGED <<status, refVars, frames, used, view, said>>

RamAllocAddress(r, lock) ==
    /\ ~Allocated(r)
    /\ \E i \in Frames :
        /\ FindFreeOrSwappableAddress(i)
        /\ \/ AllocFree(r, i, lock)
           \/ AllocEvict(r, i, lock)
           \/ AllocStoreFails(i)

-----------------------------------------------------------------------------
(* Release *)

FreeSwapped(r) ==
    /\ Swapped(r)
    /\ pfidx[r] < bits                          \* else E_UNEXPECTED
    /\ used' = used \ {pfidx[r]}
    /\ UNCHANGED <<frames, view>>

FreeKeepsFrame(r) ==
    /\ ~Swapped(r)
    /\ view' = Told(r)
    /\ UNCHANGED <<used, frames>>

FreeResident(r) ==
    /\ ~Swapped(r)
    /\ view' = Told(r)
    /\ frames' = [frames EXCEPT ![addr[r]] = NULL]
    /\ UNCHANGED used

RamFreeAddress(r) ==
    /\ Allocated(r)
    /\ FreeSwapped(r) \/ FreeResident(r)
    /\ flags' = [flags EXCEPT ![r] = {}]
    /\ addr' = [addr EXCEPT ![r] = 0]
    /\ pfidx' = [pfidx EXCEPT ![r] = 0]
    /\ said' = [said EXCEPT ![r] = NULL]
    /\ damaged' = damaged \ {r}
    /\ UNCHANGED <<status, bits, ram, file>>

-----------------------------------------------------------------------------
(* Swapping out *)

(* The part of RamSwapOut that runs under the mutex. *)
SwapOutBody(r) ==
    \E s \in 0 .. bits :
        /\ PageFilePreAlloc(s)
        /\ \/ /\ StoreToStorage(s, ram[addr[r]])
              /\ ram' = [ram EXCEPT ![addr[r]] = CodeBlockPage(@)]
              /\ used' = used \cup {s}
              /\ view' = Told(r)
              /\ pfidx' = [pfidx EXCEPT ![r] = s]
              /\ flags' = [flags EXCEPT ![r] = @ \cup {"SWAPPED"}]
              /\ frames' = [frames EXCEPT ![addr[r]] = NULL]
              /\ UNCHANGED <<status, addr, said, damaged>>
           \/ /\ StoreFails(s, addr[r], {r})
              /\ UNCHANGED <<status, refVars, frames, used, view, said>>

RamSwapOut(r, bForce) ==
    /\ Resident(r)
    /\ Locked(r) => bForce
    /\ SwapOutBody(r)

-----------------------------------------------------------------------------
(* Swapping in: SwapRamAndPageFile(i, r) *)

(* The fields of the incoming block, once its page is in frame i. *)
Bring(r, i) ==
    /\ addr' = [addr EXCEPT ![r] = i]
    /\ frames' = [frames EXCEPT ![i] = r]

LoadClearsFlagFirst(r, i) ==
    /\ FreeFrame(i)
    /\ \/ /\ status = "open"
          /\ ram' = [ram EXCEPT ![i] = LoadFromStorage(pfidx[r])]
       \/ /\ ReadFails
          /\ ram' = [ram EXCEPT ![i] = TornPage]
    /\ Bring(r, i)
    /\ flags' = [flags EXCEPT ![r] = @ \ {"SWAPPED"}]
    /\ pfidx' = [pfidx EXCEPT ![r] = 0]
    /\ UNCHANGED <<status, slotVars, file, clientVars>>

(* The slot of a block that comes back to a free frame stays marked. *)
LoadIntoFree(r, i) ==
    /\ FreeFrame(i)
    /\ \/ /\ status = "open"
          /\ ram' = [ram EXCEPT ![i] = LoadFromStorage(pfidx[r])]
          /\ Bring(r, i)
          /\ flags' = [flags EXCEPT ![r] = @ \ {"SWAPPED"}]
          /\ pfidx' = [pfidx EXCEPT ![r] = 0]
       \/ /\ ReadFails
          /\ ram' = [ram EXCEPT ![i] = TornPage]
          /\ UNCHANGED <<refVars, frames>>
    /\ UNCHANGED <<status, slotVars, file, clientVars>>

(* The two blocks change places: the one in the frame takes over the slot. *)
Exchange(r, i) ==
    LET v == frames[i]
        s == pfidx[r]
    IN
    /\ Swappable(i)
    /\ StoreToStorage(s, ram[i])
    /\ used' = used \cup {s}
    /\ view' = Told(v)
    /\ ram' = [ram EXCEPT ![i] = LoadFromStorage(s)]
    /\ Bring(r, i)
    /\ flags' = [flags EXCEPT ![v] = @ \cup {"SWAPPED"},
                              ![r] = @ \ {"SWAPPED"}]
    /\ pfidx' = [pfidx EXCEPT ![v] = s, ![r] = 0]
    /\ UNCHANGED <<status, bits, said, damaged>>

ExchangeReleasesSlot(r, i) ==
    /\ Swappable(i)
    /\ StoreFails(pfidx[r], i, {r, frames[i]})
    /\ used' = used \ {pfidx[r]}
    /\ UNCHANGED <<status, refVars, frames, bits, view, said>>

(* A failed load has only touched mTemp. *)
ExchangeStoreFails(r, i) ==
    /\ Swappable(i)
    /\ StoreFails(pfidx[r], i, {r, frames[i]})
    /\ UNCHANGED <<status, refVars, frames, slotVars, view, said>>

SwapRamAndPageFile(r, i) ==
    \/ LoadIntoFree(r, i)
    \/ Exchange(r, i)
    \/ ExchangeStoreFails(r, i)

SwapInAnywhere(r, i) == FindFreeOrSwappableAddress(i)

(* Where RamSwapIn puts r: a locked block goes back to its own frame. *)
SwapInFrame(r, i) ==
    IF Locked(r) THEN i = addr[r] ELSE FindFreeOrSwappableAddress(i)

(* The part of RamSwapIn that runs under the mutex. *)
SwapInBody(r) ==
    \E i \in Frames : SwapInFrame(r, i) /\ SwapRamAndPageFile(r, i)

RamSwapIn(r) == Swapped(r) /\ SwapInBody(r)

-----------------------------------------------------------------------------
(* The clients *)

(* PageTable::load and unload set and clear the flag themselves. *)
LockRef(r) ==
    /\ Allocated(r)
    /\ flags' = [flags EXCEPT ![r] = @ \cup {"LOCKED"}]
    /\ UNCHANGED <<status, addr, pfidx, frames, slotVars, ram, file, clientVars>>

UnlockRef(r) ==
    /\ Allocated(r)
    /\ flags' = [flags EXCEPT ![r] = @ \ {"LOCKED"}]
    /\ UNCHANGED <<status, addr, pfidx, frames, slotVars, ram, file, clientVars>>

(* An owner that will be told translates its resident block. *)
Translate(r) ==
    /\ r \in Owned
    /\ Resident(r)
    /\ view' = [view EXCEPT ![r] = addr[r]]
    /\ UNCHANGED <<status, refVars, frames, slotVars, ram, file, said, damaged>>

(* A client writes its page: through its translation, or at pref->addr     *)
(* when it has locked the block and seen it resident.                      *)
ClientWrite(r, d) ==
    /\ \E i \in Frames :
        /\ \/ view[r] = i
           \/ Locked(r) /\ Resident(r) /\ addr[r] = i
        /\ ram' = [ram EXCEPT ![i] = <<d, 0>>]
    /\ said' = [said EXCEPT ![r] = <<d, 0>>]
    /\ UNCHANGED <<status, refVars, frames, slotVars, file, view, damaged>>

-----------------------------------------------------------------------------
RefNext(r) ==
    \/ \E lock \in SUBSET {"LOCKED"} : RamAllocAddress(r, lock)
    \/ RamFreeAddress(r)
    \/ \E bForce \in BOOLEAN : RamSwapOut(r, bForce)
    \/ RamSwapIn(r)
    \/ LockRef(r)
    \/ UnlockRef(r)
    \/ Translate(r)
    \/ \E d \in Data : ClientWrite(r, d)

Next ==
    \/ Create
    \/ Close
    \/ \E r \in Refs : RefNext(r)

Spec == Init /\ [][Next]_vars

-----------------------------------------------------------------------------
(* Properties *)

(* Every variable has its type. *)
TypeOK ==
    /\ status \in {"closed", "open", "nofile"}
    /\ flags \in [Refs -> SUBSET Flags]
    /\ addr \in [Refs -> Frames]
    /\ pfidx \in [Refs -> Nat]
    /\ frames \in [Frames -> Refs \cup {NULL}]
    /\ bits \in 0 .. MaxSlots
    /\ used \subseteq Slots /\ \A s \in used : s < bits
    /\ ram \in [Frames -> Page]
    /\ file \in [Slots -> Page]
    /\ view \in [Refs -> Frames \cup {NULL}]
    /\ said \in [Refs -> Page \cup {NULL}]
    /\ damaged \subseteq Refs

(* mAddressRefs and the AddressRef objects agree: a block that is not      *)
(* swapped holds the frame its addr names, and a frame's entry is a block  *)
(* that is there.  So no two blocks share a frame, after any sequence of   *)
(* allocations, evictions, exchanges, releases and failed transfers.       *)
FrameOwnership ==
    /\ \A r \in Refs : Resident(r) => frames[addr[r]] = r
    /\ \A i \in Frames : frames[i] # NULL =>
           Resident(frames[i]) /\ addr[frames[i]] = i

(* Every block in the page file has a slot of its own that the bitmap      *)
(* marks as used, so that PageFilePreAlloc cannot hand it out again and    *)
(* the E_UNEXPECTED return of RamFreeAddress is never taken.               *)
SlotOwnership ==
    /\ \A r \in Refs : Swapped(r) => pfidx[r] \in used
    /\ \A r, q \in Refs :
           Swapped(r) /\ Swapped(q) /\ pfidx[r] = pfidx[q] => r = q

(* The translation an owner keeps is never stale: whatever moved its block *)
(* out of RAM called onAddressInvalid first.                               *)
NoStaleTranslation ==
    \A r \in Refs : view[r] # NULL => Resident(r) /\ view[r] = addr[r]

(* A block that no failed write has hit holds what its client last put     *)
(* there, wherever it has been moved and with which block it has changed   *)
(* places, encoded or not.                                                 *)
DataIntegrity ==
    \A r \in Refs \ damaged : Content(r) = said[r]

(* A locked block keeps its address as long as it lives, and only a forced *)
(* RamSwapOut of the block itself takes it out of RAM: "locked block must  *)
(* load to alloc-base", "oops, can't save locked block".                   *)
LockedPinned ==
    [][\A r \in Refs : Locked(r) /\ Allocated(r)' =>
          /\ addr'[r] = addr[r]
          /\ Resident(r) /\ ~Resident(r)' => RamSwapOut(r, TRUE)]_vars

Store == INSTANCE BlockStore
            WITH content <- [r \in Refs |-> Content(r)], None <- NULL

(* The manager implements the abstract store: no step changes what a       *)
(* block holds but the client's own allocation, write and release, and a   *)
(* failed write spoils at most the two blocks of the transfer.             *)
ImplementsBlockStore == Store!Spec
=============================================================================
