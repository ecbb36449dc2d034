-------------------------- MODULE RamManagerProofs --------------------------
(***************************************************************************)
(* Proofs about RamManager, for every set of blocks, number of frames and  *)
(* slots, growth and set of failing storage calls.                         *)
(***************************************************************************)
EXTENDS RamManager, TLAPS

-----------------------------------------------------------------------------
(* Pages *)

(* CodeBlockPage maps pages to pages and undoes itself. *)
LEMMA CodeBlockPageInvolution ==
    ASSUME NEW p \in Page
    PROVE  CodeBlockPage(p) \in Page /\ CodeBlockPage(CodeBlockPage(p)) = p
  BY DEF Page, CodeBlockPage

(* The two named pages are pages. *)
LEMMA NamedPages == ZeroPage \in Page /\ TornPage \in Page
  BY RamAssumption DEF ZeroPage, TornPage, Page

-----------------------------------------------------------------------------
(* The inductive invariant *)

(* A block with any flag has BF_VALID, so clearing another leaves one. *)
ValidFlag == \A r \in Refs : Allocated(r) => "VALID" \in flags[r]

(* Only owners that will be told keep a translation. *)
OwnersTranslate == \A r \in Refs : view[r] # NULL => r \in Owned

(* A closed manager has no blocks: its frames are reset without looking. *)
ClosedEmpty == status = "closed" => \A r \in Refs : ~Allocated(r)

(* What the manager keeps whatever its clients do with their translations, *)
(* and the whole invariant.                                                *)
RamCore ==
    /\ TypeOK
    /\ ValidFlag
    /\ OwnersTranslate
    /\ ClosedEmpty
    /\ FrameOwnership
    /\ SlotOwnership

RamInv == RamCore /\ NoStaleTranslation

(* What every operation of the manager does for the invariant. Only a      *)
(* client's write needs the translations; the operations keep what they    *)
(* find.                                                                   *)
CoreKept == RamCore' /\ (NoStaleTranslation => NoStaleTranslation')

(* The slot of a swapped block is one of the bitmap's. *)
LEMMA SlotRange ==
    ASSUME TypeOK, SlotOwnership, NEW r \in Refs, Swapped(r)
    PROVE  pfidx[r] \in Slots /\ pfidx[r] \in used /\ pfidx[r] < bits
  BY DEF TypeOK, SlotOwnership

(* The slot PageFilePreAlloc hands out is in no other block's use. *)
LEMMA FreshSlot ==
    ASSUME TypeOK, NEW s \in 0 .. bits, PageFilePreAlloc(s), status = "open"
    PROVE  /\ s \in Slots
           /\ s \in Nat
           /\ s \notin used
           /\ bits' \in 0 .. MaxSlots
           /\ \A u \in used \cup {s} : u < bits'
  BY RamAssumption DEF TypeOK, PageFilePreAlloc, Growth, Slots

(* Without a file the bitmap does not grow; with one it only grows. *)
LEMMA BitmapGrows ==
    ASSUME TypeOK, NEW s \in 0 .. bits, PageFilePreAlloc(s)
    PROVE  bits' \in 0 .. MaxSlots /\ \A u \in used : u < bits'
  BY RamAssumption DEF TypeOK, PageFilePreAlloc, Growth, Slots

(* The initial state has the invariant. *)
LEMMA RamInit == Init => RamInv
  BY RamAssumption, NamedPages
  DEF Init, RamInv, RamCore, TypeOK, ValidFlag, OwnersTranslate, ClosedEmpty, FrameOwnership,
      SlotOwnership, NoStaleTranslation, Resident,
      Swapped, Allocated, Frames, Slots

(* Create finds no block. *)
LEMMA CreateInv == RamCore /\ Create => CoreKept
  BY RamAssumption, NamedPages
  DEF Create, CoreKept, RamCore, TypeOK, ValidFlag, OwnersTranslate, ClosedEmpty, FrameOwnership,
      SlotOwnership, NoStaleTranslation, Resident,
      Swapped, Allocated, Frames, Slots, refVars, slotVars, clientVars

(* Close finds no block and empties the tables. *)
LEMMA CloseInv == RamCore /\ Close => CoreKept
  BY RamAssumption, NamedPages
  DEF Close, CoreKept, RamCore, TypeOK, ValidFlag, OwnersTranslate, ClosedEmpty, FrameOwnership,
      SlotOwnership, NoStaleTranslation, Resident,
      Swapped, Allocated, Frames, Slots, refVars, slotVars, clientVars

-----------------------------------------------------------------------------
(* The abstract store *)

(* What a block holds is a page; a block that is not allocated holds none. *)
LEMMA ContentType ==
    ASSUME RamCore, NEW r \in Refs
    PROVE  /\ Allocated(r) => Content(r) \in Page /\ Content(r) # NULL
           /\ ~Allocated(r) => Content(r) = NULL
  <1>1. Swapped(r) => CodeBlockPage(file[pfidx[r]]) \in Page
    BY SlotRange, CodeBlockPageInvolution DEF RamCore, TypeOK
  <1>2. ram[addr[r]] \in Page
    BY DEF RamCore, TypeOK
  <1> QED  BY <1>1, <1>2, NoBlockIsNoPage DEF Content

(* The same of the state a step leads to. *)
LEMMA ContentTypeNext ==
    ASSUME RamCore', NEW r \in Refs
    PROVE  /\ Allocated(r)' => Content(r)' \in Page /\ Content(r)' # NULL
           /\ ~Allocated(r)' => Content(r)' = NULL
  <1>1. Swapped(r)' => CodeBlockPage(file[pfidx[r]])' \in Page
    BY CodeBlockPageInvolution DEF RamCore, TypeOK, SlotOwnership, CodeBlockPage
  <1>2. ram'[addr'[r]] \in Page
    BY DEF RamCore, TypeOK
  <1> QED  BY <1>1, <1>2, NoBlockIsNoPage DEF Content

(* A step that changes the content of r alone, or of nothing.              *)
LEMMA ContentOfOne ==
    ASSUME NEW r \in Refs, NEW p,
           \A q \in Refs : Content(q)' = IF q = r THEN p ELSE Content(q)
    PROVE  [q \in Refs |-> Content(q)]' =
               [[q \in Refs |-> Content(q)] EXCEPT ![r] = p]
  OBVIOUS

ContentKept ==
    /\ \A q \in Refs : Content(q)' = Content(q)
    /\ UNCHANGED <<said, damaged>>

(* A step that keeps every content is a stuttering step of the store. *)
LEMMA KeptIsStutter == ContentKept => UNCHANGED Store!svars
  BY DEF ContentKept, Store!svars

(* The initial state is the empty store. *)
LEMMA StoreInit == Init => Store!Init
  BY DEF Init, Store!Init, Content, Allocated

-----------------------------------------------------------------------------
(* Allocation *)

(* A free frame changes hands as it is. *)
LEMMA AllocFreeInv ==
    ASSUME RamCore, NEW r \in Refs, NEW lock \in SUBSET {"LOCKED"},
           ~Allocated(r), NEW i \in Frames, AllocFree(r, i, lock)
    PROVE  CoreKept /\ Store!Alloc(r, ram[i])
  <1> USE RamAssumption
          DEF Allocated, Swapped, Locked, Resident
  <1>1. /\ flags' = [flags EXCEPT ![r] = lock \cup {"VALID"}]
        /\ pfidx' = [pfidx EXCEPT ![r] = 0]
        /\ addr' = [addr EXCEPT ![r] = i]
        /\ frames' = [frames EXCEPT ![i] = r]
        /\ said' = [said EXCEPT ![r] = ram'[i]]
        /\ damaged' = damaged \ {r}
        /\ UNCHANGED <<status, ram, file, bits, used, view>>
        /\ status # "closed" /\ frames[i] = NULL
    BY DEF AllocFree, TakeFrame, FreeFrame, slotVars
  <1>2. TypeOK'
    BY <1>1 DEF RamCore, TypeOK, Flags
  <1>3. ValidFlag' /\ OwnersTranslate' /\ ClosedEmpty'
    BY <1>1 DEF RamCore, ValidFlag, OwnersTranslate, ClosedEmpty
  <1>4. FrameOwnership'
    BY <1>1 DEF RamCore, TypeOK, FrameOwnership
  <1>5. SlotOwnership'
    BY <1>1 DEF RamCore, TypeOK, SlotOwnership
  <1>6. (NoStaleTranslation => NoStaleTranslation')
    BY <1>1 DEF RamCore, TypeOK, NoStaleTranslation
  <1>7. \A q \in Refs : Content(q)' = IF q = r THEN ram[i] ELSE Content(q)
    BY <1>1 DEF RamCore, TypeOK, Content, FrameOwnership
  <1>8. Store!Alloc(r, ram[i])
    BY <1>1, <1>7, ContentOfOne, ContentType DEF Store!Alloc
  <1> QED  BY <1>2, <1>3, <1>4, <1>5, <1>6, <1>8 DEF CoreKept, RamCore

(* The evicted block goes to a slot nobody else uses. *)
LEMMA AllocEvictInv ==
    ASSUME RamCore, NEW r \in Refs, NEW lock \in SUBSET {"LOCKED"},
           ~Allocated(r), NEW i \in Frames, AllocEvict(r, i, lock)
    PROVE  CoreKept /\ Store!Alloc(r, ZeroPage)
  <1> USE RamAssumption
          DEF Allocated, Swapped, Locked, Resident
  <1> DEFINE v == frames[i]
  <1>1. PICK s \in 0 .. bits :
        /\ PageFilePreAlloc(s)
        /\ StoreToStorage(s, ram[i])
        /\ used' = used \cup {s}
        /\ pfidx' = [pfidx EXCEPT ![v] = s, ![r] = 0]
    BY DEF AllocEvict
  <1>2. /\ v \in Refs
        /\ Resident(v)
        /\ addr[v] = i
        /\ v # r
        /\ view' = Told(v)
        /\ flags' = [flags EXCEPT ![v] = @ \cup {"SWAPPED"},
                                 ![r] = lock \cup {"VALID"}]
        /\ ram' = [ram EXCEPT ![i] = ZeroPage]
        /\ addr' = [addr EXCEPT ![r] = i]
        /\ frames' = [frames EXCEPT ![i] = r]
        /\ said' = [said EXCEPT ![r] = ram'[i]]
        /\ damaged' = damaged \ {r}
        /\ UNCHANGED status
    BY DEF AllocEvict, TakeFrame, Swappable, RamCore, TypeOK, FrameOwnership
  <1>3. /\ status = "open"
        /\ file' = [file EXCEPT ![s] = CodeBlockPage(ram[i])]
    BY <1>1 DEF StoreToStorage
  <1>4. /\ s \in Slots /\ s \in Nat /\ s \notin used
        /\ bits' \in 0 .. MaxSlots
        /\ \A u \in used \cup {s} : u < bits'
    BY <1>1, <1>3, FreshSlot DEF RamCore
  <1>5. ram[i] \in Page /\ CodeBlockPage(ram[i]) \in Page
        /\ CodeBlockPage(CodeBlockPage(ram[i])) = ram[i]
    BY CodeBlockPageInvolution DEF RamCore, TypeOK
  <1>6. TypeOK'
    <2>1. flags' \in [Refs -> SUBSET Flags] /\ pfidx' \in [Refs -> Nat]
      BY <1>1, <1>2, <1>4 DEF RamCore, TypeOK, Flags
    <2>2. addr' \in [Refs -> Frames] /\ frames' \in [Frames -> Refs \cup {NULL}]
      BY <1>2 DEF RamCore, TypeOK
    <2>3. /\ bits' \in 0 .. MaxSlots
          /\ used' \subseteq Slots /\ \A u \in used' : u < bits'
      BY <1>1, <1>4 DEF RamCore, TypeOK
    <2>4. ram' \in [Frames -> Page] /\ file' \in [Slots -> Page]
      BY <1>2, <1>3, <1>5, NamedPages DEF RamCore, TypeOK
    <2>5. view' \in [Refs -> Frames \cup {NULL}]
      BY <1>2 DEF RamCore, TypeOK, Told
    <2>6. said' \in [Refs -> Page \cup {NULL}] /\ damaged' \subseteq Refs
      BY <1>2, <2>4 DEF RamCore, TypeOK
    <2> QED  BY <1>2, <2>1, <2>2, <2>3, <2>4, <2>5, <2>6 DEF RamCore, TypeOK
  <1>7. ValidFlag' /\ OwnersTranslate' /\ ClosedEmpty'
    BY <1>2, <1>3 DEF RamCore, TypeOK, ValidFlag, OwnersTranslate, ClosedEmpty, Told
  <1>8. FrameOwnership'
    BY <1>2 DEF RamCore, TypeOK, FrameOwnership
  <1>9. SlotOwnership'
    BY <1>1, <1>2, <1>4 DEF RamCore, TypeOK, SlotOwnership
  <1>10. (NoStaleTranslation => NoStaleTranslation')
    BY <1>2 DEF RamCore, TypeOK, NoStaleTranslation, OwnersTranslate, Told
  <1>11. \A q \in Refs : Content(q)' = IF q = r THEN ZeroPage ELSE Content(q)
    <2> SUFFICES ASSUME NEW q \in Refs
                 PROVE  Content(q)' = IF q = r THEN ZeroPage ELSE Content(q)
      OBVIOUS
    <2>1. CASE q = r
      BY <1>2, <2>1 DEF RamCore, TypeOK, Content
    <2>2. CASE q = v
      BY <1>1, <1>2, <1>3, <1>4, <1>5, <2>2 DEF RamCore, TypeOK, Content
    <2>3. CASE q # r /\ q # v /\ Swapped(q)
      <3>1. pfidx[q] \in Slots /\ pfidx[q] # s
        BY <1>4, <2>3, SlotRange DEF RamCore, SlotOwnership
      <3> QED
        BY <1>1, <1>2, <1>3, <2>3, <3>1 DEF RamCore, TypeOK, Content
    <2>4. CASE q # r /\ q # v /\ ~Swapped(q)
      BY <1>2, <2>4 DEF RamCore, TypeOK, Content, FrameOwnership
    <2> QED  BY <2>1, <2>2, <2>3, <2>4
  <1>12. said' = [said EXCEPT ![r] = ZeroPage]
    BY <1>2 DEF RamCore, TypeOK
  <1>13. Store!Alloc(r, ZeroPage)
    BY <1>2, <1>11, <1>12, ContentOfOne, ContentType DEF Store!Alloc
  <1> QED  BY <1>6, <1>7, <1>8, <1>9, <1>10, <1>13 DEF CoreKept, RamCore

-----------------------------------------------------------------------------
(* Failed transfers *)

(* A failed store, in a frame and to a slot whose blocks are all in hit,   *)
(* disturbs the data of no other block.                                    *)
LEMMA StoreFailsInv ==
    ASSUME RamCore, NEW s, NEW i \in Frames, NEW hit \in SUBSET Refs,
           StoreFails(s, i, hit),
           frames[i] \in hit, \A q \in hit : Allocated(q),
           \A q \in Refs : Swapped(q) /\ pfidx[q] = s => q \in hit,
           UNCHANGED <<status, refVars, frames, used, view, said>>,
           bits' \in 0 .. MaxSlots, \A u \in used : u < bits'
    PROVE  CoreKept /\ (ContentKept \/ Store!Damage(hit))
  <1> USE DEF Allocated, Swapped, Locked, Resident
  <1>1. UNCHANGED <<status, flags, addr, pfidx, frames, used, view, said>>
    BY DEF refVars
  <1>3. ValidFlag' /\ OwnersTranslate' /\ ClosedEmpty' /\ FrameOwnership' /\ (NoStaleTranslation => NoStaleTranslation')
    BY <1>1 DEF RamCore, ValidFlag, OwnersTranslate, ClosedEmpty, FrameOwnership,
                NoStaleTranslation
  <1>4. SlotOwnership'
    BY <1>1 DEF RamCore, SlotOwnership
  <1>2. CASE UNCHANGED <<ram, file, damaged>>
    <2>1. TypeOK' /\ ContentKept
      BY <1>1, <1>2 DEF RamCore, TypeOK, ContentKept, Content
    <2> QED  BY <1>3, <1>4, <2>1 DEF CoreKept, RamCore
  <1>5. CASE /\ ram' = [ram EXCEPT ![i] = CodeBlockPage(@)]
             /\ \E p \in {file[s], TornPage} : file' = [file EXCEPT ![s] = p]
             /\ damaged' = damaged \cup hit
    <2>1. CodeBlockPage(ram[i]) \in Page
      BY CodeBlockPageInvolution DEF RamCore, TypeOK
    <2>2. TypeOK'
      <3>1. ram' \in [Frames -> Page] /\ damaged' \subseteq Refs
        BY <1>5, <2>1 DEF RamCore, TypeOK
      <3>2. file' \in [Slots -> Page]
        BY <1>5, NamedPages DEF RamCore, TypeOK
      <3> QED  BY <1>1, <3>1, <3>2 DEF RamCore, TypeOK
    <2>3. CoreKept
      BY <1>3, <1>4, <2>2 DEF CoreKept, RamCore
    <2>4. ASSUME NEW q \in Refs, q \notin hit  PROVE Content(q)' = Content(q)
      <3>1. CASE Swapped(q)
        <4>1. pfidx[q] \in Slots /\ pfidx[q] # s
          BY <2>4, <3>1, SlotRange DEF RamCore
        <4> QED
          BY <1>1, <1>5, <2>4, <3>1, <4>1 DEF RamCore, TypeOK, Content
      <3>2. CASE ~Swapped(q)
        BY <1>1, <1>5, <2>4, <3>2 DEF RamCore, TypeOK, Content, FrameOwnership
      <3> QED  BY <3>1, <3>2
    <2>5. \A q \in Refs : Content(q)' \in Page \cup {NULL}
      BY <2>3, ContentTypeNext DEF CoreKept
    <2>6. \A q \in hit : Content(q) # NULL /\ Content(q)' # NULL
      BY <1>1, <2>3, ContentType, ContentTypeNext DEF CoreKept
    <2>7. Store!Damage(hit)
      BY <1>1, <1>5, <2>4, <2>5, <2>6 DEF Store!Damage
    <2> QED  BY <2>3, <2>7
  <1> QED  BY <1>2, <1>5 DEF StoreFails

(* A slot fresh from PageFilePreAlloc holds no block. *)
LEMMA NobodyInFreshSlot ==
    ASSUME RamCore, NEW s \in 0 .. bits, PageFilePreAlloc(s)
    PROVE  \A q \in Refs : Swapped(q) => pfidx[q] # s
  <1> SUFFICES ASSUME NEW q \in Refs, Swapped(q), pfidx[q] = s  PROVE FALSE
    OBVIOUS
  <1>1. s \in used /\ s < bits
    BY SlotRange DEF RamCore
  <1> QED  BY <1>1 DEF PageFilePreAlloc

(* The allocation fails and the victim stays where it is. *)
LEMMA AllocStoreFailsInv ==
    ASSUME RamCore, NEW i \in Frames, AllocStoreFails(i)
    PROVE  CoreKept /\ (ContentKept \/ Store!Damage({frames[i]}))
  <1>1. PICK s \in 0 .. bits :
        PageFilePreAlloc(s) /\ StoreFails(s, i, {frames[i]})
    BY DEF AllocStoreFails
  <1>2. {frames[i]} \in SUBSET Refs /\ \A q \in {frames[i]} : Allocated(q)
    BY DEF AllocStoreFails, Swappable, RamCore, TypeOK, FrameOwnership, Resident
  <1>3. \A q \in Refs : Swapped(q) => pfidx[q] # s
    BY <1>1, NobodyInFreshSlot
  <1>4. bits' \in 0 .. MaxSlots /\ \A u \in used : u < bits'
    BY <1>1, BitmapGrows DEF RamCore
  <1>5. UNCHANGED <<status, refVars, frames, used, view, said>>
    BY DEF AllocStoreFails
  <1> QED  BY <1>1, <1>2, <1>3, <1>4, <1>5, StoreFailsInv

(* RamAllocAddress gives its caller a block, or spoils a victim, or fails. *)
LEMMA AllocInv ==
    ASSUME RamCore, NEW r \in Refs, NEW lock \in SUBSET {"LOCKED"},
           RamAllocAddress(r, lock)
    PROVE  CoreKept /\ [Store!Next]_(Store!svars)
  <1>1. PICK i \in Frames : \/ AllocFree(r, i, lock)
                           \/ AllocEvict(r, i, lock)
                           \/ AllocStoreFails(i)
    BY DEF RamAllocAddress
  <1>2. ~Allocated(r)
    BY DEF RamAllocAddress
  <1>3. ram[i] \in Page /\ ZeroPage \in Page
    BY NamedPages DEF RamCore, TypeOK
  <1>4. CASE AllocFree(r, i, lock)
    BY <1>2, <1>3, <1>4, AllocFreeInv DEF Store!Next
  <1>5. CASE AllocEvict(r, i, lock)
    BY <1>2, <1>3, <1>5, AllocEvictInv DEF Store!Next
  <1>6. CASE AllocStoreFails(i)
    <2>1. CoreKept /\ (ContentKept \/ Store!Damage({frames[i]}))
      BY <1>6, AllocStoreFailsInv
    <2>2. {frames[i]} \in SUBSET Refs
      BY <1>6 DEF AllocStoreFails, Swappable, RamCore, TypeOK
    <2> QED  BY <2>1, <2>2, KeptIsStutter DEF Store!Next
  <1> QED  BY <1>1, <1>4, <1>5, <1>6

-----------------------------------------------------------------------------
(* Release *)

(* The slot or the frame of the block becomes free, and no other. *)
LEMMA FreeInv ==
    ASSUME RamCore, NEW r \in Refs, RamFreeAddress(r)
    PROVE  CoreKept /\ Store!Free(r)
  <1> USE RamAssumption DEF Allocated, Swapped, Locked, Resident
  <1>1. /\ Allocated(r)
        /\ flags' = [flags EXCEPT ![r] = {}]
        /\ addr' = [addr EXCEPT ![r] = 0]
        /\ pfidx' = [pfidx EXCEPT ![r] = 0]
        /\ said' = [said EXCEPT ![r] = NULL]
        /\ damaged' = damaged \ {r}
        /\ UNCHANGED <<status, bits, ram, file>>
    BY DEF RamFreeAddress
  <1>2. \/ Swapped(r) /\ used' = used \ {pfidx[r]} /\ UNCHANGED <<frames, view>>
        \/ /\ ~Swapped(r)
           /\ view' = Told(r)
           /\ frames' = [frames EXCEPT ![addr[r]] = NULL]
           /\ UNCHANGED used
    BY DEF RamFreeAddress, FreeSwapped, FreeResident
  <1>3. TypeOK'
    <2>1. flags' \in [Refs -> SUBSET Flags] /\ pfidx' \in [Refs -> Nat]
      BY <1>1 DEF RamCore, TypeOK
    <2>2. addr' \in [Refs -> Frames]
      BY <1>1 DEF RamCore, TypeOK, Frames
    <2>3. frames' \in [Frames -> Refs \cup {NULL}]
      BY <1>2 DEF RamCore, TypeOK
    <2>4. used' \subseteq used /\ view' \in [Refs -> Frames \cup {NULL}]
      BY <1>2 DEF RamCore, TypeOK, Told
    <2>5. said' \in [Refs -> Page \cup {NULL}] /\ damaged' \subseteq Refs
      BY <1>1 DEF RamCore, TypeOK
    <2> QED  BY <1>1, <2>1, <2>2, <2>3, <2>4, <2>5 DEF RamCore, TypeOK
  <1>4. ValidFlag' /\ OwnersTranslate' /\ ClosedEmpty'
    BY <1>1, <1>2 DEF RamCore, TypeOK, ValidFlag, OwnersTranslate, ClosedEmpty, Told
  <1>5. FrameOwnership'
    BY <1>1, <1>2 DEF RamCore, TypeOK, FrameOwnership
  <1>6. SlotOwnership'
    BY <1>1, <1>2 DEF RamCore, TypeOK, SlotOwnership
  <1>7. (NoStaleTranslation => NoStaleTranslation')
    BY <1>1, <1>2
    DEF RamCore, TypeOK, NoStaleTranslation, OwnersTranslate, Told
  <1>8. \A q \in Refs : Content(q)' = IF q = r THEN NULL ELSE Content(q)
    BY <1>1 DEF RamCore, TypeOK, Content
  <1>9. Store!Free(r)
    BY <1>1, <1>8, ContentOfOne, ContentType DEF Store!Free
  <1> QED  BY <1>3, <1>4, <1>5, <1>6, <1>7, <1>9 DEF CoreKept, RamCore

-----------------------------------------------------------------------------
(* Swapping *)

(* A block moves from its frame to a slot nobody else uses. *)
LEMMA SwapOutBodyInv ==
    ASSUME RamCore, NEW r \in Refs, Resident(r), SwapOutBody(r)
    PROVE  CoreKept /\ (ContentKept \/ Store!Damage({r}))
  <1> USE RamAssumption DEF Allocated, Swapped, Locked, Resident
  <1> DEFINE i == addr[r]
  <1>1. PICK s \in 0 .. bits :
        /\ PageFilePreAlloc(s)
        /\ \/ /\ StoreToStorage(s, ram[i])
              /\ ram' = [ram EXCEPT ![i] = CodeBlockPage(@)]
              /\ used' = used \cup {s}
              /\ view' = Told(r)
              /\ pfidx' = [pfidx EXCEPT ![r] = s]
              /\ flags' = [flags EXCEPT ![r] = @ \cup {"SWAPPED"}]
              /\ frames' = [frames EXCEPT ![i] = NULL]
              /\ UNCHANGED <<status, addr, said, damaged>>
           \/ /\ StoreFails(s, i, {r})
              /\ UNCHANGED <<status, refVars, frames, used, view, said>>
    BY DEF SwapOutBody
  <1>2. i \in Frames /\ frames[i] = r
    BY DEF RamCore, TypeOK, FrameOwnership
  <1>3. CASE /\ StoreToStorage(s, ram[i])
             /\ ram' = [ram EXCEPT ![i] = CodeBlockPage(@)]
             /\ used' = used \cup {s}
             /\ view' = Told(r)
             /\ pfidx' = [pfidx EXCEPT ![r] = s]
             /\ flags' = [flags EXCEPT ![r] = @ \cup {"SWAPPED"}]
             /\ frames' = [frames EXCEPT ![i] = NULL]
             /\ UNCHANGED <<status, addr, said, damaged>>
    <2>1. /\ status = "open"
          /\ file' = [file EXCEPT ![s] = CodeBlockPage(ram[i])]
      BY <1>3 DEF StoreToStorage
    <2>2. /\ s \in Slots /\ s \in Nat /\ s \notin used
          /\ bits' \in 0 .. MaxSlots
          /\ \A u \in used \cup {s} : u < bits'
      BY <1>1, <2>1, FreshSlot DEF RamCore
    <2>3. ram[i] \in Page /\ CodeBlockPage(ram[i]) \in Page
          /\ CodeBlockPage(CodeBlockPage(ram[i])) = ram[i]
      BY <1>2, CodeBlockPageInvolution DEF RamCore, TypeOK
    <2>4. TypeOK'
      <3>1. flags' \in [Refs -> SUBSET Flags] /\ pfidx' \in [Refs -> Nat]
        BY <1>3, <2>2 DEF RamCore, TypeOK, Flags
      <3>2. frames' \in [Frames -> Refs \cup {NULL}]
        BY <1>3 DEF RamCore, TypeOK
      <3>3. /\ bits' \in 0 .. MaxSlots
            /\ used' \subseteq Slots /\ \A u \in used' : u < bits'
        BY <1>3, <2>2 DEF RamCore, TypeOK
      <3>4. ram' \in [Frames -> Page] /\ file' \in [Slots -> Page]
        BY <1>3, <2>1, <2>3 DEF RamCore, TypeOK
      <3>5. view' \in [Refs -> Frames \cup {NULL}]
        BY <1>3 DEF RamCore, TypeOK, Told
      <3> QED  BY <1>3, <3>1, <3>2, <3>3, <3>4, <3>5 DEF RamCore, TypeOK
    <2>5. ValidFlag' /\ OwnersTranslate' /\ ClosedEmpty'
      BY <1>3, <2>1 DEF RamCore, TypeOK, ValidFlag, OwnersTranslate, ClosedEmpty, Told
    <2>6. FrameOwnership'
      BY <1>2, <1>3 DEF RamCore, TypeOK, FrameOwnership
    <2>7. SlotOwnership'
      BY <1>3, <2>2 DEF RamCore, TypeOK, SlotOwnership
    <2>8. (NoStaleTranslation => NoStaleTranslation')
      BY <1>3 DEF RamCore, TypeOK, NoStaleTranslation, OwnersTranslate, Told
    <2>9. ContentKept
      <3> SUFFICES ASSUME NEW q \in Refs  PROVE Content(q)' = Content(q)
        BY <1>3 DEF ContentKept
      <3>1. CASE q = r
        BY <1>2, <1>3, <2>1, <2>2, <2>3, <3>1 DEF RamCore, TypeOK, Content
      <3>2. CASE q # r /\ Swapped(q)
        <4>1. pfidx[q] \in Slots /\ pfidx[q] # s
          BY <2>2, <3>2, SlotRange DEF RamCore
        <4> QED
          BY <1>3, <2>1, <3>2, <4>1 DEF RamCore, TypeOK, Content
      <3>3. CASE q # r /\ ~Swapped(q)
        BY <1>2, <1>3, <3>3 DEF RamCore, TypeOK, Content, FrameOwnership
      <3> QED  BY <3>1, <3>2, <3>3
    <2> QED  BY <2>4, <2>5, <2>6, <2>7, <2>8, <2>9 DEF CoreKept, RamCore
  <1>4. CASE /\ StoreFails(s, i, {r})
             /\ UNCHANGED <<status, refVars, frames, used, view, said>>
    <2>1. \A q \in Refs : Swapped(q) => pfidx[q] # s
      BY <1>1, NobodyInFreshSlot
    <2>2. bits' \in 0 .. MaxSlots /\ \A u \in used : u < bits'
      BY <1>1, BitmapGrows DEF RamCore
    <2>3. /\ {r} \in SUBSET Refs /\ frames[i] \in {r}
          /\ \A q \in {r} : Allocated(q)
      BY <1>2
    <2> QED  BY <1>2, <1>4, <2>1, <2>2, <2>3, StoreFailsInv
  <1> QED  BY <1>1, <1>3, <1>4

(* RamSwapOut, forced or not. *)
LEMMA SwapOutInv ==
    ASSUME RamCore, NEW r \in Refs, NEW bForce, RamSwapOut(r, bForce)
    PROVE  CoreKept /\ [Store!Next]_(Store!svars)
  <1>1. CoreKept /\ (ContentKept \/ Store!Damage({r}))
    BY SwapOutBodyInv DEF RamSwapOut
  <1> QED  BY <1>1, KeptIsStutter DEF Store!Next

(* A block comes back to a free frame; its slot stays marked. *)
LEMMA LoadIntoFreeInv ==
    ASSUME RamCore, NEW r \in Refs, Swapped(r), NEW i \in Frames,
           LoadIntoFree(r, i)
    PROVE  CoreKept /\ ContentKept
  <1> USE RamAssumption DEF Allocated, Swapped, Locked, Resident
  <1>1. /\ frames[i] = NULL
        /\ UNCHANGED <<status, bits, used, file, view, said, damaged>>
    BY DEF LoadIntoFree, FreeFrame, slotVars, clientVars
  <1>2. /\ pfidx[r] \in Slots
        /\ LoadFromStorage(pfidx[r]) \in Page
    BY SlotRange, CodeBlockPageInvolution DEF RamCore, TypeOK, LoadFromStorage
  <1>3. CASE /\ ram' = [ram EXCEPT ![i] = LoadFromStorage(pfidx[r])]
             /\ Bring(r, i)
             /\ flags' = [flags EXCEPT ![r] = @ \ {"SWAPPED"}]
             /\ pfidx' = [pfidx EXCEPT ![r] = 0]
    <2>1. /\ addr' = [addr EXCEPT ![r] = i]
          /\ frames' = [frames EXCEPT ![i] = r]
      BY <1>3 DEF Bring
    <2>0. Resident(r)' /\ \A q \in Refs : q # r => flags'[q] = flags[q]
      BY <1>3 DEF RamCore, TypeOK, ValidFlag
    <2>2. TypeOK'
      <3>1. flags' \in [Refs -> SUBSET Flags] /\ pfidx' \in [Refs -> Nat]
        BY <1>3 DEF RamCore, TypeOK
      <3>2. addr' \in [Refs -> Frames] /\ frames' \in [Frames -> Refs \cup {NULL}]
        BY <2>1 DEF RamCore, TypeOK
      <3>3. ram' \in [Frames -> Page]
        BY <1>2, <1>3 DEF RamCore, TypeOK
      <3> QED  BY <1>1, <3>1, <3>2, <3>3 DEF RamCore, TypeOK
    <2>3. ValidFlag' /\ OwnersTranslate' /\ ClosedEmpty'
      BY <1>1, <1>3 DEF RamCore, TypeOK, ValidFlag, OwnersTranslate, ClosedEmpty
    <2>4. FrameOwnership'
      BY <1>1, <2>0, <2>1 DEF RamCore, TypeOK, FrameOwnership
    <2>5. SlotOwnership'
      <3>1. \A q \in Refs : Swapped(q)' => Swapped(q) /\ pfidx'[q] = pfidx[q]
        BY <1>3 DEF RamCore, TypeOK
      <3> QED  BY <1>1, <3>1 DEF RamCore, SlotOwnership
    <2>6. (NoStaleTranslation => NoStaleTranslation')
      BY <1>1, <1>3, <2>1 DEF RamCore, TypeOK, NoStaleTranslation
    <2>7. ContentKept
      <3> SUFFICES ASSUME NEW q \in Refs  PROVE Content(q)' = Content(q)
        BY <1>1 DEF ContentKept
      <3>1. CASE q = r
        <4>1. Content(q) = LoadFromStorage(pfidx[r])
          BY <3>1 DEF Content, LoadFromStorage
        <4>2. Content(q)' = LoadFromStorage(pfidx[r])
          BY <1>3, <2>0, <2>1, <3>1 DEF RamCore, TypeOK, Content
        <4> QED  BY <4>1, <4>2
      <3>2. CASE q # r
        BY <1>1, <1>3, <2>0, <2>1, <3>2
        DEF RamCore, TypeOK, Content, FrameOwnership
      <3> QED  BY <3>1, <3>2
    <2> QED  BY <2>2, <2>3, <2>4, <2>5, <2>6, <2>7 DEF CoreKept, RamCore
  <1>4. CASE /\ ram' = [ram EXCEPT ![i] = TornPage]
             /\ UNCHANGED <<refVars, frames>>
    <2>1. UNCHANGED <<flags, addr, pfidx, frames>>
      BY <1>4 DEF refVars
    <2>2. TypeOK'
      BY <1>1, <1>4, <2>1, NamedPages DEF RamCore, TypeOK
    <2>3. /\ ValidFlag' /\ OwnersTranslate' /\ ClosedEmpty' /\ FrameOwnership'
          /\ SlotOwnership' /\ (NoStaleTranslation => NoStaleTranslation')
      BY <1>1, <2>1 DEF RamCore, ValidFlag, OwnersTranslate, ClosedEmpty, FrameOwnership,
                        SlotOwnership, NoStaleTranslation
    <2>4. ContentKept
      BY <1>1, <1>4, <2>1 DEF RamCore, TypeOK, ContentKept, Content, FrameOwnership
    <2> QED  BY <2>2, <2>3, <2>4 DEF CoreKept, RamCore
  <1> QED  BY <1>3, <1>4 DEF LoadIntoFree

(* Two blocks change places; the slot passes from one to the other. *)
LEMMA ExchangeInv ==
    ASSUME RamCore, NEW r \in Refs, Swapped(r), NEW i \in Frames,
           Exchange(r, i)
    PROVE  CoreKept /\ ContentKept
  <1> USE RamAssumption DEF Allocated, Swapped, Locked, Resident
  <1> DEFINE v == frames[i]
             s == pfidx[r]
  <1>1. /\ used' = used \cup {s}
        /\ view' = Told(v)
        /\ ram' = [ram EXCEPT ![i] = LoadFromStorage(s)]
        /\ addr' = [addr EXCEPT ![r] = i]
        /\ frames' = [frames EXCEPT ![i] = r]
        /\ flags' = [flags EXCEPT ![v] = @ \cup {"SWAPPED"},
                                 ![r] = @ \ {"SWAPPED"}]
        /\ pfidx' = [pfidx EXCEPT ![v] = s, ![r] = 0]
        /\ UNCHANGED <<status, bits, said, damaged>>
        /\ status = "open"
        /\ file' = [file EXCEPT ![s] = CodeBlockPage(ram[i])]
    BY DEF Exchange, Bring, StoreToStorage
  <1>2. v \in Refs /\ Resident(v) /\ addr[v] = i /\ v # r
    BY DEF Exchange, Swappable, RamCore, TypeOK, FrameOwnership
  <1>3. s \in Slots /\ s \in used /\ s < bits /\ s \in Nat
    BY SlotRange DEF RamCore, TypeOK
  <1>4. used' = used
    BY <1>1, <1>3
  <1>5. /\ LoadFromStorage(s) \in Page
        /\ ram[i] \in Page /\ CodeBlockPage(ram[i]) \in Page
        /\ CodeBlockPage(CodeBlockPage(ram[i])) = ram[i]
    BY <1>3, CodeBlockPageInvolution DEF RamCore, TypeOK, LoadFromStorage
  <1>6. \A q \in Refs : Swapped(q)' =>
          \/ q = v /\ pfidx'[q] = s
          \/ q # v /\ q # r /\ Swapped(q) /\ pfidx'[q] = pfidx[q] /\ pfidx[q] # s
    BY <1>1, <1>2 DEF RamCore, TypeOK, SlotOwnership
  <1>0. /\ flags'[r] = flags[r] \ {"SWAPPED"} /\ "VALID" \in flags[r]
        /\ flags'[v] = flags[v] \cup {"SWAPPED"} /\ "VALID" \in flags[v]
        /\ \A q \in Refs : q # r /\ q # v => flags'[q] = flags[q]
    <2>1. flags \in [Refs -> SUBSET Flags]
      BY DEF RamCore, TypeOK
    <2>2. "VALID" \in flags[r] /\ "VALID" \in flags[v]
      BY <1>2 DEF RamCore, ValidFlag
    <2> QED  BY <1>1, <1>2, <2>1, <2>2
  <1>7. TypeOK'
    <2>1. flags' \in [Refs -> SUBSET Flags] /\ pfidx' \in [Refs -> Nat]
      BY <1>1, <1>3 DEF RamCore, TypeOK, Flags
    <2>2. addr' \in [Refs -> Frames] /\ frames' \in [Frames -> Refs \cup {NULL}]
      BY <1>1 DEF RamCore, TypeOK
    <2>3. ram' \in [Frames -> Page] /\ file' \in [Slots -> Page]
      BY <1>1, <1>5 DEF RamCore, TypeOK
    <2>4. view' \in [Refs -> Frames \cup {NULL}]
      BY <1>1 DEF RamCore, TypeOK, Told
    <2> QED  BY <1>1, <1>4, <2>1, <2>2, <2>3, <2>4 DEF RamCore, TypeOK
  <1>8. ValidFlag' /\ OwnersTranslate' /\ ClosedEmpty'
    BY <1>0, <1>1, <1>2
    DEF RamCore, TypeOK, ValidFlag, OwnersTranslate, ClosedEmpty, Told
  <1>9. FrameOwnership'
    BY <1>0, <1>1, <1>2 DEF RamCore, TypeOK, FrameOwnership
  <1>10. SlotOwnership'
    BY <1>3, <1>4, <1>6 DEF RamCore, SlotOwnership
  <1>11. (NoStaleTranslation => NoStaleTranslation')
    BY <1>1, <1>2 DEF RamCore, TypeOK, NoStaleTranslation, OwnersTranslate, Told
  <1>12. ContentKept
    <2> SUFFICES ASSUME NEW q \in Refs  PROVE Content(q)' = Content(q)
      BY <1>1 DEF ContentKept
    <2>1. CASE q = r
      <3>1. Content(q) = LoadFromStorage(s)
        BY <2>1 DEF Content, LoadFromStorage
      <3>2. Content(q)' = LoadFromStorage(s)
        BY <1>0, <1>1, <2>1 DEF RamCore, TypeOK, Content
      <3> QED  BY <3>1, <3>2
    <2>2. CASE q = v
      <3>1. Content(q) = ram[i]
        BY <1>2, <2>2 DEF Content
      <3>2. Content(q)' = CodeBlockPage(file'[s])
        BY <1>0, <1>1, <1>2, <1>3, <2>2 DEF RamCore, TypeOK, Content
      <3>3. file'[s] = CodeBlockPage(ram[i])
        BY <1>1, <1>3 DEF RamCore, TypeOK
      <3> QED  BY <1>5, <3>1, <3>2, <3>3
    <2>3. CASE q # r /\ q # v /\ Swapped(q)
      <3>1. pfidx[q] \in Slots /\ pfidx[q] # s
        BY <2>3, SlotRange DEF RamCore, SlotOwnership
      <3> QED
        BY <1>0, <1>1, <2>3, <3>1 DEF RamCore, TypeOK, Content
    <2>4. CASE q # r /\ q # v /\ ~Swapped(q)
      <3>1. Allocated(q) => addr[q] # i
        BY <2>4 DEF RamCore, FrameOwnership
      <3> QED
        BY <1>0, <1>1, <2>4, <3>1 DEF RamCore, TypeOK, Content
    <2> QED  BY <2>1, <2>2, <2>3, <2>4
  <1> QED  BY <1>7, <1>8, <1>9, <1>10, <1>11, <1>12 DEF CoreKept, RamCore

(* A failed exchange leaves both blocks where they were. *)
LEMMA ExchangeStoreFailsInv ==
    ASSUME RamCore, NEW r \in Refs, Swapped(r), NEW i \in Frames,
           ExchangeStoreFails(r, i)
    PROVE  /\ CoreKept
           /\ \E hit \in SUBSET Refs : ContentKept \/ Store!Damage(hit)
  <1>1. PICK hit \in SUBSET Refs : hit = {r, frames[i]}
    BY DEF ExchangeStoreFails, Swappable, RamCore, TypeOK
  <1>2. PICK s : s = pfidx[r]
    OBVIOUS
  <1>3. /\ StoreFails(s, i, hit)
        /\ UNCHANGED <<status, refVars, frames, used, view, said>>
        /\ bits' = bits
    BY <1>1, <1>2 DEF ExchangeStoreFails, slotVars
  <1>4. frames[i] \in hit /\ \A q \in hit : Allocated(q)
    BY <1>1 DEF ExchangeStoreFails, Swappable, RamCore, FrameOwnership, Resident,
                Allocated, Swapped
  <1>5. \A q \in Refs : Swapped(q) /\ pfidx[q] = s => q \in hit
    BY <1>1, <1>2 DEF RamCore, SlotOwnership
  <1>6. bits' \in 0 .. MaxSlots /\ \A u \in used : u < bits'
    BY <1>3 DEF RamCore, TypeOK
  <1> QED  BY <1>3, <1>4, <1>5, <1>6, StoreFailsInv

(* RamSwapIn, to a free frame or in exchange. *)
LEMMA SwapInInv ==
    ASSUME RamCore, NEW r \in Refs, RamSwapIn(r)
    PROVE  CoreKept /\ [Store!Next]_(Store!svars)
  <1>1. PICK i \in Frames : SwapRamAndPageFile(r, i)
    BY DEF RamSwapIn, SwapInBody
  <1>2. Swapped(r)
    BY DEF RamSwapIn
  <1>3. \/ CoreKept /\ ContentKept
        \/ CoreKept /\ \E hit \in SUBSET Refs : ContentKept \/ Store!Damage(hit)
    BY <1>1, <1>2, LoadIntoFreeInv, ExchangeInv, ExchangeStoreFailsInv
    DEF SwapRamAndPageFile
  <1> QED  BY <1>3, KeptIsStutter DEF Store!Next

-----------------------------------------------------------------------------
(* The clients *)

(* The lock flag decides nothing about where a block is. *)
LEMMA LockInv ==
    ASSUME RamCore, NEW r \in Refs, LockRef(r) \/ UnlockRef(r)
    PROVE  CoreKept /\ ContentKept
  <1> USE DEF Allocated, Swapped, Locked, Resident
  <1>1. /\ Allocated(r)
        /\ UNCHANGED <<status, addr, pfidx, frames, bits, used, ram, file, view,
                      said, damaged>>
    BY DEF LockRef, UnlockRef, slotVars, clientVars
  <1>2. flags' \in [Refs -> SUBSET Flags]
    BY DEF LockRef, UnlockRef, RamCore, TypeOK, Flags
  <1>3. \A q \in Refs :
          (Swapped(q)' <=> Swapped(q)) /\ (Allocated(q)' <=> Allocated(q))
    BY DEF LockRef, UnlockRef, RamCore, TypeOK, ValidFlag
  <1>4. ValidFlag'
    BY DEF LockRef, UnlockRef, RamCore, TypeOK, ValidFlag
  <1>5. TypeOK'
    BY <1>1, <1>2 DEF RamCore, TypeOK
  <1>6. OwnersTranslate' /\ ClosedEmpty'
    BY <1>1, <1>3 DEF RamCore, OwnersTranslate, ClosedEmpty
  <1>8. SlotOwnership' /\ (NoStaleTranslation => NoStaleTranslation')
    BY <1>1, <1>3 DEF RamCore, SlotOwnership, NoStaleTranslation
  <1>9. FrameOwnership'
    BY <1>1, <1>3 DEF RamCore, TypeOK, FrameOwnership
  <1>7. ContentKept
    BY <1>1, <1>3 DEF ContentKept, Content
  <1> QED  BY <1>4, <1>5, <1>6, <1>7, <1>8, <1>9 DEF CoreKept, RamCore

(* An owner learns where its block is. *)
LEMMA TranslateInv ==
    ASSUME RamCore, NEW r \in Refs, Translate(r)
    PROVE  CoreKept /\ ContentKept
  <1> USE RamAssumption DEF Allocated, Swapped, Locked, Resident
  <1>1. /\ r \in Owned /\ Resident(r)
        /\ view' = [view EXCEPT ![r] = addr[r]]
        /\ UNCHANGED <<status, flags, addr, pfidx, frames, bits, used, ram, file,
                      said, damaged>>
    BY DEF Translate, refVars, slotVars
  <1>2. TypeOK' /\ OwnersTranslate' /\ (NoStaleTranslation => NoStaleTranslation')
    BY <1>1 DEF RamCore, TypeOK, OwnersTranslate, NoStaleTranslation
  <1>3. /\ ValidFlag' /\ ClosedEmpty' /\ FrameOwnership'
        /\ SlotOwnership' /\ ContentKept
    BY <1>1 DEF RamCore, ValidFlag, ClosedEmpty, FrameOwnership, SlotOwnership,
                ContentKept, Content
  <1> QED  BY <1>2, <1>3 DEF CoreKept, RamCore

(* The frame a client writes is its own block's. *)
LEMMA ClientWriteInv ==
    ASSUME RamInv, NEW r \in Refs, NEW d \in Data, ClientWrite(r, d)
    PROVE  RamInv' /\ Store!Write(r, <<d, 0>>)
  <1> USE RamAssumption DEF Allocated, Swapped, Locked, Resident
  <1>1. PICK i \in Frames :
          /\ \/ view[r] = i
             \/ Locked(r) /\ Resident(r) /\ addr[r] = i
          /\ ram' = [ram EXCEPT ![i] = <<d, 0>>]
    BY DEF ClientWrite
  <1>2. /\ said' = [said EXCEPT ![r] = <<d, 0>>]
        /\ UNCHANGED <<status, flags, addr, pfidx, frames, bits, used, file,
                      view, damaged>>
    BY DEF ClientWrite, refVars, slotVars
  <1> USE DEF RamInv
  <1>3. Resident(r) /\ addr[r] = i
    BY <1>1 DEF NoStaleTranslation, Frames
  <1>4. TypeOK'
    <2>1. <<d, 0>> \in Page
      BY DEF Page
    <2> QED  BY <1>1, <1>2, <2>1 DEF RamCore, TypeOK
  <1>5. /\ ValidFlag' /\ OwnersTranslate' /\ ClosedEmpty' /\ FrameOwnership'
        /\ SlotOwnership' /\ NoStaleTranslation'
    BY <1>2 DEF RamCore, ValidFlag, OwnersTranslate, ClosedEmpty,
                FrameOwnership, SlotOwnership, NoStaleTranslation
  <1>6. \A q \in Refs : Content(q)' = IF q = r THEN <<d, 0>> ELSE Content(q)
    BY <1>1, <1>2, <1>3 DEF RamCore, TypeOK, Content, FrameOwnership
  <1>7. Store!Write(r, <<d, 0>>)
    BY <1>2, <1>3, <1>6, ContentOfOne, ContentType DEF Store!Write
  <1> QED  BY <1>4, <1>5, <1>7 DEF RamCore

-----------------------------------------------------------------------------
(* Every step keeps the invariant and is a step of the abstract store *)

(* Every step keeps the invariant and maps to a step of the store. *)
LEMMA RamStep ==
    ASSUME RamInv, [Next]_vars
    PROVE  RamInv' /\ [Store!Next]_(Store!svars)
  <1> USE DEF RamInv, CoreKept
  <1>1. CASE Create \/ Close
    <2>1. ContentKept
      BY <1>1 DEF Create, Close, RamCore, ClosedEmpty, ContentKept, Content,
                  Allocated, refVars, clientVars
    <2> QED  BY <1>1, <2>1, CreateInv, CloseInv, KeptIsStutter
  <1>2. ASSUME NEW r \in Refs, RefNext(r)
        PROVE  RamInv' /\ [Store!Next]_(Store!svars)
    <2>1. CASE LockRef(r) \/ UnlockRef(r) \/ Translate(r)
      BY <2>1, LockInv, TranslateInv, KeptIsStutter
    <2>2. CASE RamFreeAddress(r)
      BY <2>2, FreeInv DEF Store!Next
    <2>3. ASSUME NEW d \in Data, ClientWrite(r, d)
          PROVE  RamInv' /\ [Store!Next]_(Store!svars)
      <3>1. <<d, 0>> \in Page
        BY DEF Page
      <3> QED  BY <2>3, <3>1, ClientWriteInv DEF Store!Next
    <2> QED  BY <1>2, <2>1, <2>2, <2>3, AllocInv, SwapOutInv, SwapInInv DEF RefNext
  <1>3. CASE UNCHANGED vars
    <2>1. RamInv'
      BY <1>3
      DEF vars, RamCore, TypeOK, ValidFlag, OwnersTranslate, ClosedEmpty,
          FrameOwnership, SlotOwnership, NoStaleTranslation,
          Resident, Swapped, Allocated
    <2>2. ContentKept
      BY <1>3 DEF vars, ContentKept, Content, Swapped, Allocated
    <2> QED  BY <2>1, <2>2, KeptIsStutter
  <1> QED  BY <1>1, <1>2, <1>3 DEF Next

(* The inductive invariant holds in every reachable state. *)
THEOREM RamInvariant == Spec => []RamInv
  BY RamInit, RamStep, PTL DEF Spec

(* Every variable keeps its type. *)
THEOREM TypeCorrect == Spec => []TypeOK
  BY RamInvariant, PTL DEF RamInv, RamCore

(* No two blocks ever share a RAM frame. *)
THEOREM FramesOwned == Spec => []FrameOwnership
  BY RamInvariant, PTL DEF RamInv, RamCore

(* No two blocks ever share a page-file slot, and no used slot is reused. *)
THEOREM SlotsOwned == Spec => []SlotOwnership
  BY RamInvariant, PTL DEF RamInv, RamCore

(* No owner ever keeps the address of a frame its block has left. *)
THEOREM TranslationsFresh == Spec => []NoStaleTranslation
  BY RamInvariant, PTL DEF RamInv, RamCore

(* Whatever it does with frames and slots, the manager is a store of whole *)
(* pages in which only the client, or a failed write, changes a block.     *)
THEOREM Implementation == Spec => ImplementsBlockStore
  BY RamInit, StoreInit, RamStep, PTL DEF Spec, ImplementsBlockStore, Store!Spec

(* A block holds what was last put in it, if no failed write has hit it. *)
Intact(r) == r \in damaged \/ Content(r) = said[r]

(* A step of the abstract store leaves every intact block intact. *)
LEMMA StoreKeepsIntact ==
    ASSUME TypeOK, [Store!Next]_(Store!svars), NEW r \in Refs, Intact(r)
    PROVE  Intact(r)'
  <1> DEFINE C == [q \in Refs |-> Content(q)]
  <1>1. said \in [Refs -> Page \cup {NULL}] /\ C = [q \in Refs |-> C[q]]
    BY DEF TypeOK
  <1>2. /\ Intact(r) <=> r \in damaged \/ C[r] = said[r]
        /\ Intact(r)' <=> r \in damaged' \/ C'[r] = said'[r]
    BY DEF Intact
  <1> HIDE DEF C
  <1>3. ASSUME NEW q \in Refs, NEW p,
               C' = [C EXCEPT ![q] = p], said' = [said EXCEPT ![q] = p],
               damaged \subseteq damaged' \cup {q}
        PROVE  Intact(r)'
    BY <1>1, <1>2, <1>3
  <1>4. ASSUME NEW S \in SUBSET Refs,
               \A q \in Refs : q \notin S => C'[q] = C[q],
               damaged' = damaged \cup S, UNCHANGED said
        PROVE  Intact(r)'
    BY <1>1, <1>2, <1>4
  <1>5. CASE UNCHANGED <<C, said, damaged>>
    BY <1>2, <1>5
  <1> QED
    BY <1>3, <1>4, <1>5
    DEF Store!Next, Store!svars, Store!Alloc, Store!Free, Store!Write,
        Store!Damage, C

(* A step of the store leaves in every block that is not spoilt what its   *)
(* client last put there.                                                  *)
LEMMA StoreKeepsData ==
    ASSUME TypeOK, DataIntegrity, [Store!Next]_(Store!svars)
    PROVE  DataIntegrity'
  <1> DEFINE C == [q \in Refs |-> Content(q)]
  <1>1. \A q \in Refs \ damaged : C[q] = said[q]
    BY DEF DataIntegrity
  <1>2. said \in [Refs -> Page \cup {NULL}] /\ C = [q \in Refs |-> C[q]]
    BY DEF TypeOK
  <1>3. DataIntegrity' <=> \A q \in Refs \ damaged' : C'[q] = said'[q]
    BY DEF DataIntegrity
  <1> HIDE DEF C
  <1>4. ASSUME NEW r \in Refs, NEW p,
               C' = [C EXCEPT ![r] = p], said' = [said EXCEPT ![r] = p],
               damaged \subseteq damaged' \cup {r}
        PROVE  DataIntegrity'
    BY <1>1, <1>2, <1>3, <1>4
  <1>5. ASSUME NEW S \in SUBSET Refs,
               \A q \in Refs : q \notin S => C'[q] = C[q],
               damaged' = damaged \cup S, UNCHANGED said
        PROVE  DataIntegrity'
    BY <1>1, <1>2, <1>3, <1>5
  <1>6. CASE UNCHANGED <<C, said, damaged>>
    BY <1>1, <1>3, <1>6
  <1> QED
    BY <1>4, <1>5, <1>6
    DEF Store!Next, Store!svars, Store!Alloc, Store!Free, Store!Write,
        Store!Damage, C

(* No block that a failed write has not hit ever loses its data.           *)
THEOREM DataKept == Spec => []DataIntegrity
  <1>1. Init => DataIntegrity
    BY DEF Init, DataIntegrity, Content, Allocated
  <1>2. RamInv /\ DataIntegrity /\ [Next]_vars => DataIntegrity'
    BY RamStep, StoreKeepsData DEF RamInv, RamCore
  <1> QED  BY <1>1, <1>2, RamInvariant, PTL DEF Spec

-----------------------------------------------------------------------------
(* Locked blocks *)

Pinned(r) == Locked(r) /\ Allocated(r)' =>
                 /\ addr'[r] = addr[r]
                 /\ Resident(r) /\ ~Resident(r)' => RamSwapOut(r, TRUE)

(* A step of another block's client moves no locked block. *)
LEMMA PinnedStep ==
    ASSUME RamInv, [Next]_vars, NEW r \in Refs
    PROVE  Pinned(r)
  <1> USE DEF Allocated, Swapped, Locked, Resident
  <1> SUFFICES ASSUME Locked(r), Allocated(r)'
               PROVE  /\ addr'[r] = addr[r]
                      /\ Resident(r) /\ ~Resident(r)' => RamSwapOut(r, TRUE)
    BY DEF Pinned
  <1>1. CASE UNCHANGED <<flags, addr>>
    BY <1>1
  <1>2. ASSUME NEW q \in Refs, NEW lock \in SUBSET {"LOCKED"},
               RamAllocAddress(q, lock)
        PROVE  addr'[r] = addr[r] /\ flags'[r] = flags[r]
    <2>1. q # r
      BY <1>2 DEF RamAllocAddress
    <2>2. PICK i \in Frames : \/ AllocFree(q, i, lock)
                             \/ AllocEvict(q, i, lock)
                             \/ AllocStoreFails(i)
      BY <1>2 DEF RamAllocAddress
    <2> QED
      BY <2>1, <2>2
      DEF AllocFree, AllocEvict, AllocStoreFails, TakeFrame, Swappable, refVars,
          RamInv, RamCore, TypeOK
  <1>3. ASSUME NEW q \in Refs, RamFreeAddress(q)
        PROVE  addr'[r] = addr[r] /\ flags'[r] = flags[r]
    BY <1>3 DEF RamFreeAddress, RamInv, RamCore, TypeOK
  <1>4. ASSUME NEW q \in Refs, NEW bForce \in BOOLEAN, RamSwapOut(q, bForce)
        PROVE  /\ addr'[r] = addr[r]
               /\ flags'[r] = flags[r] \/ RamSwapOut(r, TRUE)
    <2>1. addr' = addr /\ (q # r => flags'[r] = flags[r])
      BY <1>4 DEF RamSwapOut, SwapOutBody, refVars, RamInv, RamCore, TypeOK
    <2>2. CASE q = r
      <3>1. bForce
        BY <1>4, <2>2 DEF RamSwapOut
      <3> QED  BY <1>4, <2>1, <2>2, <3>1 DEF RamSwapOut
    <2> QED  BY <2>1, <2>2
  <1>5. ASSUME NEW q \in Refs, RamSwapIn(q)
        PROVE  addr'[r] = addr[r] /\ (Resident(r) => flags'[r] = flags[r])
    <2>1. PICK i \in Frames : SwapInFrame(q, i) /\ SwapRamAndPageFile(q, i)
      BY <1>5 DEF RamSwapIn, SwapInBody
    <2>2. q = r => ~Resident(r) /\ i = addr[r]
      BY <1>5, <2>1 DEF RamSwapIn, SwapInFrame
    <2> QED
      BY <2>1, <2>2
      DEF SwapRamAndPageFile, LoadIntoFree, Exchange, ExchangeStoreFails, Bring,
          Swappable, refVars, RamInv, RamCore, TypeOK
  <1>6. ASSUME NEW q \in Refs, LockRef(q) \/ UnlockRef(q)
        PROVE  addr'[r] = addr[r] /\ (Resident(r) => Resident(r)')
    BY <1>6 DEF LockRef, UnlockRef, RamInv, RamCore, TypeOK
  <1>7. ASSUME NEW q \in Refs, RefNext(q)
        PROVE  /\ addr'[r] = addr[r]
               /\ Resident(r) /\ ~Resident(r)' => RamSwapOut(r, TRUE)
    <2>1. CASE Translate(q) \/ \E d \in Data : ClientWrite(q, d)
      BY <1>1, <2>1 DEF Translate, ClientWrite, refVars
    <2> QED  BY <1>2, <1>3, <1>4, <1>5, <1>6, <1>7, <2>1 DEF RefNext
  <1>8. CASE Create \/ Close
    BY <1>1, <1>8 DEF Create, Close, refVars
  <1> QED  BY <1>1, <1>7, <1>8 DEF Next, vars

(* A locked block never moves, and leaves RAM only by its own forced       *)
(* RamSwapOut.                                                             *)
THEOREM LockedStayPut == Spec => LockedPinned
  <1>1. RamInv /\ [Next]_vars => [\A r \in Refs : Pinned(r)]_vars
    BY PinnedStep
  <1>2. LockedPinned <=> [][\A r \in Refs : Pinned(r)]_vars
    BY DEF LockedPinned, Pinned
  <1> QED  BY <1>1, <1>2, RamInvariant, PTL DEF Spec
=============================================================================
