---------------------------- MODULE RamUsesProofs ----------------------------
(***************************************************************************)
(* Proofs about the specifications that extend RamManager: RamRace, whose  *)
(* threads test a block's flags before they lock; RamDirect, the           *)
(* operations that reach a block wherever it is; and Section, a window of  *)
(* blocks.  All come down to steps of the manager: in RamRace until a call *)
(* is overtaken, in RamDirect but for the direct writes.  The manager      *)
(* keeps RamCore whatever a section does; its translations and the data it *)
(* holds are claimed until a get_block has been raced.                     *)
(***************************************************************************)
EXTENDS RamRace, RamDirect, Section, RamManagerProofs

-----------------------------------------------------------------------------
(* RamRace *)

(* A call that has looked still finds what it has seen. *)
StillPasses(call) ==
    /\ call.op \in Operations /\ call.ref \in Refs
    /\ Passes(call.op, call.ref)
    /\ call.op \in {"SwapOut", "Lock", "Unlock"} => flags[call.ref] = call.seen

PendingSound ==
    /\ pending = [t \in Threads |-> pending[t]]
    /\ \A t \in Threads : pending[t] # Idle => StillPasses(pending[t])
    /\ \A t, u \in Threads :
          pending[t] # Idle /\ pending[u] # Idle /\ pending[t].ref = pending[u].ref
              => t = u

RaceInv == ~overtaken => RamInv /\ DataIntegrity /\ PendingSound

(* What a call does to a block that is not its own: nothing, or it evicts  *)
(* the block.                                                              *)
Spared(q) == flags'[q] = flags[q] \/ (Resident(q) /\ flags'[q] = flags[q] \cup {"SWAPPED"})

(* An operation on one block spares every other. *)
LEMMA OthersSpared ==
    ASSUME RamInv, NEW r \in Refs, NEW q \in Refs, q # r,
           \/ \E lock \in SUBSET {"LOCKED"} : RamAllocAddress(r, lock)
           \/ RamFreeAddress(r)
           \/ SwapOutBody(r)
           \/ SwapInBody(r)
           \/ LockRef(r) \/ UnlockRef(r) \/ Translate(r)
           \/ \E d \in Data : ClientWrite(r, d)
    PROVE  Spared(q)
  <1> USE RamAssumption DEF RamInv, RamCore, TypeOK
  <1>1. ASSUME NEW i \in Frames, frames[i] # NULL
        PROVE  Resident(frames[i])
    BY <1>1 DEF FrameOwnership
  <1>2. ASSUME NEW lock \in SUBSET {"LOCKED"}, RamAllocAddress(r, lock)
        PROVE  Spared(q)
    <2>1. PICK i \in Frames : \/ AllocFree(r, i, lock)
                             \/ AllocEvict(r, i, lock)
                             \/ AllocStoreFails(i)
      BY <1>2 DEF RamAllocAddress
    <2>2. CASE AllocFree(r, i, lock) \/ AllocStoreFails(i)
      BY <2>2 DEF AllocFree, AllocStoreFails, refVars, Spared
    <2>3. CASE AllocEvict(r, i, lock)
      <3>1. frames[i] # NULL /\ flags' = [flags EXCEPT ![frames[i]] = @ \cup {"SWAPPED"},
                                                     ![r] = lock \cup {"VALID"}]
        BY <2>3 DEF AllocEvict, Swappable
      <3> QED  BY <1>1, <3>1 DEF Spared
    <2> QED  BY <2>1, <2>2, <2>3
  <1>3. CASE SwapInBody(r)
    <2>1. PICK i \in Frames : SwapRamAndPageFile(r, i)
      BY <1>3 DEF SwapInBody
    <2>2. CASE LoadIntoFree(r, i) \/ ExchangeStoreFails(r, i)
      BY <2>2 DEF LoadIntoFree, ExchangeStoreFails, refVars, Spared
    <2>3. CASE Exchange(r, i)
      <3>1. frames[i] # NULL /\ flags' = [flags EXCEPT ![frames[i]] = @ \cup {"SWAPPED"},
                                                     ![r] = @ \ {"SWAPPED"}]
        BY <2>3 DEF Exchange, Swappable
      <3> QED  BY <1>1, <3>1 DEF Spared
    <2> QED  BY <2>1, <2>2, <2>3 DEF SwapRamAndPageFile
  <1>4. CASE RamFreeAddress(r) \/ SwapOutBody(r) \/ LockRef(r) \/ UnlockRef(r)
             \/ Translate(r) \/ \E d \in Data : ClientWrite(r, d)
    BY <1>4 DEF RamFreeAddress, SwapOutBody, LockRef, UnlockRef, Translate,
                ClientWrite, refVars, Spared
  <1> QED  BY <1>2, <1>3, <1>4

(* A call finishes as the operation it looked for, because nothing has     *)
(* overtaken it.                                                           *)
LEMMA FinishIsNext ==
    ASSUME RamInv, PendingSound, NEW t \in Threads, Finish(t)
    PROVE  /\ [Next]_vars
           /\ \A q \in Refs : q # pending[t].ref => Spared(q)
  <1> DEFINE r == pending[t].ref
  <1>1. /\ StillPasses(pending[t]) /\ r \in Refs
        /\ Body(pending[t]) \/ GiveUp(pending[t])
    BY DEF Finish, PendingSound, StillPasses
  <1> USE DEF StillPasses, Passes
  <1>2. CASE pending[t].op = "SwapOut" /\ SwapOutBody(r)
    <2>1. RamSwapOut(r, FALSE)
      BY <1>1, <1>2 DEF RamSwapOut
    <2> QED  BY <1>1, <1>2, <2>1, OthersSpared DEF Next, RefNext
  <1>3. CASE pending[t].op = "SwapIn" /\ SwapInBody(r)
    <2>1. RamSwapIn(r)
      BY <1>1, <1>3 DEF RamSwapIn
    <2> QED  BY <1>1, <1>3, <2>1, OthersSpared DEF Next, RefNext
  <1>4. CASE RamFreeAddress(r)
    BY <1>1, <1>4, OthersSpared DEF Next, RefNext
  <1>5. CASE pending[t].op = "Lock" /\ StoreFlags(r, pending[t].seen \cup {"LOCKED"})
    <2>1. LockRef(r)
      BY <1>1, <1>5 DEF StoreFlags, LockRef
    <2> QED  BY <1>1, <2>1, OthersSpared DEF Next, RefNext
  <1>6. CASE pending[t].op = "Unlock" /\ StoreFlags(r, pending[t].seen \ {"LOCKED"})
    <2>1. UnlockRef(r)
      BY <1>1, <1>6 DEF StoreFlags, UnlockRef
    <2> QED  BY <1>1, <2>1, OthersSpared DEF Next, RefNext
  <1>7. CASE UNCHANGED vars
    BY <1>7 DEF vars, Spared
  <1> QED
    BY <1>1, <1>2, <1>3, <1>4, <1>5, <1>6, <1>7 DEF Body, FreeUnderMutex, GiveUp

(* What is done under the mutex alone concerns a block no call waits for.  *)
LEMMA OneStepIsNext ==
    ASSUME RamInv, NEW t \in Threads, OneStep(t)
    PROVE  Next /\ \A q \in Refs : Busy(q) => Spared(q)
  <1>1. CASE Create \/ Close
    BY <1>1 DEF Create, Close, refVars, Next, Spared
  <1>2. ASSUME NEW r \in Refs, ~Busy(r),
               \/ \E lock \in SUBSET {"LOCKED"} : RamAllocAddress(r, lock)
               \/ Translate(r)
               \/ \E d \in Data : ClientWrite(r, d)
        PROVE  Next /\ \A q \in Refs : Busy(q) => Spared(q)
    BY <1>2, OthersSpared DEF Next, RefNext
  <1> QED  BY <1>1, <1>2 DEF OneStep

(* A call that is not overtaken goes on finding what it has seen. *)
LEMMA StillPassesNext ==
    ASSUME RamInv, NEW t \in Threads, pending[t] # Idle, StillPasses(pending[t]),
           pending'[t] = pending[t], Spared(pending[t].ref), ~Overtakes
    PROVE  StillPasses(pending[t])'
  <1> DEFINE r == pending[t].ref
  <1>1. r \in Refs /\ Passes(pending[t].op, r)
    BY DEF StillPasses
  <1>2. pending[t].op \in {"SwapOut", "Lock", "Unlock"} => flags'[r] = pending[t].seen
    BY DEF Overtakes
  <1>3. pending[t].op \in {"SwapOut", "Lock", "Unlock"} => flags'[r] = flags[r]
    BY <1>2 DEF StillPasses
  <1>4. Allocated(r)' /\ (Swapped(r) => Swapped(r)')
    BY <1>1 DEF Spared, Passes, Allocated, Swapped
  <1>5. Passes(pending[t].op, pending[t].ref)'
    BY <1>1, <1>3, <1>4 DEF Passes, Resident, Allocated, Swapped, Locked
  <1> QED  BY <1>1, <1>2, <1>5 DEF StillPasses

(* A step that overtakes no call is a step of the manager, or none, and    *)
(* every call that waits still finds what it has seen.                     *)
LEMMA RaceStep ==
    ASSUME RamInv, PendingSound, RaceNext, ~Overtakes
    PROVE  [Next]_vars /\ PendingSound'
  <1>1. PICK t \in Threads : OneStep(t) \/ Finish(t) \/ \E r \in Refs : Look(t, r)
    BY DEF RaceNext
  <1>2. /\ pending = [u \in Threads |-> pending[u]]
        /\ \A u \in Threads : pending[u] # Idle => StillPasses(pending[u])
    BY DEF PendingSound
  <1>3. CASE OneStep(t)
    <2>1. Next /\ pending' = pending
      BY <1>3, OneStepIsNext DEF OneStep
    <2>2. ASSUME NEW u \in Threads, pending'[u] # Idle
          PROVE  StillPasses(pending[u])'
      <3>1. pending[u] # Idle /\ StillPasses(pending[u]) /\ pending'[u] = pending[u]
        BY <1>2, <2>1, <2>2
      <3>2. Spared(pending[u].ref)
        BY <1>3, <3>1, OneStepIsNext DEF Busy, StillPasses
      <3> QED  BY <3>1, <3>2, StillPassesNext
    <2> QED  BY <2>1, <2>2 DEF PendingSound
  <1>4. CASE Finish(t)
    <2>1. [Next]_vars /\ pending' = [pending EXCEPT ![t] = Idle] /\ pending[t] # Idle
      BY <1>4, FinishIsNext DEF Finish
    <2>2. ASSUME NEW u \in Threads, pending'[u] # Idle
          PROVE  u # t /\ StillPasses(pending[u])'
      <3>1. u # t /\ pending'[u] = pending[u] /\ pending[u] # Idle
        BY <1>2, <2>1, <2>2
      <3>2. StillPasses(pending[u]) /\ pending[u].ref # pending[t].ref
        BY <1>2, <2>1, <3>1 DEF PendingSound
      <3>3. Spared(pending[u].ref)
        BY <1>4, <3>2, FinishIsNext DEF StillPasses
      <3> QED  BY <3>1, <3>2, <3>3, StillPassesNext
    <2>3. \A u \in Threads : u # t => pending'[u] = pending[u]
      BY <1>2, <2>1
    <2>4. pending' = [u \in Threads |-> pending'[u]]
      BY <1>2, <2>1
    <2> QED  BY <2>1, <2>2, <2>3, <2>4 DEF PendingSound
  <1>5. ASSUME NEW r \in Refs, Look(t, r)
        PROVE  [Next]_vars /\ PendingSound'
    <2>1. PICK op \in Operations :
            /\ Passes(op, r)
            /\ pending' = [pending EXCEPT ![t] = [op |-> op, ref |-> r, seen |-> flags[r]]]
      BY <1>5 DEF Look
    <2>2. UNCHANGED vars /\ ~Busy(r) /\ pending[t] = Idle
      BY <1>5 DEF Look
    <2>3. \A q \in Refs : Spared(q)
      BY <2>2 DEF vars, Spared
    <2>4. \A u \in Threads : u # t => pending'[u] = pending[u]
      BY <1>2, <2>1
    <2>5. pending'[t] = [op |-> op, ref |-> r, seen |-> flags[r]]
      BY <1>2, <2>1
    <2>6. ASSUME NEW u \in Threads, u # t, pending'[u] # Idle
          PROVE  StillPasses(pending[u])' /\ pending'[u].ref # r
      <3>1. pending[u] # Idle /\ StillPasses(pending[u]) /\ pending'[u] = pending[u]
        BY <1>2, <2>4, <2>6
      <3>2. Spared(pending[u].ref)
        BY <2>3, <3>1 DEF StillPasses
      <3> QED  BY <2>2, <3>1, <3>2, StillPassesNext DEF Busy
    <2>7. StillPasses(pending[t])'
      <3>1. /\ pending'[t].op = op /\ pending'[t].ref = r
            /\ pending'[t].seen = flags[r] /\ flags' = flags
        BY <2>2, <2>5 DEF vars
      <3>2. Passes(pending[t].op, pending[t].ref)'
        BY <2>1, <3>1 DEF Passes, Allocated, Resident, Swapped, Locked
      <3> QED  BY <3>1, <3>2 DEF StillPasses
    <2>8. pending' = [u \in Threads |-> pending'[u]]
      BY <1>2, <2>1
    <2>9. pending'[t].ref = r
      BY <2>5
    <2> QED  BY <2>2, <2>4, <2>6, <2>7, <2>8, <2>9 DEF PendingSound
  <1> QED  BY <1>1, <1>3, <1>4, <1>5

(* However the threads interleave their tests and their calls, blocks,     *)
(* frames and slots agree and no data is lost, until a block is moved      *)
(* under a call that had looked at its flags.                              *)
THEOREM RaceSound == RaceSpec => []SoundUnlessOvertaken
  <1>1. RaceInit => RaceInv
    <2> SUFFICES ASSUME RaceInit  PROVE RaceInv
      OBVIOUS
    <2>1. DataIntegrity
      BY DEF RaceInit, Init, DataIntegrity, Content, Allocated
    <2>2. PendingSound
      BY DEF RaceInit, PendingSound
    <2> QED  BY <2>1, <2>2, RamInit DEF RaceInit, RaceInv
  <1>2. RaceInv /\ [RaceNext]_rvars => RaceInv'
    <2> SUFFICES ASSUME RaceInv, [RaceNext]_rvars, ~overtaken'
                 PROVE  RamInv' /\ DataIntegrity' /\ PendingSound'
      BY DEF RaceInv
    <2>1. CASE RaceNext
      <3>1. ~overtaken /\ ~Overtakes
        BY <2>1 DEF RaceNext
      <3>2. RamInv /\ DataIntegrity /\ PendingSound
        BY <3>1 DEF RaceInv
      <3>3. [Next]_vars /\ PendingSound'
        BY <2>1, <3>1, <3>2, RaceStep
      <3> QED  BY <3>2, <3>3, RamStep, StoreKeepsData DEF RamInv, RamCore
    <2>2. CASE UNCHANGED rvars
      <3>1. UNCHANGED vars /\ UNCHANGED pending /\ ~overtaken
        BY <2>2 DEF rvars
      <3>2. RamInv /\ DataIntegrity /\ PendingSound
        BY <3>1 DEF RaceInv
      <3>3. RamInv' /\ DataIntegrity'
        BY <3>1, <3>2, RamStep, StoreKeepsData DEF RamInv, RamCore
      <3>4. PendingSound'
        BY <3>1, <3>2 DEF PendingSound, StillPasses, Passes, Allocated, Resident,
                          Swapped, Locked, vars
      <3> QED  BY <3>3, <3>4
    <2> QED  BY <2>1, <2>2
  <1>3. RaceInv => SoundUnlessOvertaken
    BY DEF RaceInv, RamInv, RamCore, SoundUnlessOvertaken
  <1> QED  BY <1>1, <1>2, <1>3, PTL DEF RaceSpec

-----------------------------------------------------------------------------
(* RamDirect *)

(* EnsureRamBlock is a swap-in that does not mind the lock. *)
LEMMA EnsureInv ==
    ASSUME RamInv, NEW r \in Refs, EnsureRamBlock(r)
    PROVE  RamInv' /\ [Store!Next]_(Store!svars)
  <1>1. PICK i \in Frames : SwapRamAndPageFile(r, i)
    BY DEF EnsureRamBlock
  <1>2. Swapped(r)
    BY DEF EnsureRamBlock
  <1>3. \/ CoreKept /\ ContentKept
        \/ CoreKept /\ \E hit \in SUBSET Refs : ContentKept \/ Store!Damage(hit)
    BY <1>1, <1>2, LoadIntoFreeInv, ExchangeInv, ExchangeStoreFailsInv
    DEF SwapRamAndPageFile, RamInv
  <1> QED  BY <1>3, KeptIsStutter DEF Store!Next, RamInv, CoreKept

(* A direct write changes no table of the manager. *)
LEMMA DirectWriteInv ==
    ASSUME RamInv, NEW r \in Refs, NEW d \in Data, RamDirectWrite(r, d)
    PROVE  RamInv'
  <1>1. UNCHANGED <<status, flags, addr, pfidx, frames, bits, used, view>>
    BY DEF RamDirectWrite, DirectWriteResident, DirectWriteSwapped, refVars, slotVars
  <1>2. <<d, 0>> \in Page /\ CodeBlockPage(<<d, 0>>) \in Page /\ TornPage \in Page
    BY CodeBlockPageInvolution, NamedPages DEF Page
  <1>3. ram' \in [Frames -> Page]
    BY <1>2 DEF RamDirectWrite, DirectWriteResident, DirectWriteSwapped,
                RamInv, RamCore, TypeOK
  <1>4. file' \in [Slots -> Page]
    BY <1>2 DEF RamDirectWrite, DirectWriteResident, DirectWriteSwapped,
                StoreToStorage, RamInv, RamCore, TypeOK
  <1>5. said' \in [Refs -> Page \cup {NULL}] /\ damaged' \subseteq Refs
    BY <1>2 DEF RamDirectWrite, DirectWriteResident, DirectWriteSwapped,
                RamInv, RamCore, TypeOK
  <1>6. TypeOK'
    BY <1>1, <1>3, <1>4, <1>5 DEF RamInv, RamCore, TypeOK
  <1>7. /\ ValidFlag' /\ OwnersTranslate' /\ ClosedEmpty' /\ FrameOwnership'
        /\ SlotOwnership' /\ NoStaleTranslation'
    BY <1>1
    DEF RamInv, RamCore, ValidFlag, OwnersTranslate, ClosedEmpty, FrameOwnership,
        SlotOwnership, NoStaleTranslation, Allocated, Swapped, Resident
  <1> QED  BY <1>6, <1>7 DEF RamInv, RamCore

(* A direct write to a swapped block is a write of the store, or spoils    *)
(* the block and no other.                                                 *)
LEMMA SlotWriteIsStore ==
    ASSUME RamInv, NEW r \in Refs, NEW d \in Data, DirectWriteSwapped(r, d)
    PROVE  \/ Store!Write(r, <<d, 0>>)
           \/ Store!Damage({r}) /\ r \in damaged'
  <1> USE DEF RamInv, RamCore
  <1>1. /\ Swapped(r) /\ UNCHANGED <<flags, addr, pfidx, ram>>
        /\ pfidx[r] \in Slots /\ Allocated(r)
    BY SlotRange DEF DirectWriteSwapped, refVars, Swapped, Allocated
  <1>2. ASSUME NEW q \in Refs, q # r, NEW p, file' = [file EXCEPT ![pfidx[r]] = p]
        PROVE  Content(q)' = Content(q)
    <2>1. Swapped(q) => pfidx[q] # pfidx[r]
      BY <1>1, <1>2 DEF SlotOwnership
    <2> QED  BY <1>1, <1>2, <2>1 DEF TypeOK, Content, Swapped, Allocated
  <1>3. CASE /\ StoreToStorage(pfidx[r], <<d, 0>>)
             /\ said' = [said EXCEPT ![r] = <<d, 0>>]
             /\ UNCHANGED damaged
    <2>1. file' = [file EXCEPT ![pfidx[r]] = CodeBlockPage(<<d, 0>>)]
      BY <1>3 DEF StoreToStorage
    <2>2. CodeBlockPage(CodeBlockPage(<<d, 0>>)) = <<d, 0>>
      BY CodeBlockPageInvolution DEF Page
    <2>3. Content(r)' = <<d, 0>>
      BY <1>1, <2>1, <2>2 DEF TypeOK, Content, Swapped, Allocated
    <2>4. \A q \in Refs : Content(q)' = IF q = r THEN <<d, 0>> ELSE Content(q)
      BY <1>2, <2>1, <2>3
    <2> QED  BY <1>1, <1>3, <2>4, ContentOfOne, ContentType DEF Store!Write
  <1>4. CASE /\ \E p \in {file[pfidx[r]], TornPage} :
                    file' = [file EXCEPT ![pfidx[r]] = p]
             /\ damaged' = damaged \cup {r}
             /\ UNCHANGED said
    <2>1. RamInv'
      BY DirectWriteInv DEF RamDirectWrite
    <2>2. \A q \in Refs : Content(q)' \in Page \cup {NULL}
      BY <2>1, ContentTypeNext
    <2>3. Content(r) # NULL /\ Content(r)' # NULL
      BY <1>1, <2>1, ContentType, ContentTypeNext DEF Allocated
    <2>4. \A q \in Refs : q # r => Content(q)' = Content(q)
      BY <1>2, <1>4
    <2> QED  BY <1>4, <2>2, <2>3, <2>4 DEF Store!Damage
  <1> QED  BY <1>3, <1>4 DEF DirectWriteSwapped

(* The manager's tables survive the direct accesses. *)
THEOREM DirectTables == DirectSpec => []RamInv
  <1>1. RamInv /\ [DirectNext]_vars => RamInv'
    BY RamStep, EnsureInv, DirectWriteInv DEF DirectNext
  <1> QED  BY <1>1, RamInit, PTL DEF DirectSpec

(* No direct access makes two blocks share a page-file slot. *)
THEOREM DirectSlotsOwned == DirectSpec => []SlotOwnership
  BY DirectTables, PTL DEF RamInv, RamCore

(* A direct write to a swapped block is what the swap-in will bring, and   *)
(* changes no other block.                                                 *)
THEOREM SlotWritesTakeEffect == DirectSpec => SlotWriteTakesEffect
  <1> DEFINE Effect ==
        \A r \in Refs, d \in Data :
          DirectWriteSwapped(r, d) /\ r \notin damaged' =>
              /\ Content(r)' = <<d, 0>>
              /\ \A q \in Refs \ {r} : Content(q)' = Content(q)
  <1>1. RamInv => Effect
    <2> SUFFICES ASSUME RamInv, NEW r \in Refs, NEW d \in Data,
                        DirectWriteSwapped(r, d), r \notin damaged'
                 PROVE  /\ Content(r)' = <<d, 0>>
                        /\ \A q \in Refs \ {r} : Content(q)' = Content(q)
      OBVIOUS
    <2>1. Store!Write(r, <<d, 0>>)
      BY SlotWriteIsStore
    <2>2. [q \in Refs |-> Content(q)]' =
             [[q \in Refs |-> Content(q)] EXCEPT ![r] = <<d, 0>>]
      BY <2>1 DEF Store!Write
    <2>3. ASSUME NEW q \in Refs
          PROVE  Content(q)' = IF q = r THEN <<d, 0>> ELSE Content(q)
      <3>1. [x \in Refs |-> Content(x)]'[q] = Content(q)'
        OBVIOUS
      <3> QED  BY <2>2, <3>1
    <2> QED  BY <2>3
  <1>2. SlotWriteTakesEffect <=> [][Effect]_vars
    BY DEF SlotWriteTakesEffect
  <1> QED  BY <1>1, <1>2, DirectTables, PTL

(* A direct write to a resident block that reaches another frame. *)
Misdirected(q) ==
    /\ DirectFrame(addr[q]) # addr[q]
    /\ \E d \in Data : DirectWriteResident(q, d)

(* With any number of frames, direct access loses data in one way only:    *)
(* the write to a resident block whose frame number, taken for a byte      *)
(* offset, falls in another frame (rammgr.h:336).  Reads, EnsureRamBlock,  *)
(* writes to the page file and all other operations lose none.             *)
THEOREM DirectLossMisdirected ==
    DirectSpec =>
        [][\A r \in Refs : Intact(r) /\ ~Intact(r)' =>
              \E q \in Refs : Misdirected(q)]_vars
  <1> DEFINE Explained ==
        \A r \in Refs : Intact(r) /\ ~Intact(r)' => \E q \in Refs : Misdirected(q)
  <1>1. RamInv /\ [DirectNext]_vars => [Explained]_vars
    <2> SUFFICES ASSUME RamInv, DirectNext, \A q \in Refs : ~Misdirected(q),
                        NEW x \in Refs, Intact(x)
                 PROVE  Intact(x)'
      OBVIOUS
    <2>0. SUFFICES [Store!Next]_(Store!svars)
      BY StoreKeepsIntact DEF RamInv, RamCore
    <2>1. CASE Next
      BY <2>1, RamStep
    <2>2. ASSUME NEW r \in Refs, EnsureRamBlock(r)
          PROVE  [Store!Next]_(Store!svars)
      BY <2>2, EnsureInv
    <2>3. ASSUME NEW r \in Refs, NEW d \in Data, DirectWriteSwapped(r, d)
          PROVE  [Store!Next]_(Store!svars)
      <3>1. <<d, 0>> \in Page
        BY DEF Page
      <3> QED  BY <2>3, <3>1, SlotWriteIsStore DEF Store!Next
    <2>4. ASSUME NEW r \in Refs, NEW d \in Data, DirectWriteResident(r, d)
          PROVE  [Store!Next]_(Store!svars)
      <3>1. addr[r] \in Frames /\ DirectFrame(addr[r]) = addr[r]
        BY <2>4 DEF RamInv, RamCore, TypeOK, Misdirected
      <3>2. /\ Resident(r) /\ ram' = [ram EXCEPT ![addr[r]] = <<d, 0>>]
            /\ said' = [said EXCEPT ![r] = <<d, 0>>]
            /\ UNCHANGED <<flags, addr, pfidx, file, damaged>>
        BY <2>4, <3>1 DEF DirectWriteResident, refVars
      <3>3. \A q \in Refs : Content(q)' = IF q = r THEN <<d, 0>> ELSE Content(q)
        BY <3>1, <3>2 DEF RamInv, RamCore, TypeOK, Content, FrameOwnership,
                          Resident, Swapped, Allocated
      <3>4. <<d, 0>> \in Page
        BY DEF Page
      <3>5. Store!Write(r, <<d, 0>>)
        BY <3>2, <3>3, ContentOfOne, ContentType DEF Store!Write, RamInv, Resident
      <3> QED  BY <3>4, <3>5 DEF Store!Next
    <2> QED  BY <2>1, <2>2, <2>3, <2>4 DEF DirectNext, RamDirectWrite
  <1> QED  BY <1>1, DirectTables, PTL DEF DirectSpec

-----------------------------------------------------------------------------
(* Section: the inductive invariant *)

(* get_block has just allocated b and has not loaded its page yet. *)
Filling(b) == get # NoGet /\ get.fresh /\ b = Block(get.offset)

(* The page last put in a block is that of the offset its slot names. *)
SaidIsOff ==
    \A k \in SlotIds :
        Allocated(BlockOf[k]) /\ ~Filling(BlockOf[k]) => said[BlockOf[k]] = <<off[k], 0>>

(* A get_block under way is for a user, and its block stays allocated. *)
GetSound ==
    get # NoGet =>
        /\ get.view \in users
        /\ Covers(get.view, get.offset)
        /\ Allocated(Block(get.offset))

(* The users are the attached views until destroy(). *)
UsersAttached == users = IF destroyed THEN {} ELSE attached

(* A view keeps addresses while it is attached, within its reach, and,     *)
(* unless the slot has been reused, of the offset the slot names.          *)
KeptSound ==
    \A v \in Views, o \in Offsets : kept[v][o] # NULL =>
        /\ v \in attached
        /\ o >= v.off
        /\ <<v, o>> \notin reused => off[Index(o)] = o /\ ~destroyed

(* What a view keeps is what the section has been told of the block.       *)
KeptTranslates ==
    \A v \in Views, o \in Offsets :
        kept[v][o] # NULL /\ <<v, o>> \notin reused => kept[v][o] = view[Block(o)]

SectionIInv ==
    /\ RamCore
    /\ SectionTypeOK
    /\ SaidIsOff /\ GetSound /\ UsersAttached /\ KeptSound
    /\ ~raced => NoStaleTranslation /\ DataIntegrity /\ KeptTranslates

(* A slot has one offset's remainder, and a block of its own. *)
LEMMA SlotOfOffset ==
    /\ \A o \in Offsets : Index(o) \in SlotIds /\ Block(o) \in Owned /\ Block(o) \in Refs
    /\ \A k \in SlotIds : BlockOf[k] \in Owned /\ BlockOf[k] \in Refs
    /\ \A o \in Offsets, k \in SlotIds : Block(o) = BlockOf[k] <=> Index(o) = k
  <1>1. \A o \in Offsets : Index(o) \in SlotIds
    BY SectionAssumption DEF Index, SlotIds, Offsets
  <1>2. \A k \in SlotIds : BlockOf[k] \in Owned /\ BlockOf[k] \in Refs
    BY SectionAssumption, RamAssumption
  <1> QED  BY <1>1, <1>2, SectionAssumption DEF Block

-----------------------------------------------------------------------------
(* What the manager's operations mean to a section *)

(* The client's page and the block itself are left alone. *)
LeftAlone(q) == said'[q] = said[q] /\ (Allocated(q)' <=> Allocated(q))

(* Translations are dropped and never made. *)
ViewsDropped == \A q \in Refs : view'[q] = view[q] \/ view'[q] = NULL

(* What an operation on block r does for a section. *)
Effect(r) ==
    /\ CoreKept /\ [Store!Next]_(Store!svars)
    /\ ViewsDropped
    /\ \A q \in Refs : q # r => LeftAlone(q)

(* RamAllocAddress gives r a frame or, failing, leaves r as it is. *)
LEMMA AllocEffect ==
    ASSUME RamCore, NEW r \in Refs, RamAllocAddress(r, {})
    PROVE  Effect(r) /\ ~Allocated(r) /\ (Resident(r)' \/ LeftAlone(r))
  <1> USE RamAssumption DEF RamCore, TypeOK, Told, LeftAlone, ViewsDropped, Effect
  <1>1. {} \in SUBSET {"LOCKED"}
    OBVIOUS
  <1>2. CoreKept /\ [Store!Next]_(Store!svars)
    BY <1>1, AllocInv
  <1>3. PICK i \in Frames : \/ AllocFree(r, i, {})
                           \/ AllocEvict(r, i, {})
                           \/ AllocStoreFails(i)
    BY DEF RamAllocAddress
  <1>4. ~Allocated(r)
    BY DEF RamAllocAddress
  <1>5. CASE AllocFree(r, i, {})
    <2>1. /\ flags' = [flags EXCEPT ![r] = {"VALID"}] /\ view' = view
          /\ said' = [said EXCEPT ![r] = ram'[i]]
      BY <1>5 DEF AllocFree, TakeFrame
    <2> QED  BY <1>2, <1>4, <2>1 DEF Resident, Allocated, Swapped
  <1>6. CASE AllocEvict(r, i, {})
    <2>1. /\ frames[i] # NULL /\ view' = Told(frames[i])
          /\ flags' = [flags EXCEPT ![frames[i]] = @ \cup {"SWAPPED"},
                                    ![r] = {"VALID"}]
          /\ said' = [said EXCEPT ![r] = ram'[i]]
      BY <1>6 DEF AllocEvict, TakeFrame, Swappable
    <2>2. Allocated(frames[i]) /\ frames[i] # r /\ frames[i] \in Refs
      BY <1>4, <2>1 DEF FrameOwnership, Resident
    <2> QED  BY <1>2, <1>4, <2>1, <2>2 DEF Resident, Allocated, Swapped
  <1>7. CASE AllocStoreFails(i)
    <2>1. UNCHANGED <<flags, view, said>>
      BY <1>7 DEF AllocStoreFails, refVars
    <2> QED  BY <1>2, <1>4, <2>1 DEF Allocated
  <1> QED  BY <1>3, <1>5, <1>6, <1>7

(* RamFreeAddress takes r's block and no other. *)
LEMMA FreeEffect ==
    ASSUME RamCore, NEW r \in Refs, RamFreeAddress(r)
    PROVE  Effect(r) /\ ~Allocated(r)'
  <1> USE RamAssumption DEF RamCore, TypeOK, Told, LeftAlone, ViewsDropped, Effect
  <1>1. CoreKept /\ [Store!Next]_(Store!svars)
    BY FreeInv DEF Store!Next
  <1>2. /\ flags' = [flags EXCEPT ![r] = {}] /\ said' = [said EXCEPT ![r] = NULL]
        /\ view' = view \/ view' = Told(r)
    BY DEF RamFreeAddress, FreeSwapped, FreeResident
  <1> QED  BY <1>1, <1>2 DEF Allocated

(* Swapping moves blocks and leaves every client's page as it is. *)
LEMMA SwapEffect ==
    ASSUME RamCore, NEW r \in Refs, RamSwapOut(r, FALSE) \/ RamSwapIn(r)
    PROVE  Effect(r) /\ LeftAlone(r)
  <1> USE RamAssumption DEF RamCore, TypeOK, Told, LeftAlone, ViewsDropped, Effect
  <1>1. CASE RamSwapOut(r, FALSE)
    <2>1. CoreKept /\ [Store!Next]_(Store!svars)
      BY <1>1, SwapOutInv
    <2>2. /\ said' = said /\ Allocated(r)
          /\ flags' = flags \/ flags' = [flags EXCEPT ![r] = @ \cup {"SWAPPED"}]
          /\ view' = view \/ view' = Told(r)
      BY <1>1 DEF RamSwapOut, SwapOutBody, refVars, Resident
    <2> QED  BY <2>1, <2>2 DEF Allocated
  <1>2. CASE RamSwapIn(r)
    <2>1. CoreKept /\ [Store!Next]_(Store!svars)
      BY <1>2, SwapInInv
    <2>2. Swapped(r) /\ "VALID" \in flags[r]
      BY <1>2 DEF RamSwapIn, ValidFlag, Swapped, Allocated
    <2>3. PICK i \in Frames : SwapRamAndPageFile(r, i)
      BY <1>2 DEF RamSwapIn, SwapInBody
    <2>4. CASE LoadIntoFree(r, i) \/ ExchangeStoreFails(r, i)
      <3>1. /\ UNCHANGED <<view, said>>
            /\ flags' = flags \/ flags' = [flags EXCEPT ![r] = @ \ {"SWAPPED"}]
        BY <2>4 DEF LoadIntoFree, ExchangeStoreFails, refVars, clientVars
      <3> QED  BY <2>1, <2>2, <3>1 DEF Allocated
    <2>5. CASE Exchange(r, i)
      <3>1. /\ frames[i] # NULL /\ view' = Told(frames[i]) /\ said' = said
            /\ flags' = [flags EXCEPT ![frames[i]] = @ \cup {"SWAPPED"},
                                      ![r] = @ \ {"SWAPPED"}]
        BY <2>5 DEF Exchange, Swappable
      <3>2. Allocated(frames[i]) /\ frames[i] # r /\ frames[i] \in Refs
        BY <2>2, <3>1 DEF FrameOwnership, Resident
      <3> QED  BY <2>1, <2>2, <3>1, <3>2 DEF Allocated
    <2> QED  BY <2>3, <2>4, <2>5 DEF SwapRamAndPageFile
  <1> QED  BY <1>1, <1>2

(* Opening and closing touch no block. *)
LEMMA OpenCloseEffect ==
    ASSUME RamCore, Create \/ Close \/ UNCHANGED vars
    PROVE  /\ CoreKept /\ [Store!Next]_(Store!svars)
           /\ ViewsDropped /\ \A q \in Refs : LeftAlone(q)
  <1>1. UNCHANGED <<flags, view, said>>
    BY DEF Create, Close, vars, refVars, clientVars
  <1>2. CASE Create \/ Close
    <2>1. ContentKept
      BY <1>2 DEF Create, Close, RamCore, ClosedEmpty, ContentKept, Content,
                  Allocated, refVars, clientVars
    <2> QED
      BY <1>1, <1>2, <2>1, CreateInv, CloseInv, KeptIsStutter
      DEF ViewsDropped, LeftAlone, Allocated
  <1>3. CASE UNCHANGED vars
    <2>1. CoreKept
      BY <1>3
      DEF vars, CoreKept, RamCore, TypeOK, ValidFlag, OwnersTranslate, ClosedEmpty,
          FrameOwnership, SlotOwnership, NoStaleTranslation,
          Resident, Swapped, Allocated
    <2>2. ContentKept
      BY <1>3 DEF vars, ContentKept, Content, Swapped, Allocated
    <2> QED
      BY <1>1, <2>1, <2>2, KeptIsStutter DEF ViewsDropped, LeftAlone, Allocated
  <1> QED  BY <1>2, <1>3

-----------------------------------------------------------------------------
(* Telling the views *)

(* A step of the manager reaches the views through onAddressInvalid: what  *)
(* they go on keeping is good.                                             *)
LEMMA ViewsTold ==
    ASSUME SectionIInv, ViewsDropped, onAddressInvalid(JustTold),
           UNCHANGED <<off, users, attached, reused, raced, destroyed>>
    PROVE  /\ kept' \in [Views -> [Offsets -> Frames \cup {NULL}]]
           /\ UsersAttached' /\ KeptSound'
           /\ KeptTranslates => KeptTranslates'
  <1> USE DEF SectionIInv
  <1>1. kept \in [Views -> [Offsets -> Frames \cup {NULL}]]
    BY DEF SectionTypeOK
  <1>2. ASSUME NEW v \in Views, NEW o \in Offsets
        PROVE  /\ kept'[v][o] \in Frames \cup {NULL}
               /\ kept'[v][o] # NULL => kept'[v][o] = kept[v][o]
               /\ kept'[v][o] # NULL =>
                    ~(v \in users /\ Hears(v, o) /\ \E k \in JustTold : off[k] = o)
    BY <1>1 DEF onAddressInvalid
  <1>3. kept' \in [Views -> [Offsets -> Frames \cup {NULL}]]
    <2>1. kept' = [v \in Views |-> [o \in Offsets |-> kept'[v][o]]]
      BY DEF onAddressInvalid
    <2> QED  BY <1>2, <2>1
  <1>4. UsersAttached' /\ KeptSound'
    BY <1>2 DEF UsersAttached, KeptSound
  <1>5. ASSUME KeptTranslates  PROVE KeptTranslates'
    <2> SUFFICES ASSUME NEW v \in Views, NEW o \in Offsets,
                        kept'[v][o] # NULL, <<v, o>> \notin reused
                 PROVE  kept'[v][o] = view'[Block(o)]
      BY DEF KeptTranslates
    <2>1. kept[v][o] # NULL /\ kept'[v][o] = kept[v][o] /\ kept[v][o] = view[Block(o)]
      BY <1>2, <1>5 DEF KeptTranslates
    <2>2. /\ v \in attached /\ v \in users /\ Hears(v, o) /\ off[Index(o)] = o
      BY <2>1 DEF KeptSound, UsersAttached, Hears
    <2>3. Block(o) \in Refs /\ Index(o) \in SlotIds /\ Block(o) = BlockOf[Index(o)]
      BY SlotOfOffset DEF Block
    <2>4. view'[Block(o)] # NULL
      <3> SUFFICES ASSUME view'[Block(o)] = NULL  PROVE FALSE
        OBVIOUS
      <3>1. Index(o) \in JustTold
        BY <2>1, <2>3 DEF JustTold
      <3> QED  BY <1>2, <2>2, <3>1
    <2> QED  BY <2>1, <2>3, <2>4 DEF ViewsDropped
  <1> QED  BY <1>3, <1>4, <1>5

-----------------------------------------------------------------------------
(* Steps that are the manager's *)

(* It is enough to know what a step of the manager does to get_block and   *)
(* to the section's own blocks.                                            *)
LEMMA ManagerKeeps ==
    ASSUME SectionIInv, CoreKept, [Store!Next]_(Store!svars), ViewsDropped,
           onAddressInvalid(JustTold),
           UNCHANGED <<off, users, attached, reused, raced, destroyed>>,
           get' \in [view : Views \cup {NULL}, offset : Offsets, fresh : BOOLEAN],
           GetSound', SaidIsOff'
    PROVE  SectionIInv'
  <1>1. /\ kept' \in [Views -> [Offsets -> Frames \cup {NULL}]]
        /\ UsersAttached' /\ KeptSound'
        /\ KeptTranslates => KeptTranslates'
    BY ViewsTold
  <1>2. SectionTypeOK'
    BY <1>1 DEF SectionIInv, SectionTypeOK
  <1>3. RamCore' /\ (NoStaleTranslation => NoStaleTranslation')
    BY DEF CoreKept
  <1>4. DataIntegrity => DataIntegrity'
    BY StoreKeepsData DEF SectionIInv, RamCore
  <1>5. raced' = raced
    OBVIOUS
  <1> QED  BY <1>1, <1>2, <1>3, <1>4, <1>5 DEF SectionIInv

(* A step that leaves the section's blocks and get_block alone. *)
LEMMA BlocksLeftAlone ==
    ASSUME SectionIInv, UNCHANGED <<off, users, get>>,
           \A k \in SlotIds : LeftAlone(BlockOf[k])
    PROVE  GetSound' /\ SaidIsOff'
  <1>1. GetSound'
    <2>1. get # NoGet => Block(get.offset) = BlockOf[Index(get.offset)]
                         /\ Index(get.offset) \in SlotIds
      BY SlotOfOffset DEF SectionIInv, SectionTypeOK, Block
    <2> QED  BY <2>1 DEF SectionIInv, GetSound, LeftAlone
  <1>2. SaidIsOff'
    BY DEF SectionIInv, SaidIsOff, LeftAlone, Filling
  <1> QED  BY <1>1, <1>2

(* The other clients, and evictions they ask of the section's blocks. *)
LEMMA OtherClientInv == SectionIInv /\ OtherClient => SectionIInv'
  <1> SUFFICES ASSUME SectionIInv, OtherClient  PROVE SectionIInv'
    OBVIOUS
  <1>1. /\ onAddressInvalid(JustTold)
        /\ UNCHANGED <<off, users, attached, reused, get, raced, destroyed>>
    BY DEF OtherClient
  <1>2. RamCore
    BY DEF SectionIInv
  <1> DEFINE SparesBlocks == /\ CoreKept /\ [Store!Next]_(Store!svars)
                             /\ ViewsDropped
                             /\ \A k \in SlotIds : LeftAlone(BlockOf[k])
  <1>3. SparesBlocks
    <2>1. CASE Create \/ Close
      BY <1>2, <2>1, OpenCloseEffect, SlotOfOffset
    <2>2. ASSUME NEW r \in Others,
                 \/ RamAllocAddress(r, {}) \/ RamFreeAddress(r)
                 \/ RamSwapOut(r, FALSE) \/ RamSwapIn(r)
          PROVE  SparesBlocks
      <3>1. r \in Refs /\ \A k \in SlotIds : BlockOf[k] # r
        BY DEF Others, Blocks
      <3>2. Effect(r)
        BY <1>2, <2>2, <3>1, AllocEffect, FreeEffect, SwapEffect
      <3> QED  BY <3>1, <3>2, SlotOfOffset DEF Effect
    <2>3. ASSUME NEW k \in SlotIds, RamSwapOut(BlockOf[k], FALSE)
          PROVE  SparesBlocks
      <3>1. BlockOf[k] \in Refs
        BY SlotOfOffset
      <3>2. Effect(BlockOf[k]) /\ LeftAlone(BlockOf[k])
        BY <1>2, <2>3, <3>1, SwapEffect
      <3> QED  BY <3>2, SlotOfOffset DEF Effect
    <2> QED  BY <2>1, <2>2, <2>3 DEF OtherClient
  <1>4. GetSound' /\ SaidIsOff'
    BY <1>1, <1>3, BlocksLeftAlone
  <1>5. get' \in [view : Views \cup {NULL}, offset : Offsets, fresh : BOOLEAN]
    BY <1>1 DEF SectionIInv, SectionTypeOK
  <1> QED  BY <1>1, <1>3, <1>4, <1>5, ManagerKeeps

(* close() gives back one block; no get_block is under way. *)
LEMMA SectionCloseInv ==
    ASSUME SectionIInv, NEW k \in SlotIds, SectionClose(k)
    PROVE  SectionIInv'
  <1>1. /\ onAddressInvalid(JustTold) /\ get = NoGet
        /\ UNCHANGED <<off, users, attached, reused, get, raced, destroyed>>
        /\ RamFreeAddress(BlockOf[k])
    BY DEF SectionClose, FreeBlock
  <1>2. Effect(BlockOf[k]) /\ ~Allocated(BlockOf[k])'
    BY <1>1, SlotOfOffset, FreeEffect DEF SectionIInv
  <1>3. GetSound'
    BY <1>1 DEF GetSound
  <1>4. SaidIsOff'
    BY <1>1, <1>2, SlotOfOffset
    DEF SectionIInv, SaidIsOff, Filling, Effect, LeftAlone
  <1>5. get' \in [view : Views \cup {NULL}, offset : Offsets, fresh : BOOLEAN]
    BY <1>1 DEF SectionIInv, SectionTypeOK
  <1> QED  BY <1>1, <1>2, <1>3, <1>4, <1>5, ManagerKeeps DEF Effect

(* get_block's call of the manager. *)
LEMMA GetBlockInv ==
    ASSUME SectionIInv, NEW v \in Views, NEW o \in Offsets, GetBlock(v, o)
    PROVE  SectionIInv'
  <1> DEFINE b == Block(o)
  <1>1. /\ onAddressInvalid(JustTold) /\ get = NoGet
        /\ UNCHANGED <<off, users, attached, reused, raced, destroyed>>
        /\ v \in users /\ Covers(v, o)
        /\ get' = IF Resident(b)'
                  THEN [view |-> v, offset |-> o, fresh |-> ~Allocated(b)]
                  ELSE NoGet
    BY DEF GetBlock
  <1>2. /\ b \in Refs /\ Index(o) \in SlotIds /\ b = BlockOf[Index(o)]
        /\ \A k \in SlotIds : BlockOf[k] = b <=> k = Index(o)
    BY SlotOfOffset DEF Block
  <1>3. /\ CoreKept /\ [Store!Next]_(Store!svars) /\ ViewsDropped
        /\ \A q \in Refs : q # b => LeftAlone(q)
        /\ LeftAlone(b) \/ (~Allocated(b) /\ Resident(b)')
    <2>1. CASE Resident(b) /\ UNCHANGED vars
      BY <1>2, <2>1, OpenCloseEffect DEF SectionIInv
    <2>2. CASE RamAllocAddress(b, {})
      BY <1>2, <2>2, AllocEffect DEF SectionIInv, Effect
    <2>3. CASE RamSwapIn(b)
      BY <1>2, <2>3, SwapEffect DEF SectionIInv, Effect
    <2> QED  BY <2>1, <2>2, <2>3 DEF GetBlock
  <1>4. get' \in [view : Views \cup {NULL}, offset : Offsets, fresh : BOOLEAN]
    <2>1. NoGet \in [view : Views \cup {NULL}, offset : Offsets, fresh : BOOLEAN]
      BY SectionAssumption DEF NoGet, Offsets
    <2>2. (~Allocated(b)) \in BOOLEAN
      BY DEF Allocated
    <2> QED  BY <1>1, <2>1, <2>2
  <1>5. GetSound'
    <2> SUFFICES ASSUME get' # NoGet  PROVE GetSound'
      BY DEF GetSound
    <2>1. Resident(b)' /\ get'.view = v /\ get'.offset = o
      BY <1>1
    <2> QED  BY <1>1, <2>1 DEF GetSound, Resident
  <1>6. SaidIsOff'
    <2> SUFFICES ASSUME NEW k \in SlotIds, Allocated(BlockOf[k])',
                        ~Filling(BlockOf[k])'
                 PROVE  said'[BlockOf[k]] = <<off'[k], 0>>
      BY DEF SaidIsOff
    <2>1. CASE LeftAlone(BlockOf[k])
      BY <1>1, <2>1 DEF LeftAlone, SectionIInv, SaidIsOff, Filling
    <2>2. CASE ~LeftAlone(BlockOf[k])
      <3>1. BlockOf[k] = b /\ ~Allocated(b) /\ Resident(b)'
        BY <1>2, <1>3, <2>2, SlotOfOffset
      <3>2. get'.fresh /\ get'.offset = o /\ get' # NoGet
        BY <1>1, <3>1 DEF NoGet
      <3> QED  BY <3>1, <3>2 DEF Filling
    <2> QED  BY <2>1, <2>2
  <1> QED  BY <1>1, <1>3, <1>4, <1>5, <1>6, ManagerKeeps

-----------------------------------------------------------------------------
(* Steps of the section alone *)

(* RamCore, the translations and the data are of the manager's variables. *)
LEMMA ManagerUnchanged ==
    ASSUME RamCore, UNCHANGED vars
    PROVE  /\ RamCore' /\ (NoStaleTranslation => NoStaleTranslation')
           /\ DataIntegrity => DataIntegrity'
           /\ \A q \in Refs : Allocated(q)' <=> Allocated(q)
           /\ view' = view /\ said' = said
  <1>1. CoreKept /\ [Store!Next]_(Store!svars) /\ \A q \in Refs : LeftAlone(q)
    BY OpenCloseEffect
  <1>2. view' = view /\ said' = said
    BY DEF vars
  <1> QED  BY <1>1, <1>2, StoreKeepsData DEF CoreKept, RamCore, LeftAlone

(* A section starts with no views, no blocks and nothing under way. *)
LEMMA SectionInitInv == SectionInit => SectionIInv
  <1> SUFFICES ASSUME SectionInit  PROVE SectionIInv
    OBVIOUS
  <1> USE DEF SectionInit
  <1>1. RamInv
    BY RamInit
  <1>2. DataIntegrity
    BY DEF Init, DataIntegrity, Content, Allocated
  <1>3. \A k \in SlotIds : ~Allocated(BlockOf[k])
    BY SlotOfOffset DEF Init, Allocated
  <1>4. 0 \in Offsets
    BY SectionAssumption DEF Offsets
  <1>5. SectionTypeOK
    <2>1. kept \in [Views -> [Offsets -> Frames \cup {NULL}]]
      OBVIOUS
    <2> QED  BY <1>4, <2>1 DEF SectionTypeOK, NoGet
  <1>6. \A v \in Views, o \in Offsets : kept[v][o] = NULL
    OBVIOUS
  <1> QED
    BY <1>1, <1>2, <1>3, <1>5, <1>6
    DEF SectionIInv, RamInv, SaidIsOff, GetSound, UsersAttached, KeptSound,
        KeptTranslates

(* A new view has kept nothing. *)
LEMMA ViewCreateInv ==
    ASSUME SectionIInv, NEW v \in Views, ViewCreate(v)
    PROVE  SectionIInv'
  <1> USE DEF SectionIInv
  <1>1. /\ ~destroyed /\ attached' = attached \cup {v} /\ users' = users \cup {v}
        /\ UNCHANGED <<vars, off, kept, reused, get, raced, destroyed>>
    BY DEF ViewCreate
  <1>2. /\ RamCore' /\ (NoStaleTranslation => NoStaleTranslation')
        /\ DataIntegrity => DataIntegrity'
        /\ \A q \in Refs : Allocated(q)' <=> Allocated(q)
        /\ view' = view /\ said' = said
    BY <1>1, ManagerUnchanged
  <1>3. SectionTypeOK' /\ UsersAttached' /\ KeptSound'
    BY <1>1 DEF SectionTypeOK, UsersAttached, KeptSound
  <1>4. SaidIsOff'
    BY <1>1, <1>2, SlotOfOffset DEF SaidIsOff, Filling
  <1>5. GetSound'
    BY <1>1, <1>2, SlotOfOffset DEF GetSound, SectionTypeOK
  <1>6. KeptTranslates => KeptTranslates'
    BY <1>1, <1>2 DEF KeptTranslates
  <1> QED  BY <1>1, <1>2, <1>3, <1>4, <1>5, <1>6

(* A view that closes takes its addresses and its reuses with it. *)
LEMMA ViewCloseInv ==
    ASSUME SectionIInv, NEW v \in Views, ViewClose(v)
    PROVE  SectionIInv'
  <1> USE DEF SectionIInv
  <1>1. /\ get.view # v /\ attached' = attached \ {v} /\ users' = users \ {v}
        /\ kept' = [kept EXCEPT ![v] = [o \in Offsets |-> NULL]]
        /\ reused' = {p \in reused : p[1] # v}
        /\ UNCHANGED <<vars, off, get, raced, destroyed>>
    BY DEF ViewClose
  <1>2. /\ RamCore' /\ (NoStaleTranslation => NoStaleTranslation')
        /\ DataIntegrity => DataIntegrity'
        /\ \A q \in Refs : Allocated(q)' <=> Allocated(q)
        /\ view' = view /\ said' = said
    BY <1>1, ManagerUnchanged
  <1>3. kept' \in [Views -> [Offsets -> Frames \cup {NULL}]]
    BY <1>1 DEF SectionTypeOK
  <1>4. \A w \in Views, o \in Offsets :
          kept'[w][o] # NULL =>
             w # v /\ kept'[w][o] = kept[w][o]
             /\ (<<w, o>> \notin reused' => <<w, o>> \notin reused)
    BY <1>1 DEF SectionTypeOK
  <1>5. SectionTypeOK' /\ UsersAttached'
    BY <1>1, <1>3 DEF SectionTypeOK, UsersAttached
  <1>6. KeptSound' /\ (KeptTranslates => KeptTranslates')
    BY <1>1, <1>2, <1>4 DEF KeptSound, KeptTranslates
  <1>7. SaidIsOff'
    BY <1>1, <1>2, SlotOfOffset DEF SaidIsOff, Filling
  <1>8. GetSound'
    BY <1>1, <1>2, SlotOfOffset DEF GetSound, SectionTypeOK
  <1> QED  BY <1>1, <1>2, <1>5, <1>6, <1>7, <1>8

(* destroy() reaches every address that is not left over from a reuse. *)
LEMMA DestroyInv == SectionIInv /\ destroy => SectionIInv'
  <1> SUFFICES ASSUME SectionIInv, destroy  PROVE SectionIInv'
    OBVIOUS
  <1> USE DEF SectionIInv
  <1>1. /\ ~destroyed /\ get = NoGet /\ users' = {} /\ destroyed' = TRUE
        /\ UNCHANGED <<vars, off, attached, reused, get, raced>>
    BY DEF destroy
  <1>2. /\ RamCore' /\ (NoStaleTranslation => NoStaleTranslation')
        /\ DataIntegrity => DataIntegrity'
        /\ \A q \in Refs : Allocated(q)' <=> Allocated(q)
        /\ view' = view /\ said' = said
    BY <1>1, ManagerUnchanged
  <1>3. ASSUME NEW v \in Views, NEW o \in Offsets
        PROVE  /\ kept'[v][o] \in Frames \cup {NULL}
               /\ kept'[v][o] # NULL =>
                    /\ kept'[v][o] = kept[v][o]
                    /\ ~(v \in users /\ Hears(v, o) /\ \E k \in SlotIds : off[k] = o)
    BY DEF destroy, onAddressInvalid, SectionTypeOK
  <1>4. kept' \in [Views -> [Offsets -> Frames \cup {NULL}]]
    <2>1. kept' = [v \in Views |-> [o \in Offsets |-> kept'[v][o]]]
      BY DEF destroy, onAddressInvalid
    <2> QED  BY <1>3, <2>1
  <1>5. SectionTypeOK' /\ UsersAttached'
    BY <1>1, <1>4 DEF SectionTypeOK, UsersAttached
  <1>6. \A v \in Views, o \in Offsets :
           kept'[v][o] # NULL => <<v, o>> \in reused /\ v \in attached /\ o >= v.off
    BY <1>1, <1>3, SlotOfOffset DEF KeptSound, UsersAttached, Hears
  <1>7. KeptSound' /\ KeptTranslates'
    BY <1>1, <1>6 DEF KeptSound, KeptTranslates
  <1>8. SaidIsOff' /\ GetSound'
    BY <1>1, <1>2, SlotOfOffset DEF SaidIsOff, Filling, GetSound
  <1> QED  BY <1>1, <1>2, <1>5, <1>7, <1>8

-----------------------------------------------------------------------------
(* get_block after its call of the manager *)

(* What the step writes: the page, if it has to be loaded, and the slot.   *)
LEMMA ReturnsWrites ==
    ASSUME SectionIInv, GetBlockReturns
    PROVE  LET o == get.offset
               b == Block(o)
           IN  /\ o \in Offsets /\ b \in Owned /\ b \in Refs
               /\ Index(o) \in SlotIds /\ Allocated(b)
               /\ get.view \in users /\ get.view \in Views /\ ~destroyed
               /\ \/ /\ NeedsLoad
                     /\ ram' = [ram EXCEPT ![addr[b]] = <<o, 0>>]
                     /\ said' = [said EXCEPT ![b] = <<o, 0>>]
                     /\ off' = [off EXCEPT ![Index(o)] = o]
                  \/ /\ ~NeedsLoad
                     /\ UNCHANGED <<ram, said, off>>
               /\ view' = [view EXCEPT ![b] = addr[b]]
               /\ raced' = (raced \/ ~Resident(b))
               /\ get # NoGet /\ get' = NoGet
               /\ kept' = [kept EXCEPT ![get.view][o] = addr[b]]
               /\ UNCHANGED <<status, flags, addr, pfidx, frames, bits, used, file,
                              damaged, users, attached, destroyed>>
  <1>1. get # NoGet
    BY DEF GetBlockReturns
  <1>2. get.offset \in Offsets
    BY DEF SectionIInv, SectionTypeOK
  <1>3. get.view \in users /\ Allocated(Block(get.offset))
    BY <1>1 DEF SectionIInv, GetSound
  <1>4. get.view \in Views /\ ~destroyed
    BY <1>3 DEF SectionIInv, SectionTypeOK, UsersAttached
  <1>5. Block(get.offset) \in Owned /\ Block(get.offset) \in Refs
        /\ Index(get.offset) \in SlotIds
    BY <1>2, SlotOfOffset
  <1> QED
    BY <1>1, <1>2, <1>3, <1>4, <1>5
    DEF GetBlockReturns, load_from_file, refVars, slotVars

(* The manager's state stays sound, and a block that is still there is     *)
(* written and translated as its own.                                      *)
LEMMA ReturnsManager ==
    ASSUME SectionIInv, GetBlockReturns
    PROVE  /\ RamCore'
           /\ ~raced' => NoStaleTranslation' /\ DataIntegrity'
  <1> DEFINE o == get.offset
             b == Block(o)
  <1>1. /\ o \in Offsets /\ b \in Owned /\ b \in Refs
        /\ \/ /\ ram' = [ram EXCEPT ![addr[b]] = <<o, 0>>]
              /\ said' = [said EXCEPT ![b] = <<o, 0>>]
           \/ UNCHANGED <<ram, said>>
        /\ view' = [view EXCEPT ![b] = addr[b]]
        /\ raced' = (raced \/ ~Resident(b))
        /\ UNCHANGED <<status, flags, addr, pfidx, frames, bits, used, file, damaged>>
    BY ReturnsWrites
  <1>2. <<o, 0>> \in Page
    BY <1>1, SectionAssumption DEF Page
  <1>3. RamCore
    BY DEF SectionIInv
  <1> HIDE DEF o, b
  <1> USE RamAssumption DEF Allocated, Swapped, Resident
  <1>4. TypeOK'
    BY <1>1, <1>2, <1>3 DEF RamCore, TypeOK
  <1>5. RamCore'
    BY <1>1, <1>3, <1>4
    DEF RamCore, TypeOK, ValidFlag, OwnersTranslate, ClosedEmpty, FrameOwnership,
        SlotOwnership
  <1>6. ASSUME ~raced'  PROVE NoStaleTranslation' /\ DataIntegrity'
    <2>1. ~raced /\ Resident(b) /\ NoStaleTranslation /\ DataIntegrity
      BY <1>1, <1>6 DEF SectionIInv, SectionTypeOK
    <2>2. NoStaleTranslation'
      BY <1>1, <1>3, <2>1 DEF NoStaleTranslation, RamCore, TypeOK
    <2>3. ASSUME NEW q \in Refs, q # b
          PROVE  Content(q)' = Content(q) /\ said'[q] = said[q]
      BY <1>1, <1>3, <2>1, <2>3 DEF RamCore, TypeOK, Content, FrameOwnership
    <2>4. ASSUME NEW q \in Refs, q = b
          PROVE  \/ Content(q)' = Content(q) /\ said'[q] = said[q]
                 \/ Content(q)' = said'[q]
      BY <1>1, <1>3, <2>1, <2>4 DEF RamCore, TypeOK, Content
    <2> QED  BY <1>1, <2>1, <2>2, <2>3, <2>4 DEF DataIntegrity
  <1> QED  BY <1>5, <1>6

(* The views of the slot's former offset are the reused ones; the others   *)
(* keep good addresses.                                                    *)
LEMMA ReturnsKept ==
    ASSUME SectionIInv, GetBlockReturns
    PROVE  KeptSound' /\ (~raced' => KeptTranslates')
  <1> DEFINE o == get.offset
             b == Block(o)
             w == get.view
  <1>1. /\ o \in Offsets /\ b \in Refs /\ Index(o) \in SlotIds
        /\ w \in users /\ w \in Views /\ ~destroyed /\ get # NoGet
        /\ \/ NeedsLoad /\ off' = [off EXCEPT ![Index(o)] = o]
           \/ ~NeedsLoad /\ UNCHANGED off
        /\ view' = [view EXCEPT ![b] = addr[b]]
        /\ raced' = (raced \/ ~Resident(b))
        /\ kept' = [kept EXCEPT ![w][o] = addr[b]]
        /\ UNCHANGED <<users, attached, destroyed>>
    BY ReturnsWrites
  <1>2. o >= w.off
    <2>1. w.off \in Nat
      BY <1>1, SectionAssumption
    <2> QED  BY <1>1, <2>1 DEF SectionIInv, GetSound, Covers, Offsets
  <1>3. /\ off \in [SlotIds -> Offsets] /\ users = attached
        /\ kept \in [Views -> [Offsets -> Frames \cup {NULL}]]
        /\ view \in [Refs -> Frames \cup {NULL}]
    BY <1>1 DEF SectionIInv, SectionTypeOK, UsersAttached, RamCore, TypeOK
  <1>4. /\ reused \ {<<w, o>>} \subseteq reused'
        /\ NeedsLoad => \A v \in users, p \in Offsets :
             kept[v][p] # NULL /\ Index(p) = Index(o) /\ p # o => <<v, p>> \in reused'
    BY DEF GetBlockReturns
  <1>5. off'[Index(o)] = o
    BY <1>1, <1>3 DEF NeedsLoad
  <1>6. ~NeedsLoad => off[Index(o)] = o
    BY DEF NeedsLoad
  <1> SUFFICES ASSUME NEW v \in Views, NEW p \in Offsets, kept'[v][p] # NULL
               PROVE  /\ v \in attached' /\ p >= v.off
                      /\ <<v, p>> \notin reused' =>
                           /\ off'[Index(p)] = p /\ ~destroyed'
                           /\ ~raced' => kept'[v][p] = view'[Block(p)]
    BY DEF KeptSound, KeptTranslates
  <1>7. CASE v = w /\ p = o
    BY <1>1, <1>2, <1>3, <1>5, <1>7
  <1>8. CASE ~(v = w /\ p = o)
    <2>1. kept'[v][p] = kept[v][p]
      BY <1>1, <1>3, <1>8
    <2>2. /\ v \in attached /\ p >= v.off
          /\ <<v, p>> \notin reused => off[Index(p)] = p
      BY <2>1 DEF SectionIInv, KeptSound
    <2>3. ASSUME <<v, p>> \notin reused'
          PROVE  /\ off'[Index(p)] = p
                 /\ ~raced' => kept'[v][p] = view'[Block(p)]
      <3>1. <<v, p>> \notin reused /\ off[Index(p)] = p /\ Index(p) \in SlotIds
        BY <1>4, <1>8, <2>2, <2>3, SlotOfOffset
      <3>2. ~raced' => /\ kept[v][p] = view[Block(p)] /\ NoStaleTranslation
                       /\ Block(p) \in Refs
        BY <1>1, <2>1, <3>1, SlotOfOffset
        DEF SectionIInv, SectionTypeOK, KeptTranslates
      <3>3. CASE Index(p) = Index(o)
        <4>1. p = o
          BY <1>3, <1>4, <1>6, <2>1, <2>2, <2>3, <3>1, <3>3
        <4>2. ~raced' => view[b] = addr[b]
          BY <2>1, <3>2, <4>1 DEF NoStaleTranslation
        <4> QED  BY <1>1, <1>3, <1>5, <2>1, <3>2, <4>1, <4>2
      <3>4. CASE Index(p) # Index(o)
        <4>1. Block(p) # b
          BY <1>1, <3>4, SlotOfOffset DEF Block
        <4> QED  BY <1>1, <1>3, <2>1, <3>1, <3>2, <3>4, <4>1
      <3> QED  BY <3>3, <3>4
    <2> QED  BY <1>1, <2>2, <2>3
  <1> QED  BY <1>7, <1>8

(* The loading half of get_block. *)
LEMMA ReturnsInv == SectionIInv /\ GetBlockReturns => SectionIInv'
  <1> SUFFICES ASSUME SectionIInv, GetBlockReturns  PROVE SectionIInv'
    OBVIOUS
  <1> DEFINE o == get.offset
             b == Block(o)
  <1>1. /\ o \in Offsets /\ b \in Refs /\ Index(o) \in SlotIds
        /\ get.view \in users /\ get.view \in Views
        /\ \/ /\ NeedsLoad
              /\ said' = [said EXCEPT ![b] = <<o, 0>>]
              /\ off' = [off EXCEPT ![Index(o)] = o]
           \/ /\ ~NeedsLoad
              /\ UNCHANGED <<said, off>>
        /\ raced' = (raced \/ ~Resident(b))
        /\ get # NoGet /\ get' = NoGet
        /\ kept' = [kept EXCEPT ![get.view][o] = addr[b]]
        /\ UNCHANGED <<flags, users, attached, destroyed>>
    BY ReturnsWrites
  <1>2. RamCore' /\ (~raced' => NoStaleTranslation' /\ DataIntegrity')
    BY ReturnsManager
  <1>3. KeptSound' /\ (~raced' => KeptTranslates')
    BY ReturnsKept
  <1>4. SectionTypeOK'
    <2>1. addr[b] \in Frames
      BY <1>1 DEF SectionIInv, RamCore, TypeOK
    <2>2. off' \in [SlotIds -> Offsets]
      BY <1>1 DEF SectionIInv, SectionTypeOK
    <2>3. kept' \in [Views -> [Offsets -> Frames \cup {NULL}]]
      BY <1>1, <2>1 DEF SectionIInv, SectionTypeOK
    <2>4. reused' \subseteq Views \X Offsets
      BY DEF GetBlockReturns, SectionIInv, SectionTypeOK
    <2>5. get' \in [view : Views \cup {NULL}, offset : Offsets, fresh : BOOLEAN]
      BY <1>1, SectionAssumption DEF NoGet, Offsets
    <2>6. raced' \in BOOLEAN
      BY <1>1 DEF SectionIInv, SectionTypeOK
    <2> QED
      BY <1>1, <2>2, <2>3, <2>4, <2>5, <2>6 DEF SectionIInv, SectionTypeOK
  <1>5. SaidIsOff'
    <2> SUFFICES ASSUME NEW k \in SlotIds, Allocated(BlockOf[k])'
                 PROVE  said'[BlockOf[k]] = <<off'[k], 0>>
      BY DEF SaidIsOff
    <2>1. Allocated(BlockOf[k])
      BY <1>1 DEF Allocated
    <2>2. /\ said \in [Refs -> Page \cup {NULL}] /\ off \in [SlotIds -> Offsets]
          /\ b = BlockOf[k] <=> Index(o) = k
          /\ BlockOf[k] \in Refs
      BY <1>1, SlotOfOffset DEF SectionIInv, SectionTypeOK, RamCore, TypeOK
    <2>3. Filling(BlockOf[k]) => NeedsLoad /\ Index(o) = k
      BY <2>2 DEF Filling, NeedsLoad
    <2> QED  BY <1>1, <2>1, <2>2, <2>3 DEF SectionIInv, SaidIsOff
  <1>6. GetSound' /\ UsersAttached'
    BY <1>1 DEF GetSound, SectionIInv, UsersAttached
  <1> QED  BY <1>2, <1>3, <1>4, <1>5, <1>6 DEF SectionIInv

-----------------------------------------------------------------------------
(* The theorems *)

(* The inductive invariant is kept by every step of the section, of its    *)
(* views and of the manager's other clients.                               *)
THEOREM SectionSound == SectionSpec => []SectionIInv
  <1>1. SectionIInv /\ [SectionNext]_svars => SectionIInv'
    <2> SUFFICES ASSUME SectionIInv, [SectionNext]_svars  PROVE SectionIInv'
      OBVIOUS
    <2>1. CASE UNCHANGED svars
      <3>1. UNCHANGED vars /\ UNCHANGED sectionVars
        BY <2>1 DEF svars
      <3>2. /\ RamCore' /\ (NoStaleTranslation => NoStaleTranslation')
            /\ DataIntegrity => DataIntegrity'
            /\ \A q \in Refs : Allocated(q)' <=> Allocated(q)
            /\ view' = view /\ said' = said
        BY <3>1, ManagerUnchanged DEF SectionIInv
      <3>3. SectionTypeOK' /\ UsersAttached' /\ KeptSound'
        BY <3>1
        DEF sectionVars, SectionIInv, SectionTypeOK, UsersAttached, KeptSound
      <3>4. SaidIsOff' /\ (KeptTranslates => KeptTranslates')
        BY <3>1, <3>2, SlotOfOffset
        DEF sectionVars, SectionIInv, SaidIsOff, Filling, KeptTranslates
      <3>5. GetSound'
        BY <3>1, <3>2, SlotOfOffset
        DEF sectionVars, SectionIInv, GetSound, SectionTypeOK
      <3> QED  BY <3>1, <3>2, <3>3, <3>4, <3>5 DEF SectionIInv, sectionVars
    <2> QED
      BY <2>1, ViewCreateInv, ViewCloseInv, GetBlockInv, ReturnsInv, SectionCloseInv,
         DestroyInv, OtherClientInv
      DEF SectionNext
  <1> QED  BY <1>1, SectionInitInv, PTL DEF SectionSpec

(* The section's invariant: a block holds the page of the offset its slot  *)
(* names, and destroy() leaves the views nothing it can answer for.        *)
THEOREM WindowHolds == SectionSpec => []SectionInv
  <1>1. SectionIInv => SectionInv
    <2> SUFFICES ASSUME SectionIInv  PROVE SectionInv
      OBVIOUS
    <2>1. BlockHoldsOffset
      <3> SUFFICES ASSUME ~raced, NEW k \in SlotIds, Allocated(BlockOf[k]),
                          BlockOf[k] \notin damaged,
                          get # NoGet => BlockOf[k] # Block(get.offset)
                   PROVE  Content(BlockOf[k]) = <<off[k], 0>>
        BY DEF BlockHoldsOffset
      <3>1. Content(BlockOf[k]) = said[BlockOf[k]]
        BY SlotOfOffset DEF SectionIInv, DataIntegrity
      <3> QED  BY <3>1 DEF SectionIInv, SaidIsOff, Filling
    <2>2. DestroyTellsAll
      BY DEF DestroyTellsAll, SectionIInv, SectionTypeOK, KeptSound
    <2> QED  BY <2>1, <2>2 DEF SectionInv, SectionIInv
  <1> QED  BY <1>1, SectionSound, PTL

(* An address a view has kept, of an offset whose slot no other offset has *)
(* taken, leads to that offset's page.                                     *)
THEOREM ViewsStayFresh == SectionSpec => []ViewsFresh
  <1>1. SectionIInv => ViewsFresh
    <2> SUFFICES ASSUME SectionIInv, ~raced, NEW v \in attached, NEW o \in Offsets,
                        kept[v][o] # NULL, <<v, o>> \notin reused
                 PROVE  /\ Resident(Block(o))
                        /\ kept[v][o] = addr[Block(o)]
                        /\ off[Index(o)] = o
      BY DEF ViewsFresh
    <2>1. v \in Views /\ Block(o) \in Refs
      BY SlotOfOffset DEF SectionIInv, SectionTypeOK
    <2>2. kept[v][o] = view[Block(o)] /\ off[Index(o)] = o
      BY <2>1 DEF SectionIInv, KeptTranslates, KeptSound
    <2> QED  BY <2>1, <2>2 DEF SectionIInv, NoStaleTranslation
  <1> QED  BY <1>1, SectionSound, PTL

(* Until a get_block has been raced, the section writes in no page but its *)
(* own: every client of the manager finds what it put in its block.        *)
THEOREM SectionSparesOthers == SectionSpec => []SparesOthers
  <1>1. SectionIInv => SparesOthers
    BY DEF SectionIInv, SparesOthers
  <1> QED  BY <1>1, SectionSound, PTL
=============================================================================
