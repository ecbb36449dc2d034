-------------------------- MODULE TranslatorProofs --------------------------
(***************************************************************************)
(* Proofs about TbCache and Translator, for any pages, entry points and    *)
(* number of block slots.  Every operation on the cache is shown to keep   *)
(* CacheInv, which relates the hash list, the page lists, the bitmaps, the *)
(* dirty flags and TLB, the jump cache and the patched jumps.  The loop    *)
(* keeps TrInv: what it knows of the maps, of the block that runs or is    *)
(* about to, and, of a guest that waits, that patched jumps fit.           *)
(***************************************************************************)
EXTENDS Translator, TLAPS

-----------------------------------------------------------------------------
(* Types *)

Block == [pc : Entries \cup {NULL}, page : Seq(PPages), one : BOOLEAN, stale : BOOLEAN]

TlbEntries == [page : PPages, notdirty : BOOLEAN]

Cache ==
    [tbs     : [Slots -> Block],
     nb_tbs  : 0 .. MaxTbs,
     hash    : SUBSET Slots,
     list    : [PPages -> SUBSET (Slots \X {1, 2})],
     bitmap  : [PPages -> (SUBSET Regions) \cup {NULL}],
     writes  : [PPages -> 0 .. SMC_BITMAP_USE_THRESHOLD],
     cache   : [Entries -> Slots \cup {NULL}],
     target  : [Slots -> Slots \cup {NULL}],
     jumpers : [Slots -> SUBSET Slots],
     tlb     : [VPages -> TlbEntries \cup {NULL}],
     dirty   : [PPages -> BOOLEAN],
     tb_invalidated_flag : BOOLEAN,
     crashed : BOOLEAN]

(* What is said of a field. *)
LEMMA CacheFields ==
    ASSUME NEW c \in Cache
    PROVE  /\ c.tbs \in [Slots -> Block] /\ c.nb_tbs \in 0 .. MaxTbs
           /\ c.hash \in SUBSET Slots
           /\ c.list \in [PPages -> SUBSET (Slots \X {1, 2})]
           /\ c.bitmap \in [PPages -> (SUBSET Regions) \cup {NULL}]
           /\ c.writes \in [PPages -> 0 .. SMC_BITMAP_USE_THRESHOLD]
           /\ c.cache \in [Entries -> Slots \cup {NULL}]
           /\ c.target \in [Slots -> Slots \cup {NULL}]
           /\ c.jumpers \in [Slots -> SUBSET Slots]
           /\ c.tlb \in [VPages -> TlbEntries \cup {NULL}]
           /\ c.dirty \in [PPages -> BOOLEAN]
           /\ c.tb_invalidated_flag \in BOOLEAN /\ c.crashed \in BOOLEAN
  BY DEF Cache

(* d has the blocks of c, and the ways to them. *)
SameBlocks(c, d) ==
    d.tbs = c.tbs /\ d.nb_tbs = c.nb_tbs /\ d.hash = c.hash /\ d.list = c.list

SameJumps(c, d) == d.target = c.target /\ d.jumpers = c.jumpers

SameCounts(c, d) == d.bitmap = c.bitmap /\ d.writes = c.writes

SameTlb(c, d) == d.tlb = c.tlb /\ d.dirty = c.dirty

SameFlags(c, d) ==
    d.tb_invalidated_flag = c.tb_invalidated_flag /\ d.crashed = c.crashed

-----------------------------------------------------------------------------
(* What the operations change *)

LEMMA ProtectFields ==
    ASSUME NEW c \in Cache, NEW p \in PPages, NEW d, d = tlb_protect_code(c, p)
    PROVE  /\ d \in Cache
           /\ SameBlocks(c, d) /\ SameJumps(c, d) /\ SameCounts(c, d) /\ SameFlags(c, d)
           /\ d.cache = c.cache
           /\ d.dirty = [c.dirty EXCEPT ![p] = FALSE]
           /\ \A v \in VPages : d.tlb[v] = IF c.tlb[v] # NULL /\ c.tlb[v].page = p
                                THEN [page |-> p, notdirty |-> TRUE] ELSE c.tlb[v]
  <1> USE DEF Cache
  <1>1. /\ d.dirty = [c.dirty EXCEPT ![p] = FALSE]
        /\ d.tlb = [v \in VPages |-> IF c.tlb[v] # NULL /\ c.tlb[v].page = p
                                     THEN [page |-> p, notdirty |-> TRUE] ELSE c.tlb[v]]
        /\ d = [c EXCEPT !.dirty = d.dirty, !.tlb = d.tlb]
    BY DEF tlb_protect_code
  <1>2. /\ SameBlocks(c, d) /\ SameJumps(c, d) /\ SameCounts(c, d) /\ SameFlags(c, d)
        /\ d.cache = c.cache
    BY <1>1 DEF SameBlocks, SameJumps, SameCounts, SameFlags
  <1>3. d.tlb \in [VPages -> TlbEntries \cup {NULL}] /\ d.dirty \in [PPages -> BOOLEAN]
    BY <1>1 DEF TlbEntries
  <1>4. \A x \in [VPages -> TlbEntries \cup {NULL}], y \in [PPages -> BOOLEAN] :
           [c EXCEPT !.dirty = y, !.tlb = x] \in Cache
    OBVIOUS
  <1>5. d \in Cache
    BY <1>1, <1>3, <1>4
  <1> HIDE DEF Cache
  <1> QED  BY <1>1, <1>2, <1>5

LEMMA FillFields ==
    ASSUME NEW c \in Cache, NEW v \in VPages, NEW m \in Maps, NEW d, d = Fill(c, v, m)
    PROVE  /\ d \in Cache
           /\ SameBlocks(c, d) /\ SameJumps(c, d) /\ SameCounts(c, d) /\ SameFlags(c, d)
           /\ d.cache = c.cache /\ d.dirty = c.dirty
           /\ d.tlb[v] = IF c.tlb[v] # NULL THEN c.tlb[v]
                         ELSE [page |-> m[v], notdirty |-> ~c.dirty[m[v]]]
           /\ \A w \in VPages : w # v => d.tlb[w] = c.tlb[w]
  <1>1. CASE c.tlb[v] # NULL
    BY <1>1 DEF Fill, SameBlocks, SameJumps, SameCounts, SameFlags
  <1>2. CASE c.tlb[v] = NULL
    <2> USE DEF Cache
    <2>1. /\ d.tlb = [c.tlb EXCEPT ![v] = [page |-> m[v], notdirty |-> ~c.dirty[m[v]]]]
          /\ d = [c EXCEPT !.tlb = d.tlb]
      BY <1>2 DEF Fill, TlbEntry
    <2>2. /\ SameBlocks(c, d) /\ SameJumps(c, d) /\ SameCounts(c, d) /\ SameFlags(c, d)
          /\ d.cache = c.cache /\ d.dirty = c.dirty
      BY <2>1 DEF SameBlocks, SameJumps, SameCounts, SameFlags
    <2>3. d.tlb \in [VPages -> TlbEntries \cup {NULL}]
      BY <2>1 DEF TlbEntries, Maps
    <2>4. \A x \in [VPages -> TlbEntries \cup {NULL}] : [c EXCEPT !.tlb = x] \in Cache
      OBVIOUS
    <2>5. d \in Cache
      BY <2>1, <2>3, <2>4
    <2> HIDE DEF Cache
    <2> QED  BY <1>2, <2>1, <2>2, <2>5, CacheFields
  <1> QED  BY <1>1, <1>2

LEMMA UnprotectPhysFields ==
    ASSUME NEW c \in Cache, NEW p \in PPages, NEW d, d = tlb_unprotect_code_phys(c, p)
    PROVE  /\ d \in Cache
           /\ SameBlocks(c, d) /\ SameJumps(c, d) /\ SameCounts(c, d) /\ SameFlags(c, d)
           /\ d.cache = c.cache /\ d.tlb = c.tlb
           /\ d.dirty = [c.dirty EXCEPT ![p] = TRUE]
  <1> USE DEF Cache
  <1>1. /\ d.dirty = [c.dirty EXCEPT ![p] = TRUE]
        /\ d = [c EXCEPT !.dirty = d.dirty]
    BY DEF tlb_unprotect_code_phys
  <1>2. /\ SameBlocks(c, d) /\ SameJumps(c, d) /\ SameCounts(c, d) /\ SameFlags(c, d)
        /\ d.cache = c.cache /\ d.tlb = c.tlb
    BY <1>1 DEF SameBlocks, SameJumps, SameCounts, SameFlags
  <1>3. d.dirty \in [PPages -> BOOLEAN]
    BY <1>1
  <1>4. \A y \in [PPages -> BOOLEAN] : [c EXCEPT !.dirty = y] \in Cache
    OBVIOUS
  <1>5. d \in Cache
    BY <1>1, <1>3, <1>4
  <1> HIDE DEF Cache
  <1> QED  BY <1>1, <1>2, <1>5

(* tlb_flush and tlb_flush_page take entries of the TLB and of the jump    *)
(* cache away.                                                             *)
FlushedOut(c, vs, es) ==
    [c EXCEPT !.tlb = [v \in VPages |-> IF v \in vs THEN NULL ELSE c.tlb[v]],
              !.cache = [e \in Entries |-> IF e \in es THEN NULL ELSE c.cache[e]]]

FlushLeaves(c, d, vs, es) ==
    /\ \A e \in Entries : d.cache[e] = IF e \in es THEN NULL ELSE c.cache[e]
    /\ \A v \in VPages : d.tlb[v] = IF v \in vs THEN NULL ELSE c.tlb[v]

LEMMA FlushFields ==
    ASSUME NEW c \in Cache, NEW vs \in SUBSET VPages, NEW es \in SUBSET Entries, NEW d,
           d = FlushedOut(c, vs, es)
    PROVE  /\ d \in Cache
           /\ SameBlocks(c, d) /\ SameJumps(c, d) /\ SameCounts(c, d) /\ SameFlags(c, d)
           /\ d.dirty = c.dirty
           /\ FlushLeaves(c, d, vs, es)
  <1> USE DEF Cache
  <1>1. /\ d.tlb = [v \in VPages |-> IF v \in vs THEN NULL ELSE c.tlb[v]]
        /\ d.cache = [e \in Entries |-> IF e \in es THEN NULL ELSE c.cache[e]]
        /\ d = [c EXCEPT !.tlb = d.tlb, !.cache = d.cache]
    BY DEF FlushedOut
  <1>2. /\ SameBlocks(c, d) /\ SameJumps(c, d) /\ SameCounts(c, d) /\ SameFlags(c, d)
        /\ d.dirty = c.dirty
    BY <1>1 DEF SameBlocks, SameJumps, SameCounts, SameFlags
  <1>3. d.tlb \in [VPages -> TlbEntries \cup {NULL}]
        /\ d.cache \in [Entries -> Slots \cup {NULL}]
    BY <1>1
  <1>4. \A x \in [VPages -> TlbEntries \cup {NULL}], y \in [Entries -> Slots \cup {NULL}] :
           [c EXCEPT !.tlb = x, !.cache = y] \in Cache
    OBVIOUS
  <1>5. d \in Cache
    BY <1>1, <1>3, <1>4
  <1> HIDE DEF Cache
  <1> QED  BY <1>1, <1>2, <1>5 DEF FlushLeaves

LEMMA BitmapFields ==
    ASSUME NEW c \in Cache, NEW ps, NEW d, d = invalidate_page_bitmap(c, ps)
    PROVE  /\ d \in Cache
           /\ SameBlocks(c, d) /\ SameJumps(c, d) /\ SameTlb(c, d) /\ SameFlags(c, d)
           /\ d.cache = c.cache
           /\ \A p \in PPages : d.bitmap[p] = IF p \in ps THEN NULL ELSE c.bitmap[p]
  <1> USE DEF Cache
  <1>1. /\ d.bitmap = [p \in PPages |-> IF p \in ps THEN NULL ELSE c.bitmap[p]]
        /\ d.writes = [p \in PPages |-> IF p \in ps THEN 0 ELSE c.writes[p]]
        /\ d = [c EXCEPT !.bitmap = d.bitmap, !.writes = d.writes]
    BY DEF invalidate_page_bitmap
  <1>2. /\ SameBlocks(c, d) /\ SameJumps(c, d) /\ SameTlb(c, d) /\ SameFlags(c, d)
        /\ d.cache = c.cache
    BY <1>1 DEF SameBlocks, SameJumps, SameTlb, SameFlags
  <1>3. /\ d.bitmap \in [PPages -> (SUBSET Regions) \cup {NULL}]
        /\ d.writes \in [PPages -> 0 .. SMC_BITMAP_USE_THRESHOLD]
    BY <1>1, TbCacheAssumption
  <1>4. \A x \in [PPages -> (SUBSET Regions) \cup {NULL}],
            y \in [PPages -> 0 .. SMC_BITMAP_USE_THRESHOLD] :
           [c EXCEPT !.bitmap = x, !.writes = y] \in Cache
    OBVIOUS
  <1>5. d \in Cache
    BY <1>1, <1>3, <1>4
  <1> HIDE DEF Cache
  <1> QED  BY <1>1, <1>2, <1>5

(* d has lost the jumps to the blocks of T. *)
JumpsReset(c, d, T) ==
    \A x \in Slots :
        /\ d.jumpers[x] = IF x \in T THEN {} ELSE c.jumpers[x] \ T
        /\ d.target[x] = IF \E t \in T : x \in c.jumpers[t] \ {y \in T : y >= t}
                         THEN NULL ELSE c.target[x]

LEMMA ResetFields ==
    ASSUME NEW c \in Cache, NEW T \in SUBSET Slots, NEW d, d = ResetJumpsTo(c, T)
    PROVE  /\ d \in Cache
           /\ SameBlocks(c, d) /\ SameCounts(c, d) /\ SameTlb(c, d) /\ SameFlags(c, d)
           /\ d.cache = c.cache
           /\ JumpsReset(c, d, T)
  <1> USE DEF Cache
  <1>1. /\ d.target = [x \in Slots |->
                          IF \E t \in T : x \in c.jumpers[t] \ {y \in T : y >= t}
                          THEN NULL ELSE c.target[x]]
        /\ d.jumpers = [x \in Slots |-> IF x \in T THEN {} ELSE c.jumpers[x] \ T]
        /\ d = [c EXCEPT !.target = d.target, !.jumpers = d.jumpers]
    BY DEF ResetJumpsTo
  <1>2. /\ SameBlocks(c, d) /\ SameCounts(c, d) /\ SameTlb(c, d) /\ SameFlags(c, d)
        /\ d.cache = c.cache
    BY <1>1 DEF SameBlocks, SameCounts, SameTlb, SameFlags
  <1>3. d.target \in [Slots -> Slots \cup {NULL}] /\ d.jumpers \in [Slots -> SUBSET Slots]
    BY <1>1
  <1>4. \A x \in [Slots -> Slots \cup {NULL}], y \in [Slots -> SUBSET Slots] :
           [c EXCEPT !.target = x, !.jumpers = y] \in Cache
    OBVIOUS
  <1>5. d \in Cache
    BY <1>1, <1>3, <1>4
  <1> HIDE DEF Cache
  <1> QED  BY <1>1, <1>2, <1>5 DEF JumpsReset

(* The blocks of T go from the tables. *)
Without(c, T, b) ==
    [c EXCEPT !.hash  = @ \ T,
              !.list  = [p \in PPages |-> {x \in @[p] : x[1] \notin T}],
              !.tb_invalidated_flag = IF T = {} THEN @ ELSE TRUE,
              !.cache = [e \in Entries |->
                  IF \E t \in T : @[e] = t /\ b[t].pc = e THEN NULL ELSE @[e]]]

CacheWithout(c, d, T) ==
    \A e \in Entries :
        d.cache[e] = IF \E t \in T : c.cache[e] = t /\ c.tbs[t].pc = e
                     THEN NULL ELSE c.cache[e]

LEMMA WithoutFields ==
    ASSUME NEW c \in Cache, NEW T \in SUBSET Slots, NEW d, d = Without(c, T, c.tbs)
    PROVE  /\ d \in Cache
           /\ d.tbs = c.tbs /\ d.nb_tbs = c.nb_tbs /\ d.hash = c.hash \ T
           /\ SameJumps(c, d) /\ SameCounts(c, d) /\ SameTlb(c, d) /\ d.crashed = c.crashed
           /\ \A p \in PPages : d.list[p] = {x \in c.list[p] : x[1] \notin T}
           /\ CacheWithout(c, d, T)
  <1> USE DEF Cache
  <1>1. /\ d.hash = c.hash \ T
        /\ d.list = [p \in PPages |-> {x \in c.list[p] : x[1] \notin T}]
        /\ d.tb_invalidated_flag = IF T = {} THEN c.tb_invalidated_flag ELSE TRUE
        /\ d.cache = [e \in Entries |->
                        IF \E t \in T : c.cache[e] = t /\ c.tbs[t].pc = e
                        THEN NULL ELSE c.cache[e]]
        /\ d = [c EXCEPT !.hash = d.hash, !.list = d.list,
                         !.tb_invalidated_flag = d.tb_invalidated_flag, !.cache = d.cache]
    BY DEF Without
  <1>2. /\ d.tbs = c.tbs /\ d.nb_tbs = c.nb_tbs
        /\ SameJumps(c, d) /\ SameCounts(c, d) /\ SameTlb(c, d) /\ d.crashed = c.crashed
    BY <1>1 DEF SameJumps, SameCounts, SameTlb
  <1>3. /\ d.hash \in SUBSET Slots /\ d.list \in [PPages -> SUBSET (Slots \X {1, 2})]
        /\ d.tb_invalidated_flag \in BOOLEAN /\ d.cache \in [Entries -> Slots \cup {NULL}]
    <2>1. d.list \in [PPages -> SUBSET (Slots \X {1, 2})]
      <3>1. \A p \in PPages : c.list[p] \in SUBSET (Slots \X {1, 2})
        OBVIOUS
      <3> HIDE DEF Cache
      <3> QED  BY <1>1, <3>1
    <2>2. d.tb_invalidated_flag \in BOOLEAN
      BY <1>1
    <2>3. d.cache \in [Entries -> Slots \cup {NULL}]
      BY <1>1
    <2> QED  BY <1>1, <2>1, <2>2, <2>3
  <1>4. \A h \in SUBSET Slots, l \in [PPages -> SUBSET (Slots \X {1, 2})], i \in BOOLEAN,
            y \in [Entries -> Slots \cup {NULL}] :
           [c EXCEPT !.hash = h, !.list = l, !.tb_invalidated_flag = i, !.cache = y] \in Cache
    OBVIOUS
  <1> HIDE DEF Cache
  <1>5. d \in Cache
    <2>1. [c EXCEPT !.hash = d.hash, !.list = d.list,
                    !.tb_invalidated_flag = d.tb_invalidated_flag, !.cache = d.cache] \in Cache
      BY <1>3, <1>4, Zenon
    <2> QED  BY <1>1, <2>1, Zenon
  <1> QED  BY <1>1, <1>2, <1>5 DEF CacheWithout

LEMMA InvalidateFields ==
    ASSUME NEW c \in Cache, NEW T \in SUBSET Slots, NEW d, d = InvalidateAll(c, T)
    PROVE  /\ d \in Cache
           /\ d.tbs = c.tbs /\ d.nb_tbs = c.nb_tbs /\ d.hash = c.hash \ T
           /\ SameTlb(c, d) /\ d.crashed = c.crashed
           /\ \A p \in PPages : d.list[p] = {x \in c.list[p] : x[1] \notin T}
           /\ \A p \in PPages : d.bitmap[p] \in {NULL, c.bitmap[p]}
           /\ CacheWithout(c, d, T)
           /\ JumpsReset(c, d, T)
  <1> DEFINE ps == UNION {PagesOf(c.tbs[t]) : t \in T}
             c1 == invalidate_page_bitmap(c, ps)
             c2 == Without(c1, T, c.tbs)
  <1>1. /\ c1 \in Cache
        /\ SameBlocks(c, c1) /\ SameJumps(c, c1) /\ SameTlb(c, c1) /\ SameFlags(c, c1)
        /\ c1.cache = c.cache
        /\ \A p \in PPages : c1.bitmap[p] = IF p \in ps THEN NULL ELSE c.bitmap[p]
    BY BitmapFields
  <1>2. /\ c2 \in Cache
        /\ c2.tbs = c1.tbs /\ c2.nb_tbs = c1.nb_tbs /\ c2.hash = c1.hash \ T
        /\ SameJumps(c1, c2) /\ SameCounts(c1, c2) /\ SameTlb(c1, c2) /\ c2.crashed = c1.crashed
        /\ \A p \in PPages : c2.list[p] = {x \in c1.list[p] : x[1] \notin T}
        /\ CacheWithout(c1, c2, T)
    <2> HIDE DEF c1
    <2>1. c1.tbs = c.tbs
      BY <1>1 DEF SameBlocks
    <2> QED  BY <1>1, <2>1, WithoutFields
  <1>3. d = ResetJumpsTo(c2, T)
    BY DEF InvalidateAll, Without
  <1> HIDE DEF c1, c2, ps
  <1>4. /\ d \in Cache
        /\ SameBlocks(c2, d) /\ SameCounts(c2, d) /\ SameTlb(c2, d) /\ SameFlags(c2, d)
        /\ d.cache = c2.cache
        /\ JumpsReset(c2, d, T)
    BY <1>2, <1>3, ResetFields
  <1>5. \A p \in PPages : d.bitmap[p] \in {NULL, c.bitmap[p]}
    BY <1>1, <1>2, <1>4 DEF SameCounts
  <1>6. JumpsReset(c, d, T)
    <2>1. c2.target = c.target /\ c2.jumpers = c.jumpers
      BY <1>1, <1>2 DEF SameJumps
    <2> QED  BY ONLY <1>4, <2>1 DEF JumpsReset
  <1>7. \A p \in PPages : d.list[p] = {x \in c.list[p] : x[1] \notin T}
    BY <1>1, <1>2, <1>4 DEF SameBlocks
  <1>8. CacheWithout(c, d, T)
    BY <1>1, <1>2, <1>4 DEF SameBlocks, CacheWithout
  <1> QED
    BY <1>1, <1>2, <1>4, <1>5, <1>6, <1>7, <1>8 DEF SameBlocks, SameTlb, SameFlags

-----------------------------------------------------------------------------
(* The invariant of the cache *)

InUse(c) == 0 .. c.nb_tbs - 1

Made(b) == b.pc \in Entries /\ Len(b.page) = IF b.pc[2] = 1 THEN 2 ELSE 1

(* The slots in use hold blocks, those in the hash list are among them. *)
SlotsMade(c) == c.hash \subseteq InUse(c) /\ \A t \in InUse(c) : Made(c.tbs[t])

(* Page n of block b is p. *)
Reads(b, n, p) == n \in DOMAIN b.page /\ b.page[n] = p

(* A page lists the parts of the blocks in the hash list that were read    *)
(* from it.                                                                *)
Listed(c) ==
    \A p \in PPages, t \in Slots, n \in {1, 2} :
        <<t, n>> \in c.list[p] <=>
            t \in c.hash /\ Reads(c.tbs[t], n, p)

NoneStale(c) == \A t \in c.hash : ~c.tbs[t].stale

Watched(c) ==
    \A p \in PPages : c.list[p] # {} =>
        /\ ~c.dirty[p]
        /\ \A v \in VPages : c.tlb[v] # NULL /\ c.tlb[v].page = p => c.tlb[v].notdirty

BitsCover(c) ==
    \A p \in PPages : c.bitmap[p] # NULL =>
        \A x \in c.list[p] : Part(c.tbs[x[1]], x[2])[2] \in c.bitmap[p]

(* The jump cache leads to blocks that can be found, and to the entry's. *)
CacheLive(c) ==
    \A e \in Entries : c.cache[e] # NULL =>
        c.cache[e] \in c.hash /\ c.tbs[c.cache[e]].pc = e

JumpsKnown(c) ==
    \A t \in c.hash :
        /\ c.jumpers[t] \subseteq InUse(c)
        /\ c.target[t] # NULL => c.target[t] \in c.hash /\ t \in c.jumpers[c.target[t]]

(* A block that has gone keeps its jump, which leads to a slot in use. *)
TargetsMade(c) ==
    \A t \in InUse(c) : c.target[t] # NULL => c.target[t] \in InUse(c)

CacheInv(c) ==
    /\ c \in Cache /\ SlotsMade(c) /\ Listed(c) /\ NoneStale(c) /\ Watched(c)
    /\ BitsCover(c) /\ CacheLive(c) /\ JumpsKnown(c) /\ TargetsMade(c)

LEMMA InUseSlots ==
    ASSUME NEW c \in Cache
    PROVE  InUse(c) \subseteq Slots
  BY CacheFields, TbCacheAssumption DEF InUse, Slots

(* What changes neither the blocks nor the jumps. *)
LEMMA SameBlocksInv ==
    ASSUME NEW c, CacheInv(c), NEW d \in Cache, SameBlocks(c, d), SameJumps(c, d),
           \A e \in Entries : d.cache[e] \in {NULL, c.cache[e]},
           Watched(d), BitsCover(d)
    PROVE  CacheInv(d)
  <1>1. SlotsMade(d) /\ Listed(d) /\ NoneStale(d) /\ InUse(d) = InUse(c)
    BY DEF CacheInv, SlotsMade, Listed, NoneStale, SameBlocks, InUse
  <1>2. CacheLive(d)
    BY DEF CacheInv, CacheLive, SameBlocks
  <1>3. JumpsKnown(d) /\ TargetsMade(d)
    BY <1>1 DEF CacheInv, JumpsKnown, TargetsMade, SameBlocks, SameJumps
  <1> QED  BY <1>1, <1>2, <1>3 DEF CacheInv

(* Blocks go: nothing that is left leads to them. *)
LEMMA InvalidateInv ==
    ASSUME NEW c, CacheInv(c), NEW T \in SUBSET Slots, NEW d, d = InvalidateAll(c, T)
    PROVE  CacheInv(d)
  <1>1. c \in Cache
    BY DEF CacheInv
  <1>2. /\ d \in Cache
        /\ d.tbs = c.tbs /\ d.nb_tbs = c.nb_tbs /\ d.hash = c.hash \ T
        /\ SameTlb(c, d) /\ d.crashed = c.crashed
        /\ \A p \in PPages : d.list[p] = {x \in c.list[p] : x[1] \notin T}
        /\ \A p \in PPages : d.bitmap[p] \in {NULL, c.bitmap[p]}
        /\ CacheWithout(c, d, T)
        /\ JumpsReset(c, d, T)
    BY <1>1, InvalidateFields
  <1>3. SlotsMade(d) /\ NoneStale(d) /\ InUse(d) = InUse(c)
    BY <1>2 DEF CacheInv, SlotsMade, NoneStale, InUse
  <1>4. Listed(d)
    <2> SUFFICES ASSUME NEW p \in PPages, NEW t \in Slots, NEW n \in {1, 2}
                 PROVE  <<t, n>> \in d.list[p] <=>
                           t \in d.hash /\ Reads(d.tbs[t], n, p)
      BY DEF Listed
    <2>1. <<t, n>> \in d.list[p] <=> <<t, n>> \in c.list[p] /\ t \notin T
      <3>1. d.list[p] = {x \in c.list[p] : x[1] \notin T}
        BY <1>2
      <3>2. <<t, n>>[1] = t
        OBVIOUS
      <3> QED  BY ONLY <3>1, <3>2
    <2>2. <<t, n>> \in c.list[p] <=> t \in c.hash /\ Reads(c.tbs[t], n, p)
      BY DEF CacheInv, Listed
    <2> QED  BY <1>2, <2>1, <2>2
  <1>5. Watched(d)
    BY <1>2 DEF CacheInv, Watched, SameTlb
  <1>6. BitsCover(d)
    BY <1>2 DEF CacheInv, BitsCover
  <1>7. CacheLive(d)
    BY <1>2 DEF CacheInv, CacheLive, CacheWithout
  <1>8. JumpsKnown(d)
    <2> SUFFICES ASSUME NEW t \in d.hash
                 PROVE  /\ d.jumpers[t] \subseteq InUse(d)
                        /\ d.target[t] # NULL =>
                              d.target[t] \in d.hash /\ t \in d.jumpers[d.target[t]]
      BY DEF JumpsKnown
    <2>1. t \in Slots /\ t \in c.hash /\ t \notin T
      BY <1>1, <1>2, CacheFields
    <2>2. d.jumpers[t] = c.jumpers[t] \ T
      BY <1>2, <2>1 DEF JumpsReset
    <2>3. ASSUME d.target[t] # NULL
          PROVE  d.target[t] \in d.hash /\ t \in d.jumpers[d.target[t]]
      <3>1. ~\E u \in T : t \in c.jumpers[u] \ {y \in T : y >= u}
        BY <1>2, <2>1, <2>3 DEF JumpsReset
      <3>2. d.target[t] = c.target[t]
        BY <1>2, <2>1, <2>3 DEF JumpsReset
      <3>3. c.target[t] \in c.hash /\ t \in c.jumpers[c.target[t]] /\ c.target[t] \in Slots
        BY <1>1, <2>1, <2>3, <3>2, CacheFields DEF CacheInv, JumpsKnown
      <3>4. c.target[t] \notin T
        BY <2>1, <3>1, <3>3
      <3>5. d.jumpers[c.target[t]] = c.jumpers[c.target[t]] \ T
        BY <1>2, <3>3, <3>4 DEF JumpsReset
      <3> QED  BY <1>2, <2>1, <3>2, <3>3, <3>4, <3>5
    <2> QED  BY <1>3, <2>1, <2>2, <2>3 DEF CacheInv, JumpsKnown
  <1>9. TargetsMade(d)
    <2> SUFFICES ASSUME NEW t \in InUse(c), d.target[t] # NULL
                 PROVE  d.target[t] \in InUse(c)
      BY <1>3 DEF TargetsMade
    <2>1. t \in Slots
      BY <1>1, InUseSlots
    <2>2. d.target[t] = c.target[t]
      BY <1>2, <2>1 DEF JumpsReset
    <2> QED  BY <2>2 DEF CacheInv, TargetsMade
  <1> QED  BY <1>2, <1>3, <1>4, <1>5, <1>6, <1>7, <1>8, <1>9 DEF CacheInv

-----------------------------------------------------------------------------
(* Invalidation *)

(* d is c with blocks gone and jumps reset. *)
Shrinks(c, d) ==
    /\ d.tbs = c.tbs /\ d.nb_tbs = c.nb_tbs /\ d.hash \subseteq c.hash /\ d.tlb = c.tlb
    /\ \A x \in Slots : /\ d.target[x] \in {NULL, c.target[x]}
                        /\ d.jumpers[x] \subseteq c.jumpers[x]
    /\ \A e \in Entries : d.cache[e] \in {NULL, c.cache[e]}

LEMMA ShrinksTransitive ==
    ASSUME NEW a, NEW b, NEW c, Shrinks(a, b), Shrinks(b, c)
    PROVE  Shrinks(a, c)
  BY DEF Shrinks

(* Block b was read from a region of rs of page p. *)
Touches(b, p, rs) == \E n \in DOMAIN b.page : b.page[n] = p /\ Part(b, n)[2] \in rs

(* The blocks of c that d has lost are those read from the regions. *)
Purged(c, d, p, rs) == \A t \in c.hash : t \in d.hash <=> ~Touches(c.tbs[t], p, rs)

LEMMA CountWriteInv ==
    ASSUME NEW c, CacheInv(c), NEW p \in PPages, NEW w \in BOOLEAN, NEW d,
           d = CountWrite(c, p, w)
    PROVE  CacheInv(d) /\ Shrinks(c, d) /\ d.hash = c.hash /\ d.list = c.list
  <1>0. c \in Cache
    BY DEF CacheInv
  <1>1. CASE c.bitmap[p] # NULL
    BY <1>1 DEF CountWrite, Shrinks
  <1>2. CASE c.bitmap[p] = NULL
    <2> DEFINE k == IF c.writes[p] < SMC_BITMAP_USE_THRESHOLD
                    THEN c.writes[p] + 1 ELSE c.writes[p]
               b == IF k = SMC_BITMAP_USE_THRESHOLD /\ w
                    THEN build_page_bitmap(c, p) ELSE NULL
    <2>1. /\ d.writes = [c.writes EXCEPT ![p] = k]
          /\ d.bitmap = [c.bitmap EXCEPT ![p] = b]
          /\ d = [c EXCEPT !.writes = d.writes, !.bitmap = d.bitmap]
      BY <1>0, <1>2 DEF CountWrite, Cache
    <2>2. k \in 0 .. SMC_BITMAP_USE_THRESHOLD
      BY <1>0, CacheFields, TbCacheAssumption
    <2>3. ASSUME NEW x \in c.list[p]  PROVE Part(c.tbs[x[1]], x[2])[2] \in Regions
      <3>1. PICK t \in Slots, n \in {1, 2} : x = <<t, n>>
        BY <1>0, CacheFields
      <3>2. t \in c.hash
        BY <3>1 DEF CacheInv, Listed
      <3>3. Made(c.tbs[t])
        BY <3>2 DEF CacheInv, SlotsMade
      <3>4. c.tbs[t].pc \in Nat \X Regions
        BY <3>3, TbCacheAssumption DEF Made
      <3>5. c.tbs[t].pc[2] \in Regions /\ 0 \in Regions
        BY <3>4 DEF Regions
      <3> QED  BY <3>1, <3>5 DEF Part
    <2>4. build_page_bitmap(c, p) \in SUBSET Regions
      BY <2>3 DEF build_page_bitmap
    <2>5. b \in (SUBSET Regions) \cup {NULL}
      BY <2>4
    <2>6. /\ SameBlocks(c, d) /\ SameJumps(c, d) /\ SameTlb(c, d)
          /\ d.cache = c.cache
      BY <1>0, <2>1 DEF SameBlocks, SameJumps, SameTlb, Cache
    <2>7. d \in Cache
      <3>1. /\ d.bitmap \in [PPages -> (SUBSET Regions) \cup {NULL}]
            /\ d.writes \in [PPages -> 0 .. SMC_BITMAP_USE_THRESHOLD]
        <4> HIDE DEF k, b
        <4> QED  BY <1>0, <2>1, <2>2, <2>5, CacheFields
      <3>2. \A x \in [PPages -> (SUBSET Regions) \cup {NULL}],
                y \in [PPages -> 0 .. SMC_BITMAP_USE_THRESHOLD] :
               [c EXCEPT !.writes = y, !.bitmap = x] \in Cache
        BY <1>0 DEF Cache
      <3> HIDE DEF k, b
      <3>3. [c EXCEPT !.writes = d.writes, !.bitmap = d.bitmap] \in Cache
        BY <3>1, <3>2
      <3> QED  BY <2>1, <3>3
    <2>8. Watched(d)
      BY <2>6 DEF CacheInv, Watched, SameBlocks, SameTlb
    <2>9. BitsCover(d)
      <3> SUFFICES ASSUME NEW q \in PPages, d.bitmap[q] # NULL, NEW x \in c.list[q]
                   PROVE  Part(c.tbs[x[1]], x[2])[2] \in d.bitmap[q]
        BY <2>6 DEF BitsCover, SameBlocks
      <3>1. CASE q # p
        <4>1. d.bitmap[q] = c.bitmap[q]
          BY <1>0, <2>1, <3>1, CacheFields
        <4> QED  BY <4>1 DEF CacheInv, BitsCover
      <3>2. CASE q = p
        <4>1. d.bitmap[q] = b
          BY <1>0, <2>1, <3>2, CacheFields
        <4> QED  BY <3>2, <4>1 DEF build_page_bitmap
      <3> QED  BY <3>1, <3>2
    <2>10. CacheInv(d)
      BY <2>6, <2>7, <2>8, <2>9, SameBlocksInv
    <2> QED  BY <2>6, <2>10 DEF Shrinks, SameBlocks, SameJumps, SameTlb
  <1> QED  BY <1>1, <1>2

(* The loop removes the blocks read from the written regions, and only     *)
(* those: the page's list names them all.                                  *)
LEMMA HitInv ==
    ASSUME NEW c, CacheInv(c), NEW p \in PPages, NEW rs, NEW d,
           d = InvalidateHit(c, p, rs)
    PROVE  CacheInv(d) /\ Shrinks(c, d) /\ Purged(c, d, p, rs)
  <1> DEFINE hit == {x \in c.list[p] : Hit(c, x, p, rs)}
             T == {x[1] : x \in hit}
             a == InvalidateAll(c, T)
             i == \E x, y \in hit : x # y /\ x[1] = y[1]
  <1>1. c \in Cache /\ c.list[p] \in SUBSET (Slots \X {1, 2})
    BY CacheFields DEF CacheInv
  <1>2. T \in SUBSET Slots
    BY <1>1
  <1>3. d = [a EXCEPT !.crashed = @ \/ i]
    BY DEF InvalidateHit
  <1>4. ASSUME NEW t \in c.hash  PROVE t \in T <=> Touches(c.tbs[t], p, rs)
    <2>1. t \in Slots /\ Made(c.tbs[t]) /\ c.tbs[t] \in Block
      BY <1>1, InUseSlots, CacheFields DEF CacheInv, SlotsMade
    <2>2. ASSUME t \in T  PROVE Touches(c.tbs[t], p, rs)
      <3>1. PICK x \in c.list[p] : Hit(c, x, p, rs) /\ t = x[1]
        BY <2>2
      <3>2. PICK n \in {1, 2} : x = <<t, n>>
        BY <1>1, <3>1
      <3>3. Reads(c.tbs[t], n, p)
        BY <2>1, <3>1, <3>2 DEF CacheInv, Listed
      <3>4. Part(c.tbs[t], n)[2] \in rs
        BY <3>1, <3>2 DEF Hit
      <3> QED  BY <3>3, <3>4 DEF Touches, Reads
    <2>3. ASSUME Touches(c.tbs[t], p, rs)  PROVE t \in T
      <3>1. PICK n \in DOMAIN c.tbs[t].page :
               c.tbs[t].page[n] = p /\ Part(c.tbs[t], n)[2] \in rs
        BY <2>3 DEF Touches
      <3>2. n \in {1, 2}
        BY <2>1 DEF Made, Block
      <3>3. <<t, n>> \in c.list[p]
        <4>1. Reads(c.tbs[t], n, p)
          BY <3>1 DEF Reads
        <4> QED  BY <2>1, <3>2, <4>1 DEF CacheInv, Listed
      <3>4. Hit(c, <<t, n>>, p, rs)
        BY <3>1 DEF Hit, Part
      <3>5. <<t, n>> \in hit /\ <<t, n>>[1] = t
        BY <3>3, <3>4
      <3> HIDE DEF hit
      <3> QED  BY <3>5
    <2> QED  BY <2>2, <2>3
  <1> HIDE DEF T, hit, i
  <1>5. /\ a \in Cache
        /\ a.tbs = c.tbs /\ a.nb_tbs = c.nb_tbs /\ a.hash = c.hash \ T
        /\ SameTlb(c, a)
        /\ CacheWithout(c, a, T)
        /\ JumpsReset(c, a, T)
    BY <1>1, <1>2, InvalidateFields
  <1>6. CacheInv(a)
    BY <1>2, InvalidateInv
  <1> HIDE DEF a
  <1>7. /\ d \in Cache /\ SameBlocks(a, d) /\ SameJumps(a, d) /\ SameCounts(a, d)
        /\ SameTlb(a, d) /\ d.cache = a.cache
    <2>1. (a.crashed \/ i) \in BOOLEAN
      OBVIOUS
    <2>2. \A x \in BOOLEAN : [a EXCEPT !.crashed = x] \in Cache
      BY <1>5 DEF Cache
    <2>3. d = [a EXCEPT !.crashed = (a.crashed \/ i)]
      BY <1>3, <1>5
    <2>4. PICK x \in BOOLEAN : d = [a EXCEPT !.crashed = x]
      BY <2>1, <2>3, Zenon
    <2> QED
      BY <1>5, <2>2, <2>4 DEF SameBlocks, SameJumps, SameCounts, SameTlb, Cache
  <1>8. CacheInv(d)
    <2>1. Watched(d) /\ BitsCover(d)
      BY <1>6, <1>7 DEF CacheInv, Watched, BitsCover, SameBlocks, SameCounts, SameTlb
    <2> QED  BY <1>6, <1>7, <2>1, SameBlocksInv
  <1>9. Shrinks(c, d)
    <2>1. \A x \in Slots : /\ d.target[x] \in {NULL, c.target[x]}
                           /\ d.jumpers[x] \subseteq c.jumpers[x]
      <3> TAKE x \in Slots
      <3>1. d.target[x] \in {NULL, c.target[x]}
        BY <1>5, <1>7 DEF SameJumps, JumpsReset
      <3>2. d.jumpers[x] = IF x \in T THEN {} ELSE c.jumpers[x] \ T
        BY <1>5, <1>7 DEF SameJumps, JumpsReset
      <3> QED  BY <3>1, <3>2
    <2>2. \A e \in Entries : d.cache[e] \in {NULL, c.cache[e]}
      BY <1>5, <1>7 DEF CacheWithout
    <2> QED  BY <1>5, <1>7, <2>1, <2>2 DEF Shrinks, SameBlocks, SameTlb
  <1>10. Purged(c, d, p, rs)
    BY <1>4, <1>5, <1>7 DEF Purged, SameBlocks
  <1> QED  BY <1>8, <1>9, <1>10

(* A page without blocks is no longer watched. *)
LEMMA UnprotectInv ==
    ASSUME NEW c, CacheInv(c), NEW p \in PPages, NEW w \in BOOLEAN, NEW d,
           d = Unprotect(c, p, w)
    PROVE  CacheInv(d) /\ Shrinks(c, d) /\ d.hash = c.hash
  <1>0. c \in Cache
    BY DEF CacheInv
  <1>1. CASE c.list[p] # {}
    BY <1>1 DEF Unprotect, Shrinks
  <1>2. CASE c.list[p] = {}
    <2> DEFINE u == invalidate_page_bitmap(c, {p})
    <2>1. /\ u \in Cache
          /\ SameBlocks(c, u) /\ SameJumps(c, u) /\ SameTlb(c, u) /\ u.cache = c.cache
          /\ \A q \in PPages : u.bitmap[q] = IF q \in {p} THEN NULL ELSE c.bitmap[q]
      BY <1>0, BitmapFields
    <2>2. d = IF w THEN tlb_unprotect_code_phys(u, p) ELSE u
      BY <1>2 DEF Unprotect
    <2> HIDE DEF u
    <2>3. BitsCover(u) /\ Watched(u)
      BY <2>1 DEF CacheInv, BitsCover, Watched, SameBlocks, SameTlb
    <2>4. CacheInv(u)
      BY <2>1, <2>3, SameBlocksInv
    <2>5. CASE ~w
      BY <2>1, <2>2, <2>4, <2>5 DEF Shrinks, SameBlocks, SameJumps, SameTlb
    <2>6. CASE w
      <3>1. /\ d \in Cache
            /\ SameBlocks(u, d) /\ SameJumps(u, d) /\ SameCounts(u, d)
            /\ d.cache = u.cache /\ d.tlb = u.tlb
            /\ d.dirty = [u.dirty EXCEPT ![p] = TRUE]
        BY <2>1, <2>2, <2>6, UnprotectPhysFields
      <3>2. Watched(d)
        <4> SUFFICES ASSUME NEW q \in PPages, d.list[q] # {}
                     PROVE  /\ ~d.dirty[q]
                            /\ \A v \in VPages : d.tlb[v] # NULL /\ d.tlb[v].page = q
                                                    => d.tlb[v].notdirty
          BY DEF Watched
        <4>1. q # p /\ u.list[q] # {}
          BY <1>2, <2>1, <3>1 DEF SameBlocks
        <4>2. d.dirty[q] = u.dirty[q]
          BY <2>1, <3>1, <4>1, CacheFields
        <4> QED  BY <2>3, <3>1, <4>1, <4>2 DEF Watched
      <3>3. BitsCover(d)
        BY <2>3, <3>1 DEF BitsCover, SameBlocks, SameCounts
      <3>4. CacheInv(d)
        BY <2>4, <3>1, <3>2, <3>3, SameBlocksInv
      <3> QED  BY <2>1, <3>1, <3>4 DEF Shrinks, SameBlocks, SameJumps, SameTlb
    <2> QED  BY <2>5, <2>6
  <1> QED  BY <1>1, <1>2

LEMMA RangeInv ==
    ASSUME NEW c, CacheInv(c), NEW p \in PPages, NEW rs, NEW w \in BOOLEAN, NEW d,
           d = tb_invalidate_phys_page_range(c, p, rs, w)
    PROVE  CacheInv(d) /\ Shrinks(c, d) /\ Purged(c, d, p, rs)
  <1>1. PICK c1 : c1 = CountWrite(c, p, w)
    OBVIOUS
  <1>2. PICK c2 : c2 = InvalidateHit(c1, p, rs)
    OBVIOUS
  <1>3. d = Unprotect(c2, p, w)
    BY <1>1, <1>2 DEF tb_invalidate_phys_page_range
  <1>4. CacheInv(c1) /\ Shrinks(c, c1) /\ c1.hash = c.hash
    BY <1>1, CountWriteInv
  <1>5. CacheInv(c2) /\ Shrinks(c1, c2) /\ Purged(c1, c2, p, rs)
    BY <1>2, <1>4, HitInv
  <1>6. CacheInv(d) /\ Shrinks(c2, d) /\ d.hash = c2.hash
    BY <1>3, <1>5, UnprotectInv
  <1>7. Shrinks(c, d)
    BY <1>4, <1>5, <1>6, ShrinksTransitive
  <1> QED  BY <1>4, <1>5, <1>6, <1>7 DEF Purged, Shrinks

(* A bitmap that says there is nothing to invalidate is right. *)
LEMMA FastInv ==
    ASSUME NEW c, CacheInv(c), NEW p \in PPages, NEW r \in Regions, NEW d,
           d = tb_invalidate_phys_page_fast(c, p, r)
    PROVE  CacheInv(d) /\ Shrinks(c, d) /\ Purged(c, d, p, {r})
  <1>0. c \in Cache
    BY DEF CacheInv
  <1>1. CASE c.bitmap[p] # NULL /\ r \notin c.bitmap[p]
    <2>1. d = c
      BY <1>1 DEF tb_invalidate_phys_page_fast
    <2>2. ASSUME NEW t \in c.hash, Touches(c.tbs[t], p, {r})  PROVE FALSE
      <3>1. t \in Slots /\ Made(c.tbs[t]) /\ c.tbs[t] \in Block
        BY <1>0, InUseSlots, CacheFields DEF CacheInv, SlotsMade
      <3>2. PICK n \in DOMAIN c.tbs[t].page :
               c.tbs[t].page[n] = p /\ Part(c.tbs[t], n)[2] = r
        BY <2>2 DEF Touches
      <3>3. n \in {1, 2} /\ Reads(c.tbs[t], n, p)
        BY <3>1, <3>2 DEF Made, Block, Reads
      <3>4. <<t, n>> \in c.list[p]
        BY <3>1, <3>3 DEF CacheInv, Listed
      <3>5. Part(c.tbs[<<t, n>>[1]], <<t, n>>[2])[2] \in c.bitmap[p]
        BY <1>1, <3>4 DEF CacheInv, BitsCover
      <3> QED  BY <1>1, <3>2, <3>5
    <2> QED  BY <2>1, <2>2 DEF Shrinks, Purged
  <1>2. CASE ~(c.bitmap[p] # NULL /\ r \notin c.bitmap[p])
    <2>1. d = tb_invalidate_phys_page_range(c, p, {r}, TRUE)
      BY <1>2 DEF tb_invalidate_phys_page_fast
    <2> QED  BY <2>1, RangeInv
  <1> QED  BY <1>1, <1>2

(* A write marks blocks as stale. *)
Marked(c, p, rs) ==
    [t \in Slots |-> IF PartsOf(c.tbs[t]) \cap ({p} \X rs) # {}
                     THEN [c.tbs[t] EXCEPT !.stale = TRUE] ELSE c.tbs[t]]

LEMMA WrittenFields ==
    ASSUME NEW c \in Cache, NEW p, NEW rs, NEW d, d = Written(c, p, rs)
    PROVE  /\ d \in Cache
           /\ d.tbs = Marked(c, p, rs)
           /\ d.nb_tbs = c.nb_tbs /\ d.hash = c.hash /\ d.list = c.list
           /\ d.cache = c.cache /\ SameJumps(c, d) /\ SameTlb(c, d) /\ SameCounts(c, d)
           /\ \A t \in Slots : /\ d.tbs[t].pc = c.tbs[t].pc
                               /\ d.tbs[t].page = c.tbs[t].page
                               /\ d.tbs[t].one = c.tbs[t].one
  <1>1. /\ d.tbs = [t \in Slots |->
                       IF PartsOf(c.tbs[t]) \cap ({p} \X rs) # {}
                       THEN [c.tbs[t] EXCEPT !.stale = TRUE] ELSE c.tbs[t]]
        /\ d = [c EXCEPT !.tbs = d.tbs]
    BY DEF Written, Cache
  <1>2. ASSUME NEW b \in Block
        PROVE  /\ [b EXCEPT !.stale = TRUE] \in Block
               /\ [b EXCEPT !.stale = TRUE].pc = b.pc
               /\ [b EXCEPT !.stale = TRUE].page = b.page
               /\ [b EXCEPT !.stale = TRUE].one = b.one
    BY DEF Block
  <1>3. ASSUME NEW t \in Slots
        PROVE  /\ d.tbs[t] \in Block /\ d.tbs[t].pc = c.tbs[t].pc
               /\ d.tbs[t].page = c.tbs[t].page /\ d.tbs[t].one = c.tbs[t].one
    <2>1. c.tbs[t] \in Block
      BY CacheFields
    <2>2. d.tbs[t] = c.tbs[t] \/ d.tbs[t] = [c.tbs[t] EXCEPT !.stale = TRUE]
      BY <1>1
    <2> QED  BY <1>2, <2>1, <2>2
  <1>4. d \in Cache
    <2>1. d.tbs \in [Slots -> Block]
      BY <1>1, <1>3
    <2>2. \A x \in [Slots -> Block] : [c EXCEPT !.tbs = x] \in Cache
      BY DEF Cache
    <2> QED  BY <1>1, <2>1, <2>2
  <1>5. /\ d.nb_tbs = c.nb_tbs /\ d.hash = c.hash /\ d.list = c.list
        /\ d.cache = c.cache /\ SameJumps(c, d) /\ SameTlb(c, d) /\ SameCounts(c, d)
    BY <1>1 DEF Cache, SameJumps, SameTlb, SameCounts
  <1>6. d.tbs = Marked(c, p, rs)
    BY <1>1 DEF Marked
  <1> QED  BY <1>3, <1>4, <1>5, <1>6

(* A write to regions no block that can be found was read from. *)
LEMMA WrittenInv ==
    ASSUME NEW c, CacheInv(c), NEW p \in PPages, NEW rs \in SUBSET Regions,
           \A t \in c.hash : ~Touches(c.tbs[t], p, rs),
           NEW d, d = Written(c, p, rs)
    PROVE  /\ CacheInv(d)
           /\ d.nb_tbs = c.nb_tbs /\ d.hash = c.hash /\ d.list = c.list
           /\ d.cache = c.cache /\ SameJumps(c, d) /\ SameTlb(c, d)
           /\ \A t \in Slots : /\ d.tbs[t].pc = c.tbs[t].pc
                               /\ d.tbs[t].page = c.tbs[t].page
                               /\ d.tbs[t].one = c.tbs[t].one
  <1>0. c \in Cache
    BY DEF CacheInv
  <1>1. d.tbs = [t \in Slots |->
                    IF PartsOf(c.tbs[t]) \cap ({p} \X rs) # {}
                    THEN [c.tbs[t] EXCEPT !.stale = TRUE] ELSE c.tbs[t]]
    BY <1>0, WrittenFields DEF Marked
  <1>3. \A t \in Slots : /\ d.tbs[t].pc = c.tbs[t].pc /\ d.tbs[t].page = c.tbs[t].page
                         /\ d.tbs[t].one = c.tbs[t].one
    BY <1>0, WrittenFields
  <1>4. d \in Cache
    BY <1>0, WrittenFields
  <1>5. /\ d.nb_tbs = c.nb_tbs /\ d.hash = c.hash /\ d.list = c.list
        /\ d.cache = c.cache /\ SameJumps(c, d) /\ SameTlb(c, d) /\ SameCounts(c, d)
    BY <1>0, WrittenFields
  <1>6. NoneStale(d)
    <2> SUFFICES ASSUME NEW t \in c.hash  PROVE ~d.tbs[t].stale
      BY <1>5 DEF NoneStale
    <2>1. t \in Slots
      BY <1>0, CacheFields
    <2>2. PartsOf(c.tbs[t]) \cap ({p} \X rs) = {}
      <3> SUFFICES ASSUME NEW n \in DOMAIN c.tbs[t].page,
                          Part(c.tbs[t], n) \in {p} \X rs
                   PROVE  FALSE
        BY DEF PartsOf
      <3>1. c.tbs[t].page[n] = p /\ Part(c.tbs[t], n)[2] \in rs
        BY DEF Part
      <3> QED  BY <3>1 DEF Touches
    <2>3. d.tbs[t] = c.tbs[t]
      BY <1>1, <2>1, <2>2
    <2> QED  BY <2>3 DEF CacheInv, NoneStale
  <1>7. InUse(d) = InUse(c) /\ InUse(c) \subseteq Slots
    BY <1>0, <1>5, InUseSlots DEF InUse
  <1>8. SlotsMade(d)
    BY <1>3, <1>5, <1>7 DEF CacheInv, SlotsMade, Made
  <1>9. Listed(d)
    <2>1. \A t \in Slots : \A n, q : Reads(d.tbs[t], n, q) <=> Reads(c.tbs[t], n, q)
      BY <1>3 DEF Reads
    <2> QED  BY <1>5, <2>1 DEF CacheInv, Listed
  <1>10. Watched(d)
    BY <1>5 DEF CacheInv, Watched, SameTlb
  <1>11. BitsCover(d)
    <2> SUFFICES ASSUME NEW q \in PPages, d.bitmap[q] # NULL, NEW x \in c.list[q]
                 PROVE  Part(d.tbs[x[1]], x[2])[2] \in d.bitmap[q]
      BY <1>5 DEF BitsCover
    <2>1. x[1] \in Slots
      BY <1>0, CacheFields
    <2>2. Part(d.tbs[x[1]], x[2])[2] = Part(c.tbs[x[1]], x[2])[2]
      BY <1>3, <2>1 DEF Part
    <2> QED  BY <1>5, <2>2 DEF CacheInv, BitsCover, SameCounts
  <1>12. CacheLive(d)
    BY <1>0, <1>3, <1>5, CacheFields DEF CacheInv, CacheLive
  <1>13. JumpsKnown(d) /\ TargetsMade(d)
    BY <1>5, <1>7 DEF CacheInv, JumpsKnown, TargetsMade, SameJumps
  <1>14. CacheInv(d)
    BY <1>4, <1>6, <1>8, <1>9, <1>10, <1>11, <1>12, <1>13 DEF CacheInv
  <1> QED  BY <1>3, <1>5, <1>14

-----------------------------------------------------------------------------
(* The TLB *)

(* d has translations that c has not, all of them those of m. *)
TlbGrows(c, d, m) ==
    \A v \in VPages :
        /\ c.tlb[v] # NULL => d.tlb[v] # NULL /\ d.tlb[v].page = c.tlb[v].page
        /\ c.tlb[v] = NULL /\ d.tlb[v] # NULL => d.tlb[v].page = m[v]

LEMMA TlbGrowsTransitive ==
    ASSUME NEW a, NEW b, NEW c, NEW m, TlbGrows(a, b, m), TlbGrows(b, c, m)
    PROVE  TlbGrows(a, c, m)
  BY DEF TlbGrows

LEMMA EntryPages ==
    ASSUME NEW e \in Entries
    PROVE  /\ VPagesOf(e) \in SUBSET VPages
           /\ e[1] \in VPagesOf(e) /\ (e[2] = 1 => e[1] + 1 \in VPagesOf(e))
  BY DEF VPagesOf, VPages

LEMMA TlbIsNotNull ==
    ASSUME NEW p \in PPages, NEW d \in BOOLEAN
    PROVE  [page |-> p, notdirty |-> d] # NULL
  BY TbCacheAssumption

(* d is c with more translations. *)
FillsOnly(c, d, m) ==
    /\ SameBlocks(c, d) /\ SameJumps(c, d) /\ SameFlags(c, d) /\ d.cache = c.cache
    /\ TlbGrows(c, d, m)

LEMMA FillInv ==
    ASSUME NEW c, CacheInv(c), NEW v \in VPages, NEW m \in Maps, NEW d, d = Fill(c, v, m)
    PROVE  CacheInv(d) /\ FillsOnly(c, d, m) /\ d.tlb[v] # NULL /\ d.dirty = c.dirty
  <1>0. c \in Cache
    BY DEF CacheInv
  <1>1. /\ d \in Cache
        /\ SameBlocks(c, d) /\ SameJumps(c, d) /\ SameCounts(c, d) /\ SameFlags(c, d)
        /\ d.cache = c.cache /\ d.dirty = c.dirty
        /\ d.tlb[v] = IF c.tlb[v] # NULL THEN c.tlb[v]
                      ELSE [page |-> m[v], notdirty |-> ~c.dirty[m[v]]]
        /\ \A w \in VPages : w # v => d.tlb[w] = c.tlb[w]
    BY <1>0, FillFields
  <1>2. m[v] \in PPages /\ c.dirty[m[v]] \in BOOLEAN
    BY <1>0, CacheFields DEF Maps
  <1>3. [page |-> m[v], notdirty |-> ~c.dirty[m[v]]] # NULL
    BY <1>2, TlbIsNotNull
  <1>4. d.tlb[v] # NULL
    BY <1>1, <1>3
  <1>5. TlbGrows(c, d, m)
    BY <1>1 DEF TlbGrows
  <1>6. Watched(d)
    <2> SUFFICES ASSUME NEW p \in PPages, c.list[p] # {}, NEW w \in VPages,
                        d.tlb[w] # NULL, d.tlb[w].page = p
                 PROVE  d.tlb[w].notdirty
      BY <1>1 DEF CacheInv, Watched, SameBlocks
    <2>1. ~c.dirty[p] /\ (c.tlb[w] # NULL /\ c.tlb[w].page = p => c.tlb[w].notdirty)
      BY DEF CacheInv, Watched
    <2>2. CASE w # v \/ c.tlb[v] # NULL
      BY <1>1, <2>1, <2>2
    <2>3. CASE w = v /\ c.tlb[v] = NULL
      <3>1. d.tlb[w] = [page |-> m[v], notdirty |-> ~c.dirty[m[v]]]
        BY <1>1, <2>3
      <3>2. d.tlb[w].page = m[v] /\ d.tlb[w].notdirty = ~c.dirty[m[v]]
        BY <3>1
      <3> QED  BY <2>1, <3>2
    <2> QED  BY <2>2, <2>3
  <1>7. BitsCover(d)
    BY <1>1 DEF CacheInv, BitsCover, SameBlocks, SameCounts
  <1>8. CacheInv(d)
    BY <1>1, <1>6, <1>7, SameBlocksInv
  <1> QED  BY <1>1, <1>4, <1>5, <1>8 DEF FillsOnly

LEMMA FillCodeInv ==
    ASSUME NEW c, CacheInv(c), NEW e \in Entries, NEW m \in Maps, NEW d,
           d = FillCode(c, e, m)
    PROVE  /\ CacheInv(d) /\ FillsOnly(c, d, m)
           /\ \A v \in VPagesOf(e) : d.tlb[v] # NULL
  <1>1. VPagesOf(e) \in SUBSET VPages /\ e[1] \in VPagesOf(e)
    BY EntryPages
  <1>2. PICK c1 : c1 = Fill(c, e[1], m)
    OBVIOUS
  <1>3. CacheInv(c1) /\ FillsOnly(c, c1, m) /\ c1.tlb[e[1]] # NULL
    BY <1>1, <1>2, FillInv
  <1>4. CASE e[2] # 1
    BY <1>2, <1>3, <1>4 DEF FillCode, VPagesOf
  <1>5. CASE e[2] = 1
    <2>1. e[1] + 1 \in VPages /\ VPagesOf(e) = {e[1], e[1] + 1}
      BY <1>1, <1>5 DEF VPagesOf
    <2>2. d = Fill(c1, e[1] + 1, m)
      BY <1>2, <1>5 DEF FillCode
    <2>3. CacheInv(d) /\ FillsOnly(c1, d, m) /\ d.tlb[e[1] + 1] # NULL
      BY <1>3, <2>1, <2>2, FillInv
    <2>4. TlbGrows(c, d, m)
      BY <1>3, <2>3, TlbGrowsTransitive DEF FillsOnly
    <2>5. d.tlb[e[1]] # NULL
      BY <1>1, <1>3, <2>3 DEF FillsOnly, TlbGrows
    <2>6. FillsOnly(c, d, m)
      BY <1>3, <2>3, <2>4 DEF FillsOnly, SameBlocks, SameJumps, SameFlags
    <2> QED  BY <2>1, <2>3, <2>5, <2>6
  <1> QED  BY <1>4, <1>5

(* Entries of the TLB and of the jump cache may go at any time. *)
LEMMA FlushInv ==
    ASSUME NEW c, CacheInv(c), NEW vs \in SUBSET VPages, NEW es \in SUBSET Entries, NEW d,
           d = FlushedOut(c, vs, es)
    PROVE  /\ CacheInv(d) /\ SameBlocks(c, d) /\ SameJumps(c, d) /\ SameFlags(c, d)
           /\ FlushLeaves(c, d, vs, es)
  <1>0. c \in Cache
    BY DEF CacheInv
  <1>1. /\ d \in Cache
        /\ SameBlocks(c, d) /\ SameJumps(c, d) /\ SameCounts(c, d) /\ SameFlags(c, d)
        /\ d.dirty = c.dirty
        /\ FlushLeaves(c, d, vs, es)
    BY <1>0, FlushFields
  <1>2. Watched(d)
    BY <1>1 DEF CacheInv, Watched, SameBlocks, FlushLeaves
  <1>3. BitsCover(d)
    BY <1>1 DEF CacheInv, BitsCover, SameBlocks, SameCounts
  <1>4. CacheInv(d)
    BY <1>1, <1>2, <1>3, SameBlocksInv DEF FlushLeaves
  <1> QED  BY <1>1, <1>4

LEMMA TlbFlushOut ==
    ASSUME NEW c
    PROVE  tlb_flush(c) = FlushedOut(c, VPages, Entries)
  <1>1. [v \in VPages |-> NULL] = [v \in VPages |-> IF v \in VPages THEN NULL ELSE c.tlb[v]]
    OBVIOUS
  <1>2. [e \in Entries |-> NULL] = [e \in Entries |-> IF e \in Entries THEN NULL ELSE c.cache[e]]
    OBVIOUS
  <1> QED  BY <1>1, <1>2 DEF tlb_flush, FlushedOut

LEMMA TlbFlushInv ==
    ASSUME NEW c, CacheInv(c), NEW d, d = tlb_flush(c)
    PROVE  /\ CacheInv(d) /\ SameBlocks(c, d) /\ SameJumps(c, d) /\ SameFlags(c, d)
           /\ \A e \in Entries : d.cache[e] = NULL
           /\ \A v \in VPages : d.tlb[v] = NULL
  <1>1. d = FlushedOut(c, VPages, Entries)
    BY TlbFlushOut
  <1>2. /\ CacheInv(d) /\ SameBlocks(c, d) /\ SameJumps(c, d) /\ SameFlags(c, d)
        /\ FlushLeaves(c, d, VPages, Entries)
    BY <1>1, FlushInv
  <1> QED  BY <1>2 DEF FlushLeaves

LEMMA FlushPageInv ==
    ASSUME NEW c, CacheInv(c), NEW w \in VPages, NEW d, d = tlb_flush_page(c, w)
    PROVE  /\ CacheInv(d) /\ SameBlocks(c, d) /\ SameJumps(c, d) /\ SameFlags(c, d)
           /\ \A e \in Entries : d.cache[e] = IF e[1] \in {w, w - 1} THEN NULL ELSE c.cache[e]
           /\ \A v \in VPages : d.tlb[v] = IF v = w THEN NULL ELSE c.tlb[v]
  <1> DEFINE es == {e \in Entries : e[1] \in {w, w - 1}}
  <1>1. d = FlushedOut(c, {w}, es)
    <2>1. [c.tlb EXCEPT ![w] = NULL] = [v \in VPages |-> IF v \in {w} THEN NULL ELSE c.tlb[v]]
      BY CacheFields DEF CacheInv
    <2>2. [e \in Entries |-> IF e[1] \in {w, w - 1} THEN NULL ELSE c.cache[e]]
             = [e \in Entries |-> IF e \in es THEN NULL ELSE c.cache[e]]
      OBVIOUS
    <2>3. d = [c EXCEPT !.tlb = [c.tlb EXCEPT ![w] = NULL],
                        !.cache = [e \in Entries |-> IF e[1] \in {w, w - 1} THEN NULL
                                                     ELSE c.cache[e]]]
      BY DEF tlb_flush_page, tb_flush_jmp_cache, CacheInv, Cache
    <2> QED  BY <2>1, <2>2, <2>3 DEF FlushedOut
  <1>2. {w} \in SUBSET VPages /\ es \in SUBSET Entries
    OBVIOUS
  <1>3. /\ CacheInv(d) /\ SameBlocks(c, d) /\ SameJumps(c, d) /\ SameFlags(c, d)
        /\ FlushLeaves(c, d, {w}, es)
    <2> HIDE DEF es
    <2> QED  BY <1>1, <1>2, FlushInv
  <1> QED  BY <1>3 DEF FlushLeaves

TlbClear(c, w) == [c EXCEPT !.tlb[w] = NULL]

LEMMA EvictInv ==
    ASSUME NEW c, CacheInv(c), NEW w \in VPages, NEW d, d = TlbClear(c, w)
    PROVE  /\ CacheInv(d) /\ SameBlocks(c, d) /\ SameJumps(c, d) /\ SameFlags(c, d)
           /\ \A e \in Entries : d.cache[e] = c.cache[e]
           /\ \A v \in VPages : d.tlb[v] = IF v = w THEN NULL ELSE c.tlb[v]
  <1>1. d = FlushedOut(c, {w}, {})
    <2>1. [c.tlb EXCEPT ![w] = NULL] = [v \in VPages |-> IF v \in {w} THEN NULL ELSE c.tlb[v]]
      BY CacheFields DEF CacheInv
    <2>2. c.cache = [e \in Entries |-> IF e \in {} THEN NULL ELSE c.cache[e]]
      BY CacheFields DEF CacheInv
    <2>3. d = [c EXCEPT !.tlb = [c.tlb EXCEPT ![w] = NULL], !.cache = c.cache]
      BY DEF TlbClear, CacheInv, Cache
    <2> QED  BY <2>1, <2>2, <2>3 DEF FlushedOut
  <1>2. {w} \in SUBSET VPages /\ {} \in SUBSET Entries
    OBVIOUS
  <1>3. /\ CacheInv(d) /\ SameBlocks(c, d) /\ SameJumps(c, d) /\ SameFlags(c, d)
        /\ FlushLeaves(c, d, {w}, {})
    BY <1>1, <1>2, FlushInv
  <1> QED  BY <1>3 DEF FlushLeaves

-----------------------------------------------------------------------------
(* Adding blocks *)

(* Nothing is left after tb_flush but the TLB and the flags. *)
LEMMA TbFlushFields ==
    ASSUME NEW c \in Cache, NEW d, d = tb_flush(c)
    PROVE  /\ d \in Cache /\ d.nb_tbs = 0 /\ d.hash = {} /\ SameTlb(c, d) /\ SameFlags(c, d)
           /\ \A p \in PPages : d.list[p] = {} /\ d.bitmap[p] = NULL
           /\ \A e \in Entries : d.cache[e] = NULL
           /\ \A t \in Slots : d.target[t] = NULL /\ d.jumpers[t] = {}
  <1> DEFINE a == invalidate_page_bitmap(c, PPages)
  <1>1. /\ a \in Cache /\ SameTlb(c, a) /\ SameFlags(c, a)
        /\ \A p \in PPages : a.bitmap[p] = IF p \in PPages THEN NULL ELSE c.bitmap[p]
    BY BitmapFields
  <1>2. d = [a EXCEPT !.tbs = EmptyCache.tbs, !.nb_tbs = 0, !.hash = {},
                      !.list = EmptyCache.list, !.cache = EmptyCache.cache,
                      !.target = EmptyCache.target, !.jumpers = EmptyCache.jumpers]
    BY DEF tb_flush
  <1>3. /\ EmptyCache.tbs = [t \in Slots |-> NoBlock]
        /\ EmptyCache.list = [p \in PPages |-> {}]
        /\ EmptyCache.cache = [e \in Entries |-> NULL]
        /\ EmptyCache.target = [t \in Slots |-> NULL]
        /\ EmptyCache.jumpers = [t \in Slots |-> {}]
    BY DEF EmptyCache
  <1>4. PICK tb, l, e, g, j :
           /\ tb = [t \in Slots |-> NoBlock] /\ l = [p \in PPages |-> {}]
           /\ e = [x \in Entries |-> NULL] /\ g = [t \in Slots |-> NULL]
           /\ j = [t \in Slots |-> {}]
    OBVIOUS
  <1> HIDE DEF a
  <1>5. d = [a EXCEPT !.tbs = tb, !.nb_tbs = 0, !.hash = {}, !.list = l, !.cache = e,
                      !.target = g, !.jumpers = j]
    BY <1>2, <1>3, <1>4
  <1>6. /\ tb \in [Slots -> Block] /\ l \in [PPages -> SUBSET (Slots \X {1, 2})]
        /\ e \in [Entries -> Slots \cup {NULL}] /\ g \in [Slots -> Slots \cup {NULL}]
        /\ j \in [Slots -> SUBSET Slots]
    <2>1. <<>> \in Seq(PPages)
      OBVIOUS
    <2>2. NoBlock \in Block
      BY <2>1 DEF NoBlock, Block
    <2> QED  BY <1>4, <2>2
  <1>7. /\ d.nb_tbs = 0 /\ d.hash = {} /\ d.list = l /\ d.cache = e /\ d.target = g
        /\ d.jumpers = j /\ d.bitmap = a.bitmap
        /\ SameTlb(a, d) /\ SameFlags(a, d)
    BY <1>1, <1>5 DEF Cache, SameTlb, SameFlags
  <1>8. d \in Cache
    <2>1. 0 \in 0 .. MaxTbs /\ {} \in SUBSET Slots
      BY TbCacheAssumption
    <2>2. \A n \in 0 .. MaxTbs, h \in SUBSET Slots :
             [a EXCEPT !.tbs = tb, !.nb_tbs = n, !.hash = h, !.list = l, !.cache = e,
                       !.target = g, !.jumpers = j] \in Cache
      BY <1>1, <1>6 DEF Cache
    <2>3. [a EXCEPT !.tbs = tb, !.nb_tbs = 0, !.hash = {}, !.list = l, !.cache = e,
                    !.target = g, !.jumpers = j] \in Cache
      BY <2>1, <2>2, Zenon
    <2> QED  BY <1>5, <2>3, Zenon
  <1> QED  BY <1>1, <1>4, <1>7, <1>8 DEF SameTlb, SameFlags

LEMMA EmptyInv ==
    ASSUME NEW c \in Cache, c.nb_tbs = 0, c.hash = {},
           \A p \in PPages : c.list[p] = {} /\ c.bitmap[p] = NULL,
           \A e \in Entries : c.cache[e] = NULL
    PROVE  CacheInv(c)
  <1>1. InUse(c) = {}
    BY DEF InUse
  <1>2. SlotsMade(c) /\ Listed(c) /\ NoneStale(c)
    BY <1>1 DEF SlotsMade, Listed, NoneStale
  <1>3. Watched(c) /\ BitsCover(c) /\ CacheLive(c)
    BY DEF Watched, BitsCover, CacheLive
  <1>4. JumpsKnown(c) /\ TargetsMade(c)
    BY <1>1 DEF JumpsKnown, TargetsMade
  <1> QED  BY <1>2, <1>3, <1>4 DEF CacheInv

(* There is a slot for the new block: c's blocks are kept, or all go. *)
Kept(c, d) ==
    /\ SameBlocks(c, d) /\ SameJumps(c, d) /\ SameFlags(c, d) /\ d.cache = c.cache

AllGone(d) ==
    /\ d.nb_tbs = 0 /\ d.hash = {} /\ d.tb_invalidated_flag
    /\ \A e \in Entries : d.cache[e] = NULL

LEMMA TbAllocInv ==
    ASSUME NEW c, CacheInv(c), NEW d, d = tb_alloc(c)
    PROVE  /\ CacheInv(d) /\ d.nb_tbs < MaxTbs /\ d.tlb = c.tlb
           /\ Kept(c, d) \/ AllGone(d)
  <1>0. c \in Cache /\ c.nb_tbs \in 0 .. MaxTbs /\ MaxTbs \in Nat \ {0}
    BY CacheFields, TbCacheAssumption DEF CacheInv
  <1>1. CASE c.nb_tbs < MaxTbs
    <2>1. d = c
      BY <1>1 DEF tb_alloc
    <2> QED  BY <1>1, <2>1 DEF Kept, SameBlocks, SameJumps, SameFlags
  <1>2. CASE ~(c.nb_tbs < MaxTbs)
    <2>1. PICK a : a = tb_flush(c)
      OBVIOUS
    <2>2. /\ a \in Cache /\ a.nb_tbs = 0 /\ a.hash = {} /\ SameTlb(c, a)
          /\ \A p \in PPages : a.list[p] = {} /\ a.bitmap[p] = NULL
          /\ \A e \in Entries : a.cache[e] = NULL
      BY <1>0, <2>1, TbFlushFields
    <2>3. d = [a EXCEPT !.tb_invalidated_flag = TRUE]
      BY <1>2, <2>1 DEF tb_alloc
    <2>4. /\ d \in Cache /\ d.nb_tbs = 0 /\ d.hash = {} /\ d.tlb = a.tlb /\ d.list = a.list
          /\ d.bitmap = a.bitmap /\ d.cache = a.cache /\ d.tb_invalidated_flag
      BY <2>2, <2>3 DEF Cache
    <2>5. CacheInv(d)
      BY <2>2, <2>4, EmptyInv
    <2> QED  BY <1>0, <2>2, <2>4, <2>5 DEF AllGone, SameTlb
  <1> QED  BY <1>1, <1>2

(* A page that gets its first block is watched from then on. *)
LEMMA AllocPageFields ==
    ASSUME NEW c \in Cache, Watched(c), BitsCover(c), NEW t \in Slots, NEW n \in {1, 2},
           NEW p \in PPages, p = c.tbs[t].page[n], NEW d, d = tb_alloc_page(c, t, n)
    PROVE  /\ d \in Cache
           /\ d.tbs = c.tbs /\ d.nb_tbs = c.nb_tbs /\ d.hash = c.hash /\ d.cache = c.cache
           /\ SameJumps(c, d) /\ SameFlags(c, d)
           /\ d.list = [c.list EXCEPT ![p] = @ \cup {<<t, n>>}]
           /\ Watched(d) /\ BitsCover(d)
           /\ \A m : TlbGrows(c, d, m)
  <1> DEFINE b == invalidate_page_bitmap(c, {p})
             a == [b EXCEPT !.list[p] = @ \cup {<<t, n>>}]
  <1>1. /\ b \in Cache
        /\ SameBlocks(c, b) /\ SameJumps(c, b) /\ SameTlb(c, b) /\ SameFlags(c, b)
        /\ b.cache = c.cache
        /\ \A q \in PPages : b.bitmap[q] = IF q \in {p} THEN NULL ELSE c.bitmap[q]
    BY BitmapFields
  <1>2. d = IF c.list[p] = {} THEN tlb_protect_code(a, p) ELSE a
    BY DEF tb_alloc_page
  <1> HIDE DEF b
  <1>3. /\ a.list = [c.list EXCEPT ![p] = @ \cup {<<t, n>>}]
        /\ a.tbs = c.tbs /\ a.nb_tbs = c.nb_tbs /\ a.hash = c.hash /\ a.cache = c.cache
        /\ SameJumps(c, a) /\ SameTlb(c, a) /\ SameFlags(c, a) /\ a.bitmap = b.bitmap
    BY <1>1 DEF Cache, SameBlocks, SameJumps, SameTlb, SameFlags
  <1>4. a \in Cache
    <2>1. PICK l : l = [c.list EXCEPT ![p] = @ \cup {<<t, n>>}]
      OBVIOUS
    <2>2. l \in [PPages -> SUBSET (Slots \X {1, 2})]
      <3>1. c.list[p] \cup {<<t, n>>} \in SUBSET (Slots \X {1, 2})
        BY CacheFields
      <3> QED  BY <2>1, <3>1, CacheFields
    <2>3. [b EXCEPT !.list = l] \in Cache
      BY <1>1, <2>2 DEF Cache
    <2>4. a = [b EXCEPT !.list = l]
      BY <1>1, <2>1 DEF Cache, SameBlocks
    <2> QED  BY <2>3, <2>4
  <1> HIDE DEF a
  <1>5. ASSUME NEW q \in PPages, q # p
        PROVE  a.list[q] = c.list[q] /\ a.bitmap[q] = c.bitmap[q]
    BY <1>1, <1>3, <1>5, CacheFields
  <1>6. a.bitmap[p] = NULL
    BY <1>1, <1>3
  <1>7. BitsCover(a)
    BY <1>3, <1>5, <1>6 DEF BitsCover
  <1>8. CASE c.list[p] # {}
    <2>1. d = a
      BY <1>2, <1>8
    <2>2. Watched(a)
      BY <1>3, <1>5, <1>8 DEF Watched, SameTlb
    <2>3. \A m : TlbGrows(c, a, m)
      BY <1>3 DEF TlbGrows, SameTlb
    <2> QED  BY <1>3, <1>4, <1>7, <2>1, <2>2, <2>3
  <1>9. CASE c.list[p] = {}
    <2>1. /\ d \in Cache
          /\ SameBlocks(a, d) /\ SameJumps(a, d) /\ SameCounts(a, d) /\ SameFlags(a, d)
          /\ d.cache = a.cache
          /\ d.dirty = [a.dirty EXCEPT ![p] = FALSE]
          /\ \A v \in VPages : d.tlb[v] = IF a.tlb[v] # NULL /\ a.tlb[v].page = p
                               THEN [page |-> p, notdirty |-> TRUE] ELSE a.tlb[v]
      BY <1>2, <1>4, <1>9, ProtectFields
    <2>2. [page |-> p, notdirty |-> TRUE] # NULL
      BY TlbIsNotNull
    <2>3. \A v \in VPages : /\ d.tlb[v] # NULL <=> a.tlb[v] # NULL
                            /\ a.tlb[v] # NULL => d.tlb[v].page = a.tlb[v].page
                            /\ d.tlb[v] # NULL /\ d.tlb[v].page = p => d.tlb[v].notdirty
                            /\ d.tlb[v] # NULL /\ d.tlb[v].page # p => d.tlb[v] = a.tlb[v]
      BY <2>1, <2>2
    <2>4. Watched(d)
      <3> SUFFICES ASSUME NEW q \in PPages, d.list[q] # {}
                   PROVE  /\ ~d.dirty[q]
                          /\ \A v \in VPages : d.tlb[v] # NULL /\ d.tlb[v].page = q
                                                  => d.tlb[v].notdirty
        BY DEF Watched
      <3>1. CASE q = p
        <4>1. ~d.dirty[q]
          BY <1>4, <2>1, <3>1, CacheFields
        <4> QED  BY <2>3, <3>1, <4>1
      <3>2. CASE q # p
        <4>1. d.dirty[q] = c.dirty[q] /\ c.list[q] # {}
          BY <1>3, <1>4, <1>5, <2>1, <3>2, CacheFields DEF SameTlb, SameBlocks
        <4> QED  BY <1>3, <2>3, <3>2, <4>1 DEF Watched, SameTlb
      <3> QED  BY <3>1, <3>2
    <2>5. BitsCover(d)
      BY <1>7, <2>1 DEF BitsCover, SameBlocks, SameCounts
    <2>6. \A m : TlbGrows(c, d, m)
      BY <1>3, <2>3 DEF TlbGrows, SameTlb
    <2> QED
      BY <1>3, <2>1, <2>4, <2>5, <2>6 DEF SameBlocks, SameJumps, SameFlags
  <1> QED  BY <1>8, <1>9

(* d is c with a block more, in slot t. *)
AddedTo(c, d, t) ==
    /\ t = c.nb_tbs /\ d.nb_tbs = t + 1 /\ d.hash = c.hash \cup {t}
    /\ d.cache = c.cache /\ SameFlags(c, d)
    /\ d.target[t] = NULL /\ d.jumpers[t] = {}
    /\ \A x \in Slots : x # t => /\ d.tbs[x] = c.tbs[x] /\ d.target[x] = c.target[x]
                                 /\ d.jumpers[x] = c.jumpers[x]

WithBlock(c, t, b) == [c EXCEPT !.tbs[t] = b, !.nb_tbs = t + 1]

LEMMA LinkInv ==
    ASSUME NEW c, CacheInv(c), NEW t, t = c.nb_tbs, t < MaxTbs,
           NEW b \in Block, Made(b), ~b.stale, NEW d,
           d = tb_link_page(WithBlock(c, t, b), t)
    PROVE  /\ CacheInv(d) /\ AddedTo(c, d, t) /\ d.tbs[t] = b
           /\ \A m : TlbGrows(c, d, m)
  <1>0. /\ c \in Cache /\ MaxTbs \in Nat \ {0} /\ t \in 0 .. MaxTbs
        /\ InUse(c) = 0 .. t - 1
    BY CacheFields, TbCacheAssumption DEF CacheInv, InUse
  <1>1. t \in Slots /\ t \notin InUse(c) /\ InUse(c) \subseteq Slots /\ t + 1 \in 0 .. MaxTbs
    BY <1>0 DEF Slots
  <1>2. t \notin c.hash
    BY <1>1 DEF CacheInv, SlotsMade
  <1>3. PICK g : g = WithBlock(c, t, b)
    OBVIOUS
  <1>4. PICK h : h = [g EXCEPT !.hash = @ \cup {t}]
    OBVIOUS
  <1>5. /\ h.tbs = [c.tbs EXCEPT ![t] = b] /\ h.nb_tbs = t + 1 /\ h.hash = c.hash \cup {t}
        /\ h.list = c.list /\ h.cache = c.cache
        /\ SameJumps(c, h) /\ SameTlb(c, h) /\ SameCounts(c, h) /\ SameFlags(c, h)
        /\ h = [c EXCEPT !.tbs = h.tbs, !.nb_tbs = h.nb_tbs, !.hash = h.hash]
        /\ g.tbs = h.tbs
    BY <1>0, <1>3, <1>4 DEF WithBlock, Cache, SameJumps, SameTlb, SameCounts, SameFlags
  <1>6. h \in Cache
    <2>1. h.tbs \in [Slots -> Block] /\ h.nb_tbs \in 0 .. MaxTbs /\ h.hash \in SUBSET Slots
      BY <1>0, <1>1, <1>5, CacheFields
    <2>2. \A x \in [Slots -> Block], y \in 0 .. MaxTbs, z \in SUBSET Slots :
             [c EXCEPT !.tbs = x, !.nb_tbs = y, !.hash = z] \in Cache
      BY <1>0 DEF Cache
    <2>3. [c EXCEPT !.tbs = h.tbs, !.nb_tbs = h.nb_tbs, !.hash = h.hash] \in Cache
      BY <2>1, <2>2, Zenon
    <2> QED  BY <1>5, <2>3, Zenon
  <1>7. h.tbs[t] = b /\ \A x \in Slots : x # t => h.tbs[x] = c.tbs[x]
    BY <1>0, <1>1, <1>5, CacheFields
  <1>8. \A p \in PPages : \A x \in c.list[p] : x[1] \in c.hash /\ x[1] \in Slots
    <2> SUFFICES ASSUME NEW p \in PPages, NEW x \in c.list[p]
                 PROVE  x[1] \in c.hash /\ x[1] \in Slots
      OBVIOUS
    <2>1. PICK k \in Slots, n \in {1, 2} : x = <<k, n>>
      BY <1>0, CacheFields
    <2> QED  BY <2>1 DEF CacheInv, Listed
  <1>9. Watched(h)
    BY <1>5 DEF CacheInv, Watched, SameTlb
  <1>10. BitsCover(h)
    <2> SUFFICES ASSUME NEW p \in PPages, c.bitmap[p] # NULL, NEW x \in c.list[p]
                 PROVE  Part(h.tbs[x[1]], x[2])[2] \in c.bitmap[p]
      BY <1>5 DEF BitsCover, SameCounts
    <2>1. h.tbs[x[1]] = c.tbs[x[1]]
      BY <1>2, <1>7, <1>8
    <2> QED  BY <2>1 DEF CacheInv, BitsCover
  <1>11. /\ b.pc \in Entries /\ b.page \in Seq(PPages) /\ Len(b.page) \in {1, 2}
         /\ Spanning(b) <=> Len(b.page) = 2
    BY DEF Made, Block, Spanning
  <1>12. b.page[1] \in PPages /\ (Spanning(b) => b.page[2] \in PPages)
    BY <1>11
  <1>13. PICK f : f = tb_alloc_page(h, t, 1)
    OBVIOUS
  <1>14. /\ f \in Cache
         /\ f.tbs = h.tbs /\ f.nb_tbs = h.nb_tbs /\ f.hash = h.hash /\ f.cache = h.cache
         /\ SameJumps(h, f) /\ SameFlags(h, f)
         /\ f.list = [h.list EXCEPT ![b.page[1]] = @ \cup {<<t, 1>>}]
         /\ Watched(f) /\ BitsCover(f)
         /\ \A m : TlbGrows(h, f, m)
    BY <1>1, <1>6, <1>7, <1>9, <1>10, <1>12, <1>13, AllocPageFields
  <1>15. PICK k : k = IF Spanning(b) THEN tb_alloc_page(f, t, 2) ELSE f
    OBVIOUS
  <1>16. /\ k \in Cache
         /\ k.tbs = h.tbs /\ k.nb_tbs = h.nb_tbs /\ k.hash = h.hash /\ k.cache = h.cache
         /\ SameJumps(h, k) /\ SameFlags(h, k)
         /\ k.list = IF Spanning(b) THEN [f.list EXCEPT ![b.page[2]] = @ \cup {<<t, 2>>}]
                     ELSE f.list
         /\ Watched(k) /\ BitsCover(k)
         /\ \A m : TlbGrows(h, k, m)
    <2>1. CASE ~Spanning(b)
      BY <1>14, <1>15, <2>1
    <2>2. CASE Spanning(b)
      <3>1. /\ k \in Cache
            /\ k.tbs = f.tbs /\ k.nb_tbs = f.nb_tbs /\ k.hash = f.hash /\ k.cache = f.cache
            /\ SameJumps(f, k) /\ SameFlags(f, k)
            /\ k.list = [f.list EXCEPT ![b.page[2]] = @ \cup {<<t, 2>>}]
            /\ Watched(k) /\ BitsCover(k)
            /\ \A m : TlbGrows(f, k, m)
        <4>1. k = tb_alloc_page(f, t, 2)
          BY <1>15, <2>2
        <4>2. b.page[2] \in PPages /\ b.page[2] = f.tbs[t].page[2]
          BY <1>7, <1>12, <1>14, <2>2
        <4>3. f \in Cache /\ Watched(f) /\ BitsCover(f)
          BY <1>14
        <4> QED  BY <1>1, <4>1, <4>2, <4>3, AllocPageFields
      <3>2. \A m : TlbGrows(h, k, m)
        BY <1>14, <3>1, TlbGrowsTransitive
      <3> QED  BY <1>14, <2>2, <3>1, <3>2 DEF SameJumps, SameFlags
    <2> QED  BY <2>1, <2>2
  <1>17. d = [k EXCEPT !.target[t] = NULL, !.jumpers[t] = {}]
    <2>1. Spanning(g.tbs[t]) <=> Spanning(b)
      BY <1>5, <1>7
    <2>2. d = [(IF Spanning(g.tbs[t]) THEN tb_alloc_page(f, t, 2) ELSE f) EXCEPT
                  !.target[t] = NULL, !.jumpers[t] = {}]
      BY <1>3, <1>4, <1>13 DEF tb_link_page
    <2>3. k = IF Spanning(g.tbs[t]) THEN tb_alloc_page(f, t, 2) ELSE f
      BY <1>15, <2>1
    <2> QED  BY <2>2, <2>3
  <1>18. /\ d.target = [c.target EXCEPT ![t] = NULL]
         /\ d.jumpers = [c.jumpers EXCEPT ![t] = {}]
         /\ d = [k EXCEPT !.target = d.target, !.jumpers = d.jumpers]
         /\ SameBlocks(k, d) /\ SameTlb(k, d) /\ SameCounts(k, d) /\ SameFlags(k, d)
         /\ d.cache = k.cache
    <2>1. k.target = c.target /\ k.jumpers = c.jumpers
      BY <1>5, <1>16 DEF SameJumps
    <2>2. k \in Cache
      BY <1>16
    <2>3. /\ d.target = [k.target EXCEPT ![t] = NULL]
          /\ d.jumpers = [k.jumpers EXCEPT ![t] = {}]
          /\ d = [k EXCEPT !.target = d.target, !.jumpers = d.jumpers]
      BY <1>17, <2>2 DEF Cache
    <2>4. /\ SameBlocks(k, d) /\ SameTlb(k, d) /\ SameCounts(k, d) /\ SameFlags(k, d)
          /\ d.cache = k.cache
      BY <2>2, <2>3 DEF Cache, SameBlocks, SameTlb, SameCounts, SameFlags
    <2> QED  BY <2>1, <2>3, <2>4
  <1>19. d \in Cache
    <2>1. d.target \in [Slots -> Slots \cup {NULL}] /\ d.jumpers \in [Slots -> SUBSET Slots]
      <3>1. c.target \in [Slots -> Slots \cup {NULL}] /\ c.jumpers \in [Slots -> SUBSET Slots]
        BY <1>0, CacheFields
      <3>2. d.target = [c.target EXCEPT ![t] = NULL] /\ d.jumpers = [c.jumpers EXCEPT ![t] = {}]
        BY <1>18
      <3>3. [c.target EXCEPT ![t] = NULL] \in [Slots -> Slots \cup {NULL}]
        BY <3>1
      <3>4. [c.jumpers EXCEPT ![t] = {}] \in [Slots -> SUBSET Slots]
        BY <3>1
      <3> QED  BY <3>2, <3>3, <3>4
    <2>2. \A x \in [Slots -> Slots \cup {NULL}], y \in [Slots -> SUBSET Slots] :
             [k EXCEPT !.target = x, !.jumpers = y] \in Cache
      BY <1>16 DEF Cache
    <2>3. [k EXCEPT !.target = d.target, !.jumpers = d.jumpers] \in Cache
      BY <2>1, <2>2, Zenon
    <2> QED  BY <1>18, <2>3, Zenon
  <1>20. /\ d.tbs[t] = b /\ d.target[t] = NULL /\ d.jumpers[t] = {}
         /\ \A x \in Slots : x # t => /\ d.tbs[x] = c.tbs[x] /\ d.target[x] = c.target[x]
                                      /\ d.jumpers[x] = c.jumpers[x]
    <2>1. d.tbs = h.tbs
      BY <1>16, <1>18 DEF SameBlocks
    <2>2. c.target \in [Slots -> Slots \cup {NULL}] /\ c.jumpers \in [Slots -> SUBSET Slots]
      BY <1>0, CacheFields
    <2>3. d.target = [c.target EXCEPT ![t] = NULL] /\ d.jumpers = [c.jumpers EXCEPT ![t] = {}]
      BY <1>18
    <2>4. d.target[t] = NULL /\ d.jumpers[t] = {}
      BY <1>1, <2>2, <2>3
    <2>5. \A x \in Slots : x # t => d.target[x] = c.target[x] /\ d.jumpers[x] = c.jumpers[x]
      BY <2>2, <2>3
    <2> QED  BY <1>7, <2>1, <2>4, <2>5
  <1>21. AddedTo(c, d, t)
    BY <1>5, <1>16, <1>18, <1>20 DEF AddedTo, SameBlocks, SameFlags
  <1>22. \A m : TlbGrows(c, d, m)
    BY <1>5, <1>16, <1>18 DEF TlbGrows, SameTlb
  <1>23. InUse(d) = InUse(c) \cup {t}
    BY <1>0, <1>21 DEF AddedTo, InUse
  <1>24. SlotsMade(d) /\ NoneStale(d)
    BY <1>1, <1>20, <1>21, <1>23 DEF CacheInv, SlotsMade, NoneStale, AddedTo
  <1>25. Listed(d)
    <2> SUFFICES ASSUME NEW p \in PPages, NEW x \in Slots, NEW n \in {1, 2}
                 PROVE  <<x, n>> \in d.list[p] <=> x \in d.hash /\ Reads(d.tbs[x], n, p)
      BY DEF Listed
    <2>1. d.list = k.list /\ c.list \in [PPages -> SUBSET (Slots \X {1, 2})]
      BY <1>0, <1>18, CacheFields DEF SameBlocks
    <2>2. <<x, n>> \in d.list[p] <=>
             \/ <<x, n>> \in c.list[p]
             \/ p = b.page[1] /\ <<x, n>> = <<t, 1>>
             \/ Spanning(b) /\ p = b.page[2] /\ <<x, n>> = <<t, 2>>
      <3>1. f.list = [c.list EXCEPT ![b.page[1]] = @ \cup {<<t, 1>>}]
        BY <1>5, <1>14
      <3>2. CASE ~Spanning(b)
        BY <1>12, <1>16, <2>1, <3>1, <3>2
      <3>3. CASE Spanning(b)
        <4>1. f.list[p] = IF p = b.page[1] THEN c.list[p] \cup {<<t, 1>>} ELSE c.list[p]
          BY <1>12, <2>1, <3>1
        <4>2. f.list \in [PPages -> SUBSET (Slots \X {1, 2})]
          BY <1>14, CacheFields
        <4>3. d.list[p] = IF p = b.page[2] THEN f.list[p] \cup {<<t, 2>>} ELSE f.list[p]
          BY <1>12, <1>16, <2>1, <3>3, <4>2
        <4> QED  BY <3>3, <4>1, <4>3
      <3> QED  BY <3>2, <3>3
    <2>3. <<x, n>> \in c.list[p] <=> x \in c.hash /\ Reads(c.tbs[x], n, p)
      BY DEF CacheInv, Listed
    <2>4. CASE x # t
      <3>1. <<x, n>> # <<t, 1>> /\ <<x, n>> # <<t, 2>>
        BY <2>4
      <3>2. x \in d.hash <=> x \in c.hash
        BY <1>21, <2>4 DEF AddedTo
      <3> QED  BY <1>20, <2>2, <2>3, <2>4, <3>1, <3>2
    <2>5. CASE x = t
      <3>1. <<x, n>> \notin c.list[p] /\ x \in d.hash
        BY <1>2, <1>21, <2>3, <2>5 DEF AddedTo
      <3>2. /\ <<x, n>> = <<t, 1>> <=> n = 1
            /\ <<x, n>> = <<t, 2>> <=> n = 2
        BY <2>5
      <3>3. Reads(b, n, p) <=> \/ n = 1 /\ p = b.page[1]
                               \/ n = 2 /\ Spanning(b) /\ p = b.page[2]
        BY <1>11 DEF Reads
      <3> QED  BY <1>20, <2>2, <2>5, <3>1, <3>2, <3>3
    <2> QED  BY <2>4, <2>5
  <1>26. Watched(d) /\ BitsCover(d)
    <2>1. SameBlocks(k, d) /\ SameTlb(k, d) /\ SameCounts(k, d) /\ Watched(k) /\ BitsCover(k)
      BY <1>16, <1>18
    <2>2. Watched(d)
      BY <2>1 DEF Watched, SameBlocks, SameTlb
    <2>3. BitsCover(d)
      BY <2>1 DEF BitsCover, SameBlocks, SameCounts
    <2> QED  BY <2>2, <2>3
  <1>27. CacheLive(d)
    BY <1>0, <1>2, <1>20, <1>21, CacheFields DEF CacheInv, CacheLive, AddedTo
  <1>28. JumpsKnown(d)
    <2> SUFFICES ASSUME NEW x \in d.hash
                 PROVE  /\ d.jumpers[x] \subseteq InUse(d)
                        /\ d.target[x] # NULL =>
                              d.target[x] \in d.hash /\ x \in d.jumpers[d.target[x]]
      BY DEF JumpsKnown
    <2>1. CASE x = t
      BY <1>20, <2>1
    <2>2. CASE x # t
      <3>1. x \in c.hash /\ x \in Slots
        BY <1>0, <1>21, <2>2, CacheFields DEF AddedTo
      <3>2. d.jumpers[x] = c.jumpers[x] /\ d.target[x] = c.target[x]
        BY <1>20, <2>2, <3>1
      <3>3. /\ c.jumpers[x] \subseteq InUse(c)
            /\ c.target[x] # NULL => c.target[x] \in c.hash /\ x \in c.jumpers[c.target[x]]
        BY <3>1 DEF CacheInv, JumpsKnown
      <3>4. ASSUME c.target[x] # NULL
            PROVE  c.target[x] \in d.hash /\ x \in d.jumpers[c.target[x]]
        <4>1. c.target[x] \in c.hash /\ c.target[x] # t /\ c.target[x] \in Slots
          BY <1>0, <1>2, <3>3, <3>4, CacheFields
        <4> QED  BY <1>20, <1>21, <3>3, <3>4, <4>1 DEF AddedTo
      <3> QED  BY <1>23, <3>2, <3>3, <3>4
    <2> QED  BY <2>1, <2>2
  <1>29. TargetsMade(d)
    <2> SUFFICES ASSUME NEW x \in InUse(d), d.target[x] # NULL
                 PROVE  d.target[x] \in InUse(d)
      BY DEF TargetsMade
    <2>1. x # t /\ x \in InUse(c) /\ x \in Slots
      BY <1>1, <1>20, <1>23
    <2>2. d.target[x] = c.target[x]
      BY <1>20, <2>1
    <2> QED  BY <1>23, <2>1, <2>2 DEF CacheInv, TargetsMade
  <1>30. CacheInv(d)
    BY <1>19, <1>24, <1>25, <1>26, <1>27, <1>28, <1>29 DEF CacheInv
  <1> QED  BY <1>20, <1>21, <1>22, <1>30

(* tb_flush has come first: the block in slot t is the only one. *)
Restarted(d, t) ==
    /\ t = 0 /\ d.nb_tbs = 1 /\ d.hash = {t} /\ d.tb_invalidated_flag
    /\ d.target[t] = NULL /\ d.jumpers[t] = {}
    /\ \A e \in Entries : d.cache[e] = NULL

(* The block of e has been translated into slot t. *)
Generated(c, d, t, e, one, m) ==
    /\ t \in Slots /\ d.nb_tbs = t + 1
    /\ d.tbs[t] = [pc |-> e, page |-> CodePages(d, e), one |-> one, stale |-> FALSE]
    /\ TlbGrows(c, d, m) /\ \A v \in VPagesOf(e) : d.tlb[v] # NULL
    /\ AddedTo(c, d, t) \/ Restarted(d, t)

LEMMA GenInv ==
    ASSUME NEW c, CacheInv(c), NEW e \in Entries, NEW one \in BOOLEAN, NEW m \in Maps,
           NEW d, d = tb_gen_code(c, e, one, m)
    PROVE  CacheInv(d) /\ Generated(c, d, Newest(d), e, one, m)
  <1>1. PICK a : a = tb_alloc(c)
    OBVIOUS
  <1>2. /\ CacheInv(a) /\ a.nb_tbs < MaxTbs /\ a.tlb = c.tlb
        /\ Kept(c, a) \/ AllGone(a)
    BY <1>1, TbAllocInv
  <1>3. PICK f : f = FillCode(a, e, m)
    OBVIOUS
  <1>4. CacheInv(f) /\ FillsOnly(a, f, m) /\ \A v \in VPagesOf(e) : f.tlb[v] # NULL
    BY <1>2, <1>3, FillCodeInv
  <1>5. PICK t : t = f.nb_tbs
    OBVIOUS
  <1>6. PICK b : b = [pc |-> e, page |-> CodePages(f, e), one |-> one, stale |-> FALSE]
    OBVIOUS
  <1>7. d = tb_link_page(WithBlock(f, t, b), t)
    BY <1>1, <1>3, <1>5, <1>6 DEF tb_gen_code, WithBlock
  <1>8. t < MaxTbs
    BY <1>2, <1>4, <1>5 DEF FillsOnly, SameBlocks
  <1>9. VPagesOf(e) \in SUBSET VPages /\ \A v \in VPagesOf(e) : f.tlb[v] \in TlbEntries
    BY <1>4, EntryPages, CacheFields DEF CacheInv
  <1>10. /\ CodePages(f, e) \in Seq(PPages)
         /\ Len(CodePages(f, e)) = IF e[2] = 1 THEN 2 ELSE 1
    <2>1. \A v \in VPagesOf(e) : f.tlb[v].page \in PPages
      BY <1>9 DEF TlbEntries
    <2>2. e[1] \in VPagesOf(e) /\ (e[2] = 1 => e[1] + 1 \in VPagesOf(e))
      BY EntryPages
    <2>3. CASE e[2] = 1
      BY <2>1, <2>2, <2>3 DEF CodePages
    <2>4. CASE e[2] # 1
      BY <2>1, <2>2, <2>4 DEF CodePages
    <2> QED  BY <2>3, <2>4
  <1>11. b \in Block /\ Made(b) /\ ~b.stale
    BY <1>6, <1>10 DEF Block, Made
  <1>12. /\ CacheInv(d) /\ AddedTo(f, d, t) /\ d.tbs[t] = b
         /\ \A x : TlbGrows(f, d, x)
    <2>1. CacheInv(f) /\ b \in Block /\ Made(b) /\ ~b.stale
      BY <1>4, <1>11
    <2> QED  BY <1>5, <1>7, <1>8, <2>1, LinkInv
  <1>13. TlbGrows(c, d, m)
    <2>1. TlbGrows(a, d, m)
      BY <1>4, <1>12, TlbGrowsTransitive DEF FillsOnly
    <2> QED  BY <1>2, <2>1 DEF TlbGrows
  <1>14. \A v \in VPagesOf(e) : d.tlb[v] # NULL /\ d.tlb[v].page = f.tlb[v].page
    BY <1>4, <1>9, <1>12 DEF TlbGrows
  <1>15. CodePages(d, e) = CodePages(f, e)
    BY <1>14, EntryPages DEF CodePages
  <1>16. t \in Slots /\ Newest(d) = t /\ d.nb_tbs = t + 1
    <2>1. f.nb_tbs \in 0 .. MaxTbs
      BY <1>4, CacheFields DEF CacheInv
    <2>2. d.nb_tbs = t + 1
      BY <1>12 DEF AddedTo
    <2> QED  BY <1>5, <1>8, <2>1, <2>2, TbCacheAssumption DEF Slots, Newest
  <1>17. AddedTo(c, d, t) \/ Restarted(d, t)
    <2>1. CASE Kept(c, a)
      <3>1. /\ f.nb_tbs = c.nb_tbs /\ f.hash = c.hash /\ f.tbs = c.tbs /\ f.cache = c.cache
            /\ SameFlags(c, f) /\ SameJumps(c, f)
        BY <1>4, <2>1 DEF FillsOnly, Kept, SameBlocks, SameJumps, SameFlags
      <3> QED  BY <1>12, <3>1 DEF AddedTo, SameFlags, SameJumps
    <2>2. CASE AllGone(a)
      <3>1. /\ f.nb_tbs = 0 /\ f.hash = {} /\ f.tb_invalidated_flag
            /\ \A x \in Entries : f.cache[x] = NULL
        BY <1>4, <2>2 DEF FillsOnly, AllGone, SameBlocks, SameFlags
      <3>2. d.tb_invalidated_flag = f.tb_invalidated_flag /\ d.cache = f.cache
        BY <1>12 DEF AddedTo, SameFlags
      <3>3. /\ t = 0 /\ d.nb_tbs = t + 1 /\ d.hash = {} \cup {t}
            /\ d.target[t] = NULL /\ d.jumpers[t] = {}
        BY <1>5, <1>12, <3>1 DEF AddedTo
      <3> QED  BY <3>1, <3>2, <3>3 DEF Restarted
    <2> QED  BY <1>2, <2>1, <2>2
  <1> QED  BY <1>6, <1>12, <1>13, <1>14, <1>15, <1>16, <1>17 DEF Generated

-----------------------------------------------------------------------------
(* Finding, chaining and freeing blocks *)

(* The jump cache is set to a block that can be found. *)
CacheSet(c, e, t) == [c EXCEPT !.cache[e] = t]

LEMMA CacheSetInv ==
    ASSUME NEW c, CacheInv(c), NEW e \in Entries, NEW t \in c.hash, c.tbs[t].pc = e,
           NEW d, d = CacheSet(c, e, t)
    PROVE  /\ CacheInv(d) /\ SameBlocks(c, d) /\ SameJumps(c, d) /\ SameTlb(c, d)
           /\ SameFlags(c, d) /\ d.cache[e] = t
           /\ \A x \in Entries : x # e => d.cache[x] = c.cache[x]
  <1>0. c \in Cache /\ t \in Slots /\ c.cache \in [Entries -> Slots \cup {NULL}]
    BY CacheFields DEF CacheInv
  <1>1. d.cache = [c.cache EXCEPT ![e] = t] /\ d = [c EXCEPT !.cache = d.cache]
    BY <1>0 DEF CacheSet, Cache
  <1>2. /\ SameBlocks(c, d) /\ SameJumps(c, d) /\ SameTlb(c, d) /\ SameCounts(c, d)
        /\ SameFlags(c, d)
    BY <1>0, <1>1 DEF Cache, SameBlocks, SameJumps, SameTlb, SameCounts, SameFlags
  <1>3. d \in Cache
    <2>1. d.cache \in [Entries -> Slots \cup {NULL}]
      BY <1>0, <1>1
    <2>2. \A x \in [Entries -> Slots \cup {NULL}] : [c EXCEPT !.cache = x] \in Cache
      BY <1>0 DEF Cache
    <2> QED  BY <1>1, <2>1, <2>2
  <1>4. d.cache[e] = t /\ \A x \in Entries : x # e => d.cache[x] = c.cache[x]
    BY <1>0, <1>1
  <1>5. CacheLive(d)
    BY <1>2, <1>4 DEF CacheInv, CacheLive, SameBlocks
  <1>6. SlotsMade(d) /\ Listed(d) /\ NoneStale(d) /\ InUse(d) = InUse(c)
    BY <1>2 DEF CacheInv, SlotsMade, Listed, NoneStale, SameBlocks, InUse
  <1>7. JumpsKnown(d) /\ TargetsMade(d)
    BY <1>2, <1>6 DEF CacheInv, JumpsKnown, TargetsMade, SameBlocks, SameJumps
  <1>8. Watched(d)
    BY <1>2 DEF CacheInv, Watched, SameBlocks, SameTlb
  <1>9. BitsCover(d)
    BY <1>2 DEF CacheInv, BitsCover, SameBlocks, SameCounts
  <1> QED  BY <1>2, <1>3, <1>4, <1>5, <1>6, <1>7, <1>8, <1>9 DEF CacheInv

(* The flags of the cache matter to none of its structures. *)
LEMMA FlagInv ==
    ASSUME NEW c, CacheInv(c), NEW i \in BOOLEAN, NEW j \in BOOLEAN, NEW d,
           d = [c EXCEPT !.tb_invalidated_flag = i, !.crashed = j]
    PROVE  /\ CacheInv(d) /\ SameBlocks(c, d) /\ SameJumps(c, d) /\ SameTlb(c, d)
           /\ d.cache = c.cache
  <1>0. c \in Cache
    BY DEF CacheInv
  <1>1. /\ SameBlocks(c, d) /\ SameJumps(c, d) /\ SameTlb(c, d) /\ SameCounts(c, d)
        /\ d.cache = c.cache
    BY <1>0 DEF Cache, SameBlocks, SameJumps, SameTlb, SameCounts
  <1>2. d \in Cache
    BY <1>0 DEF Cache
  <1>3. Watched(d)
    BY <1>1 DEF CacheInv, Watched, SameBlocks, SameTlb
  <1>4. BitsCover(d)
    BY <1>1 DEF CacheInv, BitsCover, SameBlocks, SameCounts
  <1>5. CacheInv(d)
    BY <1>1, <1>2, <1>3, <1>4, SameBlocksInv
  <1> QED  BY <1>1, <1>5

LEMMA AddJumpInv ==
    ASSUME NEW c, CacheInv(c), NEW t \in InUse(c), NEW n \in c.hash, NEW d,
           d = tb_add_jump(c, t, n)
    PROVE  /\ CacheInv(d) /\ SameBlocks(c, d) /\ SameTlb(c, d) /\ d.cache = c.cache
           /\ \A x \in Slots : x # t => d.target[x] = c.target[x]
           /\ d.target[t] \in {c.target[t], n}
  <1>0. /\ c \in Cache /\ t \in Slots /\ n \in Slots /\ n \in InUse(c)
        /\ c.target \in [Slots -> Slots \cup {NULL}] /\ c.jumpers \in [Slots -> SUBSET Slots]
    BY CacheFields, InUseSlots DEF CacheInv, SlotsMade
  <1>1. CASE Linked(c, t)
    BY <1>1 DEF tb_add_jump, SameBlocks, SameTlb
  <1>2. CASE ~Linked(c, t)
    <2>1. /\ d.target = [c.target EXCEPT ![t] = n]
          /\ d.jumpers = [c.jumpers EXCEPT ![n] = @ \cup {t}]
          /\ d = [c EXCEPT !.target = d.target, !.jumpers = d.jumpers]
      BY <1>0, <1>2 DEF tb_add_jump, Cache
    <2>2. /\ SameBlocks(c, d) /\ SameTlb(c, d) /\ SameCounts(c, d) /\ d.cache = c.cache
      BY <1>0, <2>1 DEF Cache, SameBlocks, SameTlb, SameCounts
    <2>3. d \in Cache
      <3>1. d.target \in [Slots -> Slots \cup {NULL}] /\ d.jumpers \in [Slots -> SUBSET Slots]
        BY <1>0, <2>1
      <3>2. \A x \in [Slots -> Slots \cup {NULL}], y \in [Slots -> SUBSET Slots] :
               [c EXCEPT !.target = x, !.jumpers = y] \in Cache
        BY <1>0 DEF Cache
      <3>3. [c EXCEPT !.target = d.target, !.jumpers = d.jumpers] \in Cache
        BY <3>1, <3>2, Zenon
      <3> QED  BY <2>1, <3>3, Zenon
    <2>4. d.target[t] = n /\ \A x \in Slots : x # t => d.target[x] = c.target[x]
      BY <1>0, <2>1
    <2>5. /\ d.jumpers[n] = c.jumpers[n] \cup {t}
          /\ \A x \in Slots : x # n => d.jumpers[x] = c.jumpers[x]
      BY <1>0, <2>1
    <2>6. SlotsMade(d) /\ Listed(d) /\ NoneStale(d) /\ InUse(d) = InUse(c)
      BY <2>2 DEF CacheInv, SlotsMade, Listed, NoneStale, SameBlocks, InUse
    <2>7. JumpsKnown(d)
      <3> SUFFICES ASSUME NEW x \in c.hash
                   PROVE  /\ d.jumpers[x] \subseteq InUse(c)
                          /\ d.target[x] # NULL =>
                                d.target[x] \in c.hash /\ x \in d.jumpers[d.target[x]]
        BY <2>2, <2>6 DEF JumpsKnown, SameBlocks
      <3>1. /\ x \in Slots /\ c.jumpers[x] \subseteq InUse(c)
            /\ c.target[x] # NULL => c.target[x] \in c.hash /\ x \in c.jumpers[c.target[x]]
        BY <1>0, CacheFields DEF CacheInv, JumpsKnown
      <3>2. d.jumpers[x] \subseteq InUse(c)
        BY <2>5, <3>1
      <3>3. CASE x = t
        BY <2>4, <2>5, <3>2, <3>3
      <3>4. CASE x # t
        <4>1. c.target[x] \in c.hash => c.target[x] \in Slots
          BY <1>0, CacheFields
        <4> QED  BY <2>4, <2>5, <3>1, <3>2, <3>4, <4>1
      <3> QED  BY <3>3, <3>4
    <2>8. TargetsMade(d)
      <3> SUFFICES ASSUME NEW x \in InUse(c), d.target[x] # NULL
                   PROVE  d.target[x] \in InUse(c)
        BY <2>6 DEF TargetsMade
      <3>1. x \in Slots
        BY <1>0, InUseSlots
      <3> QED  BY <1>0, <2>4, <3>1 DEF CacheInv, TargetsMade
    <2>9. Watched(d)
      BY <2>2 DEF CacheInv, Watched, SameBlocks, SameTlb
    <2>10. BitsCover(d)
      BY <2>2 DEF CacheInv, BitsCover, SameBlocks, SameCounts
    <2>11. CacheLive(d)
      BY <2>2 DEF CacheInv, CacheLive, SameBlocks
    <2>12. CacheInv(d)
      BY <2>3, <2>6, <2>7, <2>8, <2>9, <2>10, <2>11 DEF CacheInv
    <2> QED  BY <2>2, <2>4, <2>12
  <1> QED  BY <1>1, <1>2

(* tb_phys_invalidate takes a block away, or the process has crashed. *)
LEMMA PhysInvalidateInv ==
    ASSUME NEW c, CacheInv(c), NEW t \in Slots, NEW d, d = tb_phys_invalidate(c, t)
    PROVE  CacheInv(d) /\ Shrinks(c, d) /\ t \notin d.hash
  <1>0. c \in Cache
    BY DEF CacheInv
  <1>1. CASE t \in c.hash
    <2>1. {t} \in SUBSET Slots /\ d = InvalidateAll(c, {t})
      BY <1>1 DEF tb_phys_invalidate
    <2>2. /\ d.tbs = c.tbs /\ d.nb_tbs = c.nb_tbs /\ d.hash = c.hash \ {t}
          /\ SameTlb(c, d) /\ CacheWithout(c, d, {t}) /\ JumpsReset(c, d, {t})
      BY <1>0, <2>1, InvalidateFields
    <2>3. \A x \in Slots : /\ d.target[x] \in {NULL, c.target[x]}
                           /\ d.jumpers[x] \subseteq c.jumpers[x]
      BY <2>2 DEF JumpsReset
    <2>4. \A e \in Entries : d.cache[e] \in {NULL, c.cache[e]}
      BY <2>2 DEF CacheWithout
    <2>5. CacheInv(d)
      BY <2>1, InvalidateInv
    <2> QED  BY <2>2, <2>3, <2>4, <2>5 DEF Shrinks, SameTlb
  <1>2. CASE t \notin c.hash
    <2>1. d = [c EXCEPT !.tb_invalidated_flag = c.tb_invalidated_flag, !.crashed = TRUE]
      BY <1>0, <1>2 DEF tb_phys_invalidate, Cache
    <2>2. c.tb_invalidated_flag \in BOOLEAN
      BY <1>0, CacheFields
    <2>3. /\ CacheInv(d) /\ SameBlocks(c, d) /\ SameJumps(c, d) /\ SameTlb(c, d)
          /\ d.cache = c.cache
      BY <2>1, <2>2, FlagInv
    <2> QED  BY <1>2, <2>3 DEF Shrinks, SameBlocks, SameJumps, SameTlb
  <1> QED  BY <1>1, <1>2

(* Nothing leads to block t, so that its slot may be given back. *)
Unlinked(c, t) ==
    /\ \A x \in InUse(c) : c.target[x] # t
    /\ \A x \in c.hash : t \notin c.jumpers[x]

(* The last slot is given back. *)
FreedLast(c, d, t) ==
    /\ d.nb_tbs = t /\ d.hash = c.hash /\ d.cache = c.cache /\ d.tlb = c.tlb
    /\ SameJumps(c, d)
    /\ \A x \in Slots : x # t => d.tbs[x] = c.tbs[x]

LEMMA TbFreeInv ==
    ASSUME NEW c, CacheInv(c), NEW t \in InUse(c), t = c.nb_tbs - 1, t \notin c.hash,
           Unlinked(c, t), NEW d, d = tb_free(c, t)
    PROVE  CacheInv(d) /\ FreedLast(c, d, t)
  <1>0. c \in Cache /\ t \in Slots /\ c.nb_tbs \in 0 .. MaxTbs /\ c.tbs \in [Slots -> Block]
    BY CacheFields, InUseSlots DEF CacheInv
  <1>1. c.nb_tbs > 0
    BY <1>0, TbCacheAssumption DEF InUse
  <1>2. /\ d.tbs = [c.tbs EXCEPT ![t] = NoBlock] /\ d.nb_tbs = c.nb_tbs - 1
        /\ d = [c EXCEPT !.nb_tbs = d.nb_tbs, !.tbs = d.tbs]
    BY <1>0, <1>1 DEF tb_free, Cache
  <1>3. /\ SameJumps(c, d) /\ SameTlb(c, d) /\ SameCounts(c, d)
        /\ d.cache = c.cache /\ d.hash = c.hash /\ d.list = c.list
    BY <1>0, <1>2 DEF Cache, SameJumps, SameTlb, SameCounts
  <1>4. d \in Cache
    <2>1. NoBlock \in Block
      BY DEF NoBlock, Block
    <2>2. d.tbs \in [Slots -> Block] /\ d.nb_tbs \in 0 .. MaxTbs
      <3>1. [c.tbs EXCEPT ![t] = NoBlock] \in [Slots -> Block]
        BY <1>0, <2>1
      <3>2. c.nb_tbs - 1 \in 0 .. MaxTbs
        BY <1>0, <1>1, TbCacheAssumption
      <3> QED  BY <1>2, <3>1, <3>2
    <2>3. \A x \in 0 .. MaxTbs, y \in [Slots -> Block] :
             [c EXCEPT !.nb_tbs = x, !.tbs = y] \in Cache
      BY <1>0 DEF Cache
    <2>4. [c EXCEPT !.nb_tbs = d.nb_tbs, !.tbs = d.tbs] \in Cache
      BY <2>2, <2>3, Zenon
    <2> QED  BY <1>2, <2>4, Zenon
  <1>5. \A x \in Slots : x # t => d.tbs[x] = c.tbs[x]
    BY <1>0, <1>2
  <1>6. InUse(d) = InUse(c) \ {t} /\ InUse(c) \subseteq Slots
    BY <1>0, <1>1, <1>2, InUseSlots DEF InUse
  <1>7. c.hash \subseteq InUse(d) /\ \A x \in c.hash : x \in Slots /\ d.tbs[x] = c.tbs[x]
    BY <1>5, <1>6 DEF CacheInv, SlotsMade
  <1>8. SlotsMade(d)
    BY <1>3, <1>5, <1>6, <1>7 DEF CacheInv, SlotsMade
  <1>9. Listed(d) /\ NoneStale(d)
    <2>1. Listed(d)
      BY <1>3, <1>7 DEF CacheInv, Listed
    <2> QED  BY <1>3, <1>7, <2>1 DEF CacheInv, NoneStale
  <1>10. Watched(d)
    BY <1>3 DEF CacheInv, Watched, SameTlb
  <1>11. BitsCover(d)
    <2> SUFFICES ASSUME NEW p \in PPages, d.bitmap[p] # NULL, NEW x \in d.list[p]
                 PROVE  Part(d.tbs[x[1]], x[2])[2] \in d.bitmap[p]
      BY DEF BitsCover
    <2>1. x \in Slots \X {1, 2} /\ x \in c.list[p]
      BY <1>0, <1>3, CacheFields
    <2>2. x[1] \in c.hash
      <3>1. PICK i \in Slots, n \in {1, 2} : x = <<i, n>>
        BY <2>1
      <3>2. i \in c.hash
        BY <2>1, <3>1 DEF CacheInv, Listed
      <3> QED  BY <3>1, <3>2
    <2>3. d.tbs[x[1]] = c.tbs[x[1]]
      BY <1>7, <2>2
    <2> QED  BY <1>3, <2>1, <2>3 DEF CacheInv, BitsCover, SameCounts
  <1>12. CacheLive(d)
    BY <1>3, <1>7 DEF CacheInv, CacheLive
  <1>13. JumpsKnown(d)
    BY <1>3, <1>6 DEF CacheInv, JumpsKnown, Unlinked, SameJumps
  <1>14. TargetsMade(d)
    BY <1>3, <1>6 DEF CacheInv, TargetsMade, Unlinked, SameJumps
  <1>15. CacheInv(d)
    BY <1>4, <1>8, <1>9, <1>10, <1>11, <1>12, <1>13, <1>14 DEF CacheInv
  <1>16. FreedLast(c, d, t)
    BY <1>0, <1>2, <1>3, <1>5 DEF FreedLast, SameTlb
  <1> QED  BY <1>15, <1>16

(* A round of the loop begins with the flag reset. *)
LEMMA FlagResetInv ==
    ASSUME NEW c, CacheInv(c), NEW d, d = [c EXCEPT !.tb_invalidated_flag = FALSE]
    PROVE  /\ CacheInv(d) /\ SameBlocks(c, d) /\ SameJumps(c, d) /\ SameTlb(c, d)
           /\ d.cache = c.cache
  <1>0. c \in Cache /\ c.crashed \in BOOLEAN
    BY CacheFields DEF CacheInv
  <1>1. d = [c EXCEPT !.tb_invalidated_flag = FALSE, !.crashed = c.crashed]
    BY <1>0 DEF Cache
  <1> QED  BY <1>0, <1>1, FlagInv

(* A block in use in d was in use in c and is as it was, or it is t, the   *)
(* new one, in a slot of its own or alone.                                 *)
Known(c, d, t) ==
    \A x \in InUse(d) :
        \/ x \in InUse(c) /\ d.tbs[x] = c.tbs[x] /\ d.target[x] = c.target[x]
        \/ /\ x = t /\ d.target[x] = NULL
           /\ x \notin InUse(c) \/ \A y \in InUse(d) : y = t

(* The jump cache of entry e in d is as it was in c. *)
CacheKnown(c, d, e) ==
    d.cache[e] # NULL =>
        d.cache[e] = c.cache[e] /\ d.tbs[d.cache[e]] = c.tbs[c.cache[e]]

(* No block in use has been lost, unless the flag says so. *)
Retained(c, d) ==
    ~d.tb_invalidated_flag => \A x \in InUse(c) : x \in InUse(d) /\ d.tbs[x] = c.tbs[x]

LEMMA GeneratedKnown ==
    ASSUME NEW c, CacheInv(c), NEW d, CacheInv(d), NEW t, NEW e, NEW one, NEW m,
           Generated(c, d, t, e, one, m)
    PROVE  /\ Known(c, d, t) /\ Retained(c, d) /\ t \in d.hash /\ t \in InUse(d)
           /\ Unlinked(d, t) /\ t = d.nb_tbs - 1
           /\ \A x \in Entries : CacheKnown(c, d, x)
  <1>0. t \in Slots /\ d.nb_tbs = t + 1 /\ t \in Nat /\ t = d.nb_tbs - 1
    BY TbCacheAssumption DEF Generated, Slots
  <1>1. InUse(d) = 0 .. t /\ InUse(c) \subseteq Slots /\ InUse(d) \subseteq Slots
    BY <1>0, InUseSlots DEF InUse, CacheInv
  <1>2. CASE AddedTo(c, d, t)
    <2>1. InUse(c) = 0 .. t - 1 /\ t \in d.hash /\ d.cache = c.cache
      BY <1>2 DEF AddedTo, InUse
    <2>2. \A x \in InUse(d) : x # t => x \in InUse(c)
      BY <1>0, <1>1, <2>1
    <2>3. t \notin InUse(c) /\ t \in InUse(d) /\ t \notin c.hash /\ c.hash \subseteq Slots
      BY <1>0, <1>1, <2>1 DEF CacheInv, SlotsMade
    <2>4. \A x \in InUse(c) : x \in InUse(d) /\ x # t /\ x \in Slots
      BY <1>0, <1>1, <2>1
    <2>5. Known(c, d, t)
      BY <1>1, <1>2, <2>2, <2>3 DEF Known, AddedTo
    <2>6. Retained(c, d)
      BY <1>2, <2>4 DEF Retained, AddedTo
    <2>7. \A x \in Entries : CacheKnown(c, d, x)
      <3> SUFFICES ASSUME NEW x \in Entries, d.cache[x] # NULL
                   PROVE  d.cache[x] = c.cache[x] /\ d.tbs[d.cache[x]] = c.tbs[c.cache[x]]
        BY DEF CacheKnown
      <3>1. d.cache[x] = c.cache[x] /\ c.cache[x] \in c.hash
        BY <2>1 DEF CacheInv, CacheLive
      <3>2. c.cache[x] \in Slots /\ c.cache[x] # t
        BY <2>3, <3>1
      <3> QED  BY <1>2, <3>1, <3>2 DEF AddedTo
    <2>8. Unlinked(d, t)
      <3>1. ASSUME NEW x \in InUse(d)  PROVE d.target[x] # t
        <4>1. CASE x = t
          BY <1>0, <1>2, <4>1, TbCacheAssumption DEF AddedTo
        <4>2. CASE x # t
          <5>1. x \in InUse(c) /\ x \in Slots
            BY <1>1, <2>2, <4>2
          <5>2. d.target[x] = c.target[x]
            BY <1>2, <4>2, <5>1 DEF AddedTo
          <5>3. c.target[x] = NULL \/ c.target[x] \in InUse(c)
            BY <5>1 DEF CacheInv, TargetsMade
          <5> QED  BY <1>0, <2>3, <5>2, <5>3, TbCacheAssumption
        <4> QED  BY <4>1, <4>2
      <3>2. ASSUME NEW x \in d.hash  PROVE t \notin d.jumpers[x]
        <4>1. CASE x = t
          BY <1>2, <4>1 DEF AddedTo
        <4>2. CASE x # t
          <5>1. x \in c.hash /\ x \in Slots
            BY <1>2, <2>3, <4>2 DEF AddedTo
          <5>2. d.jumpers[x] = c.jumpers[x]
            BY <1>2, <4>2, <5>1 DEF AddedTo
          <5> QED  BY <2>3, <5>1, <5>2 DEF CacheInv, JumpsKnown
        <4> QED  BY <4>1, <4>2
      <3> QED  BY <3>1, <3>2 DEF Unlinked
    <2> QED  BY <1>0, <2>1, <2>3, <2>5, <2>6, <2>7, <2>8
  <1>3. CASE Restarted(d, t)
    <2>1. InUse(d) = {t}
      BY <1>1, <1>3 DEF Restarted
    <2>2. Known(c, d, t)
      BY <1>3, <2>1 DEF Known, Restarted
    <2>3. Retained(c, d) /\ t \in d.hash
      BY <1>3 DEF Retained, Restarted
    <2>4. \A x \in Entries : CacheKnown(c, d, x)
      BY <1>3 DEF CacheKnown, Restarted
    <2>5. Unlinked(d, t)
      BY <1>0, <1>3, <2>1, TbCacheAssumption DEF Unlinked, Restarted
    <2> QED  BY <1>0, <2>1, <2>2, <2>3, <2>4, <2>5
  <1> QED  BY <1>2, <1>3 DEF Generated

(* tb_find_fast has found block t of entry e, and leaves d. *)
FoundBlock(c, d, t, e, m) ==
    /\ t \in d.hash /\ d.tbs[t].pc = e
    /\ TlbGrows(c, d, m) /\ Known(c, d, t) /\ Retained(c, d)
    /\ \A x \in Entries : (x = e /\ d.cache[x] = t) \/ CacheKnown(c, d, x)
    /\ \/ t = c.cache[e] /\ d.tbs[t] = c.tbs[t]
       \/ /\ d.tbs[t].page = CodePages(d, e)
          /\ \A v \in VPagesOf(e) : d.tlb[v] # NULL
          /\ \/ t \in c.hash /\ d.tbs[t] = c.tbs[t]
             \/ \A x \in c.hash : ~(c.tbs[x].pc = e /\ c.tbs[x].page = CodePages(d, e))

(* Pages that are in the TLB stay what they are while others are filled in. *)
LEMMA CodePagesKept ==
    ASSUME NEW c, NEW d, NEW m, NEW e \in Entries, TlbGrows(c, d, m),
           \A v \in VPagesOf(e) : c.tlb[v] # NULL
    PROVE  CodePages(d, e) = CodePages(c, e)
  <1>1. VPagesOf(e) \in SUBSET VPages
    BY EntryPages
  <1>2. \A v \in VPagesOf(e) : d.tlb[v].page = c.tlb[v].page
    BY <1>1 DEF TlbGrows
  <1> QED  BY <1>2, EntryPages DEF CodePages

LEMMA FindInv ==
    ASSUME NEW c, CacheInv(c), NEW e \in Entries, NEW m \in Maps,
           NEW r \in tb_find_fast(c, e, m)
    PROVE  CacheInv(r.s) /\ FoundBlock(c, r.s, r.tb, e, m)
  <1>0. c \in Cache /\ c.cache[e] \in Slots \cup {NULL}
    BY CacheFields DEF CacheInv
  <1>1. CASE c.cache[e] # NULL /\ c.tbs[c.cache[e]].pc = e
    <2>1. r.s = c /\ r.tb = c.cache[e]
      BY <1>1 DEF tb_find_fast
    <2>2. c.cache[e] \in c.hash
      BY <1>1 DEF CacheInv, CacheLive
    <2>3. TlbGrows(c, c, m) /\ Known(c, c, r.tb) /\ Retained(c, c)
      BY DEF TlbGrows, Known, Retained
    <2>4. \A x \in Entries : CacheKnown(c, c, x)
      BY DEF CacheKnown
    <2> QED  BY <1>1, <2>1, <2>2, <2>3, <2>4 DEF FoundBlock
  <1>2. CASE ~(c.cache[e] # NULL /\ c.tbs[c.cache[e]].pc = e)
    <2>1. r \in tb_find_slow(c, e, m)
      BY <1>2 DEF tb_find_fast
    <2>2. PICK a : a = [c EXCEPT !.tb_invalidated_flag = FALSE]
      OBVIOUS
    <2>3. /\ CacheInv(a) /\ SameBlocks(c, a) /\ SameJumps(c, a) /\ SameTlb(c, a)
          /\ a.cache = c.cache
      BY <2>2, FlagResetInv
    <2>4. PICK f : f = FillCode(a, e, m)
      OBVIOUS
    <2>5. /\ CacheInv(f) /\ FillsOnly(a, f, m)
          /\ \A v \in VPagesOf(e) : f.tlb[v] # NULL
      BY <2>3, <2>4, FillCodeInv
    <2>6. SameBlocks(c, f) /\ SameJumps(c, f) /\ f.cache = c.cache
      BY <2>3, <2>5 DEF FillsOnly, SameBlocks, SameJumps
    <2>7. TlbGrows(c, f, m)
      <3>1. TlbGrows(a, f, m) /\ a.tlb = c.tlb
        BY <2>3, <2>5 DEF FillsOnly, SameTlb
      <3> QED  BY <3>1 DEF TlbGrows
    <2>8. CASE \E t \in Found(f, e) : r = [s |-> [f EXCEPT !.cache[e] = t], tb |-> t]
      <3>1. PICK t \in Found(f, e) : r = [s |-> [f EXCEPT !.cache[e] = t], tb |-> t]
        BY <2>8
      <3>2. PICK d : d = CacheSet(f, e, t)
        OBVIOUS
      <3>3. r.s = d /\ r.tb = t
        BY <3>1, <3>2 DEF CacheSet
      <3>4. t \in f.hash /\ f.tbs[t].pc = e /\ f.tbs[t].page = CodePages(f, e)
        BY DEF Found
      <3>5. /\ CacheInv(d) /\ SameBlocks(f, d) /\ SameJumps(f, d) /\ SameTlb(f, d)
            /\ d.cache[e] = t
            /\ \A x \in Entries : x # e => d.cache[x] = f.cache[x]
        BY <2>5, <3>2, <3>4, CacheSetInv
      <3>6. d.tbs = c.tbs /\ d.hash = c.hash /\ d.nb_tbs = c.nb_tbs /\ d.target = c.target
        BY <2>6, <3>5 DEF SameBlocks, SameJumps
      <3>7. TlbGrows(c, d, m) /\ CodePages(d, e) = CodePages(f, e)
        BY <2>7, <3>5 DEF TlbGrows, SameTlb, CodePages
      <3>8. Known(c, d, t) /\ Retained(c, d)
        BY <3>6 DEF Known, Retained, InUse
      <3>9. \A x \in Entries : (x = e /\ d.cache[x] = t) \/ CacheKnown(c, d, x)
        BY <2>6, <3>5, <3>6 DEF CacheKnown
      <3>10. \A v \in VPagesOf(e) : d.tlb[v] # NULL
        BY <2>5, <3>5 DEF SameTlb
      <3>11. /\ t \in d.hash /\ d.tbs[t].pc = e /\ d.tbs[t].page = CodePages(d, e)
             /\ t \in c.hash /\ d.tbs[t] = c.tbs[t]
        BY <2>6, <3>4, <3>6, <3>7 DEF SameBlocks
      <3>12. FoundBlock(c, d, t, e, m)
        BY <3>7, <3>8, <3>9, <3>10, <3>11 DEF FoundBlock
      <3> QED  BY <3>3, <3>5, <3>12
    <2>9. CASE ~\E t \in Found(f, e) : r = [s |-> [f EXCEPT !.cache[e] = t], tb |-> t]
      <3>0. PICK one \in BOOLEAN : one = (e \in OneInsn)
        <4>1. (e \in OneInsn) \in BOOLEAN
          OBVIOUS
        <4> QED  BY <4>1
      <3>1. PICK g : g = tb_gen_code(f, e, one, m)
        OBVIOUS
      <3>2. /\ Found(f, e) = {}
            /\ r = [s |-> [g EXCEPT !.cache[e] = Newest(g)], tb |-> Newest(g)]
        BY <2>1, <2>2, <2>4, <2>9, <3>0, <3>1 DEF tb_find_slow
      <3>3. PICK t : t = Newest(g)
        OBVIOUS
      <3>4. PICK d : d = CacheSet(g, e, t)
        OBVIOUS
      <3>5. r.s = d /\ r.tb = t
        BY <3>2, <3>3, <3>4 DEF CacheSet
      <3>6. CacheInv(g) /\ Generated(f, g, t, e, one, m)
        BY <2>5, <3>1, <3>3, GenInv
      <3>7. /\ Known(f, g, t) /\ Retained(f, g) /\ t \in g.hash
            /\ \A x \in Entries : CacheKnown(f, g, x)
        BY <2>5, <3>6, GeneratedKnown
      <3>8. g.tbs[t].pc = e /\ g.tbs[t].page = CodePages(g, e)
        BY <3>6 DEF Generated
      <3>9. /\ CacheInv(d) /\ SameBlocks(g, d) /\ SameJumps(g, d) /\ SameTlb(g, d)
            /\ SameFlags(g, d) /\ d.cache[e] = t
            /\ \A x \in Entries : x # e => d.cache[x] = g.cache[x]
        BY <3>4, <3>6, <3>7, <3>8, CacheSetInv
      <3>10. TlbGrows(f, g, m) /\ \A v \in VPagesOf(e) : g.tlb[v] # NULL
        BY <3>6 DEF Generated
      <3>11. TlbGrows(c, d, m) /\ CodePages(d, e) = CodePages(g, e)
        <4>1. TlbGrows(c, g, m)
          BY <2>7, <3>10, TlbGrowsTransitive
        <4> QED  BY <3>9, <4>1 DEF TlbGrows, SameTlb, CodePages
      <3>12. CodePages(g, e) = CodePages(f, e)
        BY <2>5, <3>10, CodePagesKept
      <3>13. Known(c, d, t)
        BY <2>6, <3>7, <3>9 DEF Known, InUse, SameBlocks, SameJumps
      <3>14. Retained(c, d)
        BY <2>6, <3>7, <3>9 DEF Retained, InUse, SameBlocks, SameFlags
      <3>15. \A x \in Entries : (x = e /\ d.cache[x] = t) \/ CacheKnown(c, d, x)
        BY <2>6, <3>7, <3>9 DEF CacheKnown, SameBlocks
      <3>16. \A x \in c.hash : ~(c.tbs[x].pc = e /\ c.tbs[x].page = CodePages(d, e))
        BY <2>6, <3>2, <3>11, <3>12 DEF Found, SameBlocks
      <3>17. /\ \A v \in VPagesOf(e) : d.tlb[v] # NULL
             /\ t \in d.hash /\ d.tbs[t].pc = e /\ d.tbs[t].page = CodePages(d, e)
        BY <3>7, <3>8, <3>9, <3>10, <3>11 DEF SameTlb, SameBlocks
      <3>18. FoundBlock(c, d, t, e, m)
        BY <3>11, <3>13, <3>14, <3>15, <3>16, <3>17 DEF FoundBlock
      <3> QED  BY <3>5, <3>9, <3>18
    <2> QED  BY <2>8, <2>9
  <1> QED  BY <1>1, <1>2

-----------------------------------------------------------------------------
(* The invariant of the loop *)

(* The processor knows no page of an address that it was not mapped to     *)
(* since the address was last flushed, neither by the TLB nor by a block   *)
(* of the jump cache.                                                      *)
ReadFrom(b, sn) == \A n \in DOMAIN b.page : b.page[n] \in sn[b.pc[1] + n - 1]

MapsKnown(c, m, sn) ==
    /\ m \in Maps /\ sn \in [VPages -> SUBSET PPages]
    /\ \A v \in VPages : m[v] \in sn[v]
    /\ \A v \in VPages : c.tlb[v] # NULL => c.tlb[v].page \in sn[v]
    /\ \A e \in Entries : c.cache[e] # NULL => ReadFrom(c.tbs[c.cache[e]], sn)

(* A block that runs has a slot; one of cpu_exec_nocache has the last, and *)
(* nothing leads to it.                                                    *)
RunSound(c, u, nc) ==
    /\ nc \in BOOLEAN
    /\ u # NULL => u \in InUse(c)
    /\ nc => u # NULL /\ u = c.nb_tbs - 1 /\ Unlinked(c, u)

NextSound(c, u, nc, nx, rt) ==
    /\ nx # NULL => /\ u = NULL /\ ~nc /\ rt = NULL
                    /\ nx.tb \in InUse(c) /\ nx.pc \in Entries
    /\ nc => rt = NULL

(* A jump stays in a page of the block it leaves. *)
JumpFits(b, d) ==
    /\ ~Spanning(d)
    /\ \E n \in DOMAIN b.page : d.pc[1] = b.pc[1] + n - 1 /\ d.page[1] = b.page[n]

Chains(c) ==
    \A t \in InUse(c) : c.target[t] # NULL => JumpFits(c.tbs[t], c.tbs[c.target[t]])

(* The pages of the block are those of its addresses now, and have been    *)
(* since the last flush.                                                   *)
Current(b, m, sn) ==
    \A n \in DOMAIN b.page : /\ b.page[n] = m[b.pc[1] + n - 1]
                             /\ sn[b.pc[1] + n - 1] = {m[b.pc[1] + n - 1]}

LeadsTo(b, e) == \E n \in DOMAIN b.page : e[1] = b.pc[1] + n - 1

(* Block b lets the store that is tried again through: it is a single      *)
(* instruction or was not read from where the store goes.                  *)
LetsThrough(c, b, rt) == b.one \/ ~Touches(b, c.tlb[rt.v].page, {rt.r})

(* So does every block that can be found, and one of them begins with it.  *)
RetryReady(c, rt) ==
    /\ rt.v \in VPages /\ c.tlb[rt.v] # NULL
    /\ \A v \in VPagesOf(rt.pc) : c.tlb[v] # NULL
    /\ Found(c, rt.pc) # {} /\ \A t \in c.hash : LetsThrough(c, c.tbs[t], rt)

GuestSound(c, m, sn, u, nx, rt) ==
    /\ Chains(c)
    /\ u # NULL => Current(c.tbs[u], m, sn)
    /\ nx # NULL => Current(c.tbs[nx.tb], m, sn) /\ LeadsTo(c.tbs[nx.tb], nx.pc)
    /\ rt # NULL => IF u = NULL THEN RetryReady(c, rt)
                    ELSE /\ rt.v \in VPages /\ c.tlb[rt.v] # NULL
                         /\ LetsThrough(c, c.tbs[u], rt)

TrInv ==
    /\ CacheInv(s) /\ MapsKnown(s, map, since)
    /\ RunSound(s, run, nocache) /\ NextSound(s, run, nocache, next, retry)
    /\ GuestWaits => GuestSound(s, map, since, run, next, retry)

(* The pages a block was read from belong to its pc. *)
LEMMA MadePages ==
    ASSUME NEW b \in Block, Made(b)
    PROVE  /\ b.pc \in Entries
           /\ DOMAIN b.page = IF b.pc[2] = 1 THEN {1, 2} ELSE {1}
           /\ \A n \in DOMAIN b.page : /\ b.pc[1] + n - 1 \in VPages
                                       /\ b.pc[1] + n - 1 \in VPagesOf(b.pc)
                                       /\ b.page[n] \in PPages
  <1>1. b.pc \in Entries /\ b.pc[1] \in Nat /\ b.pc[2] \in Regions
    BY TbCacheAssumption DEF Made
  <1>2. b.page \in Seq(PPages) /\ Len(b.page) = IF b.pc[2] = 1 THEN 2 ELSE 1
    BY DEF Made, Block
  <1>3. DOMAIN b.page = IF b.pc[2] = 1 THEN {1, 2} ELSE {1}
    <2>1. DOMAIN b.page = 1 .. Len(b.page) /\ 1 .. 2 = {1, 2} /\ 1 .. 1 = {1}
      BY <1>2
    <2> QED  BY <1>2, <2>1
  <1>4. \A n \in DOMAIN b.page : b.pc[1] + n - 1 \in VPagesOf(b.pc) /\ b.page[n] \in PPages
    <2>1. CASE b.pc[2] = 1
      BY <1>1, <1>2, <1>3, <2>1 DEF VPagesOf
    <2>2. CASE b.pc[2] # 1
      BY <1>1, <1>2, <1>3, <2>2 DEF VPagesOf
    <2> QED  BY <2>1, <2>2
  <1> QED  BY <1>1, <1>3, <1>4, EntryPages

(* In use in a sound cache are blocks. *)
LEMMA InUseMade ==
    ASSUME NEW c, CacheInv(c), NEW t \in InUse(c)
    PROVE  t \in Slots /\ c.tbs[t] \in Block /\ Made(c.tbs[t])
  BY InUseSlots, CacheFields DEF CacheInv, SlotsMade

(* d has the blocks of c, some of them no longer found, and no new jumps. *)
SameCode(b, d) == d.pc = b.pc /\ d.page = b.page /\ d.one = b.one

Lessens(c, d) ==
    /\ d.nb_tbs = c.nb_tbs /\ d.hash \subseteq c.hash
    /\ \A x \in Slots : /\ SameCode(c.tbs[x], d.tbs[x])
                        /\ d.target[x] \in {NULL, c.target[x]}
                        /\ d.jumpers[x] \subseteq c.jumpers[x]

LEMMA SameCodeSound ==
    ASSUME NEW b, NEW d, SameCode(b, d)
    PROVE  /\ \A m, sn : Current(b, m, sn) <=> Current(d, m, sn)
           /\ \A sn : ReadFrom(b, sn) <=> ReadFrom(d, sn)
           /\ \A e : LeadsTo(b, e) <=> LeadsTo(d, e)
  BY DEF SameCode, Current, ReadFrom, LeadsTo

LEMMA LessensSound ==
    ASSUME NEW c, CacheInv(c), NEW d, CacheInv(d), Lessens(c, d)
    PROVE  /\ InUse(d) = InUse(c)
           /\ \A u, nc : RunSound(c, u, nc) => RunSound(d, u, nc)
           /\ \A u, nc, nx, rt : NextSound(c, u, nc, nx, rt) => NextSound(d, u, nc, nx, rt)
           /\ Chains(c) => Chains(d)
  <1>1. InUse(d) = InUse(c) /\ InUse(c) \subseteq Slots /\ c.hash \subseteq Slots
    BY InUseSlots, CacheFields DEF Lessens, InUse, CacheInv
  <1>2. ASSUME NEW u \in Slots, Unlinked(c, u)  PROVE Unlinked(d, u)
    <2>1. \A x \in InUse(c) : d.target[x] # u
      BY <1>1, <1>2, TbCacheAssumption DEF Lessens, Unlinked
    <2>2. \A x \in d.hash : x \in c.hash /\ d.jumpers[x] \subseteq c.jumpers[x]
      BY <1>1 DEF Lessens
    <2> QED  BY <1>1, <1>2, <2>1, <2>2 DEF Unlinked
  <1>3. ASSUME NEW u, NEW nc, RunSound(c, u, nc)  PROVE RunSound(d, u, nc)
    BY <1>1, <1>2, <1>3 DEF RunSound, Lessens
  <1>4. ASSUME NEW u, NEW nc, NEW nx, NEW rt, NextSound(c, u, nc, nx, rt)
        PROVE  NextSound(d, u, nc, nx, rt)
    BY <1>1, <1>4 DEF NextSound
  <1>5. ASSUME Chains(c)  PROVE Chains(d)
    <2> SUFFICES ASSUME NEW t \in InUse(c), d.target[t] # NULL
                 PROVE  JumpFits(d.tbs[t], d.tbs[d.target[t]])
      BY <1>1 DEF Chains
    <2>1. t \in Slots /\ d.target[t] = c.target[t]
      BY <1>1 DEF Lessens
    <2>2. c.target[t] \in Slots
      BY <1>1, <2>1 DEF CacheInv, TargetsMade
    <2>3. JumpFits(c.tbs[t], c.tbs[c.target[t]])
      BY <1>5, <2>1 DEF Chains
    <2>4. SameCode(c.tbs[t], d.tbs[t]) /\ SameCode(c.tbs[c.target[t]], d.tbs[c.target[t]])
      BY <2>1, <2>2 DEF Lessens
    <2> QED  BY <2>1, <2>3, <2>4 DEF JumpFits, SameCode, Spanning
  <1> QED  BY <1>1, <1>3, <1>4, <1>5

LEMMA SameLessens ==
    ASSUME NEW c, CacheInv(c), NEW d, SameBlocks(c, d), SameJumps(c, d)
    PROVE  Lessens(c, d)
  BY DEF SameBlocks, SameJumps, Lessens, SameCode

LEMMA ShrinksLessens ==
    ASSUME NEW c, CacheInv(c), NEW d, Shrinks(c, d)
    PROVE  Lessens(c, d)
  BY DEF Shrinks, Lessens, SameCode

-----------------------------------------------------------------------------
(* The loop of cpu_exec *)

LEMMA LeaveInv == TrInv /\ Leave => TrInv'
  <1> SUFFICES ASSUME TrInv, Leave  PROVE TrInv'
    OBVIOUS
  <1>1. next = NULL /\ retry = NULL /\ ~nocache
    BY DEF TrInv, Leave, NextSound
  <1>2. /\ s' = s /\ map' = map /\ since' = since /\ nocache' = nocache /\ run' = NULL
        /\ next' = next /\ retry' = retry
    BY DEF Leave
  <1>3. CacheInv(s') /\ MapsKnown(s', map', since')
    BY <1>2 DEF TrInv
  <1>4. RunSound(s', run', nocache') /\ NextSound(s', run', nocache', next', retry')
    BY <1>1, <1>2 DEF TrInv, RunSound, NextSound
  <1>5. GuestWaits => GuestSound(s', map', since', run', next', retry')
    BY <1>1, <1>2 DEF TrInv, GuestSound
  <1> QED  BY <1>3, <1>4, <1>5 DEF TrInv

LEMMA LeaveDirectInv == TrInv /\ LeaveDirect => TrInv'
  <1> SUFFICES ASSUME TrInv, LeaveDirect  PROVE TrInv'
    OBVIOUS
  <1>1. /\ s' = s /\ map' = map /\ since' = since /\ nocache' = nocache /\ run' = NULL
        /\ retry' = retry /\ run # NULL /\ ~nocache /\ retry = NULL
    BY DEF LeaveDirect
  <1>2. PICK e \in DirectTo(s.tbs[run]) : next' = [tb |-> run, pc |-> e]
    BY DEF LeaveDirect
  <1>3. next'.tb = run /\ next'.pc = e /\ e \in Entries
    BY <1>2 DEF DirectTo
  <1>4. run \in InUse(s) /\ Made(s.tbs[run]) /\ s.tbs[run] \in Block
    BY <1>1, InUseMade DEF TrInv, RunSound
  <1>5. CacheInv(s') /\ MapsKnown(s', map', since')
    BY <1>1 DEF TrInv
  <1>6. RunSound(s', run', nocache') /\ NextSound(s', run', nocache', next', retry')
    BY <1>1, <1>3, <1>4 DEF TrInv, RunSound, NextSound
  <1>7. LeadsTo(s.tbs[run], e)
    <2>1. s.tbs[run].pc \in Entries /\ s.tbs[run].page \in Seq(PPages)
      BY <1>4 DEF Made, Block
    <2>2. s.tbs[run].pc[1] \in Nat /\ e[1] \in Nat
      BY <1>3, <2>1, TbCacheAssumption
    <2>3. 1 \in DOMAIN s.tbs[run].page
      BY <1>4, MadePages
    <2>4. Spanning(s.tbs[run]) => 2 \in DOMAIN s.tbs[run].page
      BY <2>1 DEF Spanning
    <2>5. \/ e[1] = s.tbs[run].pc[1]
          \/ Spanning(s.tbs[run]) /\ e[1] = s.tbs[run].pc[1] + 1
      BY <1>2 DEF DirectTo
    <2>6. \A k \in Nat : k + 1 - 1 = k /\ k + 2 - 1 = k + 1
      OBVIOUS
    <2>7. \/ e[1] = s.tbs[run].pc[1] + 1 - 1
          \/ Spanning(s.tbs[run]) /\ e[1] = s.tbs[run].pc[1] + 2 - 1
      BY <2>2, <2>5, <2>6
    <2> QED  BY <2>3, <2>4, <2>7 DEF LeadsTo
  <1>8. GuestWaits => GuestSound(s', map', since', run', next', retry')
    BY <1>1, <1>3, <1>7 DEF TrInv, GuestSound
  <1> QED  BY <1>5, <1>6, <1>8 DEF TrInv

(* The block a current block jumps to is current. *)
LEMMA JumpStaysCurrent ==
    ASSUME NEW b \in Block, Made(b), NEW d \in Block, Made(d), JumpFits(b, d),
           NEW m, NEW sn, Current(b, m, sn)
    PROVE  Current(d, m, sn)
  <1>1. DOMAIN d.page = {1}
    <2>1. d.page \in Seq(PPages) /\ Len(d.page) # 2
      BY DEF JumpFits, Spanning, Block
    <2>2. Len(d.page) = 1
      BY <2>1 DEF Made
    <2> QED  BY <2>1, <2>2
  <1>2. PICK n \in DOMAIN b.page : d.pc[1] = b.pc[1] + n - 1 /\ d.page[1] = b.page[n]
    BY DEF JumpFits
  <1>3. d.pc[1] + 1 - 1 = d.pc[1]
    BY TbCacheAssumption DEF Made
  <1> QED  BY <1>1, <1>2, <1>3 DEF Current

LEMMA ChainedInv == TrInv /\ Chained => TrInv'
  <1> SUFFICES ASSUME TrInv, Chained  PROVE TrInv'
    OBVIOUS
  <1>1. /\ s' = s /\ map' = map /\ since' = since /\ nocache' = nocache /\ next' = next
        /\ retry' = retry /\ run # NULL /\ ~nocache /\ retry = NULL
        /\ run' = s.target[run] /\ s.target[run] # NULL
    BY DEF Chained
  <1>2. run \in InUse(s) /\ next = NULL
    BY <1>1 DEF TrInv, RunSound, NextSound
  <1>3. s.target[run] \in InUse(s)
    BY <1>1, <1>2 DEF TrInv, CacheInv, TargetsMade
  <1>4. /\ Made(s.tbs[run]) /\ s.tbs[run] \in Block
        /\ Made(s.tbs[s.target[run]]) /\ s.tbs[s.target[run]] \in Block
    BY <1>2, <1>3, InUseMade DEF TrInv
  <1>5. CacheInv(s') /\ MapsKnown(s', map', since')
    BY <1>1 DEF TrInv
  <1>6. RunSound(s', run', nocache') /\ NextSound(s', run', nocache', next', retry')
    BY <1>1, <1>2, <1>3 DEF TrInv, RunSound, NextSound
  <1>7. ASSUME GuestWaits  PROVE GuestSound(s', map', since', run', next', retry')
    <2>1. Chains(s) /\ Current(s.tbs[run], map, since)
      BY <1>1, <1>7 DEF TrInv, GuestSound
    <2>2. JumpFits(s.tbs[run], s.tbs[s.target[run]])
      BY <1>1, <1>2, <2>1 DEF Chains
    <2>3. Current(s.tbs[s.target[run]], map, since)
      BY <1>4, <2>1, <2>2, JumpStaysCurrent
    <2> QED  BY <1>1, <1>2, <2>1, <2>3 DEF GuestSound
  <1> QED  BY <1>5, <1>6, <1>7 DEF TrInv

(* A block read by the TLB was read from pages its addresses were mapped   *)
(* to since they were flushed.                                             *)
LEMMA CodeReadFrom ==
    ASSUME NEW c, NEW m, NEW sn, NEW e \in Entries, NEW b \in Block, Made(b), b.pc = e,
           b.page = CodePages(c, e),
           \A v \in VPages : c.tlb[v] # NULL => c.tlb[v].page \in sn[v],
           \A v \in VPagesOf(e) : c.tlb[v] # NULL
    PROVE  ReadFrom(b, sn)
  <1>1. /\ e[1] \in Nat
        /\ VPagesOf(e) \subseteq VPages /\ e[1] \in VPagesOf(e)
        /\ e[2] = 1 => e[1] + 1 \in VPagesOf(e)
    BY EntryPages, TbCacheAssumption
  <1>2. DOMAIN b.page = IF e[2] = 1 THEN {1, 2} ELSE {1}
    BY MadePages
  <1>3. e[1] + 1 - 1 = e[1] /\ e[1] + 2 - 1 = e[1] + 1
    BY <1>1
  <1>4. /\ c.tlb[e[1]].page \in sn[e[1]]
        /\ e[2] = 1 => c.tlb[e[1] + 1].page \in sn[e[1] + 1]
    BY <1>1
  <1>5. /\ b.page[1] = c.tlb[e[1]].page
        /\ e[2] = 1 => b.page[2] = c.tlb[e[1] + 1].page
    BY DEF CodePages
  <1> QED  BY <1>2, <1>3, <1>4, <1>5 DEF ReadFrom

LEMMA FoundMaps ==
    ASSUME NEW c, CacheInv(c), NEW d, CacheInv(d), NEW m, NEW sn, MapsKnown(c, m, sn),
           NEW e \in Entries, NEW t, FoundBlock(c, d, t, e, m)
    PROVE  MapsKnown(d, m, sn) /\ ReadFrom(d.tbs[t], sn)
  <1>1. \A v \in VPages : d.tlb[v] # NULL => d.tlb[v].page \in sn[v]
    BY DEF FoundBlock, TlbGrows, MapsKnown
  <1>2. d.tbs[t] \in Block /\ Made(d.tbs[t]) /\ d.tbs[t].pc = e /\ t \in Slots
    BY InUseMade DEF FoundBlock, CacheInv, SlotsMade
  <1>3. ReadFrom(d.tbs[t], sn)
    <2>1. CASE t = c.cache[e] /\ d.tbs[t] = c.tbs[t]
      <3>1. c.cache[e] # NULL
        BY <1>2, <2>1, TbCacheAssumption
      <3> QED  BY <2>1, <3>1 DEF MapsKnown
    <2>2. CASE d.tbs[t].page = CodePages(d, e) /\ \A v \in VPagesOf(e) : d.tlb[v] # NULL
      BY <1>1, <1>2, <2>2, CodeReadFrom
    <2> QED  BY <2>1, <2>2 DEF FoundBlock
  <1>4. ASSUME NEW x \in Entries, d.cache[x] # NULL
        PROVE  ReadFrom(d.tbs[d.cache[x]], sn)
    <2>1. CASE d.cache[x] = t
      BY <1>3, <2>1
    <2>2. CASE CacheKnown(c, d, x)
      BY <1>4, <2>2 DEF CacheKnown, MapsKnown
    <2> QED  BY <2>1, <2>2 DEF FoundBlock
  <1> QED  BY <1>1, <1>3, <1>4 DEF MapsKnown

LEMMA KnownChains ==
    ASSUME NEW c, CacheInv(c), NEW d, CacheInv(d), NEW t, Known(c, d, t), Chains(c)
    PROVE  Chains(d)
  <1> SUFFICES ASSUME NEW x \in InUse(d), d.target[x] # NULL
               PROVE  JumpFits(d.tbs[x], d.tbs[d.target[x]])
    BY DEF Chains
  <1>1. x \in InUse(c) /\ d.tbs[x] = c.tbs[x] /\ d.target[x] = c.target[x]
    BY DEF Known
  <1>2. c.target[x] \in InUse(c) /\ c.target[x] \in InUse(d)
    BY <1>1 DEF CacheInv, TargetsMade
  <1>3. d.tbs[c.target[x]] = c.tbs[c.target[x]]
    <2>1. CASE \A y \in InUse(d) : y = t
      BY <1>1, <1>2, <2>1
    <2>2. CASE ~\A y \in InUse(d) : y = t
      BY <1>2, <2>2 DEF Known
    <2> QED  BY <2>1, <2>2
  <1> QED  BY <1>1, <1>3 DEF Chains

LEMMA FlushedIsCurrent ==
    ASSUME NEW b \in Block, Made(b), NEW m, NEW sn, ReadFrom(b, sn),
           \A v \in VPagesOf(b.pc) : sn[v] = {m[v]}
    PROVE  Current(b, m, sn)
  BY MadePages DEF ReadFrom, Current

(* The block that is found to try a store again lets it through. *)
LEMMA FoundLetsThrough ==
    ASSUME NEW c, CacheInv(c), NEW d, CacheInv(d), NEW m, NEW rt,
           NEW e \in Entries, e = rt.pc, NEW t, FoundBlock(c, d, t, e, m),
           RetryReady(c, rt)
    PROVE  rt.v \in VPages /\ d.tlb[rt.v] # NULL /\ LetsThrough(d, d.tbs[t], rt)
  <1>1. \A v \in VPagesOf(e) : c.tlb[v] # NULL
    BY DEF RetryReady
  <1>2. CodePages(d, e) = CodePages(c, e)
    BY <1>1, CodePagesKept DEF FoundBlock
  <1>3. /\ rt.v \in VPages /\ d.tlb[rt.v] # NULL
        /\ d.tlb[rt.v].page = c.tlb[rt.v].page
    BY DEF RetryReady, FoundBlock, TlbGrows
  <1>4. t \in Slots
    BY CacheFields DEF FoundBlock, CacheInv
  <1>5. CASE t \in c.hash /\ d.tbs[t] = c.tbs[t]
    <2>1. LetsThrough(c, c.tbs[t], rt)
      BY <1>5 DEF RetryReady
    <2> QED  BY <1>3, <1>5, <2>1 DEF LetsThrough
  <1>6. CASE t = c.cache[e] /\ d.tbs[t] = c.tbs[t]
    <2>1. t \in c.hash
      BY <1>4, <1>6, TbCacheAssumption DEF CacheInv, CacheLive
    <2> QED  BY <1>5, <1>6, <2>1
  <1>7. CASE \A x \in c.hash : ~(c.tbs[x].pc = e /\ c.tbs[x].page = CodePages(d, e))
    BY <1>2, <1>7 DEF RetryReady, Found
  <1> QED  BY <1>5, <1>6, <1>7 DEF FoundBlock

LEMMA EnterInv == ASSUME NEW e \in Entries  PROVE TrInv /\ Enter(e) => TrInv'
  <1> SUFFICES ASSUME TrInv, Enter(e)  PROVE TrInv'
    OBVIOUS
  <1>1. PICK f \in tb_find_fast(s, e, map) :
          LET chain == next # NULL /\ ~f.s.tb_invalidated_flag /\ ~Spanning(f.s.tbs[f.tb])
              c     == [f.s EXCEPT !.tb_invalidated_flag = FALSE]
          IN  /\ s' = IF chain THEN tb_add_jump(c, next.tb, f.tb) ELSE c
              /\ run' = f.tb
    BY DEF Enter
  <1>2. PICK d, t : d = f.s /\ t = f.tb
    OBVIOUS
  <1>3. PICK c : c = [d EXCEPT !.tb_invalidated_flag = FALSE]
    OBVIOUS
  <1>4. /\ s' = IF next # NULL /\ ~d.tb_invalidated_flag /\ ~Spanning(d.tbs[t])
                THEN tb_add_jump(c, next.tb, t) ELSE c
        /\ run' = t
    BY <1>1, <1>2, <1>3
  <1>5. /\ run = NULL /\ (next # NULL => next.pc = e) /\ (retry # NULL => retry.pc = e)
        /\ GuestWaits => \A v \in VPagesOf(e) : since[v] = {map[v]}
        /\ next' = NULL /\ map' = map /\ since' = since /\ nocache' = nocache /\ retry' = retry
    BY DEF Enter, Flushed
  <1>6. CacheInv(s) /\ MapsKnown(s, map, since) /\ map \in Maps /\ ~nocache
        /\ nocache \in BOOLEAN
    BY <1>5 DEF TrInv, MapsKnown, RunSound
  <1>7. CacheInv(d) /\ FoundBlock(s, d, t, e, map)
    BY <1>2, <1>6, FindInv
  <1>8. MapsKnown(d, map, since) /\ ReadFrom(d.tbs[t], since)
    BY <1>6, <1>7, FoundMaps
  <1>9. /\ CacheInv(c) /\ SameBlocks(d, c) /\ SameJumps(d, c) /\ SameTlb(d, c)
        /\ c.cache = d.cache
    BY <1>3, <1>7, FlagResetInv
  <1>10. t \in c.hash /\ t \in InUse(c) /\ InUse(c) = InUse(d) /\ t \in Slots
    BY <1>7, <1>9, InUseSlots DEF FoundBlock, SameBlocks, CacheInv, SlotsMade, InUse
  <1>11. d.tbs[t] \in Block /\ Made(d.tbs[t]) /\ d.tbs[t].pc = e
    BY <1>7, <1>10, InUseMade DEF FoundBlock
  <1>12. ASSUME GuestWaits
         PROVE  /\ Chains(c) /\ Current(d.tbs[t], map, since)
                /\ retry # NULL => /\ retry.v \in VPages /\ d.tlb[retry.v] # NULL
                                   /\ LetsThrough(d, d.tbs[t], retry)
    <2>1. GuestSound(s, map, since, run, next, retry)
      BY <1>12 DEF TrInv
    <2>2. Chains(d)
      BY <1>6, <1>7, <2>1, KnownChains DEF GuestSound, FoundBlock
    <2>3. Chains(c)
      BY <1>7, <1>9, <2>2, SameLessens, LessensSound
    <2>4. Current(d.tbs[t], map, since)
      BY <1>5, <1>8, <1>11, <1>12, FlushedIsCurrent
    <2>5. ASSUME retry # NULL
          PROVE  /\ retry.v \in VPages /\ d.tlb[retry.v] # NULL
                 /\ LetsThrough(d, d.tbs[t], retry)
      <3>1. RetryReady(s, retry) /\ retry.pc = e
        BY <1>5, <2>1, <2>5 DEF GuestSound
      <3> QED  BY <1>6, <1>7, <3>1, FoundLetsThrough
    <2> QED  BY <2>3, <2>4, <2>5
  <1>13. CASE ~(next # NULL /\ ~d.tb_invalidated_flag /\ ~Spanning(d.tbs[t]))
    <2>1. s' = c
      BY <1>4, <1>13
    <2>2. MapsKnown(c, map, since)
      BY <1>8, <1>9 DEF MapsKnown, SameTlb, SameBlocks
    <2>3. RunSound(s', run', nocache') /\ NextSound(s', run', nocache', next', retry')
      BY <1>4, <1>5, <1>6, <1>10, <2>1 DEF RunSound, NextSound
    <2>4. GuestWaits => GuestSound(s', map', since', run', next', retry')
      BY <1>4, <1>5, <1>9, <1>10, <1>12, <2>1, TbCacheAssumption
      DEF GuestSound, SameBlocks, SameTlb, LetsThrough
    <2> QED  BY <1>5, <1>9, <2>1, <2>2, <2>3, <2>4 DEF TrInv
  <1>14. CASE next # NULL /\ ~d.tb_invalidated_flag /\ ~Spanning(d.tbs[t])
    <2>1. PICK j, g : j = next.tb /\ g = tb_add_jump(c, j, t)
      OBVIOUS
    <2>2. s' = g
      BY <1>4, <1>14, <2>1
    <2>3. j \in InUse(s) /\ next.pc = e
      BY <1>5, <1>14, <2>1 DEF TrInv, NextSound
    <2>4. j \in InUse(c) /\ d.tbs[j] = s.tbs[j]
      BY <1>7, <1>10, <1>14, <2>3 DEF FoundBlock, Retained
    <2>5. /\ CacheInv(g) /\ SameBlocks(c, g) /\ SameTlb(c, g) /\ g.cache = c.cache
          /\ \A x \in Slots : x # j => g.target[x] = c.target[x]
          /\ g.target[j] \in {c.target[j], t}
      BY <1>9, <1>10, <2>1, <2>4, AddJumpInv
    <2>6. InUse(g) = InUse(c) /\ g.tbs = d.tbs /\ g.tlb = d.tlb /\ g.cache = d.cache
      BY <1>9, <2>5 DEF SameBlocks, SameTlb, InUse
    <2>7. MapsKnown(g, map, since)
      BY <1>8, <2>6 DEF MapsKnown
    <2>8. RunSound(s', run', nocache') /\ NextSound(s', run', nocache', next', retry')
      BY <1>4, <1>5, <1>6, <1>10, <2>2, <2>6 DEF RunSound, NextSound
    <2>9. ASSUME GuestWaits  PROVE Chains(g)
      <3>1. Current(d.tbs[j], map, since) /\ LeadsTo(d.tbs[j], e)
        BY <1>14, <2>1, <2>3, <2>4, <2>9 DEF TrInv, GuestSound
      <3>2. PICK n \in DOMAIN d.tbs[j].page : e[1] = d.tbs[j].pc[1] + n - 1
        BY <3>1 DEF LeadsTo
      <3>3. d.tbs[j].page[n] = map[e[1]]
        BY <3>1, <3>2 DEF Current
      <3>4. d.tbs[t].page[1] = map[e[1]]
        <4>1. 1 \in DOMAIN d.tbs[t].page /\ e[1] + 1 - 1 = e[1]
          BY <1>11, MadePages, TbCacheAssumption
        <4> QED  BY <1>11, <1>12, <2>9, <4>1 DEF Current
      <3>5. JumpFits(d.tbs[j], d.tbs[t])
        BY <1>11, <1>14, <3>2, <3>3, <3>4 DEF JumpFits
      <3> SUFFICES ASSUME NEW x \in InUse(c), g.target[x] # NULL
                   PROVE  JumpFits(d.tbs[x], d.tbs[g.target[x]])
        BY <2>6 DEF Chains
      <3>6. CASE x = j /\ g.target[x] = t
        BY <3>5, <3>6
      <3>7. CASE g.target[x] = c.target[x]
        <4>1. JumpFits(c.tbs[x], c.tbs[c.target[x]])
          BY <1>12, <2>9, <3>7 DEF Chains
        <4> QED  BY <1>9, <3>7, <4>1 DEF SameBlocks
      <3>8. x \in Slots
        BY <1>9, InUseSlots DEF CacheInv
      <3> QED  BY <2>5, <3>6, <3>7, <3>8
    <2>10. GuestWaits => GuestSound(s', map', since', run', next', retry')
      BY <1>4, <1>5, <1>10, <1>12, <2>2, <2>6, <2>9, TbCacheAssumption
      DEF GuestSound, LetsThrough
    <2> QED  BY <1>5, <2>2, <2>5, <2>7, <2>8, <2>10 DEF TrInv
  <1> QED  BY <1>13, <1>14

LEMMA GeneratedMaps ==
    ASSUME NEW c, CacheInv(c), NEW d, CacheInv(d), NEW m, NEW sn, MapsKnown(c, m, sn),
           NEW e \in Entries, NEW t, NEW one, Generated(c, d, t, e, one, m)
    PROVE  MapsKnown(d, m, sn) /\ ReadFrom(d.tbs[t], sn)
  <1>1. \A v \in VPages : d.tlb[v] # NULL => d.tlb[v].page \in sn[v]
    BY DEF Generated, TlbGrows, MapsKnown
  <1>2. t \in InUse(d) /\ \A x \in Entries : CacheKnown(c, d, x)
    BY GeneratedKnown
  <1>3. d.tbs[t] \in Block /\ Made(d.tbs[t])
    BY <1>2, InUseMade
  <1>4. /\ d.tbs[t].pc = e /\ d.tbs[t].page = CodePages(d, e)
        /\ \A v \in VPagesOf(e) : d.tlb[v] # NULL
    BY DEF Generated
  <1>5. ReadFrom(d.tbs[t], sn)
    BY <1>1, <1>3, <1>4, CodeReadFrom
  <1>6. \A x \in Entries : d.cache[x] # NULL => ReadFrom(d.tbs[d.cache[x]], sn)
    BY <1>2 DEF CacheKnown, MapsKnown
  <1> QED  BY <1>1, <1>5, <1>6 DEF MapsKnown

LEMMA CurrentIsFlushed ==
    ASSUME NEW b \in Block, Made(b), NEW m, NEW sn, Current(b, m, sn)
    PROVE  \A v \in VPagesOf(b.pc) : sn[v] = {m[v]}
  <1>1. b.pc \in Entries /\ b.pc[1] \in Nat
    BY TbCacheAssumption DEF Made
  <1>2. DOMAIN b.page = IF b.pc[2] = 1 THEN {1, 2} ELSE {1}
    BY MadePages
  <1>3. b.pc[1] + 1 - 1 = b.pc[1] /\ b.pc[1] + 2 - 1 = b.pc[1] + 1
    BY <1>1
  <1>4. /\ sn[b.pc[1]] = {m[b.pc[1]]}
        /\ b.pc[2] = 1 => sn[b.pc[1] + 1] = {m[b.pc[1] + 1]}
    BY <1>2, <1>3 DEF Current
  <1> QED  BY <1>4 DEF VPagesOf

LEMMA NoCacheInv == TrInv /\ NoCache => TrInv'
  <1> SUFFICES ASSUME TrInv, NoCache  PROVE TrInv'
    OBVIOUS
  <1>1. PICK one \in {s.tbs[run].one, TRUE} :
          LET g == tb_gen_code(s, s.tbs[run].pc, one, map)
          IN  s' = g /\ run' = Newest(g)
    BY DEF NoCache
  <1>2. PICK e, d, t : e = s.tbs[run].pc /\ d = tb_gen_code(s, e, one, map) /\ t = Newest(d)
    OBVIOUS
  <1>3. s' = d /\ run' = t
    BY <1>1, <1>2
  <1>4. /\ run # NULL /\ retry = NULL /\ nocache' = TRUE
        /\ map' = map /\ since' = since /\ next' = next /\ retry' = retry
    BY DEF NoCache
  <1>5. /\ CacheInv(s) /\ MapsKnown(s, map, since) /\ map \in Maps
        /\ run \in InUse(s) /\ next = NULL
    BY <1>4 DEF TrInv, RunSound, NextSound, MapsKnown
  <1>6. s.tbs[run] \in Block /\ Made(s.tbs[run])
    BY <1>5, InUseMade
  <1>7. e \in Entries /\ one \in BOOLEAN
    BY <1>2, <1>6 DEF Block, Made
  <1>8. CacheInv(d) /\ Generated(s, d, t, e, one, map)
    BY <1>2, <1>5, <1>7, GenInv
  <1>9. /\ Known(s, d, t) /\ t \in InUse(d) /\ Unlinked(d, t) /\ t = d.nb_tbs - 1
    BY <1>5, <1>8, GeneratedKnown
  <1>10. MapsKnown(d, map, since) /\ ReadFrom(d.tbs[t], since)
    BY <1>5, <1>7, <1>8, GeneratedMaps
  <1>11. t # NULL /\ d.tbs[t] \in Block /\ Made(d.tbs[t]) /\ d.tbs[t].pc = e
    BY <1>8, <1>9, InUseMade, TbCacheAssumption DEF Generated
  <1>12. RunSound(s', run', nocache') /\ NextSound(s', run', nocache', next', retry')
    BY <1>3, <1>4, <1>5, <1>9, <1>11 DEF RunSound, NextSound
  <1>13. ASSUME GuestWaits  PROVE GuestSound(s', map', since', run', next', retry')
    <2>1. Chains(s) /\ Current(s.tbs[run], map, since)
      BY <1>4, <1>13 DEF TrInv, GuestSound
    <2>2. \A v \in VPagesOf(e) : since[v] = {map[v]}
      BY <1>2, <1>6, <2>1, CurrentIsFlushed
    <2>3. Current(d.tbs[t], map, since)
      BY <1>10, <1>11, <2>2, FlushedIsCurrent
    <2>4. Chains(d)
      BY <1>5, <1>8, <1>9, <2>1, KnownChains
    <2> QED  BY <1>3, <1>4, <1>5, <2>3, <2>4 DEF GuestSound
  <1> QED  BY <1>3, <1>4, <1>8, <1>10, <1>12, <1>13 DEF TrInv

(* Blocks that are no longer found are in no page of the processor's. *)
LEMMA ShrinksMaps ==
    ASSUME NEW c, NEW d, Shrinks(c, d), NEW m, NEW sn, MapsKnown(c, m, sn)
    PROVE  MapsKnown(d, m, sn)
  BY DEF Shrinks, MapsKnown

LEMMA NoCacheEndsInv == TrInv /\ NoCacheEnds => TrInv'
  <1> SUFFICES ASSUME TrInv, NoCacheEnds  PROVE TrInv'
    OBVIOUS
  <1>1. PICK a, d : a = tb_phys_invalidate(s, run) /\ d = tb_free(a, run)
    OBVIOUS
  <1>2. /\ s' = d /\ run' = NULL /\ nocache' = FALSE /\ run # NULL /\ nocache
        /\ map' = map /\ since' = since /\ next' = next /\ retry' = retry
    BY <1>1 DEF NoCacheEnds
  <1>3. /\ CacheInv(s) /\ MapsKnown(s, map, since) /\ RunSound(s, run, nocache)
        /\ run \in InUse(s) /\ next = NULL /\ retry = NULL
    BY <1>2 DEF TrInv, RunSound, NextSound
  <1>4. run \in Slots
    BY <1>3, InUseMade
  <1>5. CacheInv(a) /\ Shrinks(s, a) /\ run \notin a.hash
    BY <1>1, <1>3, <1>4, PhysInvalidateInv
  <1>6. InUse(a) = InUse(s) /\ RunSound(a, run, nocache) /\ (Chains(s) => Chains(a))
    BY <1>3, <1>5, ShrinksLessens, LessensSound
  <1>7. run \in InUse(a) /\ run = a.nb_tbs - 1 /\ Unlinked(a, run)
    BY <1>2, <1>3, <1>6 DEF RunSound
  <1>8. CacheInv(d) /\ FreedLast(a, d, run)
    BY <1>1, <1>5, <1>7, TbFreeInv
  <1>9. MapsKnown(a, map, since)
    BY <1>3, <1>5, ShrinksMaps
  <1>10. MapsKnown(d, map, since)
    <2>1. \A e \in Entries : d.cache[e] = a.cache[e]
      BY <1>8 DEF FreedLast
    <2>2. \A e \in Entries : a.cache[e] # NULL => a.cache[e] \in Slots /\ a.cache[e] # run
      BY <1>5, CacheFields DEF CacheInv, CacheLive
    <2>3. \A e \in Entries : a.cache[e] # NULL => d.tbs[a.cache[e]] = a.tbs[a.cache[e]]
      BY <1>8, <2>2 DEF FreedLast
    <2>4. d.tlb = a.tlb
      BY <1>8 DEF FreedLast
    <2> QED  BY <1>9, <2>1, <2>3, <2>4 DEF MapsKnown
  <1>11. ASSUME Chains(a)  PROVE Chains(d)
    <2> SUFFICES ASSUME NEW x \in InUse(d), d.target[x] # NULL
                 PROVE  JumpFits(d.tbs[x], d.tbs[d.target[x]])
      BY DEF Chains
    <2>1. x \in InUse(a) /\ x # run
      <3>1. a.nb_tbs \in Nat /\ d.nb_tbs = run
        BY <1>5, <1>8, CacheFields DEF CacheInv, FreedLast
      <3> QED  BY <1>7, <3>1 DEF InUse
    <2>2. d.target[x] = a.target[x]
      BY <1>8 DEF FreedLast, SameJumps
    <2>3. a.target[x] \in InUse(a) /\ a.target[x] # run
      BY <1>5, <1>7, <2>1, <2>2 DEF CacheInv, TargetsMade, Unlinked
    <2>4. x \in Slots /\ a.target[x] \in Slots
      BY <1>5, <2>1, <2>3, InUseMade
    <2>5. d.tbs[x] = a.tbs[x] /\ d.tbs[a.target[x]] = a.tbs[a.target[x]]
      BY <1>8, <2>1, <2>3, <2>4 DEF FreedLast
    <2> QED  BY <1>11, <2>1, <2>2, <2>5 DEF Chains
  <1>12. RunSound(s', run', nocache') /\ NextSound(s', run', nocache', next', retry')
    BY <1>2, <1>3 DEF RunSound, NextSound
  <1>13. GuestWaits => GuestSound(s', map', since', run', next', retry')
    BY <1>2, <1>3, <1>6, <1>11 DEF TrInv, GuestSound
  <1> QED  BY <1>2, <1>8, <1>10, <1>12, <1>13 DEF TrInv

-----------------------------------------------------------------------------
(* Memory *)

(* A page without code is opened again for stores that are not watched. *)
TlbSet(c, v, p) == [c EXCEPT !.tlb[v] = TlbEntry(c, p)]

LEMMA TlbSetInv ==
    ASSUME NEW c, CacheInv(c), NEW v \in VPages, NEW p \in PPages, c.dirty[p], NEW d,
           d = TlbSet(c, v, p)
    PROVE  /\ CacheInv(d) /\ SameBlocks(c, d) /\ SameJumps(c, d) /\ d.cache = c.cache
           /\ d.tlb[v].page = p
           /\ \A x \in VPages : x # v => d.tlb[x] = c.tlb[x]
  <1>0. c \in Cache /\ c.tlb \in [VPages -> TlbEntries \cup {NULL}] /\ c.dirty[p] \in BOOLEAN
    BY CacheFields DEF CacheInv
  <1>1. d.tlb = [c.tlb EXCEPT ![v] = TlbEntry(c, p)] /\ d = [c EXCEPT !.tlb = d.tlb]
    BY <1>0 DEF TlbSet, Cache
  <1>2. /\ SameBlocks(c, d) /\ SameJumps(c, d) /\ SameCounts(c, d) /\ d.dirty = c.dirty
        /\ d.cache = c.cache
    BY <1>0, <1>1 DEF Cache, SameBlocks, SameJumps, SameCounts
  <1>3. TlbEntry(c, p) \in TlbEntries /\ TlbEntry(c, p).page = p
    BY <1>0 DEF TlbEntry, TlbEntries
  <1>4. d.tlb[v] = TlbEntry(c, p) /\ \A x \in VPages : x # v => d.tlb[x] = c.tlb[x]
    BY <1>0, <1>1
  <1>5. d \in Cache
    <2>1. d.tlb \in [VPages -> TlbEntries \cup {NULL}]
      BY <1>0, <1>1, <1>3
    <2>2. \A x \in [VPages -> TlbEntries \cup {NULL}] : [c EXCEPT !.tlb = x] \in Cache
      BY <1>0 DEF Cache
    <2> QED  BY <1>1, <2>1, <2>2
  <1>6. Watched(d)
    <2> SUFFICES ASSUME NEW q \in PPages, d.list[q] # {}
                 PROVE  /\ ~d.dirty[q]
                        /\ \A x \in VPages : d.tlb[x] # NULL /\ d.tlb[x].page = q
                                                => d.tlb[x].notdirty
      BY DEF Watched
    <2>1. /\ ~c.dirty[q]
          /\ \A x \in VPages : c.tlb[x] # NULL /\ c.tlb[x].page = q => c.tlb[x].notdirty
      BY <1>2 DEF CacheInv, Watched, SameBlocks
    <2>2. q # p
      BY <2>1
    <2> QED  BY <1>2, <1>3, <1>4, <2>1, <2>2
  <1>7. BitsCover(d)
    BY <1>2 DEF CacheInv, BitsCover, SameBlocks, SameCounts
  <1>8. CacheInv(d)
    BY <1>2, <1>5, <1>6, <1>7, SameBlocksInv
  <1> QED  BY <1>2, <1>3, <1>4, <1>8

LEMMA LessensTransitive ==
    ASSUME NEW a, NEW b, NEW c, Lessens(a, b), Lessens(b, c)
    PROVE  Lessens(a, c)
  BY DEF Lessens, SameCode

(* A block that can be found and was read from a page is in its list. *)
LEMMA TouchedIsWatched ==
    ASSUME NEW c, CacheInv(c), NEW t \in c.hash, NEW p \in PPages, NEW rs,
           Touches(c.tbs[t], p, rs)
    PROVE  /\ ~c.dirty[p]
           /\ \A v \in VPages : c.tlb[v] # NULL /\ c.tlb[v].page = p => c.tlb[v].notdirty
  <1>1. PICK n \in DOMAIN c.tbs[t].page : c.tbs[t].page[n] = p
    BY DEF Touches
  <1>2. t \in Slots /\ c.tbs[t] \in Block /\ Made(c.tbs[t])
    BY InUseMade DEF CacheInv, SlotsMade
  <1>3. n \in {1, 2}
    BY <1>2, MadePages
  <1>4. <<t, n>> \in c.list[p]
    <2>1. Reads(c.tbs[t], n, p)
      BY <1>1 DEF Reads
    <2> QED  BY <1>2, <1>3, <2>1 DEF CacheInv, Listed
  <1> QED  BY <1>4 DEF CacheInv, Watched

(* What a store leaves in the tables before it writes: no block that can   *)
(* be found was read from what it writes.                                  *)
LEMMA StorePurges ==
    ASSUME NEW c, CacheInv(c), NEW v \in VPages, NEW r \in Regions, NEW p \in PPages,
           c.tlb[v] # NULL, c.tlb[v].page = p, NEW a,
           a = IF c.tlb[v].notdirty /\ ~c.dirty[p]
               THEN tb_invalidate_phys_page_fast(c, p, r) ELSE c
    PROVE  /\ CacheInv(a) /\ Shrinks(c, a) /\ Purged(c, a, p, {r})
           /\ \A t \in a.hash : ~Touches(a.tbs[t], p, {r})
  <1>1. CacheInv(a) /\ Shrinks(c, a) /\ Purged(c, a, p, {r})
    <2>1. CASE c.tlb[v].notdirty /\ ~c.dirty[p]
      BY <2>1, FastInv
    <2>2. CASE ~(c.tlb[v].notdirty /\ ~c.dirty[p])
      <3>1. Shrinks(c, c)
        BY DEF Shrinks
      <3>2. Purged(c, c, p, {r})
        BY <2>2, TouchedIsWatched DEF Purged
      <3> QED  BY <2>2, <3>1, <3>2
    <2> QED  BY <2>1, <2>2
  <1>2. \A t \in a.hash : t \in c.hash /\ a.tbs[t] = c.tbs[t]
    BY <1>1 DEF Shrinks
  <1> QED  BY <1>1, <1>2 DEF Purged

LEMMA StoresAtEntries ==
    ASSUME NEW b, Made(b), NEW e \in StoresAt(b)
    PROVE  e \in Entries
  BY DEF StoresAt, Made

(* A store that drops its own block leaves no block that can be found but  *)
(* those that let it through.                                              *)
LEMMA RetryIsReady ==
    ASSUME NEW a, CacheInv(a), NEW v \in VPages, NEW r, a.tlb[v] # NULL,
           \A x \in a.hash : ~Touches(a.tbs[x], a.tlb[v].page, {r}),
           NEW d, CacheInv(d), NEW t, NEW m,
           NEW e \in Entries, Generated(a, d, t, e, TRUE, m),
           NEW rt, rt.pc = e, rt.v = v, rt.r = r
    PROVE  RetryReady(d, rt)
  <1>1. d.tlb[v] # NULL /\ d.tlb[v].page = a.tlb[v].page
    BY DEF Generated, TlbGrows
  <1>2. \A w \in VPagesOf(e) : d.tlb[w] # NULL
    BY DEF Generated
  <1>3. t \in d.hash
    BY GeneratedKnown
  <1>4. d.tbs[t].pc = e /\ d.tbs[t].page = CodePages(d, e) /\ d.tbs[t].one
    BY DEF Generated
  <1>5. Found(d, e) # {}
    BY <1>3, <1>4 DEF Found
  <1>6. ASSUME NEW x \in d.hash  PROVE LetsThrough(d, d.tbs[x], rt)
    <2>1. CASE x = t
      BY <1>4, <2>1 DEF LetsThrough
    <2>2. CASE x # t
      <3>1. AddedTo(a, d, t)
        BY <2>2 DEF Generated, Restarted
      <3>2. x \in a.hash /\ x \in Slots
        BY <2>2, <3>1, CacheFields DEF AddedTo, CacheInv
      <3>3. d.tbs[x] = a.tbs[x]
        BY <2>2, <3>1, <3>2 DEF AddedTo
      <3> QED  BY <1>1, <3>2, <3>3 DEF LetsThrough
    <2> QED  BY <2>1, <2>2
  <1> QED  BY <1>1, <1>2, <1>5, <1>6 DEF RetryReady

LEMMA GuestStoreInv ==
    ASSUME NEW v \in VPages, NEW r \in Regions
    PROVE  TrInv /\ GuestStore(v, r) => TrInv'
  <1> SUFFICES ASSUME TrInv, GuestStore(v, r)  PROVE TrInv'
    OBVIOUS
  <1>1. PICK f, p, slow, a, w :
          /\ f = Fill(s, v, map) /\ p = f.tlb[v].page /\ slow = f.tlb[v].notdirty
          /\ a = IF slow /\ ~f.dirty[p] THEN tb_invalidate_phys_page_fast(f, p, r) ELSE f
          /\ w = Written(a, p, {r})
    OBVIOUS
  <1>2. IF ModifiesRun(a, p, r)
        THEN /\ \E pc \in StoresAt(s.tbs[run]) :
                   /\ s' = tb_gen_code(a, pc, TRUE, map)
                   /\ retry' = [pc |-> pc, v |-> v, r |-> r]
             /\ run' = NULL
             /\ nocache' = FALSE
        ELSE /\ s' = IF slow /\ w.dirty[p] THEN TlbSet(w, v, p) ELSE w
             /\ retry' = NULL
             /\ run' = run /\ nocache' = nocache
    BY <1>1 DEF GuestStore, Store, TlbSet
  <1>3. /\ run # NULL /\ map' = map /\ since' = since /\ next' = next
    BY DEF GuestStore
  <1>4. /\ CacheInv(s) /\ MapsKnown(s, map, since) /\ map \in Maps /\ RunSound(s, run, nocache)
        /\ run \in InUse(s) /\ next = NULL
    BY <1>3 DEF TrInv, RunSound, NextSound, MapsKnown
  <1>5. run \in Slots /\ s.tbs[run] \in Block /\ Made(s.tbs[run])
    BY <1>4, InUseMade
  <1>6. CacheInv(f) /\ FillsOnly(s, f, map) /\ f.tlb[v] # NULL
    BY <1>1, <1>4, FillInv
  <1>7. p \in PPages /\ f.tlb[v].page = p
    BY <1>1, <1>6, CacheFields DEF CacheInv, TlbEntries
  <1>8. /\ CacheInv(a) /\ Shrinks(f, a) /\ Purged(f, a, p, {r})
        /\ \A t \in a.hash : ~Touches(a.tbs[t], p, {r})
    BY <1>1, <1>6, <1>7, StorePurges
  <1>9. SameBlocks(s, f) /\ SameJumps(s, f) /\ f.cache = s.cache /\ TlbGrows(s, f, map)
    BY <1>6 DEF FillsOnly
  <1>10. MapsKnown(f, map, since)
    BY <1>4, <1>9 DEF MapsKnown, TlbGrows, SameBlocks
  <1>11. MapsKnown(a, map, since)
    BY <1>8, <1>10, ShrinksMaps
  <1>12. Lessens(s, a)
    <2>1. Lessens(s, f)
      BY <1>4, <1>9, SameLessens
    <2>2. Lessens(f, a)
      BY <1>6, <1>8, ShrinksLessens
    <2> QED  BY <2>1, <2>2, LessensTransitive
  <1>13. CASE ModifiesRun(a, p, r)
    <2>0. PICK pc \in StoresAt(s.tbs[run]) :
            /\ s' = tb_gen_code(a, pc, TRUE, map)
            /\ retry' = [pc |-> pc, v |-> v, r |-> r]
      BY <1>2, <1>13
    <2>1. PICK d, t : d = tb_gen_code(a, pc, TRUE, map) /\ t = Newest(d)
      OBVIOUS
    <2>2. s' = d /\ run' = NULL /\ nocache' = FALSE /\ retry' = [pc |-> pc, v |-> v, r |-> r]
      BY <1>2, <1>13, <2>0, <2>1
    <2>20. pc \in Entries
      BY <1>5, StoresAtEntries
    <2>3. CacheInv(d) /\ Generated(a, d, t, pc, TRUE, map)
      BY <1>4, <1>5, <1>8, <2>1, <2>20, GenInv
    <2>4. MapsKnown(d, map, since)
      BY <1>5, <1>8, <1>11, <2>3, <2>20, GeneratedMaps
    <2>5. RunSound(s', run', nocache') /\ NextSound(s', run', nocache', next', retry')
      BY <1>3, <1>4, <2>2 DEF RunSound, NextSound
    <2>6. ASSUME GuestWaits  PROVE GuestSound(s', map', since', run', next', retry')
      <3>1. Chains(s) /\ Current(s.tbs[run], map, since)
        BY <1>3, <2>6 DEF TrInv, GuestSound
      <3>2. Chains(a)
        BY <1>4, <1>8, <1>12, <3>1, LessensSound
      <3>3. Known(a, d, t)
        BY <1>8, <2>3, GeneratedKnown
      <3>4. Chains(d)
        BY <1>8, <2>3, <3>2, <3>3, KnownChains
      <3>5. a.tlb[v] # NULL /\ a.tlb[v].page = p
        BY <1>6, <1>7, <1>8 DEF Shrinks
      <3>6. retry'.pc = pc /\ retry'.v = v /\ retry'.r = r
        BY <2>2
      <3>7. RetryReady(d, retry')
        BY <1>8, <2>3, <2>20, <3>5, <3>6, RetryIsReady
      <3> QED  BY <1>3, <1>4, <2>2, <3>4, <3>7 DEF GuestSound
    <2> QED  BY <1>3, <2>2, <2>3, <2>4, <2>5, <2>6 DEF TrInv
  <1>14. CASE ~ModifiesRun(a, p, r)
    <2>1. PICK rs \in SUBSET Regions : rs = {r}
      OBVIOUS
    <2>2. /\ CacheInv(w)
          /\ w.nb_tbs = a.nb_tbs /\ w.hash = a.hash /\ w.list = a.list
          /\ w.cache = a.cache /\ SameJumps(a, w) /\ SameTlb(a, w)
          /\ \A t \in Slots : /\ w.tbs[t].pc = a.tbs[t].pc
                              /\ w.tbs[t].page = a.tbs[t].page
                              /\ w.tbs[t].one = a.tbs[t].one
      <3>1. w = Written(a, p, rs) /\ CacheInv(a) /\ p \in PPages
        BY <1>1, <1>7, <1>8, <2>1
      <3>2. \A t \in a.hash : ~Touches(a.tbs[t], p, rs)
        BY <1>8, <2>1
      <3> QED  BY <3>1, <3>2, WrittenInv
    <2>3. Lessens(a, w)
      BY <2>2 DEF Lessens, SameCode, SameJumps
    <2>4. MapsKnown(w, map, since)
      <3>1. \A e \in Entries : a.cache[e] # NULL => a.cache[e] \in Slots
        BY <1>8, CacheFields DEF CacheInv
      <3>2. \A e \in Entries : w.cache[e] # NULL => ReadFrom(w.tbs[w.cache[e]], since)
        BY <1>11, <2>2, <2>3, <3>1, SameCodeSound DEF MapsKnown, Lessens
      <3> QED  BY <1>11, <2>2, <3>2 DEF MapsKnown, SameTlb
    <2>5. s' = (IF slow /\ w.dirty[p] THEN TlbSet(w, v, p) ELSE w)
          /\ retry' = NULL /\ run' = run /\ nocache' = nocache
      BY <1>2, <1>14
    <2>6. PICK d : d = s'
      OBVIOUS
    <2>7. CacheInv(d) /\ Lessens(w, d) /\ MapsKnown(d, map, since)
      <3>1. CASE slow /\ w.dirty[p]
        <4>1. d = TlbSet(w, v, p)
          BY <2>5, <2>6, <3>1
        <4>2. /\ CacheInv(d) /\ SameBlocks(w, d) /\ SameJumps(w, d) /\ d.cache = w.cache
              /\ d.tlb[v].page = p
              /\ \A x \in VPages : x # v => d.tlb[x] = w.tlb[x]
          BY <1>7, <2>2, <3>1, <4>1, TlbSetInv
        <4>3. p \in since[v]
          BY <1>6, <1>7, <1>10 DEF MapsKnown
        <4>4. MapsKnown(d, map, since)
          BY <2>4, <4>2, <4>3 DEF MapsKnown, SameBlocks
        <4> QED  BY <2>2, <4>2, <4>4, SameLessens
      <3>2. CASE ~(slow /\ w.dirty[p])
        <4>1. d = w
          BY <2>5, <2>6, <3>2
        <4>2. Lessens(w, w)
          BY DEF Lessens, SameCode
        <4> QED  BY <2>2, <2>4, <4>1, <4>2
      <3> QED  BY <3>1, <3>2
    <2>8. Lessens(s, d)
      BY <1>12, <2>3, <2>7, LessensTransitive
    <2>9. RunSound(d, run, nocache) /\ (Chains(s) => Chains(d))
      BY <1>4, <2>7, <2>8, LessensSound
    <2>10. RunSound(s', run', nocache') /\ NextSound(s', run', nocache', next', retry')
      BY <1>3, <1>4, <2>5, <2>6, <2>9 DEF NextSound
    <2>11. ASSUME GuestWaits  PROVE GuestSound(s', map', since', run', next', retry')
      <3>1. Chains(s) /\ Current(s.tbs[run], map, since)
        BY <1>3, <2>11 DEF TrInv, GuestSound
      <3>2. SameCode(s.tbs[run], d.tbs[run])
        BY <1>5, <2>8 DEF Lessens
      <3>3. Current(d.tbs[run], map, since)
        BY <3>1, <3>2, SameCodeSound
      <3> QED  BY <1>3, <1>4, <2>5, <2>6, <2>9, <3>1, <3>3 DEF GuestSound
    <2> QED  BY <1>3, <2>6, <2>7, <2>10, <2>11 DEF TrInv
  <1> QED  BY <1>13, <1>14

(* A block is current as long as other pages are remapped. *)
LEMMA CurrentElsewhere ==
    ASSUME NEW b \in Block, Made(b), NEW m, NEW sn, Current(b, m, sn),
           NEW m1, NEW sn1, NEW v, v \notin VPagesOf(b.pc),
           \A x \in VPages : x # v => m1[x] = m[x] /\ sn1[x] = sn[x]
    PROVE  Current(b, m1, sn1)
  BY MadePages DEF Current

LEMMA RemapInv ==
    ASSUME NEW v \in VPages, NEW p \in PPages
    PROVE  TrInv /\ Remap(v, p) => TrInv'
  <1> SUFFICES ASSUME TrInv, Remap(v, p)  PROVE TrInv'
    OBVIOUS
  <1>1. /\ retry = NULL /\ map' = [map EXCEPT ![v] = p]
        /\ since' = [since EXCEPT ![v] = @ \cup {p}]
        /\ s' = s /\ run' = run /\ nocache' = nocache /\ next' = next /\ retry' = retry
    BY DEF Remap
  <1>2. /\ CacheInv(s) /\ MapsKnown(s, map, since) /\ map \in Maps
        /\ since \in [VPages -> SUBSET PPages] /\ NextSound(s, run, nocache, next, retry)
    BY DEF TrInv, MapsKnown
  <1>3. /\ map' \in Maps /\ since' \in [VPages -> SUBSET PPages]
        /\ \A x \in VPages : since[x] \subseteq since'[x] /\ map'[x] \in since'[x]
        /\ \A x \in VPages : x # v => map'[x] = map[x] /\ since'[x] = since[x]
    BY <1>1, <1>2 DEF Maps, MapsKnown
  <1>4. MapsKnown(s', map', since')
    <2>1. ASSUME NEW e \in Entries, s.cache[e] # NULL
          PROVE  ReadFrom(s.tbs[s.cache[e]], since')
      <3>1. s.cache[e] \in InUse(s)
        BY <1>2, <2>1 DEF CacheInv, CacheLive, SlotsMade
      <3>2. s.tbs[s.cache[e]] \in Block /\ Made(s.tbs[s.cache[e]])
        BY <1>2, <3>1, InUseMade
      <3>3. ReadFrom(s.tbs[s.cache[e]], since)
        BY <1>2, <2>1 DEF MapsKnown
      <3> QED  BY <1>3, <3>2, <3>3, MadePages DEF ReadFrom
    <2>2. \A x \in VPages : s.tlb[x] # NULL => s.tlb[x].page \in since'[x]
      BY <1>2, <1>3 DEF MapsKnown
    <2> QED  BY <1>1, <1>3, <2>1, <2>2 DEF MapsKnown
  <1>5. RunSound(s', run', nocache') /\ NextSound(s', run', nocache', next', retry')
    BY <1>1 DEF TrInv
  <1>6. ASSUME GuestWaits  PROVE GuestSound(s', map', since', run', next', retry')
    <2>1. /\ GuestSound(s, map, since, run, next, retry)
          /\ run # NULL => v \notin VPagesOf(s.tbs[run].pc)
          /\ next # NULL => v \notin VPagesOf(s.tbs[next.tb].pc)
      BY <1>6 DEF TrInv, Remap
    <2>2. ASSUME NEW t \in InUse(s), v \notin VPagesOf(s.tbs[t].pc),
                 Current(s.tbs[t], map, since)
          PROVE  Current(s.tbs[t], map', since')
      BY <1>2, <1>3, <2>2, InUseMade, CurrentElsewhere
    <2>3. run # NULL => run \in InUse(s)
      BY DEF TrInv, RunSound
    <2>4. next # NULL => next.tb \in InUse(s)
      BY DEF TrInv, NextSound
    <2>5. run # NULL => Current(s.tbs[run], map', since')
      BY <2>1, <2>2, <2>3 DEF GuestSound
    <2>6. next # NULL => Current(s.tbs[next.tb], map', since')
      BY <2>1, <2>2, <2>4 DEF GuestSound
    <2> QED  BY <1>1, <2>1, <2>5, <2>6 DEF GuestSound
  <1> QED  BY <1>1, <1>2, <1>4, <1>5, <1>6 DEF TrInv

(* Steps after which no block runs and none is about to. *)
LEMMA AtRest ==
    ASSUME CacheInv(s'), MapsKnown(s', map', since'),
           GuestWaits => Chains(s'),
           run' = NULL, nocache' = FALSE, next' = NULL, retry' = NULL
    PROVE  TrInv'
  BY DEF TrInv, RunSound, NextSound, GuestSound

LEMMA FlushPageStep ==
    ASSUME NEW v \in VPages
    PROVE  TrInv /\ FlushPage(v) => TrInv'
  <1> SUFFICES ASSUME TrInv, FlushPage(v)  PROVE TrInv'
    OBVIOUS
  <1>1. PICK d : d = tlb_flush_page(s, v)
    OBVIOUS
  <1>2. /\ s' = d /\ retry = NULL /\ next = NULL /\ ~nocache /\ run' = NULL
        /\ since' = [since EXCEPT ![v] = {map[v]}]
        /\ map' = map /\ nocache' = nocache /\ next' = next /\ retry' = retry
    BY <1>1 DEF FlushPage
  <1>3. /\ CacheInv(s) /\ MapsKnown(s, map, since) /\ map \in Maps /\ nocache = FALSE
        /\ since \in [VPages -> SUBSET PPages]
    BY <1>2 DEF TrInv, MapsKnown, RunSound
  <1>4. /\ CacheInv(d) /\ SameBlocks(s, d) /\ SameJumps(s, d)
        /\ \A e \in Entries : d.cache[e] = IF e[1] \in {v, v - 1} THEN NULL ELSE s.cache[e]
        /\ \A x \in VPages : d.tlb[x] = IF x = v THEN NULL ELSE s.tlb[x]
    BY <1>1, <1>3, FlushPageInv
  <1>5. /\ since' \in [VPages -> SUBSET PPages]
        /\ \A x \in VPages : map[x] \in since'[x]
        /\ \A x \in VPages : x # v => since'[x] = since[x]
    BY <1>2, <1>3 DEF Maps, MapsKnown
  <1>6. \A x \in VPages : d.tlb[x] # NULL => d.tlb[x].page \in since'[x]
    BY <1>3, <1>4, <1>5 DEF MapsKnown
  <1>7. ASSUME NEW e \in Entries, d.cache[e] # NULL
        PROVE  ReadFrom(d.tbs[d.cache[e]], since')
    <2>1. d.cache[e] = s.cache[e] /\ e[1] # v /\ e[1] # v - 1
      BY <1>4, <1>7
    <2>2. s.cache[e] \in InUse(s) /\ s.tbs[s.cache[e]].pc = e
      BY <1>3, <1>7, <2>1 DEF CacheInv, CacheLive, SlotsMade
    <2>3. PICK b : b = s.tbs[s.cache[e]]
      OBVIOUS
    <2>4. b \in Block /\ Made(b) /\ b.pc = e
      BY <1>3, <2>2, <2>3, InUseMade
    <2>5. ReadFrom(b, since)
      BY <1>3, <1>7, <2>1, <2>3 DEF MapsKnown
    <2>6. v \in Nat /\ e[1] \in Nat
      BY TbCacheAssumption DEF VPages
    <2>7. v \notin VPagesOf(e)
      BY <2>1, <2>6 DEF VPagesOf
    <2>8. ReadFrom(b, since')
      BY <1>5, <2>4, <2>5, <2>7, MadePages DEF ReadFrom
    <2> QED  BY <1>4, <2>1, <2>3, <2>8 DEF SameBlocks
  <1>8. MapsKnown(d, map, since')
    BY <1>3, <1>5, <1>6, <1>7 DEF MapsKnown
  <1>9. GuestWaits => Chains(d)
    BY <1>3, <1>4, SameLessens, LessensSound DEF TrInv, GuestSound
  <1> QED  BY <1>2, <1>3, <1>4, <1>8, <1>9, AtRest

LEMMA FlushAllInv == TrInv /\ FlushAll => TrInv'
  <1> SUFFICES ASSUME TrInv, FlushAll  PROVE TrInv'
    OBVIOUS
  <1>1. PICK d : d = tlb_flush(s)
    OBVIOUS
  <1>2. /\ s' = d /\ retry = NULL /\ next = NULL /\ ~nocache /\ run' = NULL
        /\ since' = [x \in VPages |-> {map[x]}]
        /\ map' = map /\ nocache' = nocache /\ next' = next /\ retry' = retry
    BY <1>1 DEF FlushAll
  <1>3. CacheInv(s) /\ map \in Maps /\ nocache = FALSE
    BY <1>2 DEF TrInv, MapsKnown, RunSound
  <1>4. /\ CacheInv(d) /\ SameBlocks(s, d) /\ SameJumps(s, d)
        /\ \A e \in Entries : d.cache[e] = NULL
        /\ \A v \in VPages : d.tlb[v] = NULL
    BY <1>1, <1>3, TlbFlushInv
  <1>5. MapsKnown(d, map, since')
    BY <1>2, <1>3, <1>4 DEF MapsKnown, Maps
  <1>6. GuestWaits => Chains(d)
    BY <1>3, <1>4, SameLessens, LessensSound DEF TrInv, GuestSound
  <1> QED  BY <1>2, <1>3, <1>4, <1>5, <1>6, AtRest

LEMMA EvictStep ==
    ASSUME NEW v \in VPages
    PROVE  TrInv /\ Evict(v) => TrInv'
  <1> SUFFICES ASSUME TrInv, Evict(v)  PROVE TrInv'
    OBVIOUS
  <1>1. PICK d : d = TlbClear(s, v)
    OBVIOUS
  <1>2. /\ s' = d /\ retry = NULL /\ run' = run /\ since' = since
        /\ map' = map /\ nocache' = nocache /\ next' = next /\ retry' = retry
    BY <1>1 DEF Evict, TlbClear
  <1>3. CacheInv(s) /\ MapsKnown(s, map, since)
    BY DEF TrInv
  <1>4. /\ CacheInv(d) /\ SameBlocks(s, d) /\ SameJumps(s, d)
        /\ \A e \in Entries : d.cache[e] = s.cache[e]
        /\ \A x \in VPages : d.tlb[x] = IF x = v THEN NULL ELSE s.tlb[x]
    BY <1>1, <1>3, EvictInv
  <1>5. MapsKnown(d, map, since)
    BY <1>3, <1>4 DEF MapsKnown, SameBlocks
  <1>6. /\ RunSound(d, run, nocache) /\ NextSound(d, run, nocache, next, retry)
        /\ Chains(s) => Chains(d)
    BY <1>3, <1>4, SameLessens, LessensSound DEF TrInv
  <1>7. GuestWaits => GuestSound(d, map, since, run, next, retry)
    BY <1>2, <1>4, <1>6 DEF TrInv, GuestSound, SameBlocks
  <1> QED  BY <1>2, <1>4, <1>5, <1>6, <1>7 DEF TrInv

-----------------------------------------------------------------------------
(* The host *)

LEMMA InHostFacts ==
    ASSUME TrInv, InHost
    PROVE  /\ CacheInv(s) /\ MapsKnown(s, map, since) /\ map \in Maps
           /\ run = NULL /\ next = NULL /\ retry = NULL /\ nocache = FALSE
           /\ GuestWaits => Chains(s)
  BY DEF TrInv, InHost, RunSound, MapsKnown, GuestSound

LEMMA WrittenLessens ==
    ASSUME NEW c, CacheInv(c), NEW p \in PPages, NEW rs \in SUBSET Regions,
           \A t \in c.hash : ~Touches(c.tbs[t], p, rs),
           NEW d, d = Written(c, p, rs)
    PROVE  /\ CacheInv(d) /\ Lessens(c, d)
           /\ \A m, sn : MapsKnown(c, m, sn) => MapsKnown(d, m, sn)
  <1>1. /\ CacheInv(d)
        /\ d.nb_tbs = c.nb_tbs /\ d.hash = c.hash /\ d.list = c.list
        /\ d.cache = c.cache /\ SameJumps(c, d) /\ SameTlb(c, d)
        /\ \A t \in Slots : /\ d.tbs[t].pc = c.tbs[t].pc
                            /\ d.tbs[t].page = c.tbs[t].page
                            /\ d.tbs[t].one = c.tbs[t].one
    BY WrittenInv
  <1>2. Lessens(c, d)
    BY <1>1 DEF Lessens, SameCode, SameJumps
  <1>3. \A e \in Entries : c.cache[e] # NULL => c.cache[e] \in Slots
    BY CacheFields DEF CacheInv
  <1>4. ASSUME NEW m, NEW sn, MapsKnown(c, m, sn)  PROVE MapsKnown(d, m, sn)
    <2>1. \A e \in Entries : d.cache[e] # NULL => ReadFrom(d.tbs[d.cache[e]], sn)
      BY <1>1, <1>2, <1>3, <1>4, SameCodeSound DEF MapsKnown, Lessens
    <2> QED  BY <1>1, <1>4, <2>1 DEF MapsKnown, SameTlb
  <1> QED  BY <1>1, <1>2, <1>4

LEMMA DirtyInv ==
    ASSUME NEW p \in PPages, NEW rs \in SUBSET Regions
    PROVE  TrInv /\ vx64_dirty(p, rs) => TrInv'
  <1> SUFFICES ASSUME TrInv, vx64_dirty(p, rs)  PROVE TrInv'
    OBVIOUS
  <1>1. PICK a, d : /\ a = IF s.dirty[p] THEN s ELSE tb_invalidate_phys_page_range(s, p, rs, FALSE)
                    /\ d = Written(a, p, rs)
    OBVIOUS
  <1>2. /\ s' = d /\ InHost /\ map' = map /\ since' = since /\ run' = run
        /\ nocache' = nocache /\ next' = next /\ retry' = retry
    BY <1>1 DEF vx64_dirty
  <1>3. /\ CacheInv(s) /\ MapsKnown(s, map, since)
        /\ run = NULL /\ next = NULL /\ retry = NULL /\ nocache = FALSE
        /\ GuestWaits => Chains(s)
    BY <1>2, InHostFacts
  <1>4. /\ CacheInv(a) /\ Shrinks(s, a)
        /\ \A t \in a.hash : ~Touches(a.tbs[t], p, rs)
    <2>1. CASE s.dirty[p]
      <3>1. a = s /\ Shrinks(s, s)
        BY <1>1, <2>1 DEF Shrinks
      <3>2. \A t \in s.hash : ~Touches(s.tbs[t], p, rs)
        BY <1>3, <2>1, TouchedIsWatched
      <3> QED  BY <1>3, <3>1, <3>2
    <2>2. CASE ~s.dirty[p]
      <3>1. PICK w \in BOOLEAN : w = FALSE
        OBVIOUS
      <3>2. a = tb_invalidate_phys_page_range(s, p, rs, w)
        BY <1>1, <2>2, <3>1
      <3>3. CacheInv(a) /\ Shrinks(s, a) /\ Purged(s, a, p, rs)
        BY <1>3, <3>2, RangeInv
      <3>4. \A t \in a.hash : t \in s.hash /\ a.tbs[t] = s.tbs[t]
        BY <3>3 DEF Shrinks
      <3> QED  BY <3>3, <3>4 DEF Purged
    <2> QED  BY <2>1, <2>2
  <1>5. /\ CacheInv(d) /\ Lessens(a, d)
        /\ \A m, sn : MapsKnown(a, m, sn) => MapsKnown(d, m, sn)
    BY <1>1, <1>4, WrittenLessens
  <1>6. MapsKnown(d, map, since)
    BY <1>3, <1>4, <1>5, ShrinksMaps
  <1>7. Lessens(s, d)
    BY <1>3, <1>4, <1>5, ShrinksLessens, LessensTransitive
  <1>8. GuestWaits => Chains(d)
    BY <1>3, <1>5, <1>7, LessensSound
  <1> QED  BY <1>2, <1>3, <1>5, <1>6, <1>8, AtRest

LEMMA BreakpointInv ==
    ASSUME NEW e \in Entries
    PROVE  TrInv /\ breakpoint_invalidate(e) => TrInv'
  <1> SUFFICES ASSUME TrInv, breakpoint_invalidate(e)  PROVE TrInv'
    OBVIOUS
  <1>0. PICK w \in BOOLEAN : w = FALSE
    OBVIOUS
  <1>1. PICK p, rs, d : /\ p = map[e[1]] /\ rs = {e[2]}
                        /\ d = tb_invalidate_phys_page_range(s, p, rs, w)
    OBVIOUS
  <1>2. /\ s' = d /\ InHost /\ map' = map /\ since' = since /\ run' = run
        /\ nocache' = nocache /\ next' = next /\ retry' = retry
    BY <1>0, <1>1 DEF breakpoint_invalidate
  <1>3. /\ CacheInv(s) /\ MapsKnown(s, map, since) /\ map \in Maps
        /\ run = NULL /\ next = NULL /\ retry = NULL /\ nocache = FALSE
        /\ GuestWaits => Chains(s)
    BY <1>2, InHostFacts
  <1>4. e[1] \in VPages
    BY EntryPages
  <1>5. p \in PPages
    BY <1>1, <1>3, <1>4 DEF Maps
  <1>6. CacheInv(d) /\ Shrinks(s, d)
    BY <1>1, <1>3, <1>5, RangeInv
  <1>7. MapsKnown(d, map, since)
    BY <1>3, <1>6, ShrinksMaps
  <1>8. GuestWaits => Chains(d)
    BY <1>3, <1>6, ShrinksLessens, LessensSound
  <1> QED  BY <1>2, <1>3, <1>6, <1>7, <1>8, AtRest

LEMMA TbFlushInv ==
    ASSUME NEW c \in Cache, NEW d, d = tb_flush(c)
    PROVE  /\ CacheInv(d) /\ Chains(d) /\ d.tlb = c.tlb
           /\ \A e \in Entries : d.cache[e] = NULL
  <1>1. /\ d \in Cache /\ d.nb_tbs = 0 /\ d.hash = {} /\ SameTlb(c, d)
        /\ \A p \in PPages : d.list[p] = {} /\ d.bitmap[p] = NULL
        /\ \A e \in Entries : d.cache[e] = NULL
    BY TbFlushFields
  <1>2. CacheInv(d)
    BY <1>1, EmptyInv
  <1>3. InUse(d) = {}
    BY <1>1 DEF InUse
  <1> QED  BY <1>1, <1>2, <1>3 DEF Chains, SameTlb

LEMMA SingleStepInv == TrInv /\ cpu_single_step => TrInv'
  <1> SUFFICES ASSUME TrInv, cpu_single_step  PROVE TrInv'
    OBVIOUS
  <1>1. PICK d : d = tb_flush(s)
    OBVIOUS
  <1>2. /\ s' = d /\ InHost /\ map' = map /\ since' = since /\ run' = run
        /\ nocache' = nocache /\ next' = next /\ retry' = retry
    BY <1>1 DEF cpu_single_step
  <1>3. /\ s \in Cache /\ MapsKnown(s, map, since)
        /\ run = NULL /\ next = NULL /\ retry = NULL /\ nocache = FALSE
    BY <1>2, InHostFacts DEF CacheInv
  <1>4. /\ CacheInv(d) /\ Chains(d) /\ d.tlb = s.tlb
        /\ \A e \in Entries : d.cache[e] = NULL
    BY <1>1, <1>3, TbFlushInv
  <1>5. MapsKnown(d, map, since)
    BY <1>3, <1>4 DEF MapsKnown
  <1> QED  BY <1>2, <1>3, <1>4, <1>5, AtRest

(* Everything is dropped, whatever was in the tables. *)
LEMMA ResetAll ==
    ASSUME NEW c \in Cache, NEW d, d = tlb_flush(tb_flush(c)), NEW m \in Maps, NEW sn,
           sn = [v \in VPages |-> {m[v]}]
    PROVE  CacheInv(d) /\ Chains(d) /\ MapsKnown(d, m, sn)
  <1>1. PICK a : a = tb_flush(c)
    OBVIOUS
  <1>2. CacheInv(a) /\ Chains(a)
    BY <1>1, TbFlushInv
  <1>3. /\ CacheInv(d) /\ SameBlocks(a, d) /\ SameJumps(a, d)
        /\ \A e \in Entries : d.cache[e] = NULL
        /\ \A v \in VPages : d.tlb[v] = NULL
    BY <1>1, <1>2, TlbFlushInv
  <1>4. Chains(d)
    BY <1>2, <1>3, SameLessens, LessensSound
  <1>5. MapsKnown(d, m, sn)
    BY <1>3 DEF MapsKnown, Maps
  <1> QED  BY <1>3, <1>4, <1>5

LEMMA ResetInv == TrInv /\ vx64_reset => TrInv'
  <1> SUFFICES ASSUME TrInv, vx64_reset  PROVE TrInv'
    OBVIOUS
  <1>1. /\ s' = tlb_flush(tb_flush(s)) /\ since' = [v \in VPages |-> {map[v]}]
        /\ InHost /\ map' = map /\ run' = run
        /\ nocache' = nocache /\ next' = next /\ retry' = retry
    BY DEF vx64_reset
  <1>2. /\ s \in Cache /\ map \in Maps
        /\ run = NULL /\ next = NULL /\ retry = NULL /\ nocache = FALSE
    BY <1>1, InHostFacts DEF CacheInv
  <1>3. CacheInv(s') /\ Chains(s') /\ MapsKnown(s', map, since')
    BY <1>1, <1>2, ResetAll
  <1> QED  BY <1>1, <1>2, <1>3, AtRest

LEMMA ReplaceInv ==
    ASSUME NEW p \in PPages, HostResets
    PROVE  TrInv /\ ReplaceRam(p) => TrInv'
  <1> SUFFICES ASSUME TrInv, ReplaceRam(p)  PROVE TrInv'
    OBVIOUS
  <1>1. PICK a, b, c : /\ a = tlb_unprotect_code_phys(s, p) /\ b = tlb_flush(a)
                       /\ c = Written(b, p, Regions)
    OBVIOUS
  <1>2. /\ s' = tlb_flush(tb_flush(c)) /\ since' = [v \in VPages |-> {map[v]}]
        /\ InHost /\ map' = map /\ run' = run
        /\ nocache' = nocache /\ next' = next /\ retry' = retry
    BY <1>1 DEF ReplaceRam, tlb_unprotect_code_phys
  <1>3. /\ s \in Cache /\ map \in Maps
        /\ run = NULL /\ next = NULL /\ retry = NULL /\ nocache = FALSE
    BY <1>2, InHostFacts DEF CacheInv
  <1>4. a \in Cache
    BY <1>1, <1>3, UnprotectPhysFields
  <1>5. b \in Cache
    <2>1. b = FlushedOut(a, VPages, Entries)
      BY <1>1, TlbFlushOut
    <2> QED  BY <1>4, <2>1, FlushFields
  <1>6. c \in Cache
    BY <1>1, <1>5, WrittenFields
  <1>7. CacheInv(s') /\ Chains(s') /\ MapsKnown(s', map, since')
    BY <1>2, <1>3, <1>6, ResetAll
  <1> QED  BY <1>2, <1>3, <1>7, AtRest

-----------------------------------------------------------------------------
(* The theorems *)

LEMMA TrStart == Init => TrInv
  <1> SUFFICES ASSUME Init  PROVE TrInv
    OBVIOUS
  <1>1. /\ map \in Maps /\ s = EmptyCache /\ since = [v \in VPages |-> {map[v]}]
        /\ run = NULL /\ nocache = FALSE /\ next = NULL /\ retry = NULL
    BY DEF Init
  <1>2. /\ s.tbs = [t \in Slots |-> NoBlock] /\ s.nb_tbs = 0 /\ s.hash = {}
        /\ s.list = [p \in PPages |-> {}] /\ s.bitmap = [p \in PPages |-> NULL]
        /\ s.writes = [p \in PPages |-> 0] /\ s.cache = [e \in Entries |-> NULL]
        /\ s.target = [t \in Slots |-> NULL] /\ s.jumpers = [t \in Slots |-> {}]
        /\ s.tlb = [v \in VPages |-> NULL] /\ s.dirty = [p \in PPages |-> TRUE]
        /\ s.tb_invalidated_flag = FALSE /\ s.crashed = FALSE
    BY <1>1 DEF EmptyCache
  <1>3. s \in Cache
    <2>1. NoBlock \in Block
      BY DEF NoBlock, Block
    <2>2. /\ [t \in Slots |-> NoBlock] \in [Slots -> Block] /\ 0 \in 0 .. MaxTbs
          /\ [p \in PPages |-> 0] \in [PPages -> 0 .. SMC_BITMAP_USE_THRESHOLD]
      BY <2>1, TbCacheAssumption
    <2> QED  BY <1>1, <2>2 DEF EmptyCache, Cache
  <1>4. CacheInv(s)
    BY <1>2, <1>3, EmptyInv
  <1>5. MapsKnown(s, map, since)
    BY <1>1, <1>2 DEF MapsKnown, Maps
  <1>6. Chains(s)
    <2>1. InUse(s) = {}
      BY <1>2 DEF InUse
    <2> QED  BY <2>1 DEF Chains
  <1> QED  BY <1>1, <1>4, <1>5, <1>6 DEF TrInv, RunSound, NextSound, GuestSound

LEMMA TrStep ==
    ASSUME HostResets
    PROVE  TrInv /\ [Next]_vars => TrInv'
  <1> SUFFICES ASSUME TrInv, [Next]_vars  PROVE TrInv'
    OBVIOUS
  <1>1. CASE LoopStep
    BY <1>1, EnterInv, LeaveInv, LeaveDirectInv, ChainedInv, NoCacheInv, NoCacheEndsInv
    DEF LoopStep
  <1>2. CASE MemoryStep
    BY <1>2, GuestStoreInv, RemapInv, FlushPageStep, EvictStep, FlushAllInv
    DEF MemoryStep
  <1>3. CASE HostStep
    <2>1. ASSUME NEW p \in PPages, NEW rs \in (SUBSET Regions) \ {{}}, vx64_dirty(p, rs)
          PROVE  TrInv'
      BY <2>1, DirtyInv
    <2>2. ASSUME NEW e \in Entries, breakpoint_invalidate(e)  PROVE TrInv'
      BY <2>2, BreakpointInv
    <2>3. ASSUME NEW p \in PPages, ReplaceRam(p)  PROVE TrInv'
      BY <2>3, ReplaceInv
    <2> QED  BY <1>3, <2>1, <2>2, <2>3, ResetInv, SingleStepInv DEF HostStep
  <1>4. CASE UNCHANGED vars
    <2>1. /\ s' = s /\ map' = map /\ since' = since /\ run' = run /\ nocache' = nocache
          /\ next' = next /\ retry' = retry
      BY <1>4 DEF vars
    <2> QED  BY <2>1 DEF TrInv
  <1> QED  BY <1>1, <1>2, <1>3, <1>4 DEF Next

(* The tables of the block cache agree and every page that holds code is   *)
(* watched, for any pages, entries and number of blocks, and whatever the  *)
(* guest and a host that resets do (translate-all.c, cputlb.c).            *)
THEOREM CodeIsWatched == HostResets => (Spec => []TbInv)
  <1> SUFFICES ASSUME HostResets  PROVE Spec => []TbInv
    OBVIOUS
  <1>1. TrInv => TbInv
    <2> SUFFICES ASSUME TrInv  PROVE TbInv
      OBVIOUS
    <2>1. /\ CacheInv(s) /\ s \in Cache /\ map \in Maps
          /\ since \in [VPages -> SUBSET PPages] /\ nocache \in BOOLEAN
      BY DEF TrInv, CacheInv, MapsKnown, RunSound
    <2>2. \A t \in s.hash : s.tbs[t].pc \in Entries /\ s.tbs[t].page \in Seq(PPages)
      BY <2>1, InUseMade DEF CacheInv, SlotsMade, Made, Block
    <2>3. s.hash \subseteq 0 .. s.nb_tbs - 1
      BY <2>1 DEF CacheInv, SlotsMade, InUse
    <2>4. run \in Slots \cup {NULL}
      BY <2>1, InUseSlots DEF TrInv, RunSound
    <2>5. TbTypeOK
      BY <2>1, <2>2, <2>3, <2>4, CacheFields DEF TbTypeOK
    <2>6. CodeProtected
      BY <2>1 DEF CacheInv, Watched, CodeProtected
    <2>7. BitmapCovers
      BY <2>1 DEF CacheInv, BitsCover, BitmapCovers, build_page_bitmap
    <2> QED  BY <2>5, <2>6, <2>7 DEF TbInv
  <1> QED  BY <1>1, TrStart, TrStep, PTL DEF Spec

(* A block that tb_find_fast or tb_find_slow can return was read from      *)
(* memory that has not been written since.                                 *)
THEOREM FoundIsFresh == HostResets => (Spec => []LiveFresh)
  <1> SUFFICES ASSUME HostResets  PROVE Spec => []LiveFresh
    OBVIOUS
  <1>1. TrInv => LiveFresh
    BY DEF TrInv, CacheInv, NoneStale, LiveFresh
  <1> QED  BY <1>1, TrStart, TrStep, PTL DEF Spec

(* Neither the jump cache nor the patched jump of a block that can be      *)
(* found leads to a block that tb_phys_invalidate has dropped, even when   *)
(* the guest runs code of pages it has remapped.                           *)
THEOREM NoneLeadsToDropped == HostResets => (Spec => []NoPathToDead)
  <1> SUFFICES ASSUME HostResets  PROVE Spec => []NoPathToDead
    OBVIOUS
  <1>1. TrInv => NoPathToDead
    BY DEF TrInv, CacheInv, CacheLive, JumpsKnown, InUse, NoPathToDead
  <1> QED  BY <1>1, TrStart, TrStep, PTL DEF Spec

(* With a guest that flushes before it runs remapped code, a jump that     *)
(* tb_add_jump has patched in a block that can be found leads to one that  *)
(* can be found too, of the page it was patched for.  The jump that a      *)
(* dropped block keeps (translate-all.c:865) is not among these.           *)
THEOREM JumpsStaySound == HostResets /\ GuestWaits => (Spec => []JumpsSound)
  <1> SUFFICES ASSUME HostResets, GuestWaits  PROVE Spec => []JumpsSound
    OBVIOUS
  <1>1. TrInv => JumpsSound
    <2> SUFFICES ASSUME TrInv  PROVE JumpsSound
      OBVIOUS
    <2>1. NoPathToDead
      BY DEF TrInv, CacheInv, CacheLive, JumpsKnown, InUse, NoPathToDead
    <2>2. s.hash \subseteq InUse(s) /\ Chains(s)
      BY DEF TrInv, CacheInv, SlotsMade, GuestSound
    <2>3. ChainsSamePage
      BY <2>2 DEF Chains, JumpFits, ChainsSamePage
    <2> QED  BY <2>1, <2>3 DEF JumpsSound
  <1> QED  BY <1>1, TrStart, TrStep, PTL DEF Spec

(* With such a guest the running block, unless it was dropped meanwhile,   *)
(* was read from pages its addresses have been mapped to since they were   *)
(* last flushed, however it was reached: found, generated or jumped to.    *)
THEOREM RunIsCurrent == HostResets /\ GuestWaits => (Spec => []RunsCurrent)
  <1> SUFFICES ASSUME HostResets, GuestWaits  PROVE Spec => []RunsCurrent
    OBVIOUS
  <1>1. TrInv => RunsCurrent
    BY DEF TrInv, GuestSound, Current, RunsCurrent
  <1> QED  BY <1>1, TrStart, TrStep, PTL DEF Spec

(* From a block that can be found, or from the loop, the processor gets to *)
(* one that cannot only by a store of a block of one instruction, which    *)
(* drops that block itself: the loop and the patched jumps of the blocks   *)
(* that can be found lead to none that tb_phys_invalidate has dropped.     *)
StaysAmongFound ==
    (run # NULL => run \in s.hash) /\ run' # NULL /\ run' \notin s'.hash
        => run' = run /\ s.tbs[run].one

LEMMA EnterFinds ==
    ASSUME NEW e \in Entries, TrInv, Enter(e)
    PROVE  run' \in s'.hash
  <1>1. PICK f \in tb_find_fast(s, e, map) :
          LET chain == next # NULL /\ ~f.s.tb_invalidated_flag /\ ~Spanning(f.s.tbs[f.tb])
              c     == [f.s EXCEPT !.tb_invalidated_flag = FALSE]
          IN  /\ s' = IF chain THEN tb_add_jump(c, next.tb, f.tb) ELSE c
              /\ run' = f.tb
    BY DEF Enter
  <1>2. PICK c : c = [f.s EXCEPT !.tb_invalidated_flag = FALSE]
    OBVIOUS
  <1>3. run' = f.tb /\ s' \in {c, tb_add_jump(c, next.tb, f.tb)}
    BY <1>1, <1>2
  <1>4. CacheInv(f.s) /\ f.tb \in f.s.hash
    BY FindInv DEF TrInv, MapsKnown, FoundBlock
  <1>5. CacheInv(c) /\ c.hash = f.s.hash
    BY <1>2, <1>4, FlagResetInv DEF SameBlocks
  <1>6. tb_add_jump(c, next.tb, f.tb).hash = c.hash
    BY <1>5 DEF tb_add_jump, CacheInv, Cache
  <1> QED  BY <1>3, <1>4, <1>5, <1>6

LEMMA StoreStays ==
    ASSUME NEW v \in VPages, NEW r \in Regions, TrInv, GuestStore(v, r),
           run \in s.hash, run' # NULL, run' \notin s'.hash
    PROVE  run' = run /\ s.tbs[run].one
  <1>1. PICK f, p, slow, a, w :
          /\ f = Fill(s, v, map) /\ p = f.tlb[v].page /\ slow = f.tlb[v].notdirty
          /\ a = IF slow /\ ~f.dirty[p] THEN tb_invalidate_phys_page_fast(f, p, r) ELSE f
          /\ w = Written(a, p, {r})
    OBVIOUS
  <1>2. /\ ~ModifiesRun(a, p, r) /\ run' = run
        /\ s' = IF slow /\ w.dirty[p] THEN TlbSet(w, v, p) ELSE w
    BY <1>1 DEF GuestStore, Store, TlbSet
  <1>3. CacheInv(s) /\ map \in Maps
    BY DEF TrInv, MapsKnown
  <1>4. CacheInv(f) /\ f.tlb[v] # NULL
    BY <1>1, <1>3, FillInv
  <1>5. p \in PPages /\ f.tlb[v].page = p
    BY <1>1, <1>4, CacheFields DEF CacheInv, TlbEntries
  <1>6. CacheInv(a)
    BY <1>1, <1>4, <1>5, StorePurges
  <1>7. w.hash = a.hash /\ w \in Cache
    <2>1. a \in Cache
      BY <1>6 DEF CacheInv
    <2>2. PICK rs : rs = {r}
      OBVIOUS
    <2>3. w = Written(a, p, rs)
      BY <1>1, <2>2
    <2> QED  BY <2>1, <2>3, WrittenFields
  <1>8. TlbSet(w, v, p).hash = w.hash
    BY <1>7 DEF TlbSet, Cache
  <1>9. run \notin a.hash
    BY <1>2, <1>7, <1>8
  <1> QED  BY <1>2, <1>9 DEF ModifiesRun

(* A host that resets, and any guest, never make the processor leave the   *)
(* blocks that can be found in another way.                                *)
THEOREM LeavesFoundAlone == HostResets => (Spec => [][StaysAmongFound]_vars)
  <1> SUFFICES ASSUME HostResets  PROVE Spec => [][StaysAmongFound]_vars
    OBVIOUS
  <1>1. TrInv /\ [Next]_vars => [StaysAmongFound]_vars
    <2> SUFFICES ASSUME TrInv, Next, run # NULL => run \in s.hash,
                        run' # NULL, run' \notin s'.hash
                 PROVE  run' = run /\ s.tbs[run].one
      BY DEF StaysAmongFound
    <2>1. CacheInv(s) /\ map \in Maps
      BY DEF TrInv, MapsKnown
    <2>2. CASE LoopStep
      <3>1. ASSUME NEW e \in Entries, Enter(e)  PROVE FALSE
        BY <3>1, EnterFinds
      <3>2. CASE Chained
        BY <2>1, <3>2 DEF Chained, CacheInv, JumpsKnown
      <3>3. CASE NoCache
        <4>1. PICK one \in {s.tbs[run].one, TRUE} :
                LET g == tb_gen_code(s, s.tbs[run].pc, one, map)
                IN  s' = g /\ run' = Newest(g)
          BY <3>3 DEF NoCache
        <4>2. run \in InUse(s)
          BY <3>3 DEF NoCache, TrInv, RunSound
        <4>3. s.tbs[run] \in Block /\ Made(s.tbs[run])
          BY <2>1, <4>2, InUseMade
        <4>4. s.tbs[run].pc \in Entries /\ one \in BOOLEAN
          BY <4>1, <4>3 DEF Block, Made
        <4>5. PICK e : e = s.tbs[run].pc
          OBVIOUS
        <4>6. PICK d, t : d = tb_gen_code(s, e, one, map) /\ t = Newest(d)
          OBVIOUS
        <4>7. CacheInv(d) /\ Generated(s, d, t, e, one, map)
          BY <2>1, <4>4, <4>5, <4>6, GenInv
        <4>8. t \in d.hash
          BY <2>1, <4>7, GeneratedKnown
        <4> QED  BY <4>1, <4>5, <4>6, <4>8
      <3> QED  BY <2>2, <3>1, <3>2, <3>3 DEF LoopStep, Leave, LeaveDirect, NoCacheEnds
    <2>3. CASE MemoryStep
      <3>1. ASSUME NEW v \in VPages, NEW r \in Regions, GuestStore(v, r)
            PROVE  run' = run /\ s.tbs[run].one
        BY <3>1, StoreStays DEF GuestStore
      <3>2. ASSUME NEW v \in VPages, Evict(v)  PROVE FALSE
        <4>1. s'.hash = s.hash
          BY <2>1, <3>2 DEF Evict, CacheInv, Cache
        <4> QED  BY <3>2, <4>1 DEF Evict
      <3> QED  BY <2>3, <3>1, <3>2 DEF MemoryStep, Remap, FlushPage, FlushAll
    <2>4. CASE HostStep
      BY <2>4 DEF HostStep, vx64_dirty, vx64_reset, cpu_single_step,
                  breakpoint_invalidate, ReplaceRam, InHost
    <2> QED  BY <2>2, <2>3, <2>4 DEF Next
  <1> QED  BY <1>1, TrStart, TrStep, PTL DEF Spec

(* A store that has to be tried again, because it dropped its own block    *)
(* (tb_invalidate_phys_page_range), is tried by a block that lets it       *)
(* through, be it the single instruction just made or an older block of    *)
(* the jump cache.                                                         *)
THEOREM RetriesGoThrough == HostResets /\ GuestWaits => (Spec => []RetryGoesThrough)
  <1> SUFFICES ASSUME HostResets, GuestWaits  PROVE Spec => []RetryGoesThrough
    OBVIOUS
  <1>1. TrInv => RetryGoesThrough
    <2> SUFFICES ASSUME TrInv, retry # NULL, run # NULL, ~s.tbs[run].one,
                        <<Fill(s, retry.v, map).tlb[retry.v].page, retry.r>>
                            \in PartsOf(s.tbs[run])
                 PROVE  FALSE
      BY DEF RetryGoesThrough
    <2>1. s.tlb[retry.v] # NULL /\ ~Touches(s.tbs[run], s.tlb[retry.v].page, {retry.r})
      BY DEF TrInv, GuestSound, LetsThrough
    <2>2. Fill(s, retry.v, map) = s
      BY <2>1 DEF Fill
    <2>3. PICK n \in DOMAIN s.tbs[run].page :
            <<s.tlb[retry.v].page, retry.r>> = Part(s.tbs[run], n)
      BY <2>2 DEF PartsOf
    <2>4. s.tbs[run].page[n] = s.tlb[retry.v].page /\ Part(s.tbs[run], n)[2] = retry.r
      BY <2>3 DEF Part
    <2> QED  BY <2>1, <2>4 DEF Touches
  <1> QED  BY <1>1, TrStart, TrStep, PTL DEF Spec
=============================================================================
