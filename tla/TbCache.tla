------------------------------- MODULE TbCache ------------------------------
(***************************************************************************)
(* The structures of vx64's translator (qemu's translate-all.c, cputlb.c)  *)
(* that lead to a translation block, and the operations on them.           *)
(*                                                                         *)
(* A page has two regions of code, 0 at its start and 1 at its end; the    *)
(* block of an entry point <<v, k>> begins in region k of virtual page v   *)
(* and a block that begins in region 1 runs on into region 0 of page       *)
(* v + 1.  A block does not keep what it was translated from: it is stale  *)
(* once a region it was read from has been written.                        *)
(*                                                                         *)
(* One processor, one direct jump (jmp_next, tb_next) of a block.          *)
(***************************************************************************)
EXTENDS Naturals, Sequences, Functions

CONSTANTS NULL,
          PPages,               \* physical pages of RAM
          Entries,              \* where blocks begin: <<virtual page, region>>
          MaxTbs,               \* code_gen_max_blocks, or what the buffer holds
          OneInsn,              \* the entries whose block is a single instruction
          SMC_BITMAP_USE_THRESHOLD

Regions == {0, 1}
Slots   == 0 .. MaxTbs - 1
VPages  == {e[1] : e \in Entries} \cup {e[1] + 1 : e \in {f \in Entries : f[2] = 1}}

ASSUME TbCacheAssumption ==
    /\ Entries \subseteq Nat \X Regions
    /\ OneInsn \subseteq Entries
    /\ MaxTbs \in Nat \ {0}
    /\ SMC_BITMAP_USE_THRESHOLD \in Nat \ {0}
    /\ NULL \notin Slots /\ NULL \notin Entries
    /\ \A bits \in SUBSET Regions : bits # NULL
    /\ \A p \in PPages, d \in BOOLEAN : [page |-> p, notdirty |-> d] # NULL

(* A block: its pc, the physical page of each region it was read from, in  *)
(* order, whether it is one instruction (icount = 1).                      *)
NoBlock == [pc |-> NULL, page |-> <<>>, one |-> FALSE, stale |-> FALSE]

(* s.list[p] is the page's first_tb: <<slot, n>> is page n of the block in *)
(* slot.  The list is newest first, and a block is put in a slot above all *)
(* that are in use, so that the set has the order of the list.  s.target   *)
(* is the block a block's jump is patched to, s.jumpers[t] the list        *)
(* jmp_first of t.  s.dirty is CODE_DIRTY_FLAG: the other flags of a page  *)
(* are set when it is added and stay set.                                  *)
EmptyCache ==
    [tbs     |-> [t \in Slots |-> NoBlock],
     nb_tbs  |-> 0,
     hash    |-> {},
     list    |-> [p \in PPages |-> {}],
     bitmap  |-> [p \in PPages |-> NULL],
     writes  |-> [p \in PPages |-> 0],
     cache   |-> [e \in Entries |-> NULL],
     target  |-> [t \in Slots |-> NULL],
     jumpers |-> [t \in Slots |-> {}],
     tlb     |-> [v \in VPages |-> NULL],
     dirty   |-> [p \in PPages |-> TRUE],
     tb_invalidated_flag |-> FALSE,
     crashed |-> FALSE]

Part(b, n)   == <<b.page[n], IF n = 1 THEN b.pc[2] ELSE 0>>
PartsOf(b)   == {Part(b, n) : n \in DOMAIN b.page}
Spanning(b)  == Len(b.page) = 2
PagesOf(b)   == Range(b.page)
Linked(s, t) == \E x \in Slots : t \in s.jumpers[x]      \* jmp_next # NULL

-----------------------------------------------------------------------------
(* The TLB *)

TlbEntry(s, p) == [page |-> p, notdirty |-> ~s.dirty[p]]

Fill(s, v, map) ==
    IF s.tlb[v] # NULL THEN s
    ELSE [s EXCEPT !.tlb[v] = TlbEntry(s, map[v])]

tlb_flush(s) ==
    [s EXCEPT !.tlb = [v \in VPages |-> NULL], !.cache = [e \in Entries |-> NULL]]

FlushesOnePage(s, v) ==
    [s EXCEPT !.cache = [e \in Entries |-> IF e[1] = v THEN NULL ELSE @[e]]]

tb_flush_jmp_cache(s, v) ==
    [s EXCEPT !.cache = [e \in Entries |-> IF e[1] \in {v, v - 1} THEN NULL ELSE @[e]]]

tlb_flush_page(s, v) ==
    tb_flush_jmp_cache([s EXCEPT !.tlb[v] = NULL], v)

ProtectsFlagOnly(s, p) == [s EXCEPT !.dirty[p] = FALSE]

tlb_protect_code(s, p) ==
    [s EXCEPT !.dirty[p] = FALSE,
              !.tlb = [v \in VPages |->
                  IF @[v] # NULL /\ @[v].page = p
                  THEN [page |-> p, notdirty |-> TRUE] ELSE @[v]]]

tlb_unprotect_code_phys(s, p) == [s EXCEPT !.dirty[p] = TRUE]

-----------------------------------------------------------------------------
(* Removing blocks *)

invalidate_page_bitmap(s, ps) ==
    [s EXCEPT !.bitmap = [p \in PPages |-> IF p \in ps THEN NULL ELSE @[p]],
              !.writes = [p \in PPages |-> IF p \in ps THEN 0 ELSE @[p]]]

(* Records of slots past nb_tbs are not looked at. *)
tb_flush(s) ==
    [invalidate_page_bitmap(s, PPages) EXCEPT
        !.tbs     = EmptyCache.tbs,
        !.nb_tbs  = 0,
        !.hash    = {},
        !.list    = EmptyCache.list,
        !.cache   = EmptyCache.cache,
        !.target  = EmptyCache.target,
        !.jumpers = EmptyCache.jumpers]

KeepsJumpsTo(s, T) ==
    [s EXCEPT !.jumpers = [x \in Slots |-> IF x \in T THEN {} ELSE @[x] \ T]]

(* A block leaves the list of the one it jumps to, be it its own, before   *)
(* the jumps to it are reset: one that has gone before keeps its jump.     *)
ResetJumpsTo(s, T) ==
    [s EXCEPT !.target  = [x \in Slots |->
                  IF \E t \in T : x \in s.jumpers[t] \ {y \in T : y >= t}
                  THEN NULL ELSE @[x]],
              !.jumpers = [x \in Slots |-> IF x \in T THEN {} ELSE @[x] \ T]]

(* tb_phys_invalidate for the blocks of T, the newest first. *)
InvalidateAll(s, T) ==
    ResetJumpsTo(
        [invalidate_page_bitmap(s, UNION {PagesOf(s.tbs[t]) : t \in T}) EXCEPT
            !.hash  = @ \ T,
            !.list  = [p \in PPages |-> {x \in @[p] : x[1] \notin T}],
            !.tb_invalidated_flag = IF T = {} THEN @ ELSE TRUE,
            !.cache = [e \in Entries |->
                IF \E t \in T : @[e] = t /\ s.tbs[t].pc = e THEN NULL ELSE @[e]]], T)

(* A block that is not in the hash list runs tb_hash_remove off its end. *)
tb_phys_invalidate(s, t) ==
    IF t \in s.hash THEN InvalidateAll(s, {t}) ELSE [s EXCEPT !.crashed = TRUE]

build_page_bitmap(s, p) == {Part(s.tbs[x[1]], x[2])[2] : x \in s.list[p]}

CountWrite(s, p, isCpuWrite) ==
    IF s.bitmap[p] # NULL THEN s
    ELSE LET w == IF s.writes[p] < SMC_BITMAP_USE_THRESHOLD
                  THEN s.writes[p] + 1 ELSE s.writes[p]
         IN  [s EXCEPT !.writes[p] = w,
                       !.bitmap[p] = IF w = SMC_BITMAP_USE_THRESHOLD /\ isCpuWrite
                                     THEN build_page_bitmap(s, p) ELSE NULL]

Hit(s, x, p, rs) ==
    LET part == Part(s.tbs[x[1]], x[2]) IN part[1] = p /\ part[2] \in rs

(* The loop of tb_invalidate_phys_page_range.  It reads the list ahead, so *)
(* that a block hit in both of its pages is invalidated twice.             *)
InvalidateHit(s, p, rs) ==
    LET hit == {x \in s.list[p] : Hit(s, x, p, rs)}
    IN  [InvalidateAll(s, {x[1] : x \in hit}) EXCEPT
            !.crashed = @ \/ \E x, y \in hit : x # y /\ x[1] = y[1]]

UnprotectsAlways(s, p, isCpuWrite) ==
    IF isCpuWrite THEN tlb_unprotect_code_phys(s, p) ELSE s

Unprotect(s, p, isCpuWrite) ==
    IF s.list[p] # {} THEN s
    ELSE LET u == invalidate_page_bitmap(s, {p})
         IN  IF isCpuWrite THEN tlb_unprotect_code_phys(u, p) ELSE u

tb_invalidate_phys_page_range(s, p, rs, isCpuWrite) ==
    Unprotect(InvalidateHit(CountWrite(s, p, isCpuWrite), p, rs), p, isCpuWrite)

tb_invalidate_phys_page_fast(s, p, r) ==
    IF s.bitmap[p] # NULL /\ r \notin s.bitmap[p] THEN s
    ELSE tb_invalidate_phys_page_range(s, p, {r}, TRUE)

tb_free(s, t) ==
    IF s.nb_tbs > 0 /\ t = s.nb_tbs - 1
    THEN [s EXCEPT !.nb_tbs = @ - 1, !.tbs[t] = NoBlock] ELSE s

-----------------------------------------------------------------------------
(* Adding blocks *)

tb_alloc_page(s, t, n) ==
    LET p == s.tbs[t].page[n]
        a == [invalidate_page_bitmap(s, {p}) EXCEPT !.list[p] = @ \cup {<<t, n>>}]
    IN  IF s.list[p] = {} THEN tlb_protect_code(a, p) ELSE a

tb_link_page(s, t) ==
    LET first == tb_alloc_page([s EXCEPT !.hash = @ \cup {t}], t, 1)
        both  == IF Spanning(s.tbs[t]) THEN tb_alloc_page(first, t, 2) ELSE first
    IN  [both EXCEPT !.target[t] = NULL, !.jumpers[t] = {}]

FillCode(s, e, map) ==
    IF e[2] = 1 THEN Fill(Fill(s, e[1], map), e[1] + 1, map) ELSE Fill(s, e[1], map)

CodePages(s, e) ==
    IF e[2] = 1 THEN <<s.tlb[e[1]].page, s.tlb[e[1] + 1].page>>
    ELSE <<s.tlb[e[1]].page>>

(* When no slot is left everything is flushed first.  So it is when the    *)
(* code buffer is full (code_gen_buffer_max_size): with blocks of one size *)
(* MaxTbs is the number at which the first of the two limits is reached.   *)
tb_alloc(s) ==
    IF s.nb_tbs < MaxTbs THEN s
    ELSE [tb_flush(s) EXCEPT !.tb_invalidated_flag = TRUE]

GenIgnoresCount(s, e, one, map) ==
    LET f == FillCode(tb_alloc(s), e, map)
        t == f.nb_tbs
        b == [pc |-> e, page |-> CodePages(f, e), one |-> e \in OneInsn, stale |-> FALSE]
    IN  tb_link_page([f EXCEPT !.tbs[t] = b, !.nb_tbs = t + 1], t)

tb_gen_code(s, e, one, map) ==
    LET f == FillCode(tb_alloc(s), e, map)
        t == f.nb_tbs
        b == [pc |-> e, page |-> CodePages(f, e), one |-> one, stale |-> FALSE]
    IN  tb_link_page([f EXCEPT !.tbs[t] = b, !.nb_tbs = t + 1], t)

(* The slot tb_gen_code has just filled. *)
Newest(s) == s.nb_tbs - 1

-----------------------------------------------------------------------------
(* Looking blocks up *)

Found(s, e) ==
    {t \in s.hash : s.tbs[t].pc = e /\ s.tbs[t].page = CodePages(s, e)}

(* What tb_find_slow leaves, and the block it returns. *)
tb_find_slow(s, e, map) ==
    LET f == FillCode([s EXCEPT !.tb_invalidated_flag = FALSE], e, map)
    IN  {[s |-> [f EXCEPT !.cache[e] = t], tb |-> t] : t \in Found(f, e)} \cup
        (IF Found(f, e) # {} THEN {}
         ELSE LET g == tb_gen_code(f, e, e \in OneInsn, map)
              IN  {[s |-> [g EXCEPT !.cache[e] = Newest(g)], tb |-> Newest(g)]})

tb_find_fast(s, e, map) ==
    LET t == s.cache[e] IN
    IF t # NULL /\ s.tbs[t].pc = e THEN {[s |-> s, tb |-> t]}
    ELSE tb_find_slow(s, e, map)

(* The block that has just run is patched to jump to the next one. *)
tb_add_jump(s, t, next) ==
    IF Linked(s, t) THEN s
    ELSE [s EXCEPT !.target[t] = next, !.jumpers[next] = @ \cup {t}]
=============================================================================
