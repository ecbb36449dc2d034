------------------------------ MODULE Translator ----------------------------
(***************************************************************************)
(* The execution loop of vx64's processor (qemu's cpu-exec.c) over the     *)
(* translation cache, with what can make a translation wrong: the guest    *)
(* writing memory, the page tables changing, and the host that embeds the  *)
(* processor (vx64.c) writing guest memory or replacing RAM between runs.  *)
(*                                                                         *)
(* run is the block executing, next the block that has ended in a direct   *)
(* jump and where it goes, retry the write that an instruction has to try  *)
(* again because it changed its own block.  since[v] holds every physical  *)
(* page v has been mapped to since the guest last flushed v: until it does *)
(* the processor may use any of them.                                      *)
(***************************************************************************)
EXTENDS TbCache

CONSTANTS HostResets,   \* the host calls vx64_reset when it replaces RAM
          GuestWaits    \* the guest runs no block of a page whose mapping it
                        \* has changed before it has flushed the page

VARIABLES
    s,          \* the structures of TbCache
    map,        \* the guest's page tables
    since,
    run,        \* env->current_tb
    nocache,    \* run was called by cpu_exec_nocache
    next,       \* next_tb, with the pc it jumps to, or NULL
    retry       \* [v, r] of the write to try again, or NULL

vars == <<s, map, since, run, nocache, next, retry>>

Maps == [VPages -> PPages]

Init ==
    /\ map \in Maps
    /\ s = EmptyCache
    /\ since = [v \in VPages |-> {map[v]}]
    /\ run = NULL
    /\ nocache = FALSE
    /\ next = NULL
    /\ retry = NULL

InHost == run = NULL /\ next = NULL /\ retry = NULL

VPagesOf(e) == IF e[2] = 1 THEN {e[1], e[1] + 1} ELSE {e[1]}
Flushed(v)  == since[v] = {map[v]}

(* Blocks read from regions rs of page p are stale once it is written. *)
Written(c, p, rs) ==
    [c EXCEPT !.tbs = [t \in Slots |->
        IF PartsOf(@[t]) \cap ({p} \X rs) # {} THEN [@[t] EXCEPT !.stale = TRUE]
        ELSE @[t]]]

-----------------------------------------------------------------------------
(* The loop of cpu_exec *)

(* A round of the loop: the next block is found, chained to and entered.   *)
(* A TB that spans two pages is not jumped to.                             *)
Enter(e) ==
    /\ run = NULL
    /\ next # NULL => next.pc = e
    /\ retry # NULL => retry.pc = e
    /\ GuestWaits => \A v \in VPagesOf(e) : Flushed(v)
    /\ \E f \in tb_find_fast(s, e, map) :
          LET chain == next # NULL /\ ~f.s.tb_invalidated_flag /\ ~Spanning(f.s.tbs[f.tb])
              c     == [f.s EXCEPT !.tb_invalidated_flag = FALSE]
          IN  /\ s' = IF chain THEN tb_add_jump(c, next.tb, f.tb) ELSE c
              /\ run' = f.tb
    /\ next' = NULL
    /\ UNCHANGED <<map, since, nocache, retry>>

(* Where gen_goto_tb emits a direct jump; a block cut short has none. *)
DirectTo(b) ==
    {e \in Entries : /\ b.one => b.pc \in OneInsn
                     /\ \/ e[1] = b.pc[1]
                        \/ Spanning(b) /\ e[1] = b.pc[1] + 1}

(* The block ends in an indirect jump, or the loop is left: next_tb is 0.  *)
Leave ==
    /\ run # NULL /\ ~nocache /\ retry = NULL
    /\ run' = NULL
    /\ UNCHANGED <<s, map, since, nocache, next, retry>>

(* The block ends in a direct jump that is not patched. *)
LeaveDirect ==
    /\ run # NULL /\ ~nocache /\ retry = NULL
    /\ s.target[run] = NULL
    /\ \E e \in DirectTo(s.tbs[run]) : next' = [tb |-> run, pc |-> e]
    /\ run' = NULL
    /\ UNCHANGED <<s, map, since, nocache, retry>>

(* The patched jump: the next block runs without the loop. *)
Chained ==
    /\ run # NULL /\ ~nocache /\ retry = NULL
    /\ s.target[run] # NULL
    /\ run' = s.target[run]
    /\ UNCHANGED <<s, map, since, nocache, next, retry>>

(* The instruction counter expires at the start of a block: the few        *)
(* instructions left are run in a block of their own, then dropped.        *)
NoCache ==
    /\ run # NULL /\ ~nocache /\ retry = NULL
    /\ \E one \in {s.tbs[run].one, TRUE} :
          LET g == tb_gen_code(s, s.tbs[run].pc, one, map)
          IN  s' = g /\ run' = Newest(g)
    /\ nocache' = TRUE
    /\ UNCHANGED <<map, since, next, retry>>

NoCacheEnds ==
    /\ run # NULL /\ nocache
    /\ s' = tb_free(tb_phys_invalidate(s, run), run)
    /\ run' = NULL
    /\ nocache' = FALSE
    /\ UNCHANGED <<map, since, next, retry>>

-----------------------------------------------------------------------------
(* Memory *)

(* Where the storing instruction of a block can be: where the block begins *)
(* or, among the later ones, where a block of the next page begins.        *)
StoresAt(b) ==
    {b.pc} \cup (IF Spanning(b) THEN Entries \cap {<<b.pc[1] + 1, 0>>} ELSE {})

(* A store of the running block to region r of page v.  In a page that is  *)
(* not dirty the blocks there go first; if the running one is among them   *)
(* and has other instructions, a block of the storing one alone is made    *)
(* and the loop looks that instruction up again.                           *)
ModifiesRun(a, p, r) ==
    /\ run \in s.hash /\ run \notin a.hash
    /\ ~s.tbs[run].one

Store(v, r) ==
    LET f == Fill(s, v, map)
        p == f.tlb[v].page
        slow == f.tlb[v].notdirty
        a == IF slow /\ ~f.dirty[p] THEN tb_invalidate_phys_page_fast(f, p, r) ELSE f
        w == Written(a, p, {r})
    IN  IF ModifiesRun(a, p, r)
        THEN /\ \E pc \in StoresAt(s.tbs[run]) :
                   /\ s' = tb_gen_code(a, pc, TRUE, map)
                   /\ retry' = [pc |-> pc, v |-> v, r |-> r]
             /\ run' = NULL
             /\ nocache' = FALSE
        ELSE /\ s' = IF slow /\ w.dirty[p] THEN [w EXCEPT !.tlb[v] = TlbEntry(w, p)]
                  ELSE w
             /\ retry' = NULL
             /\ UNCHANGED <<run, nocache>>

GuestStore(v, r) ==
    /\ run # NULL
    /\ retry # NULL => retry.v = v /\ retry.r = r
    /\ Store(v, r)
    /\ UNCHANGED <<map, since, next>>

(* The page tables change, by the guest's stores or the host's. *)
Remap(v, p) ==
    /\ retry = NULL
    /\ map[v] # p
    /\ GuestWaits => /\ run # NULL => v \notin VPagesOf(s.tbs[run].pc)
                     /\ next # NULL => v \notin VPagesOf(s.tbs[next.tb].pc)
    /\ map' = [map EXCEPT ![v] = p]
    /\ since' = [since EXCEPT ![v] = @ \cup {p}]
    /\ UNCHANGED <<s, run, nocache, next, retry>>

(* INVLPG, which ends its block, and vx64_flush_tlb. *)
FlushPage(v) ==
    /\ retry = NULL /\ next = NULL /\ ~nocache
    /\ s' = tlb_flush_page(s, v)
    /\ since' = [since EXCEPT ![v] = {map[v]}]
    /\ run' = NULL
    /\ UNCHANGED <<map, nocache, next, retry>>

(* A load of CR3, which ends its block. *)
FlushAll ==
    /\ retry = NULL /\ next = NULL /\ ~nocache
    /\ s' = tlb_flush(s)
    /\ since' = [v \in VPages |-> {map[v]}]
    /\ run' = NULL
    /\ UNCHANGED <<map, nocache, next, retry>>

(* Another page takes the TLB entry of v. *)
Evict(v) ==
    /\ retry = NULL
    /\ s.tlb[v] # NULL
    /\ s' = [s EXCEPT !.tlb[v] = NULL]
    /\ UNCHANGED <<map, since, run, nocache, next, retry>>

-----------------------------------------------------------------------------
(* The host, between two calls of vx64_go *)

(* The host writes regions rs of page p and calls vx64_dirty. *)
vx64_dirty(p, rs) ==
    /\ InHost
    /\ LET a == IF s.dirty[p] THEN s
                ELSE tb_invalidate_phys_page_range(s, p, rs, FALSE)
       IN  s' = Written(a, p, rs)
    /\ UNCHANGED <<map, since, run, nocache, next, retry>>

vx64_reset ==
    /\ InHost
    /\ s' = tlb_flush(tb_flush(s))
    /\ since' = [v \in VPages |-> {map[v]}]
    /\ UNCHANGED <<map, run, nocache, next, retry>>

(* vx64_go_step turns single stepping on and off: cpu_single_step. *)
cpu_single_step ==
    /\ InHost
    /\ s' = tb_flush(s)
    /\ UNCHANGED <<map, since, run, nocache, next, retry>>

(* A breakpoint at e: cpu_breakpoint_insert and cpu_breakpoint_remove drop *)
(* the blocks of its address as it is mapped now.                          *)
breakpoint_invalidate(e) ==
    /\ InHost
    /\ s' = tb_invalidate_phys_page_range(s, map[e[1]], {e[2]}, FALSE)
    /\ UNCHANGED <<map, since, run, nocache, next, retry>>

(* vx64_remove_ram and a vx64_setup_ram of the same size, which gets the   *)
(* same ram address: the page's dirty flags are set, the TLB is flushed.   *)
ReplaceRam(p) ==
    /\ InHost
    /\ LET c == Written(tlb_flush([s EXCEPT !.dirty[p] = TRUE]), p, Regions)
       IN  s' = IF HostResets THEN tlb_flush(tb_flush(c)) ELSE c
    /\ since' = [v \in VPages |-> {map[v]}]
    /\ UNCHANGED <<map, run, nocache, next, retry>>

-----------------------------------------------------------------------------
LoopStep ==
    \/ \E e \in Entries : Enter(e)
    \/ Leave \/ LeaveDirect \/ Chained
    \/ NoCache \/ NoCacheEnds

MemoryStep ==
    \/ \E v \in VPages, r \in Regions : GuestStore(v, r)
    \/ \E v \in VPages, p \in PPages : Remap(v, p)
    \/ \E v \in VPages : FlushPage(v) \/ Evict(v)
    \/ FlushAll

HostStep ==
    \/ \E p \in PPages, rs \in (SUBSET Regions) \ {{}} : vx64_dirty(p, rs)
    \/ vx64_reset \/ cpu_single_step
    \/ \E e \in Entries : breakpoint_invalidate(e)
    \/ \E p \in PPages : ReplaceRam(p)

(* A crash ends the process. *)
Next == ~s.crashed /\ (LoopStep \/ MemoryStep \/ HostStep)
Spec == Init /\ [][Next]_vars

-----------------------------------------------------------------------------
(* Properties *)

(* The tables keep their types, and every block in the hash list is one of *)
(* the nb_tbs that are allocated: tb_flush and tb_free give back no slot   *)
(* that a list still names.                                                *)
TbTypeOK ==
    /\ s.nb_tbs \in 0 .. MaxTbs
    /\ s.hash \subseteq 0 .. s.nb_tbs - 1
    /\ \A t \in s.hash : /\ s.tbs[t].pc \in Entries
                         /\ s.tbs[t].page \in Seq(PPages)
    /\ s.cache \in [Entries -> Slots \cup {NULL}]
    /\ s.target \in [Slots -> Slots \cup {NULL}]
    /\ s.jumpers \in [Slots -> SUBSET Slots]
    /\ s.writes \in [PPages -> 0 .. SMC_BITMAP_USE_THRESHOLD]
    /\ map \in Maps
    /\ since \in [VPages -> SUBSET PPages]
    /\ run \in Slots \cup {NULL}
    /\ nocache \in BOOLEAN

(* A block that can be found is never stale: whatever was written, by the  *)
(* guest through any mapping or by the host, the blocks read from there    *)
(* were invalidated.                                                       *)
LiveFresh == \A t \in s.hash : ~s.tbs[t].stale

(* A page that holds code of a block is watched: its code flag is clear    *)
(* and no TLB entry lets a store through without notdirty_mem_write.       *)
CodeProtected ==
    \A p \in PPages : s.list[p] # {} =>
        /\ ~s.dirty[p]
        /\ \A v \in VPages : s.tlb[v] # NULL /\ s.tlb[v].page = p => s.tlb[v].notdirty

(* Neither the jump cache nor the patched jump of a block that can be      *)
(* found leads to an invalidated one, and a block knows all that jump to   *)
(* it, so that tb_phys_invalidate can take the jumps back.                 *)
NoPathToDead ==
    /\ \A e \in Entries : s.cache[e] # NULL => s.cache[e] \in s.hash
    /\ \A t \in s.hash : /\ s.jumpers[t] \subseteq 0 .. s.nb_tbs - 1
                         /\ s.target[t] # NULL => /\ s.target[t] \in s.hash
                                                  /\ t \in s.jumpers[s.target[t]]

(* The block running was read from pages its addresses have been mapped to *)
(* since they were last flushed, the second page of the block included:    *)
(* tlb_flush_page leaves no way to a block of the old mapping.  One that   *)
(* was dropped while it ran is left out (see JumpsSound).                  *)
RunsCurrent ==
    run # NULL /\ run \in s.hash =>
        \A n \in DOMAIN s.tbs[run].page :
            s.tbs[run].page[n] \in since[s.tbs[run].pc[1] + n - 1]

(* A page's bitmap, by which a store is let through without looking for    *)
(* blocks, covers every block of the page, those added since it was built  *)
(* included.                                                               *)
BitmapCovers ==
    \A p \in PPages : s.bitmap[p] # NULL => build_page_bitmap(s, p) \subseteq s.bitmap[p]

(* The invariant of the block cache: types, and that every store to code   *)
(* reaches the search for the blocks it changes.                           *)
TbInv == TbTypeOK /\ CodeProtected /\ BitmapCovers

(* A direct jump stays in the physical page it was patched in, through     *)
(* every change of the mapping: a jump is patched for a virtual page and   *)
(* taken without looking at it again.                                      *)
ChainsSamePage ==
    \A t \in s.hash : s.target[t] # NULL =>
        \E n \in DOMAIN s.tbs[t].page :
            /\ s.tbs[s.target[t]].pc[1] = s.tbs[t].pc[1] + n - 1
            /\ s.tbs[s.target[t]].page[1] = s.tbs[t].page[n]

(* What the jump cache and the patched jumps of the blocks that can be     *)
(* found lead to can be found too, and belongs to the page the jump was    *)
(* made for.  This says nothing of the jump of a dropped block:            *)
(* tb_phys_invalidate takes it off the list of the block it leads to but   *)
(* leaves it patched, so that a block of one instruction whose own store   *)
(* drops it, and which runs on, may still jump to a block that was dropped *)
(* with it or later.                                                       *)
JumpsSound == NoPathToDead /\ ChainsSamePage

(* A store that dropped its own block is tried again by a block that lets  *)
(* it through: by one of that single instruction or, when the jump cache   *)
(* still has an older block that begins there, by one that was not read    *)
(* from where the store goes.  The guest is not caught in a loop of        *)
(* translating and abandoning the same store.                              *)
RetryGoesThrough ==
    retry # NULL /\ run # NULL =>
        \/ s.tbs[run].one
        \/ <<Fill(s, retry.v, map).tlb[retry.v].page, retry.r>> \notin PartsOf(s.tbs[run])
=============================================================================
