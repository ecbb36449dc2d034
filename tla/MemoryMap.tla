------------------------------ MODULE MemoryMap -----------------------------
(***************************************************************************)
(* The guest's physical memory: the regions the host sets up and removes   *)
(* (vx64_setup_ram, vx64_remove_ram), the RAM blocks behind them (qemu's   *)
(* exec.c), the flat view they are rendered to and the radix tree from     *)
(* page to section that every TLB fill reads (memory.c, exec.c).           *)
(*                                                                         *)
(* Addresses are numbers of pages.  Regions may overlap: the one added     *)
(* last is in front.  The system region is their only container; aliases,  *)
(* priorities, I/O regions and parts of pages are not used by the host.    *)
(***************************************************************************)
EXTENDS Integers, FiniteSets, SequencesExt, FiniteSetsExt

CONSTANTS NULL,
          MRs,              \* MemoryRegion objects
          RamSizes,         \* of RAM the host sets up
          L2_SIZE, P_L2_LEVELS,
          MaxRam            \* bound: RAM_ADDR_MAX

(* The pages under one entry of a level: 1 << (level * L2_BITS). *)
Step[l \in 0 .. P_L2_LEVELS] == IF l = 0 THEN 1 ELSE L2_SIZE * Step[l - 1]

NumPages == Step[P_L2_LEVELS]
Pages    == 0 .. NumPages - 1
Levels   == 0 .. P_L2_LEVELS - 1

ASSUME MemoryMapAssumption ==
    /\ L2_SIZE \in Nat \ {0, 1} /\ P_L2_LEVELS \in Nat \ {0} /\ MaxRam \in Nat
    /\ RamSizes \subseteq Nat \ {0}
    /\ \A a \in Pages, n \in RamSizes, o \in 0 .. MaxRam :
          [addr |-> a, size |-> n, ram_addr |-> o] # NULL
    /\ \A m \in MRs, a, o \in Pages, n \in 1 .. NumPages :
          [mr |-> m, start |-> a, size |-> n, off |-> o] # NULL

VARIABLES
    mr,           \* [addr, size, ram_addr] of each region set up, or NULL
    subregions,   \* of the system region, front first
    ram_blocks,   \* ram_list.blocks: [offset, length]
    phys_dirty,   \* the length of ram_list.phys_dirty
    current_map,  \* the FlatView: [mr, start, size, off]
    phys_map      \* entries <<level, index>> of the tree: a leaf's section, or NULL

mapvars == <<mr, subregions, ram_blocks, phys_dirty, current_map, phys_map>>

RangeEnd(r) == r.start + r.size

-----------------------------------------------------------------------------
(* RAM blocks *)

BlockEnd(b) == b.offset + b.length

(* The room after b before the next block. *)
Gap(bs, b) ==
    LET above == {c.offset : c \in {d \in Range(bs) : d.offset >= BlockEnd(b)}}
    IN  (IF above = {} THEN MaxRam ELSE Min(above)) - BlockEnd(b)

FitsIfAny(bs, size) == {b \in Range(bs) : Gap(bs, b) > 0}

Fits(bs, size) == {b \in Range(bs) : Gap(bs, b) >= size}

(* The first of the smallest gaps that are large enough, in list order.    *)
(* What lies before the lowest block is not looked at.                     *)
find_ram_offset(bs, size) ==
    IF bs = <<>> THEN 0
    ELSE LET least == Min({Gap(bs, b) : b \in Fits(bs, size)})
             i == Min({j \in DOMAIN bs : bs[j] \in Fits(bs, size) /\ Gap(bs, bs[j]) = least})
         IN  BlockEnd(bs[i])

CanAlloc(bs, size) == IF bs = <<>> THEN size <= MaxRam ELSE Fits(bs, size) # {}

(* Keep the list sorted from biggest to smallest block. *)
InsertBlock(bs, b) ==
    LET smaller == {i \in DOMAIN bs : bs[i].length < b.length}
    IN  InsertAt(bs, IF smaller = {} THEN Len(bs) + 1 ELSE Min(smaller), b)

-----------------------------------------------------------------------------
(* The flat view *)

(* The part of region m (at addr in mrs) from base, size pages long. *)
Piece(mrs, m, base, size) ==
    [mr |-> m, start |-> base, size |-> size, off |-> base - mrs[m].addr]

(* Past range r of the view: what is free before r is taken by the region. *)
RenderPast(mrs, m, acc, r) ==
    IF acc.remain = 0 \/ acc.base >= RangeEnd(r) THEN [acc EXCEPT !.out = Append(@, r)]
    ELSE LET now  == IF acc.base < r.start THEN Min({acc.remain, r.start - acc.base}) ELSE 0
             base == acc.base + now
             left == acc.remain - now
             skip == Min({base + left, RangeEnd(r)}) - base
         IN  [out    |-> Append(IF now > 0 THEN Append(acc.out, Piece(mrs, m, acc.base, now))
                                ELSE acc.out, r),
              base   |-> base + skip,
              remain |-> left - skip]

(* render_memory_region for one region of RAM. *)
Render(mrs, view, m) ==
    LET past[k \in 0 .. Len(view)] ==      \* when k ranges have been passed
            IF k = 0 THEN [out |-> <<>>, base |-> mrs[m].addr, remain |-> mrs[m].size]
            ELSE RenderPast(mrs, m, past[k - 1], view[k])
        end == past[Len(view)]
    IN  IF end.remain > 0 THEN Append(end.out, Piece(mrs, m, end.base, end.remain))
        ELSE end.out

TopologyFromBack(mrs, subs) ==
    LET view[k \in 0 .. Len(subs)] ==
            IF k = 0 THEN <<>> ELSE Render(mrs, view[k - 1], subs[Len(subs) + 1 - k])
    IN  view[Len(subs)]

generate_memory_topology(mrs, subs) ==
    LET view[k \in 0 .. Len(subs)] ==
            IF k = 0 THEN <<>> ELSE Render(mrs, view[k - 1], subs[k])
    IN  view[Len(subs)]

-----------------------------------------------------------------------------
(* Telling the listeners *)

(* What address_space_update_topology_pass does at the heads of the views. *)
OldFirst(old, new, i, j) ==
    /\ i <= Len(old)
    /\ \/ j > Len(new)
       \/ old[i].start < new[j].start
       \/ old[i].start = new[j].start /\ old[i] # new[j]

(* The sections of region_add and region_nop, in the order of the adding   *)
(* pass; both are mem_add.                                                 *)
Added(old, new) ==
    LET f[heads \in (1 .. Len(old) + 1) \X (1 .. Len(new) + 1)] ==
            LET i == heads[1]
                j == heads[2]
            IN  IF i > Len(old) /\ j > Len(new) THEN <<>>
                ELSE IF OldFirst(old, new, i, j) THEN f[<<i + 1, j>>]
                ELSE IF i <= Len(old) /\ old[i] = new[j] THEN <<new[j]>> \o f[<<i + 1, j + 1>>]
                ELSE <<new[j]>> \o f[<<i, j + 1>>]
    IN  f[<<1, 1>>]

-----------------------------------------------------------------------------
(* The radix tree *)

NoTree == [l \in Levels |-> [i \in 0 .. (NumPages \div Step[l]) - 1 |-> NULL]]

EntryWithin(index, nb) == Max({l \in Levels : nb >= Step[l]})

(* The largest aligned entry that begins at index and is within nb pages. *)
EntryLevel(index, nb) ==
    Max({l \in Levels : index % Step[l] = 0 /\ nb >= Step[l]})

(* The entries that stand for count pages from first, which become leaves. *)
Leaves(first, count) ==
    LET f[nb \in 0 .. count] ==        \* nb pages are left
            IF nb = 0 THEN {}
            ELSE LET index == first + count - nb
                     l == EntryLevel(index, nb)
                 IN  {<<l, index \div Step[l]>>} \cup f[nb - Step[l]]
    IN  f[count]

(* mem_add: register_multipage and phys_page_set.  Every commit begins     *)
(* with an empty tree and its sections are disjoint.                       *)
mem_add(tree, r) ==
    LET new == Leaves(r.start, r.size)
    IN  [l \in Levels |-> [i \in DOMAIN tree[l] |->
            IF <<l, i>> \in new THEN r ELSE tree[l][i]]]

(* The tree of all sections. *)
TreeOf(sections) ==
    LET tree[k \in 0 .. Len(sections)] ==
            IF k = 0 THEN NoTree ELSE mem_add(tree[k - 1], sections[k])
    IN  tree[Len(sections)]

(* phys_page_find: the leaf first met on the way down, or unassigned.      *)
phys_page_find(tree, page) ==
    LET met == {l \in Levels : tree[l][page \div Step[l]] # NULL}
    IN  IF met = {} THEN NULL ELSE tree[Max(met)][page \div Step[Max(met)]]

-----------------------------------------------------------------------------
(* The host's calls *)

MapInit ==
    /\ mr = [m \in MRs |-> NULL]
    /\ subregions = <<>>
    /\ ram_blocks = <<>>
    /\ phys_dirty = 0
    /\ current_map = <<>>
    /\ phys_map = NoTree

(* memory_region_transaction_commit. *)
Commit ==
    LET view == generate_memory_topology(mr', subregions')
    IN  /\ current_map' = view
        /\ phys_map' = TreeOf(Added(current_map, view))

last_ram_offset(bs) == Max({0} \cup {BlockEnd(b) : b \in Range(bs)})

(* The dirty flags are made as long as RAM then is. *)
vx64_setup_ram(m, pa, size) ==
    /\ mr[m] = NULL
    /\ pa + size <= NumPages
    /\ CanAlloc(ram_blocks, size)
    /\ LET offset == find_ram_offset(ram_blocks, size)
       IN  /\ ram_blocks' = InsertBlock(ram_blocks, [offset |-> offset, length |-> size])
           /\ mr' = [mr EXCEPT ![m] = [addr |-> pa, size |-> size, ram_addr |-> offset]]
    /\ phys_dirty' = last_ram_offset(ram_blocks')
    /\ subregions' = <<m>> \o subregions
    /\ Commit

vx64_remove_ram(m) ==
    /\ mr[m] # NULL
    /\ subregions' = RemoveAt(subregions, Min({i \in DOMAIN subregions : subregions[i] = m}))
    /\ ram_blocks' = RemoveAt(ram_blocks,
                         Min({i \in DOMAIN ram_blocks : ram_blocks[i].offset = mr[m].ram_addr}))
    /\ mr' = [mr EXCEPT ![m] = NULL]
    /\ Commit
    /\ UNCHANGED phys_dirty

MapNext ==
    \E m \in MRs :
        \/ \E pa \in Pages, size \in RamSizes : vx64_setup_ram(m, pa, size)
        \/ vx64_remove_ram(m)

MapSpec == MapInit /\ [][MapNext]_mapvars

-----------------------------------------------------------------------------
(* Properties *)

(* The list, the map and the tree have their types, and the regions in     *)
(* front of one another are exactly those set up.                          *)
MapTypeOK ==
    /\ mr \in [MRs -> [addr : Pages, size : RamSizes, ram_addr : 0 .. MaxRam] \cup {NULL}]
    /\ Range(subregions) = {m \in MRs : mr[m] # NULL}
    /\ subregions \in Seq(MRs) /\ IsInjective(subregions)
    /\ ram_blocks \in Seq([offset : 0 .. MaxRam, length : RamSizes])
    /\ current_map \in Seq([mr : MRs, start : Pages, size : 1 .. NumPages, off : Pages])

(* The ranges of the flat view are in order and do not overlap, as the     *)
(* binary search of address_space_lookup needs.                            *)
FlatOrdered ==
    \A i, j \in DOMAIN current_map : i < j => RangeEnd(current_map[i]) <= current_map[j].start

(* The page and region the code would say: the region in front there. *)
InFront(page) ==
    LET at == {i \in DOMAIN subregions :
                   page - mr[subregions[i]].addr \in 0 .. mr[subregions[i]].size - 1}
    IN  IF at = {} THEN NULL
        ELSE [mr |-> subregions[Min(at)], off |-> page - mr[subregions[Min(at)]].addr]

RangeAt(r, page) == [mr |-> r.mr, off |-> r.off + page - r.start]

(* The flat view shows at every page the region set up last that covers    *)
(* it, at the right offset, after any setting up and removing.             *)
FlatIsFront ==
    \A page \in Pages :
        InFront(page) =
            LET at == {i \in DOMAIN current_map :
                           page - current_map[i].start \in 0 .. current_map[i].size - 1}
            IN  IF at = {} THEN NULL ELSE RangeAt(current_map[Min(at)], page)

(* What a TLB fill finds in the tree is what is in front: the difference   *)
(* of two views told the listeners all that is there.                      *)
TreeIsFront ==
    \A page \in Pages :
        LET leaf == phys_page_find(phys_map, page)
        IN  InFront(page) = IF leaf = NULL THEN NULL ELSE RangeAt(leaf, page)

(* Two regions never share RAM, each has all of its own, and there are     *)
(* dirty flags for every page of it.                                       *)
RamApart ==
    /\ \A i, j \in DOMAIN ram_blocks :
          i # j => \/ BlockEnd(ram_blocks[i]) <= ram_blocks[j].offset
                   \/ BlockEnd(ram_blocks[j]) <= ram_blocks[i].offset
    /\ \A m \in Range(subregions) :
          [offset |-> mr[m].ram_addr, length |-> mr[m].size] \in Range(ram_blocks)
    /\ \A b \in Range(ram_blocks) : BlockEnd(b) <= phys_dirty

(* The invariant of the map: types, the order of the flat view, and the    *)
(* RAM of the regions.                                                     *)
MapInv == MapTypeOK /\ FlatOrdered /\ RamApart
=============================================================================
