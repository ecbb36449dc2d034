# TLA+ models of the vm/vin core

These modules specify the parts of this repository that decide something: the
RAM manager with its page file, the page table and the sections on top of it,
the kernel object name space with handles and references, the address space,
and, of the vendored QEMU under `src/vx64`, the translation cache with its
execution loop and the memory map.  TLC checks them on small instances; TLAPS
proves the invariants, and the refinements, of most of them for every instance
(section 4).  The source files are in GBK; line
numbers below are those of the files as they are.

## 1. The system

| Part | Where | State | Operations | Talks to |
|---|---|---|---|---|
| RAM manager | `src/rammgr.h` 107-585 | `mAddressRefs` (frame -> block), `mRamData`, page file, slot bitmap; the clients' `AddressRef` (flags, addr, pfidx) | Create, Close, RamAllocAddress, RamFreeAddress, RamSwapOut, RamSwapIn, RamDirectRead/Write, EnsureRamBlock | calls `IAddressOwner::onAddressInvalid` while it holds `mMutex`; seek/read/write of the page file |
| Slot bitmap | `src/rammgr.h` 11-105 | vector of words, bit count | resize, setbit, testbit, find0, clear | used by the manager only |
| Page table | `src/pagetable.h` 13-212 | `_pages`, `PGT_LOADED`; entries inside manager pages | load, unload, destroy, vmmap, vmattr, vmunmap, get_pma | allocates and swaps in blocks; reads and writes frames by address |
| Sections, views, private memory | `src/pagetable.h` 217-459 | window of 32 blocks, users; set of private blocks | get_block, get_priv_block, create, close, onAddressInvalid | owners of manager blocks |
| Object name space | `src/rammgr.h` 733-1072 | tree of `node_t`, mounted objects and their back pointers | createPath, getNodeByPath, addChild, mount, unmount, eraseChild, next | symbolic links are mounted objects |
| Handle table | `src/rammgr.h` 1081-1117 | map number -> object | allocHandle, freeHandle | refp |
| Address space | `src/vos/space.h`, `src/utils/dlinklist.h` | list of sections, each with a list of regions | allocate, free, protect, split, merge | - |
| References | `src/include/refable.h` | counts | bind, attach, detach, dispose | every kernel object |
| vx64 | `src/vx64/vx64.c` | - | reset, dirty, flush_tlb, breakpoints, steps, setup_ram, remove_ram; register access | calls the translator and the memory map between runs of the guest |
| Translator | `src/vx64/qemu` `cpu-exec.c`, `translate-all.c`, `cputlb.c` | translation blocks, hash and page lists, bitmaps, jump cache, patched jumps, TLB | find, generate, chain, invalidate, flush | the guest's stores and page tables; the host |
| Memory map | `src/vx64/qemu` `memory.c`, `exec.c` | regions, flat view, radix tree, RAM blocks | add and remove a region, commit | a commit flushes the TLB |
| Value format, strings | `src/utils` | - | pure functions | - |
| DLL tools | `src/tools/vmdllgen` | - | command line | vendored pe_bliss, getopt |
| Older and unfinished copies | `src/rammgr.h.0`-`.3`, `src/vos/vram.cpp`, `src/vos/kmo.*`, `src/include/vin64`, `src/src/vin64` | - | - | - |

What is hard: a block is moved while its owner, other clients and other threads
hold its address; a transfer may fail after it has changed half of what it
changes; flags are tested outside the mutex that guards them; addresses stored
in page-table entries outlive evictions; symbolic links may lead back to
themselves; a list is whole forwards and not backwards; a guest overwrites the
code it is running, through any of its mappings.  `PROJECT.json` lists each of these at its line under `hazards`.

What makes each part correct:

* RAM manager: no two blocks share a frame or a slot; an owner is told before its
  block moves; a block's data survives every sequence of moves and every failed
  transfer that does not concern it; locked blocks stay.
* Bitmap: the lowest free slot is found; growing adds free slots only.
* Page table: one entry per virtual page, changed only by calls for that page.
* Name space: a lookup finds what the path means; an object and its node agree;
  every call ends, unless links lead back to themselves.
* Sections: a view never keeps the address of another offset's block.
* Address space: regions tile the space, none is handed out twice, protection
  changes the pages asked for.
* Handles, references: a number names one object; an object lives while referred to.
* Translator: code that can be found is never older than the memory it was made from, and
  its jumps lead to code that can be found; a store to its own block gets done.
* Memory map: every page shows the region in front; no two blocks share RAM.

## 2. The modules

| Module | Models | Remarks |
|---|---|---|
| `BlockStore` | what the manager promises | abstract: content of each block, changed by its client only |
| `RamManager` | `vm::RamManager` | the core; every operation, with failures |
| `RamManagerProofs` | - | theorems about RamManager |
| `RamDirect` | EnsureRamBlock, RamDirectAccess/Read/Write | extends RamManager |
| `RamRace` | the calls that test flags before the mutex, by several threads | extends RamManager; two steps per call |
| `SlotMap`, `XBitMap` | the bitmap, abstract and word by word | PageFilePreAlloc and MarkSwapBlockUsed as its users |
| `FlatTable`, `PageTable` | the page table, abstract and as a tree of manager pages | PageTable extends RamManager |
| `Section` | KoSection, KoSectionUser, UoView beside other clients | extends RamManager |
| `Kvfs` | `vin::kvfs`, creator, finder | paths are sequences of names |
| `KObjects` | `vfs::node_t`, KsHandleManager, refp | who holds an object |
| `DList`, `AddressSpace` | dllist; VMRegion and AddressSpace | every pointer of the list is kept |
| `TbCache`, `Translator` | the translation cache; `cpu_exec` over it, guest and host | Translator extends TbCache |
| `MemoryMap` | vx64_setup_ram, vx64_remove_ram down to the radix tree | sizes and addresses in pages |
| `RamUsesProofs` | - | theorems about RamRace, RamDirect and Section, on RamManagerProofs |
| `PageTableProofs` | - | theorems about PageTable, on RamManagerProofs |
| `StructureProofs` | - | theorems about XBitMap and MemoryMap |
| `KvfsProofs`, `KObjectsProofs`, `AddressSpaceProofs`, `TranslatorProofs` | - | theorems about the module of that name |
| `MC*` | - | model values for TLC |

### RamManager and the code

`frames` is `mAddressRefs`, `flags`/`addr`/`pfidx` are the fields of each
AddressRef (addr divided by the page size), `bits` and `used` are
`mBlockBitMap`, `ram` and `file` the pages.  A page is its datum and one bit:
whether `CodeBlockPage` has been applied an odd number of times.  `view`, `said`
and `damaged` belong to the clients: the address an owner remembers, the data it
last wrote, and whether a failed write has hit its block.

Everything between `MutexScope` and return is one step.  These details of the
code are kept on purpose:

* a free frame is handed out as it is, only an evicted one is zeroed;
* frame 0 is never the victim when frame 1 can be: `change > rand()%maxRefs`
  is certain for `i = 1`.  Other victims are open;
* a slot is not released when its block is loaded into a free frame;
* in an exchange the incoming block's slot passes to the outgoing one;
* `StoreToStorage` encodes its buffer, the frame itself, before it writes; a
  short write leaves the frame encoded and the slot old or torn;
* without a page file (`create_file` failed) the manager still hands out frames,
  `mGrowCount` is 0 and every seek fails;
* the bitmap stays grown when the transfer it grew for fails.

Taken from how the clients use it: a block is allocated only when it is not
allocated, and the manager is closed when its blocks have been given back
(the AddressRefs of live clients would point into freed memory otherwise).

### RamDirect

`GetRamBuffer` takes a byte offset and RamDirectAccess passes a frame number:
`DirectFrame` is what the buffer then is.  With pages of 4096 bytes and fewer
frames that is always frame 0.  Only the first byte's frame is modelled; the
buffer of frame number i starts i bytes into it.

### RamRace

`Look` is what a call reads before it locks, `Finish` the locked part with what
was seen.  `load` and `unload` store the flags they have read.  A block is used by
one thread at a time; the other thread disturbs it by evicting it.

### PageTable

Calls of the table hold no lock, so a walk is a step per level or per call of the
manager, and any call of the other clients (allocate, free, swap in and out, lock, write) comes
in between.  `call` is
the walk's program counter: `at` is the frame its current pointer is in, `fresh` the
page it has allocated and not yet entered.  `FlatEntry` reads an entry of the table
wherever its pages are, by the addresses in the entries; that is the refinement
mapping to FlatTable.  With `LoadFirst` the user calls load() before the first walk
and after each unload(); without it the user behaves as main() does.
alloc_pgt_block does not clear its page: one that is given a frame that another client has freed
begins with that frame's old bytes as its entries (rammgr.h:423).  `garbled` says that it has
happened.  A walk then goes wherever those bytes say, so no step is taken any more, and
WalkOnCourse, OthersKeepData and ImplementsFlatTable except it.

### Kvfs

A node is the sequence of names from the root to it.  `call.stack` has a frame for
each nested `getNodeByPath`; `createPath` has one frame and restarts in it.  A call is
a step per part because it may never end; a stack deeper than `StackDepth` is the
overflow of the thread's stack.  `EndlessWay` says that a link is left on the path however many of
them are written out (up to `MostLinks`, more than there are without a cycle); such calls
CallReturns excepts.  Names are compared without case; the model's names
are already folded.  `Creations` and `Lookups` are the calls the program makes.  `followed`, a
field of `call`, is a ghost: the links that the lookup has followed.  `Sought` is the path of the
call with so many links written out, one at a time; LookupSound says that it has no link left
when the call returns, and that the call returns the node it leads to.

### Section

`off` is `_off` of each slot, `users` is `_users`.  `kept` belongs to the views: the
address each was given for an offset, until it is told.  get_block is two steps, its
call of the manager (`GetBlock`) and the load (`GetBlockReturns`); other clients come in
between, and may evict the block that is about to be loaded.  Two things the code does
are put into variables, so that the properties can speak of the rest: `raced`, such an
eviction, and `reused`, the views whose slot has gone to another offset and who were
not told.  A view may not end at the section's end (`vend >= _size` is refused).

### KObjects

`count` is `_ref_count`, kept by `_reference` and `_release` as the code calls them; `Holders`
counts the nodes, handles and refp variables that really hold the object.  A freed
object that is still held (`Dangling`) ends the behaviour, and so does a next() that is given
an erased node while the directory has other children: it compares them with a deleted node
(`NextReadsFreed`).  bind releases before it
references.  eraseChild without `pp` clears the mount of the parent, not of the child; with
`pp` it crashes when the child has nothing mounted.  A handle is the number after the
highest in use, modulo `HandleMod`; `*ph` is never written by the code, so the model's
client knows the number from `_handles`.

### DList and AddressSpace

A list is its nodes with `_prev` and `_next`, its ends and what has become of the program:
`fate` is "null" or "dangling" once it has followed such a pointer.  linkNext leaves the
`_prev` of the following node as it was.  A loop along the pointers is a function of the set of
nodes its test picks out: `Search` for the walks, `AbsorbWhile` for the three loops that merge a node with
those behind it, one turn of which is `Absorb`; what the tests read does not change while a loop runs.  AddressSpace's `space` is the list of regions and
`blocks` the list in each.  A region keeps its MEM_FREE bit when it is handed out; the
client adds a type, as vos.cpp 25-29 does, which is why it is not handed out again,
and why a release of the region before it swallows it.

### TbCache and Translator

A page has two regions of code; an entry point is a virtual page and a region, and the
block of region 1 runs on into the next page.  `stale` is a ghost: it is set when
memory a block was read from is written.  The record `s` holds the code's structures:
`hash` is `tb_phys_hash`, `list` a page's `first_tb`, `cache` is `tb_jmp_cache`, `target` and
`jumpers` are `jmp_next`/`jmp_first`, `dirty` is CODE_DIRTY_FLAG.  Each operation is a function
from `s` to `s`.  A new block goes to the head of its pages' lists and into a slot above all
that are in use, so a list is kept as a set whose order is that of the slots, the newest
first; `InvalidateAll` is tb_phys_invalidate for several blocks in that order, as the loop of
tb_invalidate_phys_page_range meets them.  The actions of Translator put them together as the loop, the store path, the
guest's TLB instructions and the host's calls do.  What an instruction computes is left open:
any store and any change of the page tables may come at any time, within two assumptions
that are constants.  `HostResets`: the host calls vx64_reset when it replaces RAM.
`GuestWaits`: the guest runs no code of a page between remapping and flushing it, as the
architecture asks of it.  A guest physical address is taken to be the ram address.

A store that drops its own block makes a block of the storing instruction alone and the loop
looks that instruction's address up again (`StoresAt`: the block's entry, or the entry of the next page
for one that runs on).  The jump cache may still have an older block there, which is run
instead; RetryGoesThrough is about both.  A dropped block of one instruction is not abandoned: it runs to its end
and follows the jump it keeps (section 5).  tb_alloc also flushes when the code buffer is
full (translate-all.c:628); here all blocks have one size, so that `MaxTbs` stands for both limits.
vx64_dirty writes within one page.  Watchpoints and the invalidation they bring, and interrupts,
are left out.

### MemoryMap

`subregions` is the list of the system memory in priority order, `current_map` the flat view,
`phys_map` the radix tree as a function on nodes, `ram_blocks` the list of RAM blocks and
`phys_dirty` the size of the array of dirty flags.  vx64_setup_ram and vx64_remove_ram are
one action each: block, subregion, new flat view, the differences told to the tree.  All
RAM regions have the same priority, so a new one goes in front.

## 3. The runs

| Run | Instance | Shows |
|---|---|---|
| `ram_manager` | 3 owned blocks, 2 frames, 2 slots, 2 data | types, frames, translations, locked blocks, BlockStore |
| `ram_direct` | 3 blocks (one without an owner), 1 frame, 2 slots, reads and writes fail | slots and data under failures, with EnsureRamBlock and direct writes |
| `ram_race` | 2 threads making every call, 3 blocks, 2 frames, 2 slots | frames, slots and data agree until a call acts on flags that another thread has changed |
| `xbitmap` | 3-bit words, 8 bits, growth 1, 2, 5 | the bitmap implements the slot set |
| `page_table` | 2 levels of 2 entries, 2 table pages, 2 other blocks with 3 calls, 2 frames | the table implements FlatTable until it is given old contents |
| `kvfs` | 10 createPath and 6 getNodeByPath calls over links to a directory, a drive, the root and (created twice) themselves | lookups, bindings, mounts where the path leads, termination without cycles |
| `section` | 2 slots for 4 offsets, 2 views, 1 other block, 2 frames, 1 slot of the page file | evictions reach the views, slots hold their offsets, others are spared |
| `kobjects` | 2 objects, 4 nodes, 1 refp, handle numbers 4 and 0 | counts, deaths, bindings, sweeps, handles |
| `address_space` | 6 pages aligned by 2, sizes 1 to 3, 7 nodes per list, 2 protections | tiling, placement, protection |
| `translator` | 2 physical pages, 2 virtual, 3 entries, 3 block slots, bitmap at the first write | no stale code is found, no jump from code that can be found to code that cannot, no endless retry |
| `memory_map` | 3 regions of 1 or 4 pages over 8, tree of 3 levels of 2 | flat view, tree and RAM blocks agree with the regions |
| `ram_read_back` | 2 blocks, 2 frames, direct writes | violated: section 5 |

The invariants that several facts must keep together are one definition of named
parts: `PtInv`, `KvfsInv`, `SectionInv`, `KObjectsInv`, `SpaceInv`, `TbInv`, `MapInv` hold the types
and what is needed beside them, `JumpsSound` the two facts about jumps.

`MountedWhereAsked` excepts two kinds of path: one that meets a link that was there before,
which leads elsewhere by design, and one whose ".." climbs out of the root (`ClimbsOut`).

Why the bounds are enough: three blocks over two frames give every relation a
step can have: its block, the victim, and a third that must not be touched; with
two slots a slot is reused after each release and the page file is full.  One frame
and three blocks put two of them in the page file, where exchanges pass slots on.
In `ram_direct` the one frame
is frame 0, so the wrong offset of GetRamBuffer cannot show; `ram_read_back` has the
frames for it.  `ram_race` explores no further once a call has been overtaken, and `section`
once a block was evicted inside a get_block, because their properties say nothing after that.
`MaxSlots` bounds the growth of the page file: an operation that would grow it
further is not taken.  Words of three bits with eight bits at most give whole
words, a partly used last word and growth inside it.  Two levels of the page
table have a directory and leaves; more levels repeat the directory.  Two
pages over two frames with two other blocks let the others displace both table pages and give back
the frames; `MaxCalls` bounds the others at three calls, enough to take a frame, write in it and free it.
What they write (`Written`) looks like an entry, so a page that begins with it has one.  A third table
page cannot be had, and a walk stops half way; the proofs are for any number of all of these.
`StackDepth` 6 exceeds the depth of the acyclic links, which
is 3, and `MostLinks` 4 the number of links that the path of a lookup meets without a cycle.  In `section` each slot serves two offsets and one view starts behind the other.
In `kobjects` a directory has a mounted child with a child of its own, and eight handle values
let the numbers wrap after one.  Six pages aligned by two give an address space with
a gap behind every odd size and three regions side by side; `MaxNodes` bounds the nodes
that are ever made and `MaxProtected` the regions with blocks of their own.  With three block
slots the buffer is flushed in the middle of a run and slots are reused;
three entries give a block that spans two pages, one beside it (of a single instruction) and one
behind it; a bitmap is built at the first store.  `ThirdOnOnePage` allows a third block only
while both virtual pages have been one physical page since their last flush: a store then meets all
of them, a block that runs, the one it jumps to and one more.  `View` leaves out what
no step can read, the record of a block that can neither be found nor runs.  Regions of four pages and one page cover each other
in whole, in part and in the middle, and four is a whole entry of the tree's middle level
when it is aligned.  `MaxRam` bounds the address space of RAM blocks.  Blocks, threads, pages, objects
and regions are symmetric where the configuration says so; the run with a liveness
property uses no symmetry.

Fairness is assumed in one place: `FairSpec` of Kvfs says that the thread which
makes a call goes on with it.  Nothing else is assumed of scheduling; the other
modules have safety properties only, because the manager has no waiting of its own
beyond its mutex, and a guest may loop for ever.  Deadlock is not checked where the system really
may stop: `page_table` (the table is destroyed or garbled and the others have made their calls),
`kvfs` (a lookup has overflowed the stack), `kobjects`, `address_space` and `translator` (the program has followed a bad pointer; in
`address_space` also the bound on nodes).

## 4. What is proved

Eight modules hold theorems, each for every value of the constants that satisfies the named
ASSUMEs.  These say that constants have their types and that NULL is none of the rest;
`PageTableAssumption` also says that a page is a function from index to entry, and
`KObjectsAssumption` that there are finitely many nodes and refp variables and that handles go in
steps of four.  Where a theorem asks more, it is a hypothesis of the theorem.

**RamManagerProofs.**  `TypeOK`, `FrameOwnership`, `SlotOwnership`, `NoStaleTranslation`,
`DataIntegrity`, `LockedPinned`, and that RamManager implements BlockStore, for any blocks,
owners, frames, growth and size of the page file, and faults.  The invariant is `RamInv`: the type
invariant, the two ownership invariants and `NoStaleTranslation` with three facts none of them is
inductive without.  `ValidFlag` (a block with any flag has BF_VALID) keeps clearing BF_SWAPPED or
BF_LOCKED from releasing a block.  `OwnersTranslate` (only a block that will be told has a
translation) is needed where a block without an owner is moved silently.  `ClosedEmpty` (a closed
manager has no blocks and no slots) makes Create safe.  Each operation has a lemma: the
invariant is kept, and the step is a step of BlockStore or a stutter (`ContentKept`).  Two lemmas
carry the operations: `FreshSlot`, the slot PageFilePreAlloc gives belongs to nobody, and
`StoreFailsInv`, a failed store disturbs the blocks of the transfer only.  `DataKept` follows from
the refinement: a block's content changes only where BlockStore changes what the client said or
marks the block as damaged.  `LockedStayPut` needs FrameOwnership: the victim of an
eviction is the one block of its frame, and it is not locked.

**RamUsesProofs.**  `RaceSound`: threads that test flags before they lock keep RamManager's
invariants and data until a call is overtaken.  The added fact is `PendingSound`: until then, a call
that has looked would still see the same, and no two calls are about one block; so its second
half is a step of RamManager.  `DirectTables` and `DirectSlotsOwned` carry `RamInv` over to
EnsureRamBlock and direct access, `SlotWritesTakeEffect` is about the write to a swapped block.
With more than frame 0 the code's mistake of section 5 makes DataIntegrity false there;
`DirectLossMisdirected` says that it does so in one way only, the write to a resident block that
lands in another frame.

**RamUsesProofs**, of Section.  `SectionInv`, `ViewsFresh`, `SparesOthers`.  `SectionIInv` says throughout the
manager's `RamCore` (RamInv without translations, which a raced load breaks), that what was last
put in a slot's block is the page of its offset, but while get_block is filling it, and that a view
keeps addresses only while it is attached; and until `raced` the translations, the data, and that
the address a view keeps is the one the manager told.

**StructureProofs**, of XBitMap.  `FindsLowest` and that the words implement SlotMap, for any word
size.  `BitMapInv` says that the words just cover the bits and that nothing is set behind the last
bit; find0's search by words is compared with the least member of the set of clear bits.

**StructureProofs**, of MemoryMap.  `MapInv`, `FlatIsFront` and `TreeIsFront`, for any regions and sizes
and a tree of any number and width of levels.  `MapIInv` adds to `MapInv` that regions and blocks lie within their
bounds, that no two regions begin their RAM at one place, that the map is the one rendered from
the present regions and the tree the one built from it.  Three arguments carry it.  Rendering
a region into a view fills just the gaps of the view, so a region in front is never
covered; the ranges stay in order and apart.  The two views that a commit compares
may differ in every range, but what it tells the tree is always the whole of the
new view.  And the leaves and entries that one range sets in the tree are exactly those of its pages,
however it is aligned.  The loops are recursive functions; each is shown step by step, from
the first iteration to the one that stops it (`UpTo`, `IteratesExist`).

**AddressSpaceProofs.**  `SpaceInv`, `PrevLeadsBack`, `ProtectExact` and `GivenStays`, for a space of any size,
any alignment and lists of any length.  A list has its pointers only, so the proofs give it the
sequence of its nodes: `Line` says that `_next` leads along it, `Tiled` that each node begins where
the one before ends, `Back` that each `_prev` leads somewhere to the left, which is all that linkNext
leaves of the backward pointers.  linkNext puts a node into such a
sequence.  A loop that takes in the nodes behind one leaves such a sequence, or, once it has unlinked a
node with a wrong `_prev`, a pointer to the deleted node (`Broken`), which its next turn follows.
`ASIInv` adds to the four properties what they need of one another.  An untyped region that begins on
an aligned address has an aligned size (`Even`), without which a region cut from the top could
lie anywhere; what is handed out has a type (`Books`), so that no call cuts it; and a region without
blocks was asked for no protection yet (`Untouched`).  A release either empties the space or meets a
bad pointer, because every region keeps its MEM_FREE bit (`Swallows`).
For `ProtectExact` each of split, merge and protect is shown to keep the protection of every address but those
of the range (`Keeps`, `Protects`).

**KObjectsProofs.**  `KObjectsInv`, `DiesUnheld`, `BindingLostByErasing`, `HandleKeepsObject`,
`SweepMissesNone`; the last is about enumerations that end, which one that reads an erased node does not.
The invariant is inductive as it stands.  The argument is one of accounts: an
action settles them when it moves the count of every object by as much as the number of nodes,
handles and refp variables that hold it; this is shown action by action (eraseChild, which takes a
child and clears the parent's mount, is the long one), and the rest follows.

**KvfsProofs.**  `KvfsInv` and `MountedWhereAsked`.  `KvfsIInv` adds that a createPath in
progress stands on the node that the part of the path behind it leads to, until it meets a link or
climbs out of the root, and that what it is to mount is mounted nowhere yet.  Walk is a recursive
function; what it computes is shown by looking at the first step at which it would be wrong.
`LookupSound` needs `LookupOnCourse`: the calls on the stack stand along one path, the one `Sought`
is, each at a position no later than those below it; what each has still to go is the piece of that path up to the
position of the call below; and no link lies on the part that has been walked.  Following a link
replaces the front of the path by the link's target and pushes a call; a return
joins two pieces.  It holds for any number of links as long as the stack has room.

**PageTableProofs.**  `PtInv`, `WalkOnCourse`, `OthersKeepData`, `LoadBringsAll`, and that the table
implements FlatTable, for other clients that make any calls and writes, up to a page that is
given old contents, under `Usage`: the table is loaded before it is walked (`LoadFirst`, without
which the properties are false, section 5) and transfers do not fail half way (a seek may fail, the
page file may be missing; a failed store would encode a page of the table in place, and the
table would read it).  `PtIInv` is `PtBase` and a tree (`Shape`): there are functions that give each page its level
and the indices leading to it, no two pages have one place, every page but the root is named by
the entry at its place and every entry names a page.  The page a walk has allocated and not yet
entered is zeroed, or the table is garbled, which `PtIInv` has as its other case.  The pages of the table
are locked from load() to unload(), and so undisturbed by the others; a page keeps its address
while it is swapped out, no two have the same (`DistinctBases`), and load() brings it back there,
so the addresses in the entries stay right.  Path is a recursive function; it is unfolded level by level, and the
least level at which two paths could differ gives the refinement.

**TranslatorProofs.**  With a host that resets when it replaces RAM (`HostResets`): `TbInv`,
`LiveFresh`, `NoPathToDead`, and `LeavesFoundAlone`: the processor leaves the blocks that can be found only
by a store of a block of one instruction that drops that block.  With a guest that waits too (`GuestWaits`): `JumpsSound`,
`RunsCurrent`, `RetryGoesThrough`.  Without these the properties are false (section 5).  `CacheInv` is the
invariant of the cache as such, kept by every operation: a block is in the lists of just the pages it
was read from (`Listed`), those pages are watched (`Watched`) and in the bitmaps (`BitsCover`), none
is stale, the jump cache has live blocks only, each jump is known to its target and leads to a
slot that is in use.  `Listed` is what makes a store find every block that it makes stale; that
jumps are known makes invalidation take all of them back.  `TrInv` adds what the loop knows: TLB and
jump cache know an address only by pages it was mapped to since its last flush, the block that runs
or is next has a slot in use, one of cpu_exec_nocache has the last and nothing leads to it; and for a
guest that waits, that patched jumps stay in a page of the block they leave, that these blocks are
those of the present maps, and that a store to be tried again will find a block that lets it
through.  A block that has been dropped keeps its jump, so `Chains` is about all slots in use.

Only model-checked:

* `CallReturns` of Kvfs is liveness under fairness, out of the prover's reach.

## 5. Where the code and its comments disagree

`ram_read_back` is a run in which TLC finds the property violated: RamDirectAccess takes a
frame number for a byte offset (rammgr.h:336; test at pagetable.h:579-583).

The following are in the models too.  Where a constant turns them on, a run with the other value
shows the property named here violated.

* EnsureRamBlock moves a locked block (rammgr.h:382; comment at 308): RamDirect.
* RamSwapOut trusts flags read before the mutex (rammgr.h:273), and load() sets
  BF_LOCKED without the mutex and can erase BF_SWAPPED (pagetable.h:37): RamRace; both are
  what `SoundUnlessOvertaken` excepts.
* Mapping before load(), as main() does, can give two pages one address; load() then
  fails (pagetable.h:42): PageTable with `LoadFirst = FALSE`, `WalkOnCourse` and `LoadBringsAll`.
* main()'s second createPath of SysWOW64 makes System32 a link to itself and the lookup
  recurses (rammgr.h:1022, pagetable.h:528-536): the run `kvfs` has such a pair of calls, and `CallReturns`
  excepts links that lead back to themselves.
* A page of the table may begin with what a freed frame held (rammgr.h:423, pagetable.h:199-211): `garbled`.
* next() compares with a node that has been erased (rammgr.h:846): `status` is then "dangling".
* A section gives a block to another offset without telling the views of the old one
  (pagetable.h:320): `reused`.  A block that is evicted between swap-in and load is loaded into
  someone else's frame (pagetable.h:326): `raced`.
* bind frees an object that is bound to the refp which alone holds it (refable.h:82):
  the exception in `DiesUnheld`.  The parent is unmounted in place of the child
  (rammgr.h:834), and handle 0 is given out again and again once the numbers have
  wrapped (rammgr.h:1095): the exceptions in `BindingLostByErasing` and `HandleKeepsObject`.
* merge() merges from the first block of the list (space.h:58), mergeSameProtect
  tests the wrong neighbour (space.h:79), a release swallows the regions behind it
  (space.h:314): the exceptions in `ProtectExact` and `GivenStays`.
* RAM that is replaced is marked dirty while old blocks are in its lists
  (exec.c:943): Translator with `HostResets = FALSE`, `TbInv`.  A jump is patched across two
  mappings of a page (translate.c:2349): with `GuestWaits = FALSE`, `JumpsSound`.
* A dropped block keeps the jump it had: tb_phys_invalidate takes it off the list of the block it leads
  to but leaves it patched (translate-all.c:865).  A block of one instruction is not abandoned when its own
  store drops it (translate-all.c:1072), so it may jump to a block that the same store dropped, or
  that is dropped later, and run stale code.  The run `translator` reaches this; `JumpsSound` and `RunsCurrent` are
  about blocks that can be found, and `LeavesFoundAlone` says that there is no other way out of them.
* A block whose two pages are one physical page, and a block of cpu_exec_nocache that a store has
  dropped, are taken out of the hash list twice (translate-all.c:761, cpu-exec.c:78): `crashed`.

Not in the models, and worth a reader's attention: UoPrivate hands the manager the
address of a local variable (pagetable.h:409); the BlockRefs of a section on the stack, as in
main(), start with whatever flags are there (pagetable.h:244); vx64_dirty passes a guest
physical address as a ram address (vx64.c:303); a block loaded into a free frame never releases its
slot, so that the page file only grows (rammgr.h:474, modelled, no property).

## 6. Not modelled, and the plan

Left out for good: pe_bliss and getopt (vendored), the DLL tools (input and
output only), register access of vx64, older and unfinished copies, printing, and of
QEMU everything that works out a single instruction: the decoder, the code
generators, the helpers, softfloat, the disassembler.  They are most of the
repository's lines, they keep no state from one instruction to the next beyond the registers, and
a model of them would be a second copy of the processor manual; what they leave to the
rest (which memory is read, written and jumped to) is open in Translator.  That is why
the models stand for a small share of the repository's lines and for most of the state it keeps.
UoPrivate is left out because its behaviour is undefined from its first call on; value
serialisation, strings and arguments are pure functions without a state.
vmfree, linkPrev, findBlockR2L of the address space and tcop's duplicate of refp have no caller.

To come: a view's page-table entries, the section's window and the manager together, which is what
onSectionBlockInvalid would have to do.
