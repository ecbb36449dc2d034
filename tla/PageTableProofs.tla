-------------------------- MODULE PageTableProofs ---------------------------
(***************************************************************************)
(* Proofs about PageTable, for any number of levels, pages, frames and     *)
(* other clients, of a table that is loaded before it is walked and over   *)
(* storage whose transfers do not fail half way (a seek may fail, and the  *)
(* page file may be missing).                                              *)
(*                                                                         *)
(* The table is a tree: every page but the root is named by one directory  *)
(* entry.  The invariant says so with two functions that stand for the     *)
(* tree, lev for the level of a page and place for the indices that lead   *)
(* to it; what Path computes follows from them.                            *)
(***************************************************************************)
EXTENDS PageTable, RamManagerProofs, SequenceTheorems, WellFoundedInduction

Usage == LoadFirst /\ Faults \subseteq {"seek"}

-----------------------------------------------------------------------------
(* The inductive invariant *)

Ops == {"idle", "gone", "crashed", "load", "destroy",
        "vmmap", "vmattr", "vmunmap", "get_pma"}

Calls == [op : Ops, vma : Vmas \cup {<<>>}, arg : Pmas \cup {0, 1},
          level : Nat, at : Frames, fresh : TablePages \cup {NULL}]

(* A call of each kind is where it can be. *)
CallSound ==
    /\ call \in Calls
    /\ call.op \in {"idle", "gone", "crashed"} =>
          call \in {Idle, Gone, Crashed}
    /\ call.op \in {"gone", "crashed"} => pages = <<>>
    /\ call.op \in {"load", "destroy"} => call.fresh = NULL /\ call.level > 0
    /\ Walking =>
          /\ call.vma \in Vmas /\ call.level <= Levels
          /\ pages = <<>> <=> call.level = 0
          /\ call.op = "vmmap" => call.arg \in Pmas
    /\ call.fresh # NULL =>
          call.op = "vmmap" /\ call.level \in 1 .. Levels - 1 /\ Owns(call.fresh)

(* What load() has been told, and what the table's pages are for it. *)
LoadSound ==
    /\ pages \in Seq(TablePages)
    /\ loaded \in BOOLEAN /\ ready \in BOOLEAN
    /\ Walking => ready
    /\ ready => loaded
    /\ loaded => status # "closed"
    /\ call.op = "load" => loaded /\ \A k \in DOMAIN pages :
                                        k < call.level => Resident(pages[k])
    /\ call.op # "destroy" =>
          /\ \A k \in DOMAIN pages : Allocated(pages[k])
          /\ loaded => \A k \in DOMAIN pages : Locked(pages[k])

(* A locked block of the table's is a page of it. *)
LockedOwned ==
    call.op \notin {"destroy", "gone"} =>
        \A p \in TablePages : Locked(p) => Owns(p)

(* The blocks of the others hold what these last put there. *)
OthersData == \A r \in Others \ damaged : Content(r) = said[r]

(* The pages of the table hold entries, and one that waits to be entered   *)
(* is zeroed.                                                              *)
TableTyped ==
    call.op # "destroy" =>
        /\ \A p \in TablePages : Owns(p) => Content(p) \in Data \X {0}
        /\ call.fresh # NULL => Content(call.fresh) = ZeroPage

(* The pages that are entered in the tree. *)
Placed == {p \in TablePages : Owns(p) /\ p # call.fresh}

(* p is the page of level k on the way of v. *)
At(lev, place, p, v, k) == lev[p] = k /\ \A j \in 1 .. k - 1 : place[p][j] = v[j]

(* The pages are a tree: no two at one place, a root, and each entry of a  *)
(* directory leads to the page below and each page below has an entry.     *)
Tree(lev, place) ==
    /\ \A p \in Placed : lev[p] \in 1 .. Levels
    /\ \A p, q \in Placed : At(lev, place, p, place[q], lev[q]) => p = q
    /\ pages # <<>> => pages[1] \in Placed /\ lev[pages[1]] = 1
    /\ \A p \in Placed, x \in Index :
          lev[p] < Levels /\ Table(p)[x].P =>
              \E q \in Placed : /\ addr[q] = Table(p)[x].base
                                /\ At(lev, place, q, [place[p] EXCEPT ![lev[p]] = x],
                                      lev[p] + 1)
    /\ \A q \in Placed : lev[q] > 1 =>
          \E p \in Placed : /\ At(lev, place, p, place[q], lev[q] - 1)
                            /\ Table(p)[place[q][lev[p]]] =
                                  [P |-> TRUE, base |-> addr[q]]

(* The walk stands on the page of its level; a page that waits to be       *)
(* entered has no entry yet.                                               *)
OnCourse(lev, place) ==
    Walking /\ call.level > 0 =>
        \E p \in Placed : /\ At(lev, place, p, call.vma, call.level)
                          /\ addr[p] = call.at
                          /\ call.fresh # NULL => ~Table(p)[call.vma[call.level]].P

Shape(lev, place) ==
    /\ lev \in [TablePages -> Nat]
    /\ place \in [TablePages -> [1 .. Levels -> Index]]
    /\ call.op # "destroy" => Tree(lev, place) /\ OnCourse(lev, place)

PtBase ==
    /\ RamCore /\ CallSound /\ LoadSound
    /\ ReadyInRam /\ DistinctBases /\ LockedOwned
    /\ NoStaleTranslation /\ TableTyped /\ OthersData

(* Once a page has begun with old contents nothing is claimed but what     *)
(* does not depend on them; no step is taken then.                         *)
PtIInv ==
    /\ garbled \in BOOLEAN
    /\ IF garbled THEN PtInv ELSE PtBase /\ \E lev, place : Shape(lev, place)

-----------------------------------------------------------------------------
(* What Path computes *)

(* A set of numbers that is not empty has a least one. *)
LEMMA LeastNatural ==
    ASSUME NEW S \in SUBSET Nat, S # {}
    PROVE  \E m \in S : \A k \in S : m <= k
  <1>1. PICK m \in S : \A k \in S : ~(<<k, m>> \in OpToRel(<, Nat))
    BY WFMin, NatLessThanWellFounded
  <1>2. ASSUME NEW k \in S, k < m  PROVE FALSE
    <2>1. <<k, m>> \in OpToRel(<, Nat)
      BY <1>2, Zenon DEF OpToRel
    <2> QED  BY <1>1, <2>1
  <1> QED  BY <1>2

Places == [1 .. Levels -> Index]

(* The page of level k on the way of v, or NULL. *)
PageOf(lev, place, v, k) ==
    IF \E q \in Placed : At(lev, place, q, v, k)
    THEN CHOOSE q \in Placed : At(lev, place, q, v, k)
    ELSE NULL

(* A place has one page. *)
LEMMA PageOfUnique ==
    ASSUME NEW lev, NEW place, Tree(lev, place), NEW v, NEW k,
           NEW q \in Placed, At(lev, place, q, v, k)
    PROVE  PageOf(lev, place, v, k) = q
  <1>1. \A p \in Placed : At(lev, place, p, v, k) => p = q
    <2> SUFFICES ASSUME NEW p \in Placed, At(lev, place, p, v, k)  PROVE p = q
      OBVIOUS
    <2>1. At(lev, place, p, place[q], lev[q])
      BY DEF At
    <2> QED  BY <2>1 DEF Tree
  <1> QED  BY <1>1 DEF PageOf

(* PageOf is a placed page at its place, or NULL. *)
LEMMA PageOfPlaced ==
    ASSUME NEW lev, NEW place, NEW v, NEW k
    PROVE  \/ /\ PageOf(lev, place, v, k) \in Placed
              /\ At(lev, place, PageOf(lev, place, v, k), v, k)
              /\ PageOf(lev, place, v, k) # NULL
           \/ /\ PageOf(lev, place, v, k) = NULL
              /\ \A q \in Placed : ~At(lev, place, q, v, k)
  BY RamAssumption, PageTableAssumption DEF PageOf, Placed

(* The table's pages are blocks of the manager. *)
LEMMA PagesAreBlocks ==
    ASSUME PtBase
    PROVE  /\ \A k \in DOMAIN pages : pages[k] \in TablePages /\ pages[k] \in Refs
           /\ pages # <<>> => 1 \in DOMAIN pages
           /\ DOMAIN pages = 1 .. Len(pages) /\ Len(pages) \in Nat
           /\ Placed \subseteq TablePages /\ TablePages \subseteq Refs
           /\ 0 \in Frames /\ Levels \in Nat \ {0}
  <1>1. pages \in Seq(TablePages)
    BY DEF PtBase, LoadSound
  <1>2. pages # <<>> => 1 \in DOMAIN pages
    BY <1>1, EmptySeq
  <1> QED  BY <1>1, <1>2, PageTableAssumption, RamAssumption DEF Placed, Frames

(* A page of the table is known by its address. *)
LEMMA PageAtIs ==
    ASSUME PtBase, call.op # "destroy", NEW q \in Placed
    PROVE  PageAt(addr[q]) = q
  <1>1. \A p \in TablePages : Owns(p) /\ addr[p] = addr[q] => p = q
    BY DEF PtBase, DistinctBases, Owns, Placed
  <1>2. Owns(q) /\ q \in TablePages
    BY DEF Placed
  <1> DEFINE here == {k \in DOMAIN pages : addr[pages[k]] = addr[q]}
  <1>3. \A k \in here : pages[k] = q
    <2>1. \A k \in DOMAIN pages : pages[k] \in TablePages /\ Owns(pages[k])
      BY PagesAreBlocks DEF Owns
    <2> QED  BY <1>1, <2>1
  <1>4. here # {}
    BY <1>2 DEF Owns
  <1>5. PageAt(addr[q]) = IF here = {} THEN NULL ELSE pages[CHOOSE k \in here : TRUE]
    BY DEF PageAt
  <1> HIDE DEF here
  <1> QED  BY <1>3, <1>4, <1>5

(* An index further down. *)
LEMMA AtDown ==
    ASSUME NEW lev, NEW place, NEW p, NEW q, lev[p] \in 1 .. Levels - 1,
           place[p] \in Places, NEW v \in Places, NEW k \in 1 .. Levels - 1,
           At(lev, place, p, v, k), NEW x, x = v[k]
    PROVE  At(lev, place, q, [place[p] EXCEPT ![lev[p]] = x], lev[p] + 1)
              <=> At(lev, place, q, v, k + 1)
  <1>1. lev[p] = k /\ \A j \in 1 .. k - 1 : place[p][j] = v[j]
    BY DEF At
  <1>2. Levels \in Nat
    BY PageTableAssumption
  <1>3. \A j \in 1 .. k : [place[p] EXCEPT ![lev[p]] = x][j] = v[j]
    BY <1>1, <1>2 DEF Places
  <1>4. (k + 1) - 1 = k
    BY <1>2
  <1> QED  BY <1>1, <1>3, <1>4 DEF At

(* A step of a walk, in terms of the tree. *)
LEMMA PageOfStep ==
    ASSUME PtBase, call.op # "destroy", NEW lev, NEW place, Shape(lev, place),
           NEW v \in Places, NEW k \in 1 .. Levels - 1
    PROVE  LET p == PageOf(lev, place, v, k) IN
           PageOf(lev, place, v, k + 1) =
              IF p = NULL \/ ~Table(p)[v[k]].P THEN NULL
              ELSE PageAt(Table(p)[v[k]].base)
  <1> DEFINE p == PageOf(lev, place, v, k)
             q == PageOf(lev, place, v, k + 1)
  <1>1. Tree(lev, place) /\ place \in [TablePages -> Places] /\ Levels \in Nat
    BY PageTableAssumption DEF Shape, Places
  <1>2. v[k] \in Index
    BY <1>1 DEF Places
  <1>3. CASE p # NULL /\ Table(p)[v[k]].P
    <2>1. p \in Placed /\ At(lev, place, p, v, k) /\ p \in TablePages
      BY <1>3, PageOfPlaced DEF Placed
    <2>2. lev[p] = k
      BY <2>1 DEF At
    <2>3. PICK r \in Placed : /\ addr[r] = Table(p)[v[k]].base
                              /\ At(lev, place, r, [place[p] EXCEPT ![lev[p]] = v[k]],
                                    lev[p] + 1)
      <3> HIDE DEF p
      <3> QED  BY <1>1, <1>2, <1>3, <2>1, <2>2 DEF Tree
    <2>4. At(lev, place, r, v, k + 1)
      <3> HIDE DEF p
      <3> QED  BY <1>1, <2>1, <2>2, <2>3, AtDown
    <2>5. q = r
      BY <1>1, <2>4, PageOfUnique
    <2>6. PageAt(Table(p)[v[k]].base) = r
      <3>1. PageAt(addr[r]) = r
        BY PageAtIs
      <3> QED  BY <2>3, <3>1
    <2> QED  BY <1>3, <2>5, <2>6
  <1>4. ASSUME q # NULL  PROVE p # NULL /\ Table(p)[v[k]].P
    <2>1. q \in Placed /\ At(lev, place, q, v, k + 1) /\ q \in TablePages
      BY <1>4, PageOfPlaced DEF Placed
    <2>2. /\ lev[q] = k + 1 /\ lev[q] - 1 = k
          /\ \A j \in 1 .. k : place[q][j] = v[j]
      BY <1>1, <2>1 DEF At
    <2>3. PICK r \in Placed : /\ At(lev, place, r, place[q], lev[q] - 1)
                              /\ Table(r)[place[q][lev[r]]] =
                                    [P |-> TRUE, base |-> addr[q]]
      <3> HIDE DEF q
      <3>1. lev[q] > 1
        BY <1>1, <2>2
      <3> QED  BY <1>1, <2>1, <3>1 DEF Tree
    <2>4. lev[r] = k /\ At(lev, place, r, v, k)
      <3> HIDE DEF q
      <3>1. \A j \in 1 .. k - 1 : j \in 1 .. k
        BY <1>1
      <3> QED  BY <2>2, <2>3, <3>1 DEF At
    <2>5. p = r /\ r # NULL
      BY <1>1, <2>4, PageOfUnique, RamAssumption, PageTableAssumption DEF Placed
    <2>6. place[q][lev[r]] = v[k]
      <3> HIDE DEF q
      <3> QED  BY <1>1, <2>2, <2>4
    <2> HIDE DEF p, q
    <2> QED  BY <2>3, <2>5, <2>6
  <1> QED  BY <1>3, <1>4

(* Path leads along the tree. *)
LEMMA PathIs ==
    ASSUME PtBase, call.op # "destroy", pages # <<>>,
           NEW lev, NEW place, Shape(lev, place), NEW v \in Places
    PROVE  \A k \in 1 .. Levels : Path(v)[k] = PageOf(lev, place, v, k)
  <1> DEFINE G(f) == [k \in 1 .. Levels |->
                        IF k = 1 THEN pages[1]
                        ELSE IF f[k - 1] = NULL \/ ~Table(f[k - 1])[v[k - 1]].P
                             THEN NULL
                             ELSE PageAt(Table(f[k - 1])[v[k - 1]].base)]
             w == [k \in 1 .. Levels |-> PageOf(lev, place, v, k)]
  <1>1. Levels \in Nat \ {0}
    BY PageTableAssumption
  <1>2. w[1] = pages[1]
    <2>1. pages[1] \in Placed /\ At(lev, place, pages[1], v, 1)
      BY DEF Shape, Tree, At
    <2>2. PageOf(lev, place, v, 1) = pages[1]
      BY <2>1, PageOfUnique DEF Shape
    <2> QED  BY <1>1, <2>2
  <1>3. ASSUME NEW k \in 1 .. Levels, k # 1
        PROVE  w[k] = IF w[k - 1] = NULL \/ ~Table(w[k - 1])[v[k - 1]].P THEN NULL
                      ELSE PageAt(Table(w[k - 1])[v[k - 1]].base)
    <2>1. k - 1 \in 1 .. Levels - 1 /\ k - 1 \in 1 .. Levels /\ (k - 1) + 1 = k
      BY <1>1, <1>3
    <2> DEFINE p == PageOf(lev, place, v, k - 1)
    <2>2. PageOf(lev, place, v, (k - 1) + 1) =
             IF p = NULL \/ ~Table(p)[v[k - 1]].P THEN NULL
             ELSE PageAt(Table(p)[v[k - 1]].base)
      BY <2>1, PageOfStep
    <2>3. w[k] = PageOf(lev, place, v, k) /\ w[k - 1] = p
      BY <2>1
    <2> HIDE DEF w, p
    <2> QED  BY <2>1, <2>2, <2>3
  <1> HIDE DEF w
  <1>4. w = G(w)
    <2>1. w = [k \in 1 .. Levels |-> w[k]]
      BY DEF w
    <2>2. \A k \in 1 .. Levels : w[k] = G(w)[k]
      BY <1>2, <1>3
    <2> QED  BY <2>1, <2>2
  <1>5. Path(v) = CHOOSE f : f = G(f)
    BY DEF Path
  <1>6. Path(v) = G(Path(v))
    <2> HIDE DEF G
    <2> QED  BY <1>4, <1>5
  <1> DEFINE u == Path(v)
             Bad == {k \in 1 .. Levels : u[k] # w[k]}
  <1>7. /\ u[1] = pages[1]
        /\ \A k \in 1 .. Levels : k # 1 =>
              u[k] = IF u[k - 1] = NULL \/ ~Table(u[k - 1])[v[k - 1]].P THEN NULL
                     ELSE PageAt(Table(u[k - 1])[v[k - 1]].base)
    <2>1. u = G(u)
      BY <1>6
    <2> HIDE DEF u
    <2>2. \A k \in 1 .. Levels : u[k] = G(u)[k]
      <3> HIDE DEF G
      <3> QED  BY <2>1
    <2>3. \A k \in 1 .. Levels :
             G(u)[k] = IF k = 1 THEN pages[1]
                       ELSE IF u[k - 1] = NULL \/ ~Table(u[k - 1])[v[k - 1]].P
                       THEN NULL ELSE PageAt(Table(u[k - 1])[v[k - 1]].base)
      OBVIOUS
    <2> HIDE DEF G
    <2> QED  BY <1>1, <2>2, <2>3
  <1> HIDE DEF u
  <1>8. ASSUME Bad # {}  PROVE FALSE
    <2>1. PICK m \in Bad : \A j \in Bad : m <= j
      <3>1. Bad \in SUBSET Nat
        BY <1>1
      <3> HIDE DEF Bad
      <3> QED  BY <1>8, <3>1, LeastNatural
    <2>2. m # 1 /\ m - 1 \in 1 .. Levels /\ m - 1 < m
      BY <1>1, <1>2, <1>7, <2>1
    <2>3. u[m - 1] = w[m - 1]
      BY <1>1, <2>1, <2>2
    <2> QED  BY <1>3, <1>7, <2>1, <2>2, <2>3
  <1> QED  BY <1>8 DEF u, w

(* What the table says of v, in terms of the tree. *)
FlatFacts ==
    \A lev, place : PtBase /\ Shape(lev, place) =>
        \A v \in Vmas :
            /\ call.op = "destroy" \/ pages = <<>> => FlatEntry(v) = NoEntry
            /\ call.op # "destroy" =>
                  /\ \A p \in Placed : At(lev, place, p, v, Levels) =>
                        FlatEntry(v) = Table(p)[v[Levels]]
                  /\ (\A p \in Placed : ~At(lev, place, p, v, Levels)) =>
                        FlatEntry(v) = NoEntry

(* The same before and after a step. *)
LEMMA FlatIs == FlatFacts /\ FlatFacts'
  <1>1. FlatFacts
    <2> SUFFICES ASSUME NEW lev, NEW place, PtBase, Shape(lev, place), NEW v \in Vmas
                 PROVE  /\ call.op = "destroy" \/ pages = <<>> => FlatEntry(v) = NoEntry
                        /\ call.op # "destroy" =>
                             /\ \A p \in Placed : At(lev, place, p, v, Levels) =>
                                   FlatEntry(v) = Table(p)[v[Levels]]
                             /\ (\A p \in Placed : ~At(lev, place, p, v, Levels)) =>
                                   FlatEntry(v) = NoEntry
      BY DEF FlatFacts
    <2>1. v \in Places /\ Levels \in 1 .. Levels
      BY PageTableAssumption DEF Places
    <2>2. CASE call.op = "destroy" \/ pages = <<>>
      <3>1. FlatEntry(v) = NoEntry
        BY <2>2 DEF FlatEntry, Destroyed
      <3>2. pages = <<>> => Placed = {}
        BY DEF Placed, Owns
      <3> QED  BY <2>2, <3>1, <3>2
    <2>3. CASE call.op # "destroy" /\ pages # <<>>
      <3> DEFINE p == PageOf(lev, place, v, Levels)
      <3>1. Path(v)[Levels] = p
        BY <2>1, <2>3, PathIs
      <3>2. FlatEntry(v) = IF p = NULL THEN NoEntry ELSE Table(p)[v[Levels]]
        BY <2>3, <3>1 DEF FlatEntry, Destroyed
      <3>3. ASSUME NEW q \in Placed, At(lev, place, q, v, Levels)  PROVE q = p /\ p # NULL
        <4>1. p = q
          BY <2>3, <3>3, PageOfUnique DEF Shape
        <4> QED  BY <4>1, RamAssumption, PageTableAssumption DEF Placed
      <3>4. (\A q \in Placed : ~At(lev, place, q, v, Levels)) => p = NULL
        BY PageOfPlaced
      <3> HIDE DEF p
      <3> QED  BY <2>3, <3>2, <3>3, <3>4
    <2> QED  BY <2>2, <2>3
  <1> QED  BY <1>1, PTL

-----------------------------------------------------------------------------
(* What the manager's operations mean to the table *)

(* The block keeps its page and its address, and RAM if it is locked. *)
Undisturbed(q) ==
    /\ Content(q)' = Content(q)
    /\ said'[q] = said[q] /\ addr'[q] = addr[q]
    /\ Allocated(q)' <=> Allocated(q)
    /\ Locked(q)' <=> Locked(q)
    /\ Locked(q) /\ Resident(q) => Resident(q)'

(* The content of a block after the allocation of r. *)
LEMMA AllocContent ==
    ASSUME NEW r \in Refs, NEW p, Store!Alloc(r, p)
    PROVE  /\ \A q \in Refs : Content(q)' = IF q = r THEN p ELSE Content(q)
           /\ said' = [said EXCEPT ![r] = p] /\ damaged' = damaged \ {r}
  <1>1. [q \in Refs |-> Content(q)]' = [[q \in Refs |-> Content(q)] EXCEPT ![r] = p]
    BY DEF Store!Alloc
  <1>2. ASSUME NEW q \in Refs
        PROVE  Content(q)' = IF q = r THEN p ELSE Content(q)
    <2>1. [x \in Refs |-> Content(x)]'[q] = Content(q)'
      OBVIOUS
    <2> QED  BY <1>1, <2>1
  <1> QED  BY <1>2 DEF Store!Alloc

(* The content of the blocks when r is released or written. *)
LEMMA OneContent ==
    ASSUME NEW r \in Refs, NEW p, Store!Free(r) \/ Store!Write(r, p)
    PROVE  \A q \in Refs : q # r => Content(q)' = Content(q)
  <1> SUFFICES ASSUME NEW q \in Refs, q # r  PROVE Content(q)' = Content(q)
    OBVIOUS
  <1> DEFINE C == [x \in Refs |-> Content(x)]
  <1>1. PICK n : C' = [C EXCEPT ![r] = n]
    BY DEF Store!Free, Store!Write
  <1>2. C[q] = Content(q) /\ C'[q] = Content(q)'
    OBVIOUS
  <1>3. C = [x \in Refs |-> C[x]]
    OBVIOUS
  <1> HIDE DEF C
  <1> QED  BY <1>1, <1>2, <1>3

(* RamAllocAddress gives r a frame that no locked block had.              *)
Given(r, lock) ==
    /\ Resident(r)' /\ (Locked(r)' <=> lock # {})
    /\ damaged' = damaged \ {r} /\ Content(r)' = said'[r]
    /\ \A q \in Refs : Locked(q) /\ Resident(q) => addr[q] # addr'[r]

(* What RamAllocAddress does to the blocks. *)
LEMMA AllocMoves ==
    ASSUME Usage, RamCore, NEW r \in Refs, NEW lock \in SUBSET {"LOCKED"},
           RamAllocAddress(r, lock)
    PROVE  /\ CoreKept /\ status' = status /\ status # "closed"
           /\ ~Allocated(r)
           /\ \A q \in Refs : q # r => Undisturbed(q)
           /\ \/ /\ flags'[r] = {} /\ Undisturbed(r) /\ damaged' = damaged
              \/ Given(r, lock) /\ flags'[r] # {}
  <1> USE RamAssumption DEF RamCore, TypeOK
  <1>1. PICK i \in Frames : /\ FindFreeOrSwappableAddress(i)
                           /\ \/ AllocFree(r, i, lock)
                              \/ AllocEvict(r, i, lock)
                              \/ AllocStoreFails(i)
    BY DEF RamAllocAddress
  <1>2. ~Allocated(r) /\ flags[r] = {} /\ ~Locked(r) /\ ~Resident(r) /\ status # "closed"
    BY <1>1 DEF RamAllocAddress, Allocated, Locked, Resident, FindFreeOrSwappableAddress
  <1>3. CASE AllocFree(r, i, lock)
    <2>1. CoreKept /\ Store!Alloc(r, ram[i])
      BY <1>2, <1>3, AllocFreeInv
    <2>2. /\ \A q \in Refs : Content(q)' = IF q = r THEN ram[i] ELSE Content(q)
          /\ said' = [said EXCEPT ![r] = ram[i]] /\ damaged' = damaged \ {r}
      BY <2>1, AllocContent
    <2>3. /\ flags' = [flags EXCEPT ![r] = lock \cup {"VALID"}]
          /\ addr' = [addr EXCEPT ![r] = i]
          /\ frames' = [frames EXCEPT ![i] = r]
          /\ UNCHANGED <<status, ram>> /\ frames[i] = NULL
      BY <1>3 DEF AllocFree, TakeFrame, FreeFrame
    <2>5. \A q \in Refs : q # r => Undisturbed(q)
      BY <2>2, <2>3 DEF Undisturbed, Allocated, Locked, Resident, Swapped
    <2>6. \A q \in Refs : Locked(q) /\ Resident(q) => addr[q] # i
      BY <2>3 DEF FrameOwnership
    <2>7. Given(r, lock) /\ flags'[r] # {}
      BY <2>2, <2>3, <2>6 DEF Given, Resident, Allocated, Swapped, Locked
    <2> QED  BY <1>2, <2>1, <2>3, <2>5, <2>7
  <1>4. CASE AllocEvict(r, i, lock)
    <2>1. CoreKept /\ Store!Alloc(r, ZeroPage)
      BY <1>2, <1>4, AllocEvictInv
    <2>2. /\ \A q \in Refs : Content(q)' = IF q = r THEN ZeroPage ELSE Content(q)
          /\ said' = [said EXCEPT ![r] = ZeroPage] /\ damaged' = damaged \ {r}
      BY <2>1, AllocContent
    <2> DEFINE e == frames[i]
    <2>3. /\ e # NULL /\ ~Locked(e) /\ e \in Refs
          /\ Resident(e) /\ addr[e] = i /\ e # r
      BY <1>2, <1>4 DEF AllocEvict, Swappable, FrameOwnership
    <2>4. /\ flags' = [flags EXCEPT ![e] = @ \cup {"SWAPPED"}, ![r] = lock \cup {"VALID"}]
          /\ addr' = [addr EXCEPT ![r] = i]
          /\ frames' = [frames EXCEPT ![i] = r]
          /\ ram' = [ram EXCEPT ![i] = ZeroPage]
          /\ UNCHANGED status
      BY <1>4 DEF AllocEvict, TakeFrame
    <2>6. \A q \in Refs : q # r => Undisturbed(q)
      <3> HIDE DEF e
      <3> QED  BY <2>2, <2>3, <2>4 DEF Undisturbed, Allocated, Locked, Resident, Swapped
    <2>7. \A q \in Refs : Locked(q) /\ Resident(q) => addr[q] # i
      BY <2>3 DEF FrameOwnership
    <2>8. Given(r, lock) /\ flags'[r] # {}
      <3> HIDE DEF e
      <3>1. flags'[r] = lock \cup {"VALID"} /\ addr'[r] = i
        BY <2>3, <2>4
      <3>2. Content(r)' = ZeroPage /\ said'[r] = ZeroPage
        BY <2>2
      <3>3. Resident(r)' /\ (Locked(r)' <=> lock # {}) /\ flags'[r] # {}
        BY <3>1 DEF Resident, Allocated, Swapped, Locked
      <3> QED  BY <2>2, <2>7, <3>1, <3>2, <3>3 DEF Given
    <2> QED  BY <1>2, <2>1, <2>4, <2>6, <2>8
  <1>5. CASE AllocStoreFails(i)
    <2>1. CoreKept
      BY <1>5, AllocStoreFailsInv
    <2>2. UNCHANGED <<status, flags, addr, pfidx, frames, ram, file, said, damaged>>
      BY <1>5 DEF AllocStoreFails, StoreFails, Usage, refVars
    <2>3. \A q \in Refs : Undisturbed(q)
      BY <2>2 DEF Undisturbed, Content, Allocated, Locked, Resident, Swapped
    <2> QED  BY <1>2, <2>1, <2>2, <2>3
  <1> QED  BY <1>1, <1>3, <1>4, <1>5

(* RamSwapIn brings r, to its own frame if it is locked. *)
LEMMA SwapMoves ==
    ASSUME Usage, RamCore, NEW r \in Refs, RamSwapIn(r)
    PROVE  /\ CoreKept /\ status' = status
           /\ UNCHANGED <<said, damaged>>
           /\ \A q \in Refs : q # r => Undisturbed(q)
           /\ Content(r)' = Content(r)
           /\ (Allocated(r)' <=> Allocated(r)) /\ (Locked(r)' <=> Locked(r))
           /\ Locked(r) => Undisturbed(r)
           /\ Resident(r)' \/ (flags' = flags /\ SeekFails)
           /\ Resident(r)' \/ "SWAPPED" \in flags'[r]
  <1> USE RamAssumption DEF RamCore, TypeOK
  <1>1. PICK i \in Frames : SwapInFrame(r, i) /\ SwapRamAndPageFile(r, i)
    BY DEF RamSwapIn, SwapInBody
  <1>2. Swapped(r) /\ Allocated(r) /\ ~Resident(r) /\ "VALID" \in flags[r]
    BY DEF RamSwapIn, Swapped, Allocated, Resident, ValidFlag
  <1>3. Locked(r) => i = addr[r]
    BY <1>1 DEF SwapInFrame
  <1>4. CASE LoadIntoFree(r, i)
    <2>1. CoreKept /\ ContentKept
      BY <1>2, <1>4, LoadIntoFreeInv
    <2>2. /\ flags' = [flags EXCEPT ![r] = @ \ {"SWAPPED"}]
          /\ addr' = [addr EXCEPT ![r] = i]
          /\ frames' = [frames EXCEPT ![i] = r]
          /\ \A j \in Frames : j # i => ram'[j] = ram[j]
          /\ UNCHANGED status
      BY <1>4 DEF LoadIntoFree, ReadFails, Usage, Bring
    <2>4. \A q \in Refs : q # r => Undisturbed(q)
      BY <2>1, <2>2 DEF ContentKept, Undisturbed, Allocated, Locked, Resident, Swapped
    <2>5. Resident(r)' /\ (Allocated(r)' <=> Allocated(r)) /\ (Locked(r)' <=> Locked(r))
      BY <1>2, <2>2 DEF Allocated, Locked, Resident, Swapped
    <2>6. Locked(r) => Undisturbed(r)
      BY <1>2, <1>3, <2>1, <2>2, <2>5 DEF ContentKept, Undisturbed
    <2> QED  BY <2>1, <2>2, <2>4, <2>5, <2>6 DEF ContentKept
  <1>5. CASE Exchange(r, i)
    <2> DEFINE e == frames[i]
    <2>1. CoreKept /\ ContentKept
      BY <1>2, <1>5, ExchangeInv
    <2>2. /\ e # NULL /\ ~Locked(e) /\ e \in Refs /\ Resident(e) /\ e # r
      BY <1>2, <1>5 DEF Exchange, Swappable, FrameOwnership
    <2>3. /\ flags' = [flags EXCEPT ![e] = @ \cup {"SWAPPED"}, ![r] = @ \ {"SWAPPED"}]
          /\ addr' = [addr EXCEPT ![r] = i]
          /\ frames' = [frames EXCEPT ![i] = r]
          /\ \A j \in Frames : j # i => ram'[j] = ram[j]
          /\ UNCHANGED status
      BY <1>5 DEF Exchange, Bring
    <2> HIDE DEF e
    <2>5. \A q \in Refs : q # r => Undisturbed(q)
      BY <2>1, <2>2, <2>3 DEF ContentKept, Undisturbed, Allocated, Locked, Resident, Swapped
    <2>6. Resident(r)' /\ (Allocated(r)' <=> Allocated(r)) /\ (Locked(r)' <=> Locked(r))
      BY <1>2, <2>2, <2>3 DEF Allocated, Locked, Resident, Swapped
    <2>7. Locked(r) => Undisturbed(r)
      BY <1>2, <1>3, <2>1, <2>2, <2>3, <2>6 DEF ContentKept, Undisturbed
    <2> QED  BY <2>1, <2>3, <2>5, <2>6, <2>7 DEF ContentKept
  <1>6. CASE ExchangeStoreFails(r, i)
    <2>1. CoreKept
      BY <1>2, <1>6, ExchangeStoreFailsInv
    <2>2. /\ UNCHANGED <<status, flags, addr, pfidx, frames, ram, file, said, damaged>>
          /\ SeekFails
      BY <1>6 DEF ExchangeStoreFails, StoreFails, Usage, refVars
    <2>3. \A q \in Refs : Undisturbed(q)
      BY <2>2 DEF Undisturbed, Content, Allocated, Locked, Resident, Swapped
    <2>4. "SWAPPED" \in flags'[r]
      BY <1>2, <2>2 DEF Swapped
    <2> QED  BY <2>1, <2>2, <2>3, <2>4 DEF Undisturbed
  <1> QED  BY <1>1, <1>4, <1>5, <1>6 DEF SwapRamAndPageFile

-----------------------------------------------------------------------------
(* Steps that leave the table as it is *)

FlatSame == \A v \in Vmas : FlatEntry(v)' = FlatEntry(v)

(* What load() has brought stays there. *)
LoadPrefix ==
    call.op = "load" => loaded /\ \A k \in DOMAIN pages :
                                     k < call.level => Resident(pages[k])

(* The block stays where it is, and in RAM if it is locked. *)
Held(q) ==
    /\ addr'[q] = addr[q]
    /\ Allocated(q)' <=> Allocated(q)
    /\ Locked(q)' <=> Locked(q)
    /\ Locked(q) /\ Resident(q) => Resident(q)'

(* A step that moves blocks and leaves the table's pages where they are. *)
LEMMA BaseKept ==
    ASSUME PtBase, RamCore', CallSound', LockedOwned', OthersData', NoStaleTranslation',
           TableTyped', UNCHANGED <<pages, loaded, ready>>,
           status # "closed" => status' # "closed",
           Walking' => ready, LoadPrefix',
           call'.op = "destroy" <=> call.op = "destroy",
           call.op # "destroy" => \A k \in DOMAIN pages : Held(pages[k])
    PROVE  PtBase'
  <1> USE DEF PtBase
  <1>3. LoadSound'
    <2>1. /\ pages' \in Seq(TablePages)
          /\ loaded' \in BOOLEAN /\ ready' \in BOOLEAN
      BY DEF LoadSound
    <2>2. (ready' => loaded') /\ (loaded' => status' # "closed")
      BY DEF LoadSound
    <2>3. call'.op # "destroy" =>
            \A k \in DOMAIN pages' : /\ Allocated(pages[k])'
                                     /\ loaded' => Locked(pages[k])'
      BY DEF LoadSound, Held
    <2>4. call'.op = "load" => loaded' /\ \A k \in DOMAIN pages' :
                                    k < call'.level => Resident(pages[k])'
      BY DEF LoadPrefix
    <2> QED  BY <2>1, <2>2, <2>3, <2>4 DEF LoadSound
  <1>4. ReadyInRam'
    BY DEF ReadyInRam, LoadSound, Held
  <1>5. DistinctBases'
    BY DEF DistinctBases, Held
  <1> QED  BY <1>3, <1>4, <1>5

(* The tree is the same while its pages say the same. *)
LEMMA TreeKept ==
    ASSUME PtBase, PtBase', call.op # "destroy", call'.op # "destroy",
           NEW lev, NEW place, Shape(lev, place), OnCourse(lev, place)',
           pages # <<>> => pages'[1] = pages[1], pages' # <<>> => pages # <<>>,
           Placed' = Placed,
           \A p \in Placed : Content(p)' = Content(p) /\ addr'[p] = addr[p]
    PROVE  Shape(lev, place)' /\ FlatSame
  <1>1. \A p \in Placed : Table(p)' = Table(p)
    BY DEF Table
  <1>2. Tree(lev, place)
    BY DEF Shape
  <1>3. Tree(lev, place)'
    BY <1>1, <1>2 DEF Tree
  <1>4. Shape(lev, place)'
    BY <1>3 DEF Shape
  <1>5. ASSUME NEW v \in Vmas  PROVE FlatEntry(v)' = FlatEntry(v)
    <2>1. /\ \A p \in Placed : At(lev, place, p, v, Levels) =>
                FlatEntry(v) = Table(p)[v[Levels]]
          /\ (\A p \in Placed : ~At(lev, place, p, v, Levels)) => FlatEntry(v) = NoEntry
      BY FlatIs DEF FlatFacts
    <2>2. /\ \A p \in Placed' : At(lev, place, p, v, Levels) =>
                FlatEntry(v)' = Table(p)'[v[Levels]]
          /\ (\A p \in Placed' : ~At(lev, place, p, v, Levels)) => FlatEntry(v)' = NoEntry
      BY <1>4, FlatIs DEF FlatFacts
    <2> QED  BY <1>1, <2>1, <2>2
  <1> QED  BY <1>4, <1>5 DEF FlatSame

(* Every step is one of the flat table, or leaves it as it is. *)
FlatStep == [Flat!Change]_([v \in Vmas |-> FlatEntry(v)])

Good == PtBase' /\ (\E lev, place : Shape(lev, place)') /\ FlatStep

(* Nothing seen in the flat table. *)
LEMMA SameIsStutter == FlatSame => FlatStep
  BY DEF FlatSame, FlatStep

(* A step in which the table's pages keep what they hold. *)
LEMMA PagesKept ==
    ASSUME PtBase, NEW lev, NEW place, Shape(lev, place),
           RamCore', CallSound', LockedOwned', OthersData', NoStaleTranslation',
           UNCHANGED tableVars, status # "closed" => status' # "closed",
           Walking' => ready, LoadPrefix',
           call'.op = "destroy" <=> call.op = "destroy",
           call'.fresh = call.fresh,
           call.op # "destroy" =>
               /\ \A k \in DOMAIN pages : Undisturbed(pages[k])
               /\ OnCourse(lev, place)'
    PROVE  Good
  <1> USE DEF PtBase
  <1>1. UNCHANGED <<pages, loaded, ready>> /\ call'.fresh = call.fresh
    BY DEF tableVars
  <1>2. call.op # "destroy" => \A p \in TablePages : Owns(p) => Undisturbed(p)
    BY DEF Owns
  <1>3. call.op # "destroy" => \A k \in DOMAIN pages : Held(pages[k])
    BY DEF Held, Undisturbed
  <1>4. TableTyped'
    <2> SUFFICES ASSUME call.op # "destroy"
                 PROVE  /\ \A p \in TablePages : Owns(p)' => Content(p)' \in Data \X {0}
                        /\ call'.fresh # NULL => Content(call.fresh)' = ZeroPage
      BY <1>1 DEF TableTyped
    <2>1. ASSUME NEW p \in TablePages, Owns(p)'  PROVE Content(p)' \in Data \X {0}
      <3>1. Owns(p)
        BY <1>1, <2>1 DEF Owns
      <3> QED  BY <1>2, <3>1 DEF TableTyped, Undisturbed
    <2>2. ASSUME NEW q, q = call.fresh, q # NULL  PROVE Content(q)' = ZeroPage
      <3>1. Owns(q) /\ q \in TablePages
        BY <2>2 DEF CallSound, Calls
      <3> QED  BY <1>2, <2>2, <3>1 DEF TableTyped, Undisturbed
    <2> QED  BY <1>1, <2>1, <2>2 DEF Content, Allocated, Swapped
  <1>5. PtBase'
    BY <1>1, <1>3, <1>4, BaseKept
  <1>6. CASE call.op = "destroy"
    <2>1. Shape(lev, place)'
      BY <1>6 DEF Shape
    <2>2. FlatSame
      BY <1>6, <1>5, <2>1, FlatIs DEF FlatFacts, FlatSame
    <2> QED  BY <1>5, <2>1, <2>2, SameIsStutter DEF Good
  <1>7. CASE call.op # "destroy"
    <2>1. Placed' = Placed
      BY <1>1 DEF Placed, Owns
    <2>2. \A p \in Placed : Content(p)' = Content(p) /\ addr'[p] = addr[p]
      BY <1>2, <1>7 DEF Undisturbed, Placed
    <2>3. Shape(lev, place)' /\ FlatSame
      BY <1>1, <1>5, <1>7, <2>1, <2>2, TreeKept
    <2> QED  BY <1>5, <2>3, SameIsStutter DEF Good
  <1> QED  BY <1>6, <1>7

(* A step of the table's own that leaves the manager alone. *)
LEMMA VarsSame ==
    ASSUME PtBase, UNCHANGED vars
    PROVE  /\ RamCore' /\ OthersData' /\ status' = status
           /\ \A q \in Refs : Undisturbed(q)
           /\ NoStaleTranslation'
           /\ call'.op \in {"destroy", "gone"} \/ call.op \notin {"destroy", "gone"}
                 => (pages' = pages => LockedOwned')
  <1> USE DEF PtBase, vars
  <1>1. RamCore'
    BY DEF RamCore, TypeOK, ValidFlag, OwnersTranslate, ClosedEmpty,
           FrameOwnership, SlotOwnership, Resident, Swapped, Allocated
  <1>2. \A q \in Refs : Undisturbed(q)
    BY DEF Undisturbed, Content, Allocated, Locked, Resident, Swapped
  <1>3. OthersData'
    BY <1>2 DEF OthersData, Undisturbed, Others
  <1>4. call'.op \in {"destroy", "gone"} \/ call.op \notin {"destroy", "gone"}
           => (pages' = pages => LockedOwned')
    BY DEF LockedOwned, Locked, Owns
  <1>5. NoStaleTranslation'
    BY DEF NoStaleTranslation, Resident, Swapped, Allocated
  <1> QED  BY <1>1, <1>2, <1>3, <1>4, <1>5

(* A step that changes the call only. *)
LEMMA CallOnly ==
    ASSUME PtBase, NEW lev, NEW place, Shape(lev, place),
           UNCHANGED <<vars, tableVars>>, call.op # "destroy", call'.op # "destroy",
           call'.op = "gone" \/ call.op # "gone",
           CallSound', Walking' => ready, LoadPrefix', OnCourse(lev, place)',
           call'.fresh = call.fresh
    PROVE  Good
  <1>1. UNCHANGED pages
    BY DEF tableVars
  <1>2. /\ RamCore' /\ LockedOwned' /\ OthersData' /\ status' = status
        /\ \A q \in Refs : Undisturbed(q)
        /\ NoStaleTranslation'
    BY <1>1, VarsSame
  <1>3. \A k \in DOMAIN pages : pages[k] \in Refs
    BY PagesAreBlocks
  <1>4. \A k \in DOMAIN pages : Undisturbed(pages[k])
    BY <1>1, <1>2, <1>3 DEF Undisturbed
  <1> QED  BY <1>2, <1>4, PagesKept

(* A call begins at the root. *)
LEMMA EnterGood ==
    ASSUME Usage, PtBase, NEW lev, NEW place, Shape(lev, place),
           NEW op \in {"vmmap", "vmattr", "vmunmap", "get_pma"}, NEW v \in Vmas,
           NEW arg \in Pmas \cup {0, 1}, op = "vmmap" => arg \in Pmas,
           Enter(op, v, arg)
    PROVE  Good
  <1>1. /\ call = Idle /\ ready /\ (pages # <<>> \/ op = "vmmap")
        /\ UNCHANGED <<vars, tableVars>>
        /\ call' = [op |-> op, vma |-> v, arg |-> arg, fresh |-> NULL,
                    level |-> IF pages = <<>> THEN 0 ELSE 1,
                    at |-> IF pages = <<>> THEN 0 ELSE addr[pages[1]]]
    BY DEF Enter, Usage
  <1>2. call.op = "idle" /\ call.fresh = NULL /\ UNCHANGED <<pages, addr>>
    BY <1>1 DEF Idle, vars, tableVars
  <1>3. pages # <<>> => pages[1] \in TablePages /\ addr[pages[1]] \in Frames
    BY PagesAreBlocks DEF PtBase, RamCore, TypeOK
  <1>4. /\ call'.op = op /\ call'.vma = v /\ call'.arg = arg /\ call'.fresh = NULL
        /\ call'.level = IF pages = <<>> THEN 0 ELSE 1
        /\ call'.at = IF pages = <<>> THEN 0 ELSE addr[pages[1]]
    BY <1>1
  <1>5. call' \in Calls
    BY <1>1, <1>3, PagesAreBlocks DEF Calls, Ops
  <1>6. CallSound'
    BY <1>2, <1>4, <1>5, PagesAreBlocks DEF CallSound, Walking
  <1>7. OnCourse(lev, place)'
    <2> SUFFICES ASSUME pages # <<>>
                 PROVE  \E p \in Placed' : /\ At(lev, place, p, v, 1)
                                           /\ addr'[p] = call'.at
      BY <1>2, <1>4 DEF OnCourse
    <2>1. pages[1] \in Placed /\ lev[pages[1]] = 1
      BY <1>2 DEF Shape, Tree
    <2>2. pages[1] \in Placed'
      BY <1>2, <1>4, <2>1 DEF Placed, Owns
    <2>3. At(lev, place, pages[1], v, 1)
      BY <2>1 DEF At
    <2> QED  BY <1>2, <1>4, <2>2, <2>3
  <1>8. LoadPrefix'
    BY <1>4 DEF LoadPrefix
  <1> QED  BY <1>1, <1>2, <1>4, <1>6, <1>7, <1>8, CallOnly

(* The page a walk stands on, and the entry it looks at. *)
LEMMA WalkStands ==
    ASSUME PtBase, NEW lev, NEW place, Shape(lev, place),
           Walking, call.level > 0
    PROVE  \E p \in Placed :
              /\ At(lev, place, p, call.vma, call.level) /\ addr[p] = call.at
              /\ p \in TablePages /\ p \in Refs /\ Resident(p) /\ Owns(p)
              /\ Content(p) = ram[call.at] /\ Content(p) \in Data \X {0}
              /\ call.level \in 1 .. Levels /\ call.vma \in Places
              /\ call.vma[call.level] \in Index
              /\ Pte = Table(p)[call.vma[call.level]] /\ Pte \in Entry
              /\ lev[p] = call.level
              /\ call.fresh # NULL => ~Pte.P
  <1> USE DEF PtBase
  <1>1. call.op # "destroy" /\ call.level \in 1 .. Levels /\ call.vma \in Places
    <2>1. call.level \in Nat
      BY DEF CallSound, Calls
    <2> QED  BY <2>1, PageTableAssumption DEF Walking, CallSound, Places
  <1>2. PICK p \in Placed : /\ At(lev, place, p, call.vma, call.level)
                            /\ addr[p] = call.at
                            /\ call.fresh # NULL => ~Table(p)[call.vma[call.level]].P
    BY <1>1 DEF Shape, OnCourse
  <1>3. p \in TablePages /\ p \in Refs /\ Owns(p)
    BY PagesAreBlocks DEF Placed
  <1>4. Resident(p)
    BY <1>1, <1>3 DEF LoadSound, ReadyInRam, Owns
  <1>5. Content(p) = ram[call.at] /\ Content(p) \in Data \X {0}
    BY <1>1, <1>2, <1>3, <1>4 DEF Content, Resident, TableTyped
  <1>6. call.vma[call.level] \in Index
    BY <1>1 DEF Places
  <1>7. Pte = Table(p)[call.vma[call.level]]
    BY <1>5 DEF Pte, PteAt, Table
  <1>8. Table(p) \in [Index -> Entry]
    BY <1>5, PageTableAssumption DEF Table
  <1>9. Pte \in Entry /\ lev[p] = call.level
    BY <1>2, <1>6, <1>7, <1>8 DEF At
  <1> QED  BY <1>1, <1>2, <1>3, <1>4, <1>5, <1>6, <1>7, <1>9

(* A walk that moves to another level. *)
LEMMA CallMoves ==
    ASSUME PtBase, NEW at \in Frames,
           call' = [call EXCEPT !.at = at, !.level = call.level + 1]
    PROVE  /\ call'.op = call.op /\ call'.vma = call.vma /\ call'.arg = call.arg
           /\ call'.fresh = call.fresh /\ call'.level = call.level + 1
           /\ call'.at = at /\ call' \in Calls
  <1>1. call \in Calls
    BY DEF PtBase, CallSound
  <1>2. PICK o \in Ops, v \in Vmas \cup {<<>>}, a \in Pmas \cup {0, 1}, k \in Nat,
             i \in Frames, f \in TablePages \cup {NULL} :
               call = [op |-> o, vma |-> v, arg |-> a, level |-> k, at |-> i,
                       fresh |-> f]
    BY <1>1 DEF Calls
  <1>3. call' = [op |-> o, vma |-> v, arg |-> a, level |-> k + 1, at |-> at,
                 fresh |-> f]
    BY <1>2
  <1>4. k + 1 \in Nat
    OBVIOUS
  <1> HIDE DEF Ops
  <1>5. call' \in Calls
    BY <1>3, <1>4 DEF Calls
  <1> QED  BY <1>2, <1>3, <1>5

(* A walk goes down to the page its entry names. *)
LEMMA DescendGood ==
    ASSUME PtBase, NEW lev, NEW place, Shape(lev, place), Descend
    PROVE  Good
  <1> USE DEF PtBase
  <1> DEFINE k == call.level
             v == call.vma
  <1>1. /\ Walking /\ k \in 1 .. Levels - 1 /\ call.fresh = NULL /\ Pte.P
        /\ call' = [call EXCEPT !.at = Pte.base, !.level = @ + 1]
        /\ UNCHANGED <<vars, tableVars>>
    BY DEF Descend
  <1>2. Levels \in Nat \ {0}
    BY PageTableAssumption
  <1>3. PICK p \in Placed :
              /\ At(lev, place, p, v, k) /\ p \in TablePages
              /\ v \in Places /\ v[k] \in Index
              /\ Pte = Table(p)[v[k]] /\ lev[p] = k
    BY <1>1, <1>2, WalkStands
  <1>4. PICK q \in Placed : /\ addr[q] = Pte.base
                            /\ At(lev, place, q, [place[p] EXCEPT ![lev[p]] = v[k]],
                                  lev[p] + 1)
    <2>1. Tree(lev, place)
      BY <1>1 DEF Shape, Walking
    <2>2. lev[p] < Levels
      BY <1>1, <1>2, <1>3
    <2> HIDE DEF k, v
    <2> QED  BY <1>1, <1>3, <2>1, <2>2 DEF Tree
  <1>5. At(lev, place, q, v, k + 1)
    <2>1. place[p] \in Places
      BY <1>3 DEF Shape, Places
    <2> HIDE DEF k, v
    <2> QED  BY <1>1, <1>3, <1>4, <2>1, AtDown
  <1>6. addr[q] \in Frames
    BY PagesAreBlocks DEF RamCore, TypeOK
  <1>7. /\ call'.op = call.op /\ call'.vma = v /\ call'.arg = call.arg
        /\ call'.fresh = call.fresh /\ call'.level = k + 1 /\ call'.at = addr[q]
        /\ call' \in Calls
    <2>1. call' = [call EXCEPT !.at = addr[q], !.level = call.level + 1]
      BY <1>1, <1>4
    <2> QED  BY <1>6, <2>1, CallMoves
  <1>8. UNCHANGED <<pages, addr>>
    BY <1>1 DEF vars, tableVars
  <1>9. CallSound'
    BY <1>1, <1>2, <1>7, <1>8 DEF CallSound, Walking
  <1>10. OnCourse(lev, place)'
    <2>1. q \in Placed' /\ addr'[q] = call'.at
      BY <1>7, <1>8 DEF Placed, Owns
    <2>2. At(lev, place, q, v, k + 1)
      BY <1>5
    <2> HIDE DEF v, k
    <2> QED  BY <1>1, <1>7, <2>1, <2>2 DEF OnCourse
  <1>11. LoadPrefix' /\ (Walking' => ready) /\ call.op # "destroy" /\ call.op # "gone"
    BY <1>1, <1>7 DEF LoadPrefix, Walking, LoadSound
  <1> QED  BY <1>1, <1>7, <1>9, <1>10, <1>11, CallOnly

(* A call that ends. *)
LEMMA ToIdle ==
    ASSUME PtBase, NEW lev, NEW place, Shape(lev, place), call' = Idle,
           UNCHANGED <<vars, tableVars>>, call.op \notin {"destroy", "gone"},
           call.fresh = NULL
    PROVE  Good
  <1>1. /\ call'.op = "idle" /\ call'.fresh = NULL /\ call'.level = 0
        /\ call' \in Calls
    BY PagesAreBlocks DEF Idle, Calls, Ops
  <1>2. CallSound' /\ LoadPrefix' /\ OnCourse(lev, place)' /\ ~Walking'
    BY <1>1 DEF CallSound, LoadPrefix, OnCourse, Walking
  <1> QED  BY <1>1, <1>2, CallOnly

(* get_pte ends without an entry. *)
LEMMA NotFoundGood ==
    ASSUME PtBase, NEW lev, NEW place, Shape(lev, place), NotFound
    PROVE  Good
  BY ToIdle DEF NotFound, Walking

(* A step that does nothing. *)
LEMMA StutterGood ==
    ASSUME PtBase, NEW lev, NEW place, Shape(lev, place), UNCHANGED pvars
    PROVE  Good
  <1> USE DEF PtBase
  <1>1. UNCHANGED <<vars, tableVars, call, addr, pages, loaded, ready>>
    BY DEF pvars, vars, tableVars
  <1>2. /\ RamCore' /\ LockedOwned' /\ OthersData' /\ status' = status
        /\ \A q \in Refs : Undisturbed(q)
        /\ NoStaleTranslation'
    BY <1>1, VarsSame DEF LockedOwned, Undisturbed, Owns, Others, NoStaleTranslation, vars
  <1>3. \A k \in DOMAIN pages : Undisturbed(pages[k])
    BY <1>1, <1>2, PagesAreBlocks DEF Undisturbed
  <1>4. CallSound' /\ (Walking' => ready)
    BY <1>1 DEF CallSound, Walking, Owns, LoadSound
  <1>5. LoadPrefix'
    BY <1>1 DEF LoadPrefix, LoadSound, Resident, Allocated, Swapped, vars
  <1>6. call.op # "destroy" => OnCourse(lev, place)'
    <2>1. call.op # "destroy" => OnCourse(lev, place)
      BY DEF Shape
    <2> QED  BY <1>1, <2>1
        DEF OnCourse, Walking, Placed, Owns, Table, Content, Allocated, Swapped, vars
  <1> QED  BY <1>1, <1>2, <1>3, <1>4, <1>5, <1>6, PagesKept

(* load() has brought every page. *)
LEMMA LoadReturnsGood ==
    ASSUME PtBase, NEW lev, NEW place, Shape(lev, place), LoadReturns
    PROVE  Good
  <1> USE DEF PtBase
  <1>1. /\ call.op = "load" /\ call.level > Len(pages)
        /\ ready' = TRUE /\ call' = Idle
        /\ UNCHANGED <<vars, pages, loaded, addr>>
    BY DEF LoadReturns, vars
  <1>2. call'.op = "idle" /\ call'.fresh = NULL /\ call.fresh = NULL /\ ~Walking'
    BY <1>1 DEF Idle, Walking, CallSound
  <1>3. call' \in Calls
    BY <1>1, PagesAreBlocks DEF Idle, Calls, Ops
  <1>4. CallSound'
    BY <1>1, <1>2, <1>3 DEF CallSound, Walking
  <1>5. /\ RamCore' /\ LockedOwned' /\ OthersData' /\ status' = status
        /\ NoStaleTranslation' /\ \A q \in Refs : Undisturbed(q)
    BY <1>1, <1>2, VarsSame
  <1>6. \A k \in DOMAIN pages : /\ Undisturbed(pages[k])
                                /\ Resident(pages[k]) /\ Locked(pages[k])
    <2> SUFFICES ASSUME NEW k \in DOMAIN pages
                 PROVE  Undisturbed(pages[k]) /\ Resident(pages[k]) /\ Locked(pages[k])
      OBVIOUS
    <2>1. k < call.level /\ pages[k] \in Refs
      <3>1. call.level \in Nat
        BY DEF CallSound, Calls
      <3> QED  BY <1>1, <3>1, PagesAreBlocks
    <2> QED  BY <1>1, <1>5, <2>1 DEF LoadSound, Undisturbed
  <1>7. \A k \in DOMAIN pages' :
            Resident(pages[k])' /\ Locked(pages[k])' /\ Allocated(pages[k])'
    BY <1>1, <1>6 DEF Undisturbed, Resident
  <1>8. LoadSound' /\ ReadyInRam'
    BY <1>1, <1>2, <1>5, <1>7 DEF LoadSound, ReadyInRam
  <1>9. DistinctBases'
    BY <1>1, <1>2 DEF DistinctBases
  <1>10. TableTyped'
    <2> SUFFICES ASSUME NEW p \in TablePages, Owns(p)
                 PROVE  Content(p)' \in Data \X {0}
      BY <1>1, <1>2 DEF TableTyped, Owns
    <2>1. Undisturbed(p)
      BY <1>6 DEF Owns
    <2> QED  BY <1>1, <2>1 DEF TableTyped, Undisturbed
  <1>11. PtBase'
    BY <1>4, <1>5, <1>8, <1>9, <1>10
  <1>12. Placed' = Placed
    BY <1>1, <1>2 DEF Placed, Owns
  <1>13. \A p \in Placed : Content(p)' = Content(p) /\ addr'[p] = addr[p]
    BY <1>5, PagesAreBlocks DEF Undisturbed
  <1>14. Shape(lev, place)' /\ FlatSame
    <2>1. OnCourse(lev, place)'
      BY <1>2 DEF OnCourse
    <2> QED  BY <1>1, <1>2, <1>11, <1>12, <1>13, <2>1, TreeKept
  <1> QED  BY <1>11, <1>14, SameIsStutter DEF Good

-----------------------------------------------------------------------------
(* The destructor *)

(* What holds of the table while it is destroyed. *)
LEMMA Destroying ==
    ASSUME PtBase, NEW lev, NEW place, Shape(lev, place),
           RamCore', OthersData', NoStaleTranslation',
           UNCHANGED tableVars, status # "closed" => status' # "closed",
           call' \in Calls, call'.op = "destroy", call'.level > 0, call'.fresh = NULL
    PROVE  Good
  <1> USE DEF PtBase
  <1>1. UNCHANGED <<pages, loaded, ready>>
    BY DEF tableVars
  <1>2. CallSound' /\ LoadSound'
    BY <1>1 DEF CallSound, Walking, LoadSound
  <1>3. ReadyInRam' /\ DistinctBases' /\ TableTyped'
    BY DEF ReadyInRam, DistinctBases, TableTyped
  <1>4. LockedOwned'
    BY DEF LockedOwned
  <1>5. PtBase' /\ Shape(lev, place)'
    BY <1>2, <1>3, <1>4 DEF Shape
  <1>6. \A v \in Vmas : FlatEntry(v)' = NoEntry
    BY <1>5, FlatIs DEF FlatFacts
  <1>7. [v \in Vmas |-> FlatEntry(v)]' = [v \in Vmas |-> NoEntry]
    BY <1>6
  <1>8. FlatStep
    BY <1>7 DEF FlatStep, Flat!Change, Flat!Clear
  <1> QED  BY <1>5, <1>8 DEF Good

(* A call that goes through the pages begins with the first. *)
LEMMA InOrderIs ==
    ASSUME NEW op \in Ops
    PROVE  /\ InOrder(op).op = op /\ InOrder(op).level = 1 /\ InOrder(op).fresh = NULL
           /\ InOrder(op) \in Calls
  <1>1. InOrder(op) = [op |-> op, vma |-> <<>>, arg |-> 0, level |-> 1, at |-> 0,
                       fresh |-> NULL]
    <2>1. PICK c, n, e, k : c = Idle /\ n = <<>> /\ e = InOrder(op) /\ k = 1
      OBVIOUS
    <2>2. c = [op |-> "idle", vma |-> n, arg |-> 0, level |-> 0, at |-> 0,
               fresh |-> NULL]
      BY <2>1 DEF Idle
    <2>3. e = [c EXCEPT !.op = op, !.level = k]
      BY <2>1 DEF InOrder
    <2>4. e = [op |-> op, vma |-> n, arg |-> 0, level |-> k, at |-> 0, fresh |-> NULL]
      BY <2>2, <2>3
    <2> QED  BY <2>1, <2>4
  <1>2. 0 \in Frames
    BY RamAssumption DEF Frames
  <1> HIDE DEF Ops
  <1>3. InOrder(op) \in Calls
    BY <1>1, <1>2 DEF Calls
  <1> QED  BY <1>1, <1>3

(* The destructor begins. *)
LEMMA DestroyGood ==
    ASSUME PtBase, NEW lev, NEW place, Shape(lev, place), destroy
    PROVE  Good
  <1>1. call' = InOrder("destroy") /\ UNCHANGED <<vars, tableVars>>
    BY DEF destroy
  <1>2. /\ call'.op = "destroy" /\ call'.level > 0 /\ call'.fresh = NULL
        /\ call' \in Calls
    BY <1>1, InOrderIs DEF Ops
  <1>3. RamCore' /\ OthersData' /\ NoStaleTranslation' /\ status' = status
    BY <1>1, VarsSame
  <1> QED  BY <1>1, <1>2, <1>3, Destroying

(* It frees a page. *)
LEMMA DestroyPageGood ==
    ASSUME PtBase, NEW lev, NEW place, Shape(lev, place), DestroyPage
    PROVE  Good
  <1> USE DEF PtBase
  <1> DEFINE p == pages[call.level]
  <1>1. /\ call.op = "destroy" /\ call.level <= Len(pages)
        /\ RamFreeAddress(p) /\ UNCHANGED tableVars
        /\ call' = [call EXCEPT !.level = @ + 1]
    BY DEF DestroyPage
  <1>2. call.level \in Nat \ {0} /\ call \in Calls /\ call.fresh = NULL
    BY <1>1 DEF CallSound, Calls
  <1>3. p \in TablePages /\ p \in Refs /\ p \notin Others
    BY <1>1, <1>2, PagesAreBlocks DEF Others
  <1> HIDE DEF p
  <1>4. RamCore' /\ NoStaleTranslation' /\ Store!Free(p)
    BY <1>1, <1>3, FreeInv DEF CoreKept
  <1>5. /\ flags' = [flags EXCEPT ![p] = {}] /\ status' = status
        /\ said' = [said EXCEPT ![p] = NULL] /\ damaged' = damaged \ {p}
    BY <1>1 DEF RamFreeAddress
  <1>6. \A q \in Refs : q # p => Content(q)' = Content(q)
    <2> SUFFICES ASSUME NEW q \in Refs, q # p  PROVE Content(q)' = Content(q)
      OBVIOUS
    <2>1. [x \in Refs |-> Content(x)]' = [[x \in Refs |-> Content(x)] EXCEPT ![p] = NULL]
      BY <1>4 DEF Store!Free
    <2>2. [x \in Refs |-> Content(x)]'[q] = Content(q)'
      OBVIOUS
    <2> QED  BY <2>1, <2>2
  <1>7. OthersData'
    BY <1>3, <1>5, <1>6 DEF OthersData, Others, RamCore, TypeOK
  <1>9. /\ call'.op = "destroy" /\ call'.level > 0 /\ call'.fresh = NULL
        /\ call' \in Calls
    <2>1. call' = [call EXCEPT !.at = call.at, !.level = call.level + 1]
      BY <1>1, <1>2 DEF Calls
    <2>2. call.at \in Frames
      BY <1>2 DEF Calls
    <2>3. /\ call'.op = call.op /\ call'.fresh = call.fresh
          /\ call'.level = call.level + 1 /\ call' \in Calls
      BY <2>1, <2>2, CallMoves
    <2> QED  BY <1>1, <1>2, <2>3
  <1> QED  BY <1>1, <1>4, <1>5, <1>7, <1>9, Destroying

(* The table is gone. *)
LEMMA DestroyReturnsGood ==
    ASSUME PtBase, NEW lev, NEW place, Shape(lev, place), DestroyReturns
    PROVE  Good
  <1> USE DEF PtBase
  <1>1. /\ call.op = "destroy" /\ pages' = <<>> /\ loaded' = FALSE /\ ready' = FALSE
        /\ call' = Gone /\ UNCHANGED vars
    BY DEF DestroyReturns
  <1>2. call'.op = "gone" /\ call'.fresh = NULL /\ call' \in Calls /\ ~Walking'
    BY <1>1, PagesAreBlocks DEF Gone, Idle, Calls, Ops, Walking
  <1>3. RamCore' /\ OthersData' /\ NoStaleTranslation'
    BY <1>1, <1>2, VarsSame
  <1>4. LockedOwned'
    BY <1>1, <1>2 DEF LockedOwned, Locked, vars
  <1>5. CallSound'
    BY <1>1, <1>2 DEF CallSound, Walking
  <1>6. /\ DOMAIN pages' = {} /\ pages' \in Seq(TablePages)
        /\ \A p \in TablePages : ~Owns(p)'
    BY <1>1 DEF Owns
  <1>7. LoadSound' /\ ReadyInRam' /\ DistinctBases' /\ TableTyped'
    BY <1>1, <1>2, <1>6 DEF LoadSound, ReadyInRam, DistinctBases, TableTyped
  <1>8. PtBase'
    BY <1>3, <1>4, <1>5, <1>7
  <1>9. Placed' = {}
    BY <1>6 DEF Placed
  <1>10. Shape(lev, place)'
    BY <1>1, <1>2, <1>9 DEF Shape, Tree, OnCourse
  <1>11. FlatSame
    BY <1>1, <1>8, <1>10, FlatIs DEF FlatFacts, FlatSame
  <1> QED  BY <1>8, <1>10, <1>11, SameIsStutter DEF Good

-----------------------------------------------------------------------------
(* load and unload *)

(* A change of the lock bits of blocks that exist. *)
LEMMA RelockKeeps ==
    ASSUME RamCore, NEW S \in SUBSET Refs, NEW on \in BOOLEAN,
           \A r \in S : Allocated(r),
           flags' = [r \in Refs |-> IF r \in S THEN IF on THEN flags[r] \cup {"LOCKED"}
                                                    ELSE flags[r] \ {"LOCKED"}
                                    ELSE flags[r]],
           UNCHANGED <<status, addr, pfidx, frames, slotVars, ram, file, clientVars>>
    PROVE  /\ RamCore' /\ (NoStaleTranslation => NoStaleTranslation')
           /\ \A r \in Refs : /\ Content(r)' = Content(r)
                              /\ Allocated(r)' <=> Allocated(r)
                              /\ Resident(r)' <=> Resident(r)
                              /\ Locked(r)' <=> IF r \in S THEN on ELSE Locked(r)
  <1> USE DEF Allocated, Swapped, Locked, Resident
  <1>1. UNCHANGED <<status, addr, pfidx, frames, bits, used, ram, file, view,
                    said, damaged>>
    BY DEF slotVars, clientVars
  <1>2. flags \in [Refs -> SUBSET Flags] /\ \A r \in S : "VALID" \in flags[r]
    BY DEF RamCore, TypeOK, ValidFlag
  <1>3. \A r \in Refs : flags'[r] = IF r \in S THEN IF on THEN flags[r] \cup {"LOCKED"}
                                                   ELSE flags[r] \ {"LOCKED"}
                                   ELSE flags[r]
    OBVIOUS
  <1>4. flags' \in [Refs -> SUBSET Flags]
    BY <1>2 DEF Flags
  <1>5. \A r \in Refs : /\ "VALID" \in flags'[r] <=> "VALID" \in flags[r]
                        /\ "SWAPPED" \in flags'[r] <=> "SWAPPED" \in flags[r]
                        /\ flags'[r] = {} <=> flags[r] = {}
                        /\ Locked(r)' <=> IF r \in S THEN on ELSE Locked(r)
    BY <1>2, <1>3
  <1>6. RamCore'
    <2>1. TypeOK'
      BY <1>1, <1>4 DEF RamCore, TypeOK
    <2>2. ValidFlag' /\ OwnersTranslate' /\ ClosedEmpty'
      BY <1>1, <1>5 DEF RamCore, ValidFlag, OwnersTranslate, ClosedEmpty
    <2>3. FrameOwnership' /\ SlotOwnership'
      BY <1>1, <1>5 DEF RamCore, TypeOK, FrameOwnership, SlotOwnership
    <2> QED  BY <2>1, <2>2, <2>3 DEF RamCore
  <1>7. \A r \in Refs : Content(r)' = Content(r)
    BY <1>1, <1>5 DEF Content
  <1>8. NoStaleTranslation => NoStaleTranslation'
    BY <1>1, <1>5 DEF NoStaleTranslation
  <1> QED  BY <1>5, <1>6, <1>7, <1>8

(* What load() and unload() do before anything else: all the pages of the  *)
(* table are locked, or unlocked.                                          *)
LEMMA RelockGood ==
    ASSUME PtBase, NEW lev, NEW place, Shape(lev, place), NEW on \in BOOLEAN,
           call = Idle, status # "closed", loaded' = on, ready' = FALSE,
           flags' = [r \in Refs |-> IF Owns(r)
                                    THEN IF on THEN flags[r] \cup {"LOCKED"}
                                         ELSE flags[r] \ {"LOCKED"}
                                    ELSE flags[r]],
           UNCHANGED <<status, addr, pfidx, frames, slotVars, ram, file, clientVars,
                       pages>>,
           call' = Idle \/ (on /\ call' = InOrder("load"))
    PROVE  Good
  <1> USE DEF PtBase
  <1> DEFINE S == {r \in Refs : Owns(r)}
  <1>1. call.op = "idle" /\ call.fresh = NULL
    BY DEF Idle
  <1>2. \A r \in S : Allocated(r) /\ r \in TablePages
    BY <1>1, PagesAreBlocks DEF LoadSound, Owns
  <1>3. flags' = [r \in Refs |-> IF r \in S THEN IF on THEN flags[r] \cup {"LOCKED"}
                                                 ELSE flags[r] \ {"LOCKED"}
                                 ELSE flags[r]]
    OBVIOUS
  <1>4. \A r \in Refs : Owns(r) <=> r \in S
    OBVIOUS
  <1> HIDE DEF S
  <1>5. /\ RamCore' /\ NoStaleTranslation'
        /\ \A r \in Refs : /\ Content(r)' = Content(r)
                           /\ Allocated(r)' <=> Allocated(r)
                           /\ Resident(r)' <=> Resident(r)
                           /\ Locked(r)' <=> IF r \in S THEN on ELSE Locked(r)
    <2>1. S \in SUBSET Refs
      BY DEF S
    <2> QED  BY <1>2, <1>3, <2>1, RelockKeeps
  <1>6. UNCHANGED <<status, addr, frames, ram, said, damaged>>
    BY DEF clientVars
  <1>7. /\ call'.op \in {"idle", "load"} /\ call'.fresh = NULL /\ call' \in Calls
        /\ call'.op = "load" => on /\ call'.level = 1
        /\ call'.op = "idle" => call' = Idle
    <2>1. Idle.op = "idle" /\ Idle.fresh = NULL /\ Idle \in Calls
      BY PagesAreBlocks DEF Idle, Calls, Ops
    <2>2. InOrder("load").op = "load" /\ InOrder("load").level = 1
          /\ InOrder("load").fresh = NULL /\ InOrder("load") \in Calls
      BY InOrderIs DEF Ops
    <2> QED  BY <2>1, <2>2
  <1>8. CallSound' /\ ~Walking'
    BY <1>7 DEF CallSound, Walking
  <1>9. \A k \in DOMAIN pages : pages[k] \in S /\ pages[k] \in Refs /\ k \in Nat \ {0}
    BY PagesAreBlocks, <1>4 DEF Owns
  <1>10. \A k \in DOMAIN pages : Allocated(pages[k])' /\ (Locked(pages[k])' <=> on)
    BY <1>2, <1>5, <1>9
  <1>11. LoadSound'
    <2>1. \A k \in DOMAIN pages : ~(k < 1)
      BY <1>9
    <2>2. pages' \in Seq(TablePages)
      BY DEF LoadSound
    <2> QED  BY <1>6, <1>7, <1>8, <1>10, <2>1, <2>2 DEF LoadSound
  <1>12. ReadyInRam'
    BY DEF ReadyInRam
  <1>13. DistinctBases'
    BY <1>1, <1>6 DEF DistinctBases
  <1>14. LockedOwned'
    <2>1. \A p \in TablePages : p \in Refs /\ (Owns(p)' <=> Owns(p))
      BY PagesAreBlocks DEF Owns
    <2> QED  BY <1>1, <1>4, <1>5, <2>1 DEF LockedOwned
  <1>16. TableTyped'
    <2>1. \A p \in TablePages : p \in Refs /\ (Owns(p)' <=> Owns(p))
      BY PagesAreBlocks DEF Owns
    <2> QED  BY <1>1, <1>5, <1>7, <2>1 DEF TableTyped
  <1>17. OthersData'
    BY <1>5, <1>6 DEF OthersData, Others
  <1>18. PtBase'
    BY <1>5, <1>8, <1>11, <1>12, <1>13, <1>14, <1>16, <1>17
  <1>19. Placed' = Placed
    BY <1>1, <1>7 DEF Placed, Owns
  <1>20. Shape(lev, place)' /\ FlatSame
    <2>1. OnCourse(lev, place)' /\ call'.op # "destroy"
      BY <1>7, <1>8 DEF OnCourse
    <2>2. \A p \in Placed : Content(p)' = Content(p) /\ addr'[p] = addr[p]
      BY <1>5, <1>6, PagesAreBlocks
    <2> QED  BY <1>1, <1>18, <1>19, <2>1, <2>2, TreeKept
  <1> QED  BY <1>18, <1>20, SameIsStutter DEF Good

(* load() begins by locking the pages, unload() unlocks them. *)
LEMMA LoadMarkGood ==
    ASSUME PtBase, NEW lev, NEW place, Shape(lev, place), LoadMark \/ unload
    PROVE  Good
  <1>1. CASE LoadMark
    <2> DEFINE on == TRUE
    <2>1. /\ call = Idle /\ status # "closed" /\ loaded' = on /\ ready' = FALSE
          /\ call' = Idle \/ (on /\ call' = InOrder("load"))
          /\ UNCHANGED <<status, addr, pfidx, frames, slotVars, ram, file, clientVars,
                         pages>>
      BY <1>1 DEF LoadMark
    <2>2. flags' = [r \in Refs |-> IF Owns(r) THEN IF on THEN flags[r] \cup {"LOCKED"}
                                                   ELSE flags[r] \ {"LOCKED"}
                                   ELSE flags[r]]
      BY <1>1 DEF LoadMark, Owns
    <2>3. on \in BOOLEAN
      OBVIOUS
    <2> HIDE DEF on
    <2> QED  BY <2>1, <2>2, <2>3, RelockGood
  <1>2. CASE unload
    <2> DEFINE on == FALSE
    <2>1. /\ call = Idle /\ loaded /\ loaded' = on /\ ready' = FALSE
          /\ call' = Idle \/ (on /\ call' = InOrder("load"))
          /\ UNCHANGED <<status, addr, pfidx, frames, slotVars, ram, file, clientVars,
                         pages>>
      BY <1>2 DEF unload
    <2>2. flags' = [r \in Refs |-> IF Owns(r) THEN IF on THEN flags[r] \cup {"LOCKED"}
                                                   ELSE flags[r] \ {"LOCKED"}
                                   ELSE flags[r]]
      BY <1>2 DEF unload, Owns
    <2>3. on \in BOOLEAN
      OBVIOUS
    <2>4. status # "closed"
      BY <2>1 DEF PtBase, LoadSound
    <2> HIDE DEF on
    <2> QED  BY <2>1, <2>2, <2>3, <2>4, RelockGood
  <1> QED  BY <1>1, <1>2

(* The locks stay as they are, and the blocks of the others theirs. *)
LEMMA AroundKept ==
    ASSUME PtBase, pages' = pages,
           call'.op \in {"destroy", "gone"} \/ call.op \notin {"destroy", "gone"}
    PROVE  /\ (\A q \in TablePages : Locked(q)' <=> Locked(q)) => LockedOwned'
           /\ (\A q \in Others : /\ q \in damaged => q \in damaged'
                                 /\ Content(q)' = Content(q) /\ said'[q] = said[q])
                 => OthersData'
  <1> USE DEF PtBase
  <1>1. (\A q \in TablePages : Locked(q)' <=> Locked(q)) => LockedOwned'
    BY DEF LockedOwned, Owns
  <1>2. (\A q \in Others : /\ q \in damaged => q \in damaged'
                           /\ Content(q)' = Content(q) /\ said'[q] = said[q])
                 => OthersData'
    BY DEF OthersData
  <1> QED  BY <1>1, <1>2

(* load() brings the next page, or gives up. *)
LEMMA LoadPageGood ==
    ASSUME Usage, PtBase, NEW lev, NEW place, Shape(lev, place), LoadPage
    PROVE  Good
  <1> USE DEF PtBase
  <1> DEFINE k == call.level
  <1>1. PICK p : p = pages[k]
    OBVIOUS
  <1>2. /\ call.op = "load" /\ k <= Len(pages) /\ UNCHANGED tableVars
        /\ \/ /\ ~Swapped(p) /\ UNCHANGED vars
              /\ call' = [call EXCEPT !.level = @ + 1]
           \/ /\ RamSwapIn(p)
              /\ call' = IF "SWAPPED" \in flags'[p] THEN Idle
                         ELSE [call EXCEPT !.level = @ + 1]
           \/ UNCHANGED vars /\ call' = Idle
    BY <1>1 DEF LoadPage
  <1>3. k \in Nat \ {0} /\ call \in Calls /\ call.fresh = NULL
    BY <1>2 DEF CallSound, Calls
  <1>4. /\ k \in DOMAIN pages /\ p \in Refs /\ p \in TablePages
        /\ Allocated(p) /\ Locked(p) /\ loaded
    BY <1>1, <1>2, <1>3, PagesAreBlocks DEF LoadSound
  <1>5. UNCHANGED <<pages, loaded, ready>>
    BY <1>2 DEF tableVars
  <1>6. \/ call' = Idle /\ call'.op = "idle" /\ call'.fresh = NULL /\ call' \in Calls
        \/ /\ call' \in Calls /\ call'.op = "load" /\ call'.level = k + 1
           /\ call'.fresh = NULL
           /\ call' = [call EXCEPT !.level = @ + 1]
    <2>1. Idle.op = "idle" /\ Idle.fresh = NULL /\ Idle \in Calls
      BY PagesAreBlocks DEF Idle, Calls, Ops
    <2>2. ASSUME call' = [call EXCEPT !.level = @ + 1]
          PROVE  /\ call' \in Calls /\ call'.op = "load" /\ call'.level = k + 1
                 /\ call'.fresh = NULL
      <3>1. call' = [call EXCEPT !.at = call.at, !.level = call.level + 1]
        BY <1>3, <2>2 DEF Calls
      <3>2. call.at \in Frames
        BY <1>3 DEF Calls
      <3>3. /\ call'.op = call.op /\ call'.fresh = call.fresh
            /\ call'.level = call.level + 1 /\ call' \in Calls
        BY <3>1, <3>2, CallMoves
      <3> QED  BY <1>2, <1>3, <3>3
    <2> QED  BY <1>2, <2>1, <2>2
  <1>7. CallSound' /\ ~Walking' /\ call'.op \notin {"destroy", "gone"}
    BY <1>3, <1>6 DEF CallSound, Walking
  <1>8. /\ RamCore' /\ LockedOwned' /\ OthersData' /\ NoStaleTranslation'
        /\ status' = status /\ \A q \in Refs : Undisturbed(q)
        /\ call' # Idle => Resident(p)'
    <2>1. CASE UNCHANGED vars
      <3>1. call' # Idle => ~Swapped(p) \/ RamSwapIn(p)
        BY <1>2
      <3>2. call' # Idle => Resident(p)'
        <4>1. RamSwapIn(p) => call' = Idle
          BY <1>2, <2>1 DEF RamSwapIn, Swapped, vars
        <4> QED  BY <1>4, <2>1, <3>1, <4>1 DEF Resident, Allocated, Swapped, vars
      <3> QED  BY <1>2, <1>5, <1>7, <2>1, <3>2, VarsSame
    <2>2. CASE RamSwapIn(p)
      <3>1. /\ CoreKept /\ status' = status
            /\ UNCHANGED <<said, damaged>>
            /\ \A q \in Refs : Undisturbed(q)
            /\ Resident(p)' \/ "SWAPPED" \in flags'[p]
        BY <1>4, <2>2, SwapMoves
      <3>2. call' # Idle => Resident(p)'
        <4>1. "SWAPPED" \in flags'[p] => call' = Idle
          BY <1>2, <2>2 DEF RamSwapIn
        <4> QED  BY <3>1, <4>1
      <3>3. \A q \in Others : /\ q \in damaged => q \in damaged'
                              /\ Content(q)' = Content(q) /\ said'[q] = said[q]
        BY <3>1 DEF Undisturbed, Others
      <3>4. \A q \in TablePages : Locked(q)' <=> Locked(q)
        BY <3>1, PagesAreBlocks DEF Undisturbed
      <3>5. LockedOwned' /\ OthersData'
        <4>1. call.op \notin {"destroy", "gone"}
          BY <1>2
        <4> QED  BY <1>5, <3>1, <3>3, <3>4, <4>1, AroundKept
      <3> QED  BY <3>1, <3>2, <3>5 DEF CoreKept
    <2> QED  BY <1>2, <2>1, <2>2
  <1>9. \A j \in DOMAIN pages : /\ Undisturbed(pages[j])
                                /\ j < k => Resident(pages[j])'
    <2> SUFFICES ASSUME NEW j \in DOMAIN pages
                 PROVE  /\ Undisturbed(pages[j])
                        /\ j < k => Resident(pages[j])'
      OBVIOUS
    <2>1. PICK q \in Refs : q = pages[j] /\ q = pages'[j]
      BY <1>5, PagesAreBlocks
    <2>2. Undisturbed(q) /\ Locked(q) /\ (j < k => Resident(q))
      BY <1>2, <1>4, <1>8, <2>1 DEF LoadSound
    <2> QED  BY <2>1, <2>2 DEF Undisturbed, Resident, Allocated, Swapped
  <1>10. LoadPrefix'
    <2> SUFFICES ASSUME call'.op = "load", NEW j \in DOMAIN pages, j < call'.level
                 PROVE  Resident(pages[j])'
      BY <1>4, <1>5 DEF LoadPrefix
    <2>1. call' # Idle /\ call'.level = k + 1
      BY <1>6 DEF Idle
    <2>2. j = k \/ j < k
      BY <1>3, <2>1, PagesAreBlocks
    <2> QED  BY <1>1, <1>5, <1>8, <1>9, <2>1, <2>2 DEF Resident, Allocated, Swapped
  <1>11. OnCourse(lev, place)' /\ call'.fresh = call.fresh
    BY <1>3, <1>6, <1>7 DEF OnCourse
  <1> QED  BY <1>2, <1>7, <1>8, <1>9, <1>10, <1>11, PagesKept

-----------------------------------------------------------------------------
(* Steps of the other clients, and allocations that fail *)

(* The table stands still and its pages keep what they hold. *)
LEMMA StandsStill ==
    ASSUME PtBase, NEW lev, NEW place, Shape(lev, place),
           UNCHANGED <<tableVars, call>>, status # "closed" => status' # "closed",
           RamCore', LockedOwned', OthersData', NoStaleTranslation',
           \A q \in TablePages : Undisturbed(q)
    PROVE  Good
  <1> USE DEF PtBase
  <1>1. UNCHANGED <<pages, loaded, ready, call>>
    BY DEF tableVars
  <1>2. \A k \in DOMAIN pages : Undisturbed(pages[k])
    BY <1>1, PagesAreBlocks DEF Undisturbed
  <1>3. CallSound' /\ (Walking' => ready)
    BY <1>1 DEF CallSound, Walking, Owns, LoadSound
  <1>4. LoadPrefix'
    <2> SUFFICES ASSUME call.op = "load", NEW j \in DOMAIN pages, j < call.level
                 PROVE  loaded /\ Resident(pages[j])'
      BY <1>1 DEF LoadPrefix, LoadSound
    <2>1. loaded /\ Resident(pages[j]) /\ Locked(pages[j])
      BY DEF LoadSound
    <2> QED  BY <1>2, <2>1 DEF Undisturbed
  <1>5. call.op # "destroy" => OnCourse(lev, place)'
    <2> SUFFICES ASSUME Walking, call.level > 0
                 PROVE  \E p \in Placed' :
                           /\ At(lev, place, p, call.vma, call.level)
                           /\ addr'[p] = call.at
                           /\ call.fresh # NULL => ~Table(p)'[call.vma[call.level]].P
      BY <1>1 DEF OnCourse, Walking
    <2>1. PICK p \in Placed :
              /\ At(lev, place, p, call.vma, call.level)
              /\ addr[p] = call.at
              /\ call.fresh # NULL => ~Table(p)[call.vma[call.level]].P
      BY DEF Shape, OnCourse, Walking
    <2>2. p \in Placed'
      BY <1>1 DEF Placed, Owns
    <2>3. addr'[p] = addr[p] /\ Table(p)' = Table(p)
      BY DEF Undisturbed, Placed, Table
    <2> QED  BY <2>1, <2>2, <2>3
  <1> QED  BY <1>1, <1>2, <1>3, <1>4, <1>5, PagesKept

(* RamSwapOut takes r out of RAM, or fails without a trace. *)
LEMMA OutMoves ==
    ASSUME Usage, RamCore, NEW r \in Refs, NEW bForce, RamSwapOut(r, bForce)
    PROVE  \A q \in Refs : q # r => Undisturbed(q)
  <1> USE RamAssumption DEF RamCore, TypeOK
  <1>1. PICK i, s : /\ i = addr[r]
                    /\ \/ /\ flags' = [flags EXCEPT ![r] = @ \cup {"SWAPPED"}]
                          /\ UNCHANGED <<addr, said, damaged>>
                       \/ /\ StoreFails(s, i, {r})
                          /\ UNCHANGED <<refVars, said>>
    BY DEF RamSwapOut, SwapOutBody
  <1>2. CASE /\ flags' = [flags EXCEPT ![r] = @ \cup {"SWAPPED"}]
             /\ UNCHANGED <<addr, said, damaged>>
    <2>1. ContentKept \/ Store!Damage({r})
      BY SwapOutBodyInv DEF RamSwapOut
    <2>2. \A q \in Refs : q # r => Content(q)' = Content(q)
      <3> SUFFICES ASSUME NEW q \in Refs, q # r  PROVE Content(q)' = Content(q)
        OBVIOUS
      <3>1. [x \in Refs |-> Content(x)][q] = Content(q)
            /\ [x \in Refs |-> Content(x)]'[q] = Content(q)'
        OBVIOUS
      <3> QED  BY <2>1, <3>1 DEF ContentKept, Store!Damage
    <2> QED  BY <1>2, <2>2 DEF Undisturbed, Allocated, Locked, Resident, Swapped
  <1>3. CASE StoreFails(s, i, {r}) /\ UNCHANGED <<refVars, said>>
    <2>1. UNCHANGED <<flags, addr, pfidx, ram, file, said>>
      BY <1>3 DEF StoreFails, Usage, refVars
    <2> QED  BY <2>1 DEF Undisturbed, Content, Allocated, Locked, Resident, Swapped
  <1> QED  BY <1>1, <1>2, <1>3

(* A call of another client leaves the blocks of everyone else in place,   *)
(* and the others' data intact.                                            *)
LEMMA OtherMoves ==
    ASSUME Usage, RamCore, NoStaleTranslation, NEW r \in Refs, OtherCall(r)
    PROVE  /\ RamCore' /\ NoStaleTranslation' /\ status' = status
           /\ \A q \in Refs : Intact(q) => Intact(q)'
           /\ \A q \in Refs : q # r => Undisturbed(q)
  <1>1. RamInv /\ TypeOK
    BY DEF RamInv, RamCore
  <1>2. RefNext(r) /\ status' = status
    <2>1. RefNext(r)
      BY PageTableAssumption DEF OtherCall, RefNext
    <2>2. status' = status
      BY DEF OtherCall, RamAllocAddress, AllocFree, AllocEvict, AllocStoreFails,
             TakeFrame, RamFreeAddress, RamSwapOut, SwapOutBody, RamSwapIn, SwapInBody,
             SwapRamAndPageFile, LoadIntoFree, Exchange, ExchangeStoreFails,
             LockRef, UnlockRef, Translate, ClientWrite
    <2> QED  BY <2>1, <2>2
  <1>3. RamInv' /\ [Store!Next]_(Store!svars)
    BY <1>1, <1>2, RamStep DEF Next
  <1>4. \A q \in Refs : Intact(q) => Intact(q)'
    BY <1>1, <1>3, StoreKeepsIntact
  <1>5. \A q \in Refs : q # r => Undisturbed(q)
    <2>1. ASSUME NEW lock \in SUBSET {"LOCKED"}, RamAllocAddress(r, lock)
          PROVE  \A q \in Refs : q # r => Undisturbed(q)
      BY <2>1, AllocMoves
    <2>2. CASE RamFreeAddress(r)
      <3>1. \A q \in Refs : q # r => Content(q)' = Content(q)
        BY <2>2, FreeInv, OneContent
      <3>2. /\ flags' = [flags EXCEPT ![r] = {}] /\ addr' = [addr EXCEPT ![r] = 0]
            /\ said' = [said EXCEPT ![r] = NULL]
        BY <2>2 DEF RamFreeAddress
      <3> QED  BY <1>1, <3>1, <3>2
               DEF TypeOK, Undisturbed, Allocated, Locked, Resident, Swapped
    <2>3. ASSUME NEW bForce \in BOOLEAN, RamSwapOut(r, bForce)
          PROVE  \A q \in Refs : q # r => Undisturbed(q)
      BY <2>3, OutMoves
    <2>4. CASE RamSwapIn(r)
      BY <2>4, SwapMoves
    <2>5. CASE LockRef(r) \/ UnlockRef(r) \/ Translate(r)
      <3>1. ContentKept
        BY <2>5, LockInv, TranslateInv
      <3>2. /\ \A q \in Refs : q # r => flags'[q] = flags[q]
            /\ UNCHANGED <<addr, said>>
        BY <1>1, <2>5 DEF LockRef, UnlockRef, Translate, TypeOK, clientVars, refVars
      <3> QED  BY <3>1, <3>2
               DEF ContentKept, Undisturbed, Allocated, Locked, Resident, Swapped
    <2>6. ASSUME NEW d \in Written, ClientWrite(r, d)
          PROVE  \A q \in Refs : q # r => Undisturbed(q)
      <3>1. \A q \in Refs : q # r => Content(q)' = Content(q)
        <4>1. d \in Data
          BY PageTableAssumption
        <4>2. Store!Write(r, <<d, 0>>)
          BY <1>1, <2>6, <4>1, ClientWriteInv
        <4> QED  BY <4>2, OneContent
      <3>2. /\ UNCHANGED <<flags, addr>>
            /\ said' = [said EXCEPT ![r] = <<d, 0>>]
        BY <2>6 DEF ClientWrite, refVars
      <3> QED  BY <1>1, <3>1, <3>2
               DEF TypeOK, Undisturbed, Allocated, Locked, Resident, Swapped
    <2> QED  BY <2>1, <2>2, <2>3, <2>4, <2>5, <2>6 DEF OtherCall
  <1> QED  BY <1>2, <1>3, <1>4, <1>5 DEF RamInv

(* Another client opens the manager, or calls it for a block of its own. *)
LEMMA OtherGood ==
    ASSUME Usage, PtBase, NEW lev, NEW place, Shape(lev, place), OtherNext
    PROVE  Good
  <1> USE DEF PtBase
  <1>1. UNCHANGED <<tableVars, call>> /\ UNCHANGED <<pages, loaded, ready>>
    BY DEF OtherNext, tableVars
  <1>2. TablePages \subseteq Refs /\ \A r \in Others : r \in Refs /\ r \notin TablePages
    BY PagesAreBlocks DEF Others
  <1>3. CASE Create
    <2>1. RamCore' /\ NoStaleTranslation'
      BY <1>3, CreateInv DEF CoreKept
    <2>2. /\ \A r \in Refs : ~Allocated(r)
          /\ UNCHANGED <<flags, addr, frames, said, damaged>>
          /\ ram' = [i \in Frames |-> ZeroPage] /\ status = "closed" /\ status' # "closed"
      BY <1>3 DEF Create, RamCore, ClosedEmpty, refVars, clientVars
    <2>3. \A q \in Refs : Undisturbed(q)
      BY <2>2 DEF Undisturbed, Content, Allocated, Locked, Resident, Swapped
    <2>4. LockedOwned'
      BY <1>1, <2>2 DEF LockedOwned, Locked, Owns
    <2>5. OthersData'
      BY <1>2, <2>2, <2>3 DEF OthersData, Undisturbed
    <2> QED  BY <1>1, <1>2, <2>1, <2>2, <2>3, <2>4, <2>5, StandsStill
  <1>4. ASSUME NEW r \in Others, OtherCall(r)  PROVE Good
    <2>1. /\ RamCore' /\ NoStaleTranslation' /\ status' = status
          /\ \A q \in Refs : Intact(q) => Intact(q)'
          /\ \A q \in TablePages : Undisturbed(q)
      BY <1>2, <1>4, OtherMoves
    <2>2. OthersData'
      BY <1>2, <2>1 DEF OthersData, Intact
    <2>3. LockedOwned'
      BY <1>1, <2>1 DEF LockedOwned, Undisturbed, Owns
    <2> QED  BY <1>1, <2>1, <2>2, <2>3, StandsStill
  <1> QED  BY <1>3, <1>4 DEF OtherNext

(* A page of the table that cannot be had: the call ends, and what it has  *)
(* added stays.                                                            *)
LEMMA AllocPageFailsGood ==
    ASSUME Usage, PtBase, NEW lev, NEW place, Shape(lev, place),
           NEW p \in TablePages, AllocPageFails(p)
    PROVE  Good
  <1> USE DEF PtBase
  <1>1. /\ call.op = "vmmap" /\ call.fresh = NULL /\ UNCHANGED tableVars
        /\ call' = IF call.level = 0 THEN Crashed ELSE Idle
        /\ \/ alloc_pgt_block(p) /\ flags'[p] = {}
           \/ UNCHANGED vars
    BY DEF AllocPageFails, NeedsPage
  <1>2. UNCHANGED <<pages, loaded, ready>>
    BY <1>1 DEF tableVars
  <1>3. /\ call'.op \in {"idle", "crashed"} /\ call'.fresh = NULL /\ call' \in Calls
        /\ \/ call' = Crashed /\ call.level = 0
           \/ call' = Idle /\ call'.op = "idle"
    <2>1. /\ Idle.op = "idle" /\ Idle.fresh = NULL /\ Idle \in Calls
          /\ Crashed.op = "crashed" /\ Crashed.fresh = NULL /\ Crashed \in Calls
      BY PagesAreBlocks DEF Idle, Crashed, Calls, Ops
    <2> QED  BY <1>1, <2>1
  <1>4. call.level = 0 => pages = <<>>
    BY <1>1 DEF CallSound, Walking
  <1>5. CallSound' /\ ~Walking' /\ LoadPrefix' /\ OnCourse(lev, place)'
    BY <1>2, <1>3, <1>4 DEF CallSound, Walking, LoadPrefix, OnCourse
  <1>6. /\ RamCore' /\ LockedOwned' /\ OthersData' /\ NoStaleTranslation'
        /\ status' = status /\ \A q \in Refs : Undisturbed(q)
    <2>1. CASE UNCHANGED vars
      BY <1>1, <1>2, <1>3, <2>1, VarsSame
    <2>2. CASE alloc_pgt_block(p) /\ flags'[p] = {}
      <3>1. p \in Refs
        BY PagesAreBlocks
      <3>2. PICK lock \in SUBSET {"LOCKED"} : RamAllocAddress(p, lock)
        BY <2>2 DEF alloc_pgt_block
      <3>3. /\ CoreKept /\ status' = status
            /\ (\A q \in Refs : Undisturbed(q)) /\ damaged' = damaged
        BY <2>2, <3>1, <3>2, AllocMoves
      <3>4. /\ \A q \in TablePages : Locked(q)' <=> Locked(q)
            /\ \A q \in Others : Content(q)' = Content(q) /\ said'[q] = said[q]
        BY <3>3, PagesAreBlocks DEF Undisturbed, Others
      <3>5. LockedOwned' /\ OthersData'
        BY <1>1, <1>2, <3>3, <3>4, AroundKept
      <3> QED  BY <3>3, <3>5 DEF CoreKept
    <2> QED  BY <1>1, <2>1, <2>2
  <1>7. \A k \in DOMAIN pages : Undisturbed(pages[k])
    BY <1>2, <1>6, PagesAreBlocks DEF Undisturbed
  <1> QED  BY <1>1, <1>3, <1>5, <1>6, <1>7, PagesKept

-----------------------------------------------------------------------------
(* vmmap adds a page *)

(* A call that changes where it is. *)
LEMMA CallSet ==
    ASSUME PtBase, NEW at \in Frames, NEW n \in Nat, NEW q \in TablePages \cup {NULL},
           call' = [call EXCEPT !.at = at, !.level = n, !.fresh = q]
    PROVE  /\ call'.op = call.op /\ call'.vma = call.vma /\ call'.arg = call.arg
           /\ call'.fresh = q /\ call'.level = n
           /\ call'.at = at /\ call' \in Calls
  <1>1. call \in Calls
    BY DEF PtBase, CallSound
  <1>2. PICK o \in Ops, v \in Vmas \cup {<<>>}, a \in Pmas \cup {0, 1}, k \in Nat,
             i \in Frames, f \in TablePages \cup {NULL} :
               call = [op |-> o, vma |-> v, arg |-> a, level |-> k, at |-> i,
                       fresh |-> f]
    BY <1>1 DEF Calls
  <1>3. call' = [op |-> o, vma |-> v, arg |-> a, level |-> n, at |-> at,
                 fresh |-> q]
    BY <1>2
  <1> HIDE DEF Ops
  <1>4. call' \in Calls
    BY <1>3 DEF Calls
  <1> QED  BY <1>2, <1>3, <1>4

(* The zeroed page is a table without entries. *)
LEMMA ZeroTable ==
    /\ ZeroPage \in Data \X {0} /\ ZeroPage[1] = Zero
    /\ \A x \in Index : Zero[x] = NoEntry /\ ~NoEntry.P /\ NoEntry \in Entry
  <1>1. \A x \in Index : Zero[x] = NoEntry /\ ~NoEntry.P
    BY PageTableAssumption DEF NoEntry
  <1>2. NoEntry \in Entry
    BY RamAssumption DEF NoEntry, Entry, Frames
  <1> QED  BY <1>1, <1>2, RamAssumption DEF ZeroPage

(* A new page is appended to the table. *)
LEMMA AppendPage ==
    ASSUME PtBase, NEW p \in TablePages, pages' = Append(pages, p)
    PROVE  /\ pages' \in Seq(TablePages) /\ pages' # <<>>
           /\ \A k \in DOMAIN pages' :
                 \/ k \in DOMAIN pages /\ pages'[k] = pages[k]
                 \/ k = Len(pages) + 1 /\ pages'[k] = p
           /\ \A q : Owns(q)' <=> Owns(q) \/ q = p
           /\ pages # <<>> => pages'[1] = pages[1]
           /\ pages = <<>> => pages'[1] = p
  <1>1. pages \in Seq(TablePages) /\ pages' \in Seq(TablePages)
    BY DEF PtBase, LoadSound
  <1>2. /\ Len(pages') = Len(pages) + 1 /\ pages'[Len(pages) + 1] = p
        /\ \A k \in 1 .. Len(pages) : pages'[k] = pages[k]
        /\ Len(pages) \in Nat
        /\ DOMAIN pages = 1 .. Len(pages) /\ DOMAIN pages' = 1 .. Len(pages) + 1
    BY <1>1
  <1>3. \A k \in DOMAIN pages' :
                 \/ k \in DOMAIN pages /\ pages'[k] = pages[k]
                 \/ k = Len(pages) + 1 /\ pages'[k] = p
    BY <1>2
  <1>4. \A k \in DOMAIN pages : k \in DOMAIN pages' /\ pages'[k] = pages[k]
    BY <1>2
  <1>5. Len(pages) + 1 \in DOMAIN pages'
    BY <1>2
  <1>6. \A q : Owns(q)' <=> Owns(q) \/ q = p
    BY <1>2, <1>3, <1>4, <1>5 DEF Owns
  <1>7. pages' # <<>>
    BY <1>1, <1>2, EmptySeq
  <1>8. pages # <<>> => pages'[1] = pages[1]
    BY <1>4, PagesAreBlocks
  <1>9. pages = <<>> => pages'[1] = p
    <2>1. pages = <<>> => Len(pages) = 0
      OBVIOUS
    <2> QED  BY <1>2, <2>1
  <1> QED  BY <1>1, <1>3, <1>6, <1>7, <1>8, <1>9

(* What holds of the table when a page has been added. *)
LEMMA AllocPageBase ==
    ASSUME Usage, PtBase, NEW lev, NEW place, Shape(lev, place),
           NEW p \in TablePages, AllocPage(p)
    PROVE  /\ RamCore' /\ CallSound' /\ LoadSound' /\ ReadyInRam' /\ DistinctBases'
           /\ LockedOwned' /\ NoStaleTranslation' /\ OthersData'
           /\ Content(p)' = ram'[addr'[p]] /\ ~Owns(p) /\ p # NULL
           /\ Content(p)' = ZeroPage => TableTyped'
           /\ \A q \in TablePages : Owns(q)' <=> Owns(q) \/ q = p
           /\ \A q \in TablePages : Owns(q) => Undisturbed(q)
           /\ call'.vma = call.vma /\ call'.op = "vmmap"
           /\ IF call.level = 0
              THEN call'.level = 1 /\ call'.fresh = NULL /\ call'.at = addr'[p]
              ELSE /\ call'.level = call.level /\ call'.fresh = p
                   /\ call'.at = call.at
  <1> USE DEF PtBase
  <1>1. /\ call.op = "vmmap" /\ call.fresh = NULL
        /\ call.level \in 0 .. Levels - 1
        /\ alloc_pgt_block(p) /\ flags'[p] # {}
        /\ pages' = Append(pages, p)
        /\ call' = IF call.level = 0
                   THEN [call EXCEPT !.level = 1, !.at = addr'[p]]
                   ELSE [call EXCEPT !.fresh = p]
        /\ UNCHANGED <<loaded, ready>>
    BY DEF AllocPage, NeedsPage
  <1>2. ready /\ loaded /\ Walking /\ p \in Refs /\ p # NULL
    BY <1>1, PagesAreBlocks, RamAssumption DEF Walking, LoadSound
  <1>3. RamAllocAddress(p, {"LOCKED"})
    BY <1>1, <1>2 DEF alloc_pgt_block
  <1>4. /\ CoreKept /\ status' = status /\ status # "closed"
        /\ ~Allocated(p)
        /\ \A q \in Refs : q # p => Undisturbed(q)
        /\ Given(p, {"LOCKED"})
    BY <1>1, <1>2, <1>3, AllocMoves
  <1>5. \A k \in DOMAIN pages :
            /\ pages[k] \in Refs /\ pages[k] \in TablePages /\ pages[k] # p
            /\ Allocated(pages[k]) /\ Locked(pages[k]) /\ Resident(pages[k])
    BY <1>1, <1>2, <1>4, PagesAreBlocks DEF LoadSound, ReadyInRam
  <1>6. ~Owns(p) /\ \A q \in TablePages : Owns(q) => q \in Refs /\ q # p /\ Undisturbed(q)
    BY <1>4, <1>5 DEF Owns
  <1>7. /\ pages' \in Seq(TablePages) /\ pages' # <<>>
        /\ \A k \in DOMAIN pages' :
              \/ k \in DOMAIN pages /\ pages'[k] = pages[k]
              \/ k = Len(pages) + 1 /\ pages'[k] = p
        /\ \A q : Owns(q)' <=> Owns(q) \/ q = p
    BY <1>1, AppendPage
  <1>8. /\ call'.vma = call.vma /\ call'.op = "vmmap" /\ call' \in Calls
        /\ call'.arg = call.arg
        /\ IF call.level = 0
           THEN call'.level = 1 /\ call'.fresh = NULL /\ call'.at = addr'[p]
           ELSE /\ call'.level = call.level /\ call'.fresh = p
                /\ call'.at = call.at
    <2>1. call \in Calls /\ addr' \in [Refs -> Frames]
      BY <1>4 DEF CallSound, CoreKept, RamCore, TypeOK
    <2>2. CASE call.level = 0
      <3>1. PICK i \in Frames : i = addr'[p]
        BY <1>2, <2>1
      <3>2. call' = [call EXCEPT !.at = i, !.level = 1, !.fresh = NULL]
        BY <1>1, <2>1, <2>2, <3>1 DEF Calls
      <3>3. 1 \in Nat /\ NULL \in TablePages \cup {NULL}
        OBVIOUS
      <3>4. /\ call'.op = call.op /\ call'.vma = call.vma /\ call'.arg = call.arg
            /\ call'.fresh = NULL /\ call'.level = 1
            /\ call'.at = i /\ call' \in Calls
        <4> HIDE DEF PtBase
        <4> QED  BY <3>2, <3>3, CallSet
      <3> QED  BY <1>1, <2>2, <3>1, <3>4
    <2>3. CASE call.level # 0
      <3>1. call' = [call EXCEPT !.at = call.at, !.level = call.level, !.fresh = p]
        BY <1>1, <2>1, <2>3 DEF Calls
      <3>2. call.at \in Frames /\ call.level \in Nat
        BY <2>1 DEF Calls
      <3>3. /\ call'.op = call.op /\ call'.vma = call.vma /\ call'.arg = call.arg
            /\ call'.fresh = p /\ call'.level = call.level
            /\ call'.at = call.at /\ call' \in Calls
        <4> HIDE DEF PtBase
        <4> QED  BY <3>1, <3>2, CallSet
      <3> QED  BY <1>1, <2>3, <3>3
    <2> QED  BY <2>2, <2>3
  <1>9. Content(p)' = ram'[addr'[p]]
    BY <1>4 DEF Given, Content, Resident
  <1>10. CallSound'
    <2>1. Levels \in Nat \ {0} /\ call.level \in Nat
      BY <1>1, PageTableAssumption
    <2>2. call.vma \in Vmas /\ call.arg \in Pmas
      BY <1>1, <1>2 DEF CallSound
    <2> QED  BY <1>1, <1>2, <1>7, <1>8, <2>1, <2>2 DEF CallSound, Walking
  <1>11. \A k \in DOMAIN pages' :
            Allocated(pages[k])' /\ Locked(pages[k])' /\ Resident(pages[k])'
    <2> SUFFICES ASSUME NEW k \in DOMAIN pages'
                 PROVE  Allocated(pages[k])' /\ Locked(pages[k])' /\ Resident(pages[k])'
      OBVIOUS
    <2>1. PICK q : q = pages'[k]
      OBVIOUS
    <2>2. Allocated(q)' /\ Locked(q)' /\ Resident(q)'
      <3>1. CASE q = p
        BY <1>4, <3>1 DEF Given, Resident
      <3>2. CASE q # p
        <4>1. q \in Refs /\ Allocated(q) /\ Locked(q) /\ Resident(q)
          BY <1>5, <1>7, <2>1, <3>2
        <4> QED  BY <1>4, <3>2, <4>1 DEF Undisturbed
      <3> QED  BY <3>1, <3>2
    <2> QED  BY <2>1, <2>2 DEF Allocated, Locked, Resident, Swapped
  <1>12. LoadSound' /\ ReadyInRam'
    BY <1>1, <1>2, <1>4, <1>7, <1>8, <1>11 DEF LoadSound, ReadyInRam, Walking
  <1>13. DistinctBases'
    <2> SUFFICES ASSUME NEW j \in DOMAIN pages', NEW k \in DOMAIN pages',
                        addr'[pages'[j]] = addr'[pages'[k]]
                 PROVE  j = k
      BY DEF DistinctBases
    <2>1. \A m \in DOMAIN pages : addr'[pages[m]] = addr[pages[m]] /\ addr[pages[m]] # addr'[p]
      <3> SUFFICES ASSUME NEW m \in DOMAIN pages, NEW q, q = pages[m]
                   PROVE  addr'[q] = addr[q] /\ addr[q] # addr'[p]
        OBVIOUS
      <3> QED  BY <1>4, <1>5 DEF Undisturbed, Given
    <2> QED  BY <1>1, <1>7, <2>1 DEF DistinctBases
  <1>14. LockedOwned'
    <2>1. \A q \in Refs : q # p => (Locked(q)' <=> Locked(q))
      BY <1>4 DEF Undisturbed
    <2> QED  BY <1>1, <1>7, <2>1, PagesAreBlocks DEF LockedOwned, Others
  <1>16. ASSUME Content(p)' = ZeroPage  PROVE TableTyped'
    <2>1. ASSUME NEW q \in TablePages, Owns(q)'  PROVE Content(q)' \in Data \X {0}
      <3>1. CASE q = p
        BY <1>16, <3>1, ZeroTable
      <3>2. CASE q # p
        BY <1>1, <1>6, <1>7, <2>1, <3>2 DEF TableTyped, Undisturbed
      <3> QED  BY <3>1, <3>2
    <2>2. PICK f : f = call'.fresh
      OBVIOUS
    <2>3. f # NULL => Content(f)' = ZeroPage
      BY <1>8, <1>16, <2>2
    <2> QED  BY <2>1, <2>2, <2>3 DEF TableTyped, Content, Allocated, Swapped
  <1>17. OthersData'
    BY <1>4, <1>2 DEF OthersData, Given, Undisturbed, Others
  <1>18. RamCore' /\ NoStaleTranslation'
    BY <1>4 DEF CoreKept
  <1> QED  BY <1>2, <1>6, <1>7, <1>8, <1>9, <1>10, <1>12, <1>13, <1>14, <1>16, <1>17, <1>18

(* The new page is the root of an empty table, or waits to be entered. *)
LEMMA AllocPageGood ==
    ASSUME Usage, PtBase, NEW lev, NEW place, Shape(lev, place),
           NEW p \in TablePages, AllocPage(p), ~garbled'
    PROVE  Good
  <1>0. /\ RamCore' /\ CallSound' /\ LoadSound' /\ ReadyInRam' /\ DistinctBases'
        /\ LockedOwned' /\ NoStaleTranslation' /\ OthersData'
        /\ Content(p)' = ram'[addr'[p]] /\ (Content(p)' = ZeroPage => TableTyped')
    BY AllocPageBase
  <1>1. /\ PtBase'
        /\ Content(p)' = ZeroPage /\ ~Owns(p) /\ p # NULL
        /\ \A q \in TablePages : Owns(q)' <=> Owns(q) \/ q = p
        /\ \A q \in TablePages : Owns(q) => Undisturbed(q)
        /\ call'.vma = call.vma /\ call'.op = "vmmap"
        /\ IF call.level = 0
           THEN call'.level = 1 /\ call'.fresh = NULL /\ call'.at = addr'[p]
           ELSE /\ call'.level = call.level /\ call'.fresh = p
                /\ call'.at = call.at
    <2>1. Content(p)' = ZeroPage
      BY <1>0 DEF AllocPage
    <2> QED  BY <1>0, <2>1, AllocPageBase DEF PtBase
  <1>2. /\ call.op = "vmmap" /\ call.fresh = NULL /\ Walking
        /\ call.level \in 0 .. Levels - 1 /\ (call.level > 0 => ~Pte.P)
        /\ pages' = Append(pages, p)
    BY DEF AllocPage, NeedsPage, Walking
  <1>3. Levels \in Nat \ {0}
    BY PageTableAssumption
  <1>4. /\ pages' # <<>> /\ (pages # <<>> => pages'[1] = pages[1])
        /\ pages = <<>> => pages'[1] = p
    BY <1>2, AppendPage
  <1>5. pages = <<>> <=> call.level = 0
    BY <1>2 DEF PtBase, CallSound
  <1>6. Table(p)' = Zero
    BY <1>1, ZeroTable DEF Table
  <1>7. CASE call.level = 0
    <2> PICK l, w : /\ l = [q \in TablePages |-> 1]
                    /\ w = [q \in TablePages |-> call.vma]
      OBVIOUS
    <2>1. Placed' = {p}
      <3>1. \A q \in TablePages : ~Owns(q)
        BY <1>5, <1>7 DEF Owns
      <3> QED  BY <1>1, <1>7, <3>1 DEF Placed
    <2>2. call.vma \in Places /\ call.vma \in Vmas
      BY <1>2, PageTableAssumption DEF PtBase, CallSound, Places
    <2>3. l \in [TablePages -> Nat] /\ w \in [TablePages -> [1 .. Levels -> Index]]
      BY <2>2 DEF Places
    <2>4. l[p] = 1 /\ \A v : At(l, w, p, v, 1)
      BY DEF At
    <2>5. \A x \in Index : ~Table(p)'[x].P
      BY <1>6, ZeroTable
    <2>6. Tree(l, w)'
      <3>1. l[p] \in 1 .. Levels
        BY <1>3, <2>4
      <3>2. pages'[1] = p
        BY <1>4, <1>5, <1>7
      <3> QED  BY <2>1, <2>4, <2>5, <3>1, <3>2 DEF Tree
    <2>7. OnCourse(l, w)'
      BY <1>1, <1>7, <2>1, <2>4 DEF OnCourse
    <2>8. Shape(l, w)'
      BY <2>3, <2>6, <2>7 DEF Shape
    <2>9. ASSUME NEW v \in Vmas  PROVE FlatEntry(v)' = FlatEntry(v)
      <3>1. FlatEntry(v) = NoEntry
        BY <1>5, <1>7, FlatIs DEF FlatFacts
      <3>2. v[Levels] \in Index
        BY <1>3, PageTableAssumption
      <3>3. FlatEntry(v)' = NoEntry \/ FlatEntry(v)' = Table(p)'[v[Levels]]
        BY <1>1, <2>1, <2>8, FlatIs DEF FlatFacts
      <3> QED  BY <1>6, <3>1, <3>2, <3>3, ZeroTable
    <2> QED  BY <1>1, <2>8, <2>9, SameIsStutter DEF Good, FlatSame
  <1>8. CASE call.level # 0
    <2>1. call.level > 0
      BY <1>2, <1>8
    <2>2. Placed' = Placed
      <3>1. \A q \in TablePages : q # NULL
        BY RamAssumption, PageTableAssumption
      <3> QED  BY <1>1, <1>2, <1>8, <3>1 DEF Placed
    <2>3. \A q \in Placed : Content(q)' = Content(q) /\ addr'[q] = addr[q]
      BY <1>1 DEF Undisturbed, Placed
    <2>4. PICK r \in Placed : /\ At(lev, place, r, call.vma, call.level)
                              /\ addr[r] = call.at
                              /\ Pte = Table(r)[call.vma[call.level]]
      BY <1>2, <2>1, WalkStands
    <2>5. ~Table(r)'[call.vma[call.level]].P
      BY <1>2, <2>1, <2>3, <2>4 DEF Table
    <2>6. OnCourse(lev, place)'
      BY <1>1, <1>8, <2>2, <2>3, <2>4, <2>5 DEF OnCourse
    <2>7. Shape(lev, place)' /\ FlatSame
      BY <1>1, <1>2, <1>4, <1>5, <1>8, <2>2, <2>3, <2>6, TreeKept
    <2> QED  BY <1>1, <2>7, SameIsStutter DEF Good
  <1> QED  BY <1>7, <1>8

-----------------------------------------------------------------------------
(* Entries are written *)

(* The page a walk stands on gets an entry, and nothing else changes. *)
LEMMA WriteMoves ==
    ASSUME PtBase, NEW p \in TablePages, Resident(p), Content(p) \in Data \X {0},
           NEW i, i = addr[p], NEW x \in Index, NEW e \in Entry,
           WritePte(i, x, e), OnlyRam
    PROVE  /\ RamCore' /\ UNCHANGED <<status, flags, addr, frames, damaged, said>>
           /\ Table(p)' = [Table(p) EXCEPT ![x] = e]
           /\ Content(p)' \in Data \X {0}
           /\ \A q \in Refs : q # p => Undisturbed(q)
           /\ \A q \in Refs : Held(q)
           /\ OthersData' /\ NoStaleTranslation'
  <1> USE DEF PtBase
  <1>1. /\ UNCHANGED <<status, flags, addr, pfidx, frames, bits, used, file, view, said,
                       damaged>>
        /\ ram' = [ram EXCEPT ![i] = <<[ram[i][1] EXCEPT ![x] = e], ram[i][2]>>]
    BY DEF OnlyRam, WritePte, refVars, slotVars, clientVars
  <1>2. p \in Refs /\ i \in Frames /\ frames[i] = p /\ Content(p) = ram[i]
    BY PagesAreBlocks DEF RamCore, TypeOK, FrameOwnership, Content, Resident
  <1>3. PICK t \in [Index -> Entry] : ram[i] = <<t, 0>> /\ Table(p) = t
    BY <1>2, PageTableAssumption DEF Table
  <1> DEFINE u == [t EXCEPT ![x] = e]
  <1>4. u \in Data
    BY PageTableAssumption
  <1>5. ram' = [ram EXCEPT ![i] = <<u, 0>>]
    BY <1>1, <1>3
  <1> HIDE DEF u
  <1>6. RamCore'
    <2>1. <<u, 0>> \in Page
      BY <1>4 DEF Page
    <2>2. ram' \in [Frames -> Page]
      BY <1>5, <2>1 DEF RamCore, TypeOK
    <2>3. TypeOK'
      BY <1>1, <2>2 DEF RamCore, TypeOK
    <2> QED  BY <1>1, <2>3 DEF RamCore, ValidFlag, OwnersTranslate, ClosedEmpty,
             FrameOwnership, SlotOwnership, Resident, Swapped, Allocated
  <1>7. Content(p)' = <<u, 0>>
    BY <1>1, <1>2, <1>5 DEF Content, Resident, Allocated, Swapped, RamCore, TypeOK
  <1>8. \A q \in Refs : q # p => Content(q)' = Content(q)
    BY <1>1, <1>2, <1>5 DEF Content, Resident, Allocated, Swapped, RamCore, TypeOK,
                            FrameOwnership
  <1>9. \A q \in Refs : Held(q)
    BY <1>1 DEF Held, Allocated, Locked, Resident, Swapped
  <1>10. \A q \in Refs : q # p => Undisturbed(q)
    BY <1>1, <1>8, <1>9 DEF Undisturbed, Held
  <1>11. OthersData'
    BY <1>1, <1>8 DEF OthersData, Others
  <1>12. NoStaleTranslation'
    BY <1>1 DEF NoStaleTranslation, Resident, Swapped, Allocated
  <1>13. Table(p)' = [Table(p) EXCEPT ![x] = e]
    BY <1>3, <1>7 DEF Table, u
  <1>14. Content(p)' \in Data \X {0}
    BY <1>4, <1>7
  <1> QED  BY <1>1, <1>6, <1>9, <1>10, <1>11, <1>12, <1>13, <1>14

(* The base of the invariant when a walk writes an entry. *)
LEMMA WriteBase ==
    ASSUME PtBase, Walking, NEW p \in TablePages, Owns(p), p # call.fresh,
           Resident(p), Content(p) \in Data \X {0},
           NEW i, i = addr[p], NEW x \in Index, NEW e \in Entry,
           WritePte(i, x, e), OnlyRam, UNCHANGED tableVars, CallSound',
           call'.op \notin {"destroy", "gone", "load"}, call'.fresh = NULL
    PROVE  /\ PtBase' /\ UNCHANGED <<pages, addr>>
           /\ Table(p)' = [Table(p) EXCEPT ![x] = e]
           /\ \A q \in TablePages : Owns(q)' <=> Owns(q)
           /\ \A q \in TablePages : q # p => Table(q)' = Table(q)
  <1>1. /\ RamCore' /\ UNCHANGED <<status, flags, addr, frames, damaged, said>>
        /\ Table(p)' = [Table(p) EXCEPT ![x] = e]
        /\ Content(p)' \in Data \X {0}
        /\ \A q \in Refs : q # p => Undisturbed(q)
        /\ \A q \in Refs : Held(q)
        /\ OthersData' /\ NoStaleTranslation'
    BY WriteMoves
  <1>2. UNCHANGED <<pages, loaded, ready>> /\ \A q \in TablePages : Owns(q)' <=> Owns(q)
    BY DEF tableVars, Owns
  <1>3. \A q \in TablePages : q \in Refs /\ (q # p => Content(q)' = Content(q))
    BY <1>1, PagesAreBlocks DEF Undisturbed
  <1> USE DEF PtBase
  <1>4. TableTyped'
    BY <1>1, <1>2, <1>3 DEF TableTyped, Walking
  <1>6. LockedOwned'
    BY <1>1, <1>2 DEF LockedOwned, Walking, Locked
  <1>7. LoadPrefix' /\ (Walking' => ready) /\ call.op # "destroy"
    BY DEF LoadPrefix, LoadSound, Walking
  <1>8. \A k \in DOMAIN pages : Held(pages[k])
    BY <1>1, <1>2, PagesAreBlocks DEF Held
  <1>9. PtBase'
    BY <1>1, <1>2, <1>4, <1>6, <1>7, <1>8, BaseKept
  <1> QED  BY <1>1, <1>2, <1>3, <1>9 DEF Table

(* The entry of the page of v at the lowest level is the entry of v. *)
LEMMA EntryWritten ==
    ASSUME PtBase, NEW lev, NEW place, Shape(lev, place),
           Walking, call.level = Levels, call.fresh = NULL,
           NEW e \in Entry, SetPte(e), call' = Idle, UNCHANGED tableVars
    PROVE  /\ PtBase' /\ Shape(lev, place)'
           /\ FlatEntry(call.vma) = Pte
           /\ [v \in Vmas |-> FlatEntry(v)]' =
                 [[v \in Vmas |-> FlatEntry(v)] EXCEPT ![call.vma] = e]
  <1>1. Levels \in Nat \ {0} /\ call.op # "destroy" /\ call.vma \in Vmas
    BY PageTableAssumption DEF Walking, PtBase, CallSound
  <1>2. PICK p \in Placed :
              /\ At(lev, place, p, call.vma, call.level) /\ addr[p] = call.at
              /\ p \in TablePages /\ p \in Refs /\ Resident(p) /\ Owns(p)
              /\ Content(p) \in Data \X {0}
              /\ call.vma[call.level] \in Index
              /\ Pte = Table(p)[call.vma[call.level]]
              /\ lev[p] = call.level
    BY <1>1, WalkStands
  <1>3. PICK w, x, i : w = call.vma /\ x = w[Levels] /\ i = call.at
    OBVIOUS
  <1>4. /\ w \in Vmas /\ w \in Places /\ x \in Index
        /\ At(lev, place, p, w, Levels) /\ lev[p] = Levels
        /\ i = addr[p] /\ Pte = Table(p)[x]
    BY <1>1, <1>2, <1>3, PageTableAssumption DEF Places
  <1>5. WritePte(i, x, e) /\ OnlyRam
    BY <1>3 DEF SetPte
  <1>6. /\ call'.op = "idle" /\ call'.fresh = NULL /\ ~Walking'
        /\ CallSound'
    <2>1. Idle.op = "idle" /\ Idle.fresh = NULL /\ Idle \in Calls
      BY PagesAreBlocks DEF Idle, Calls, Ops
    <2> QED  BY <2>1 DEF CallSound, Walking
  <1>7. /\ PtBase' /\ UNCHANGED <<pages, addr>>
        /\ Table(p)' = [Table(p) EXCEPT ![x] = e]
        /\ \A q \in TablePages : Owns(q)' <=> Owns(q)
        /\ \A q \in TablePages : q # p => Table(q)' = Table(q)
    <2>1. p # call.fresh
      BY <1>2 DEF Placed
    <2> QED  BY <1>2, <1>4, <1>5, <1>6, <2>1, WriteBase
  <1>8. Placed' = Placed /\ Placed \subseteq TablePages
    BY <1>6, <1>7 DEF Placed
  <1>9. Tree(lev, place)
    BY <1>1 DEF Shape
  <1>10. Tree(lev, place)'
    <2>1. \A q \in Placed : lev[q] < Levels => Table(q)' = Table(q)
      BY <1>1, <1>4, <1>7, <1>8
    <2>2. ASSUME NEW q \in Placed, lev[q] > 1
          PROVE  \E r \in Placed : /\ At(lev, place, r, place[q], lev[q] - 1)
                                   /\ Table(r)'[place[q][lev[r]]] =
                                         [P |-> TRUE, base |-> addr[q]]
      <3>1. PICK r \in Placed : /\ At(lev, place, r, place[q], lev[q] - 1)
                                /\ Table(r)[place[q][lev[r]]] =
                                      [P |-> TRUE, base |-> addr[q]]
        BY <1>9, <2>2 DEF Tree
      <3>2. lev[r] < Levels
        BY <1>1, <1>9, <2>2, <3>1 DEF Tree, At
      <3> QED  BY <2>1, <3>1, <3>2
    <2> QED  BY <1>7, <1>8, <1>9, <2>1, <2>2 DEF Tree
  <1>11. Shape(lev, place)'
    BY <1>6, <1>10 DEF Shape, OnCourse
  <1>12. FlatEntry(w) = Pte
    BY <1>1, <1>3, <1>4, FlatIs DEF FlatFacts
  <1>13. Table(p) \in [Index -> Entry]
    BY <1>2, PageTableAssumption DEF Table
  <1>14. FlatEntry(w)' = e
    <2>1. FlatEntry(w)' = Table(p)'[w[Levels]]
      BY <1>4, <1>6, <1>7, <1>8, <1>11, FlatIs DEF FlatFacts
    <2> QED  BY <1>3, <1>4, <1>7, <1>13, <2>1
  <1>15. ASSUME NEW v \in Vmas, v # w  PROVE FlatEntry(v)' = FlatEntry(v)
    <2>1. CASE At(lev, place, p, v, Levels)
      <3>1. v[Levels] # x
        <4>1. v \in [1 .. Levels -> Index] /\ w \in [1 .. Levels -> Index]
          BY <1>4, PageTableAssumption DEF Places
        <4>2. \A j \in 1 .. Levels - 1 : v[j] = w[j]
          BY <1>4, <2>1 DEF At
        <4>3. ASSUME v[Levels] = x  PROVE FALSE
          <5>1. \A j \in 1 .. Levels : v[j] = w[j]
            BY <1>1, <1>3, <4>2, <4>3
          <5>2. v = [j \in 1 .. Levels |-> v[j]] /\ w = [j \in 1 .. Levels |-> w[j]]
            BY <4>1
          <5> QED  BY <1>15, <5>1, <5>2
        <4> QED  BY <4>3
      <3>2. FlatEntry(v) = Table(p)[v[Levels]]
        BY <1>1, <2>1, FlatIs DEF FlatFacts
      <3>3. FlatEntry(v)' = Table(p)'[v[Levels]]
        BY <1>6, <1>7, <1>8, <1>11, <2>1, FlatIs DEF FlatFacts
      <3>4. v[Levels] \in Index
        BY <1>1, PageTableAssumption
      <3> QED  BY <1>7, <1>13, <3>1, <3>2, <3>3, <3>4
    <2>2. CASE ~At(lev, place, p, v, Levels)
      <3>1. \A q \in Placed : At(lev, place, q, v, Levels) => Table(q)' = Table(q)
        BY <1>7, <1>8, <2>2
      <3>2. /\ \A q \in Placed : At(lev, place, q, v, Levels) =>
                  FlatEntry(v) = Table(q)[v[Levels]]
            /\ (\A q \in Placed : ~At(lev, place, q, v, Levels)) => FlatEntry(v) = NoEntry
        BY <1>1, FlatIs DEF FlatFacts
      <3>3. /\ \A q \in Placed' : At(lev, place, q, v, Levels) =>
                  FlatEntry(v)' = Table(q)'[v[Levels]]
            /\ (\A q \in Placed' : ~At(lev, place, q, v, Levels)) => FlatEntry(v)' = NoEntry
        BY <1>6, <1>7, <1>11, FlatIs DEF FlatFacts
      <3> QED  BY <1>8, <3>1, <3>2, <3>3
    <2> QED  BY <2>1, <2>2
  <1>16. [v \in Vmas |-> FlatEntry(v)]' =
             [[v \in Vmas |-> FlatEntry(v)] EXCEPT ![w] = e]
    BY <1>4, <1>14, <1>15
  <1>17. FlatEntry(call.vma) = FlatEntry(w)
    BY <1>3
  <1> QED  BY <1>3, <1>7, <1>11, <1>12, <1>16, <1>17

(* The users of get_pte change the entry of their page. *)
LEMMA UsePteGood ==
    ASSUME PtBase, NEW lev, NEW place, Shape(lev, place), UsePte
    PROVE  Good
  <1> DEFINE E == [v \in Vmas |-> FlatEntry(v)]
  <1>1. /\ Walking /\ call.level = Levels /\ call.fresh = NULL
        /\ call' = Idle /\ UNCHANGED tableVars /\ call.op \notin {"destroy", "gone"}
    BY DEF UsePte, vmmap, vmattr, vmunmap, get_pma, AtEntry, Walking
  <1>2. CASE UNCHANGED vars
    BY <1>1, <1>2, ToIdle
  <1>3. PICK w : w = call.vma
    OBVIOUS
  <1>4. w \in Vmas /\ (call.op = "vmmap" => call.arg \in Pmas) /\ Pte \in Entry
    <2>1. Levels > 0
      BY PageTableAssumption
    <2>2. Pte \in Entry
      BY <1>1, <2>1, WalkStands
    <2> QED  BY <1>1, <1>3, <2>2 DEF PtBase, CallSound
  <1>5. ASSUME NEW e \in Entry, SetPte(e)
        PROVE  /\ PtBase' /\ Shape(lev, place)'
               /\ E[w] = Pte /\ E' = [E EXCEPT ![w] = e]
    <2>1. /\ PtBase' /\ Shape(lev, place)' /\ FlatEntry(call.vma) = Pte
          /\ E' = [E EXCEPT ![call.vma] = e]
      BY <1>1, <1>5, EntryWritten
    <2>2. E[w] = FlatEntry(w) /\ FlatEntry(w) = FlatEntry(call.vma)
      BY <1>3, <1>4
    <2> HIDE DEF E
    <2> QED  BY <1>3, <2>1, <2>2
  <1>6. CASE vmmap /\ ~UNCHANGED vars
    <2> DEFINE e == [P |-> TRUE, base |-> call.arg]
    <2>1. SetPte(e) /\ ~Pte.P /\ call.op = "vmmap"
      BY <1>6 DEF vmmap, AtEntry
    <2>2. e \in Entry
      BY <1>4, <2>1 DEF Entry
    <2>3. /\ PtBase' /\ Shape(lev, place)'
          /\ E[w] = Pte /\ E' = [E EXCEPT ![w] = e]
      <3> HIDE DEF e, E
      <3> QED  BY <1>5, <2>1, <2>2
    <2>4. Flat!Map(w)
      BY <1>4, <2>1, <2>3 DEF Flat!Map
    <2>5. FlatStep
      BY <1>4, <2>4 DEF FlatStep, Flat!Change
    <2> QED  BY <2>3, <2>5 DEF Good
  <1>7. CASE vmattr
    <2> DEFINE f == (call.arg = 1)
               e == [Pte EXCEPT !.P = f]
    <2>1. SetPte(e)
      BY <1>7 DEF vmattr
    <2>2. e \in Entry /\ f \in BOOLEAN
      <3>1. f \in BOOLEAN
        OBVIOUS
      <3> HIDE DEF f
      <3> QED  BY <1>4, <3>1 DEF Entry
    <2>3. /\ PtBase' /\ Shape(lev, place)'
          /\ E[w] = Pte /\ E' = [E EXCEPT ![w] = e]
      <3> HIDE DEF e, E
      <3> QED  BY <1>5, <2>1, <2>2
    <2>4. E' = [E EXCEPT ![w].P = f]
      <3> HIDE DEF f, E
      <3> QED  BY <2>3
    <2>5. Flat!Attr(w)
      <3> HIDE DEF f
      <3> QED  BY <2>2, <2>4 DEF Flat!Attr
    <2>6. FlatStep
      BY <1>4, <2>5 DEF FlatStep, Flat!Change
    <2> QED  BY <2>3, <2>6 DEF Good
  <1>8. CASE vmunmap /\ ~UNCHANGED vars
    <2>1. SetPte(NoEntry) /\ Pte.P
      BY <1>8 DEF vmunmap
    <2>2. NoEntry \in Entry
      BY RamAssumption DEF NoEntry, Entry, Frames
    <2>3. /\ PtBase' /\ Shape(lev, place)'
          /\ E[w] = Pte /\ E' = [E EXCEPT ![w] = NoEntry]
      <3> HIDE DEF E
      <3> QED  BY <1>5, <2>1, <2>2
    <2>4. Flat!Unmap(w)
      BY <2>1, <2>3 DEF Flat!Unmap
    <2>5. FlatStep
      BY <1>4, <2>4 DEF FlatStep, Flat!Change
    <2> QED  BY <2>3, <2>5 DEF Good
  <1> QED  BY <1>2, <1>6, <1>7, <1>8 DEF UsePte, get_pma

(* The page q has been entered below the k-th page on the way of v. *)
Linked(lev, place, q, k, v) ==
    \E l, w : /\ l \in [TablePages -> Nat] /\ w \in [TablePages -> Places]
              /\ Tree(l, w)'
              /\ At(l, w, q, v, k + 1)
              /\ \A r \in Placed : \A u, n : At(l, w, r, u, n) <=> At(lev, place, r, u, n)
              /\ \A u : At(l, w, q, u, Levels) => k + 1 = Levels

(* The tree with one page more. *)
LEMMA LinkShape ==
    ASSUME PtBase, PtBase', NEW lev, NEW place, Shape(lev, place),
           call.op # "destroy", call'.op # "destroy",
           NEW p \in Placed, NEW q \in TablePages \ Placed,
           NEW k \in 1 .. Levels - 1, NEW v \in Places,
           At(lev, place, p, v, k), ~Table(p)[v[k]].P,
           Placed' = Placed \cup {q}, UNCHANGED <<pages, addr>>,
           Table(p)' = [Table(p) EXCEPT ![v[k]] = [P |-> TRUE, base |-> addr[q]]],
           Table(p) \in [Index -> Entry],
           \A r \in TablePages : r # p => Table(r)' = Table(r),
           Table(q) = Zero
    PROVE  Linked(lev, place, q, k, v)
  <1>1. /\ Levels \in Nat \ {0} /\ k + 1 \in 1 .. Levels /\ k \in 1 .. Levels
        /\ k \in Nat /\ (k + 1) - 1 = k
    BY PageTableAssumption
  <1>2. /\ Tree(lev, place) /\ lev \in [TablePages -> Nat]
        /\ place \in [TablePages -> Places]
    BY DEF Shape, Places
  <1>3. Placed \subseteq TablePages /\ q \notin Placed /\ p # q
    BY DEF Placed
  <1> PICK l, w : /\ l = [lev EXCEPT ![q] = k + 1]
                  /\ w = [place EXCEPT ![q] = v]
    OBVIOUS
  <1>4. l \in [TablePages -> Nat] /\ w \in [TablePages -> Places]
    BY <1>1, <1>2
  <1>5. l[q] = k + 1 /\ w[q] = v /\ \A r \in Placed : l[r] = lev[r] /\ w[r] = place[r]
    BY <1>2, <1>3
  <1>6. \A r \in Placed : \A u, n : At(l, w, r, u, n) <=> At(lev, place, r, u, n)
    BY <1>5 DEF At
  <1>7. At(l, w, q, v, k + 1)
    BY <1>5 DEF At
  <1>8. lev[p] = k /\ v[k] \in Index
    BY <1>1 DEF At, Places
  <1>9. ASSUME NEW r \in Placed, At(lev, place, r, v, k + 1)  PROVE FALSE
    <2>1. lev[r] = k + 1 /\ lev[r] - 1 = k /\ \A j \in 1 .. k : place[r][j] = v[j]
      BY <1>1, <1>9 DEF At
    <2>2. PICK s \in Placed : /\ At(lev, place, s, place[r], k)
                              /\ Table(s)[place[r][lev[s]]] = [P |-> TRUE, base |-> addr[r]]
      BY <1>1, <1>2, <2>1 DEF Tree
    <2>3. lev[s] = k /\ At(lev, place, s, v, k)
      <3>1. \A j \in 1 .. k - 1 : j \in 1 .. k
        BY <1>1
      <3> QED  BY <2>1, <2>2, <3>1 DEF At
    <2>4. s = p
      <3>1. At(lev, place, s, place[p], lev[p])
        BY <2>3 DEF At
      <3> QED  BY <1>2, <3>1 DEF Tree
    <2>5. place[r][k] = v[k]
      BY <1>1, <2>1
    <2> QED  BY <2>2, <2>3, <2>4, <2>5
  <1>10. \A r \in Placed' : l[r] \in 1 .. Levels
    BY <1>1, <1>2, <1>5 DEF Tree
  <1>11. ASSUME NEW r \in Placed', NEW s \in Placed', At(l, w, r, w[s], l[s])
         PROVE  r = s
    <2>1. CASE r # q /\ s # q
      BY <1>2, <1>5, <1>6, <1>11, <2>1 DEF Tree
    <2>2. CASE r # q /\ s = q
      BY <1>5, <1>6, <1>9, <1>11, <2>2
    <2>3. CASE r = q /\ s # q
      <3>1. s \in Placed /\ lev[s] = k + 1 /\ \A j \in 1 .. k : v[j] = place[s][j]
        BY <1>1, <1>5, <1>11, <2>3 DEF At
      <3>2. At(lev, place, s, v, k + 1)
        BY <1>1, <3>1 DEF At
      <3> QED  BY <1>9, <3>1, <3>2
    <2> QED  BY <2>1, <2>2, <2>3
  <1>12. pages # <<>> => pages'[1] \in Placed' /\ l[pages'[1]] = 1
    BY <1>2, <1>5 DEF Tree
  <1>13. ASSUME NEW r \in Placed', NEW x \in Index, l[r] < Levels, Table(r)'[x].P
         PROVE  \E s \in Placed' : /\ addr'[s] = Table(r)'[x].base
                                   /\ At(l, w, s, [w[r] EXCEPT ![l[r]] = x], l[r] + 1)
    <2>1. CASE r = q
      <3>1. Table(q)' = Zero
        BY <1>3
      <3> QED  BY <1>13, <2>1, <3>1, ZeroTable
    <2>2. CASE r = p /\ x = v[k]
      <3>1. Table(r)'[x].base = addr'[q]
        BY <1>8, <2>2
      <3>2. /\ l[p] = k /\ l[p] \in 1 .. Levels - 1 /\ w[p] \in Places
            /\ At(l, w, p, v, k)
        BY <1>2, <1>3, <1>5, <1>6, <1>8
      <3>3. At(l, w, q, [w[p] EXCEPT ![l[p]] = x], l[p] + 1)
        BY <1>7, <2>2, <3>2, AtDown
      <3> QED  BY <2>2, <3>1, <3>3
    <2>3. CASE r # q /\ ~(r = p /\ x = v[k])
      <3>1. r \in Placed /\ Table(r)'[x] = Table(r)[x] /\ lev[r] < Levels
        BY <1>3, <1>5, <1>13, <2>3
      <3>2. PICK s \in Placed : /\ addr[s] = Table(r)[x].base
                                /\ At(lev, place, s, [place[r] EXCEPT ![lev[r]] = x],
                                      lev[r] + 1)
        BY <1>2, <1>13, <3>1 DEF Tree
      <3>3. At(l, w, s, [w[r] EXCEPT ![l[r]] = x], l[r] + 1)
        BY <1>5, <1>6, <3>1, <3>2
      <3> QED  BY <3>1, <3>2, <3>3
    <2> QED  BY <2>1, <2>2, <2>3
  <1>14. ASSUME NEW r \in Placed', l[r] > 1
         PROVE  \E s \in Placed' : /\ At(l, w, s, w[r], l[r] - 1)
                                   /\ Table(s)'[w[r][l[s]]] =
                                         [P |-> TRUE, base |-> addr'[r]]
    <2>1. CASE r = q
      <3>1. At(l, w, p, w[r], l[r] - 1) /\ l[p] = k
        <4>1. w[r] = v /\ l[r] - 1 = k /\ l[p] = k
          BY <1>1, <1>5, <1>8, <2>1
        <4>2. At(l, w, p, v, k)
          BY <1>6
        <4> QED  BY <4>1, <4>2
      <3>2. Table(p)'[w[r][l[p]]] = [P |-> TRUE, base |-> addr'[r]]
        BY <1>5, <1>8, <2>1, <3>1
      <3> QED  BY <3>1, <3>2
    <2>2. CASE r # q
      <3>1. r \in Placed /\ lev[r] > 1
        BY <1>5, <1>14, <2>2
      <3>2. PICK s \in Placed : /\ At(lev, place, s, place[r], lev[r] - 1)
                                /\ Table(s)[place[r][lev[s]]] =
                                      [P |-> TRUE, base |-> addr[r]]
        BY <1>2, <3>1 DEF Tree
      <3>3. Table(s)'[place[r][lev[s]]] = Table(s)[place[r][lev[s]]]
        <4>1. CASE s # p
          BY <1>3, <4>1
        <4>2. CASE s = p
          <5>1. place[r][lev[s]] # v[k] /\ place[r][lev[s]] \in Index
            BY <1>1, <1>2, <1>3, <1>8, <3>1, <3>2, <4>2 DEF Places
          <5> QED  BY <4>2, <5>1
        <4> QED  BY <4>1, <4>2
      <3>4. At(l, w, s, w[r], l[r] - 1) /\ w[r] = place[r] /\ l[s] = lev[s]
        BY <1>5, <1>6, <3>1, <3>2
      <3> QED  BY <3>2, <3>3, <3>4
    <2> QED  BY <2>1, <2>2
  <1>15. Tree(l, w)'
    BY <1>10, <1>11, <1>12, <1>13, <1>14 DEF Tree
  <1>16. \A u : At(l, w, q, u, Levels) => k + 1 = Levels
    BY <1>5 DEF At
  <1> QED  BY <1>4, <1>6, <1>7, <1>15, <1>16 DEF Linked

(* The page that waited is entered, and the walk goes on to it. *)
LEMMA LinkGood ==
    ASSUME PtBase, NEW lev, NEW place, Shape(lev, place), Link
    PROVE  Good
  <1> PICK k, v, q, i : k = call.level /\ v = call.vma /\ q = call.fresh /\ i = call.at
    OBVIOUS
  <1> DEFINE e == [P |-> TRUE, base |-> addr[q]]
  <1>1. /\ Walking /\ q # NULL
        /\ WritePte(i, v[k], e) /\ OnlyRam /\ UNCHANGED tableVars
        /\ call' = [call EXCEPT !.at = addr[q], !.level = @ + 1, !.fresh = NULL]
    BY DEF Link
  <1>2. /\ call.op = "vmmap" /\ k \in 1 .. Levels - 1 /\ Owns(q) /\ q \in TablePages
        /\ Levels \in Nat \ {0} /\ k \in Nat /\ call \in Calls /\ v \in Vmas
        /\ call.arg \in Pmas
    BY <1>1, PageTableAssumption DEF PtBase, CallSound, Calls
  <1>3. PICK p \in Placed :
              /\ At(lev, place, p, v, k) /\ addr[p] = i
              /\ p \in TablePages /\ Resident(p) /\ Owns(p)
              /\ Content(p) \in Data \X {0}
              /\ v \in Places /\ v[k] \in Index
              /\ Pte = Table(p)[v[k]] /\ ~Pte.P /\ lev[p] = k
    <2>1. call.level > 0
      BY <1>2
    <2> QED  BY <1>1, <2>1, WalkStands
  <1>4. p # q /\ q \notin Placed /\ Placed = {r \in TablePages : Owns(r) /\ r # q}
    BY DEF Placed
  <1>5. addr[q] \in Frames /\ e \in Entry
    <2>1. addr[q] \in Frames
      BY <1>2, PagesAreBlocks DEF PtBase, RamCore, TypeOK
    <2> QED  BY <2>1 DEF Entry
  <1>6. /\ call'.op = "vmmap" /\ call'.vma = v /\ call'.arg = call.arg
        /\ call'.fresh = NULL /\ call'.level = k + 1
        /\ call'.at = addr[q] /\ call' \in Calls
    <2>1. PICK a, n : a = addr[q] /\ n = k + 1 /\ a \in Frames /\ n \in Nat
      BY <1>2, <1>5
    <2>2. call' = [call EXCEPT !.at = a, !.level = n, !.fresh = NULL]
      BY <1>1, <2>1
    <2>3. NULL \in TablePages \cup {NULL}
      OBVIOUS
    <2>4. /\ call'.op = call.op /\ call'.vma = call.vma /\ call'.arg = call.arg
          /\ call'.fresh = NULL /\ call'.level = n /\ call'.at = a /\ call' \in Calls
      BY <2>1, <2>2, <2>3, CallSet
    <2> QED  BY <1>2, <2>1, <2>4
  <1>7. CallSound'
    <2>1. UNCHANGED pages /\ pages # <<>>
      BY <1>1, <1>2 DEF tableVars, PtBase, CallSound
    <2>2. k + 1 <= Levels /\ k + 1 # 0
      BY <1>2
    <2> QED  BY <1>2, <1>6, <2>1, <2>2 DEF CallSound, Walking
  <1>8. /\ PtBase' /\ UNCHANGED <<pages, addr>>
        /\ Table(p)' = [Table(p) EXCEPT ![v[k]] = e]
        /\ \A r \in TablePages : Owns(r)' <=> Owns(r)
        /\ \A r \in TablePages : r # p => Table(r)' = Table(r)
    <2>1. PICK f, x : f = e /\ x = v[k]
      OBVIOUS
    <2>2. p # call.fresh /\ call'.op \notin {"destroy", "gone", "load"}
      BY <1>4, <1>6
    <2> HIDE DEF e
    <2>3. /\ PtBase' /\ UNCHANGED <<pages, addr>>
          /\ Table(p)' = [Table(p) EXCEPT ![x] = f]
          /\ \A r \in TablePages : Owns(r)' <=> Owns(r)
          /\ \A r \in TablePages : r # p => Table(r)' = Table(r)
      BY <1>1, <1>3, <1>5, <1>6, <1>7, <2>1, <2>2, WriteBase
    <2> QED  BY <2>1, <2>3
  <1>9. Placed' = Placed \cup {q}
    <2>1. \A r \in TablePages : r # NULL
      BY RamAssumption, PageTableAssumption
    <2> QED  BY <1>2, <1>4, <1>6, <1>8, <2>1 DEF Placed
  <1>10. Table(q) = Zero /\ Table(p) \in [Index -> Entry]
    BY <1>1, <1>2, <1>3, ZeroTable, PageTableAssumption DEF PtBase, TableTyped, Table
  <1>11. PICK l, w : /\ l \in [TablePages -> Nat] /\ w \in [TablePages -> Places]
                     /\ Tree(l, w)'
                     /\ At(l, w, q, v, k + 1)
                     /\ \A r \in Placed : \A u, n : At(l, w, r, u, n) <=> At(lev, place, r, u, n)
                     /\ \A u : At(l, w, q, u, Levels) => k + 1 = Levels
    <2>1. call.op # "destroy" /\ call'.op # "destroy"
      BY <1>2, <1>6
    <2>2. q \in TablePages \ Placed
      BY <1>2, <1>4
    <2>3. ~Table(p)[v[k]].P
      BY <1>3
    <2>4. /\ k \in 1 .. Levels - 1 /\ v \in Places /\ At(lev, place, p, v, k)
          /\ PtBase' /\ UNCHANGED <<pages, addr>>
          /\ Table(p)' = [Table(p) EXCEPT ![v[k]] = [P |-> TRUE, base |-> addr[q]]]
          /\ \A r \in TablePages : r # p => Table(r)' = Table(r)
      BY <1>2, <1>3, <1>8
    <2> HIDE DEF e
    <2>5. Linked(lev, place, q, k, v)
      BY <1>9, <1>10, <2>1, <2>2, <2>3, <2>4, LinkShape
    <2> QED  BY <2>5 DEF Linked
  <1>12. Shape(l, w)'
    <2>1. OnCourse(l, w)'
      BY <1>6, <1>8, <1>9, <1>11 DEF OnCourse
    <2> QED  BY <1>11, <2>1 DEF Shape, Places
  <1>13. ASSUME NEW u \in Vmas  PROVE FlatEntry(u)' = FlatEntry(u)
    <2>1. /\ \A r \in Placed : At(lev, place, r, u, Levels) =>
                FlatEntry(u) = Table(r)[u[Levels]]
          /\ (\A r \in Placed : ~At(lev, place, r, u, Levels)) => FlatEntry(u) = NoEntry
      BY <1>2, FlatIs DEF FlatFacts
    <2>2. /\ \A r \in Placed' : At(l, w, r, u, Levels) =>
                FlatEntry(u)' = Table(r)'[u[Levels]]
          /\ (\A r \in Placed' : ~At(l, w, r, u, Levels)) => FlatEntry(u)' = NoEntry
      BY <1>6, <1>8, <1>12, FlatIs DEF FlatFacts
    <2>3. u[Levels] \in Index
      BY <1>2, PageTableAssumption
    <2>4. Table(q)'[u[Levels]] = NoEntry
      BY <1>2, <1>4, <1>8, <1>10, <2>3, ZeroTable
    <2>5. CASE \E r \in Placed : At(lev, place, r, u, Levels)
      <3>1. PICK r \in Placed : At(lev, place, r, u, Levels)
        BY <2>5
      <3>2. r # p /\ r \in TablePages
        BY <1>2, <1>3, <3>1 DEF At, Placed
      <3> QED  BY <1>8, <1>9, <1>11, <2>1, <2>2, <3>1, <3>2
    <2>6. CASE \A r \in Placed : ~At(lev, place, r, u, Levels)
      BY <1>9, <1>11, <2>1, <2>2, <2>4, <2>6
    <2> QED  BY <2>5, <2>6
  <1> QED  BY <1>8, <1>12, <1>13, SameIsStutter DEF Good, FlatSame

-----------------------------------------------------------------------------
(* The theorems *)

(* The types follow from what holds of the call and of load(). *)
TypesKnown == CallSound /\ LoadSound /\ garbled \in BOOLEAN => PtTypeOK

(* The same before and after a step. *)
LEMMA TypesAre == TypesKnown /\ TypesKnown'
  <1>1. TypesKnown
    BY PageTableAssumption DEF TypesKnown, CallSound, LoadSound, PtTypeOK, Calls, Ops
  <1> QED  BY <1>1, PTL

(* A table that has no page yet satisfies the invariant. *)
LEMMA PtInitInv == PtInit => PtIInv
  <1> SUFFICES ASSUME PtInit  PROVE PtIInv
    OBVIOUS
  <1>1. /\ Init /\ pages = <<>> /\ loaded = FALSE /\ ready = FALSE /\ call = Idle
        /\ garbled = FALSE
    BY DEF PtInit
  <1>2. RamCore /\ NoStaleTranslation
    BY <1>1, RamInit DEF RamInv
  <1>3. call.op = "idle" /\ call.fresh = NULL /\ call \in Calls /\ ~Walking
    <2>1. 0 \in Frames
      BY RamAssumption DEF Frames
    <2> QED  BY <1>1, <2>1 DEF Idle, Calls, Ops, Walking
  <1>4. /\ pages \in Seq(TablePages) /\ DOMAIN pages = {}
        /\ \A p \in TablePages : ~Owns(p)
    BY <1>1 DEF Owns
  <1>5. CallSound /\ LoadSound
    BY <1>1, <1>3, <1>4 DEF CallSound, LoadSound
  <1>6. ReadyInRam /\ DistinctBases /\ TableTyped
    BY <1>1, <1>3, <1>4 DEF ReadyInRam, DistinctBases, TableTyped
  <1>7. LockedOwned /\ OthersData
    BY <1>1, PageTableAssumption
    DEF Init, LockedOwned, OthersData, Locked, Others, Content, Allocated
  <1>8. PtBase
    BY <1>2, <1>5, <1>6, <1>7 DEF PtBase
  <1>9. Placed = {}
    BY <1>4 DEF Placed
  <1>10. PICK x \in Index : TRUE
    BY PageTableAssumption
  <1>11. PICK lev, place : /\ lev = [p \in TablePages |-> 1]
                           /\ place = [p \in TablePages |-> [k \in 1 .. Levels |-> x]]
    OBVIOUS
  <1>12. Shape(lev, place)
    BY <1>1, <1>3, <1>9, <1>11 DEF Shape, Tree, OnCourse
  <1> QED  BY <1>1, <1>8, <1>12 DEF PtIInv

(* A step that garbles no page keeps the base and the tree, and is a step  *)
(* of the flat table.                                                      *)
LEMMA GoodStep ==
    ASSUME Usage, PtBase, NEW lev, NEW place, Shape(lev, place),
           TableNext \/ OtherNext \/ UNCHANGED pvars, ~garbled'
    PROVE  Good
  <1>1. CASE Walk
    <2>1. ASSUME NEW v \in Vmas, NEW pma \in Pmas, Enter("vmmap", v, pma)  PROVE Good
      BY <2>1, EnterGood
    <2>2. ASSUME NEW v \in Vmas, NEW f \in {0, 1}, Enter("vmattr", v, f)  PROVE Good
      BY <2>2, EnterGood
    <2>3. ASSUME NEW v \in Vmas, Enter("vmunmap", v, 0) \/ Enter("get_pma", v, 0)
          PROVE  Good
      BY <2>3, EnterGood
    <2>4. ASSUME Descend \/ NotFound \/ Link \/ UsePte  PROVE Good
      BY <2>4, DescendGood, NotFoundGood, LinkGood, UsePteGood
    <2>5. ASSUME NEW p \in TablePages, AllocPage(p) \/ AllocPageFails(p)  PROVE Good
      BY <2>5, AllocPageGood, AllocPageFailsGood
    <2> QED  BY <1>1, <2>1, <2>2, <2>3, <2>4, <2>5 DEF Walk
  <1>2. CASE LoadMark \/ LoadPage \/ LoadReturns \/ unload
    BY <1>2, LoadMarkGood, LoadPageGood, LoadReturnsGood
  <1>3. CASE destroy \/ DestroyPage \/ DestroyReturns
    BY <1>3, DestroyGood, DestroyPageGood, DestroyReturnsGood
  <1>4. CASE OtherNext \/ UNCHANGED pvars
    BY <1>4, OtherGood, StutterGood
  <1> QED  BY <1>1, <1>2, <1>3, <1>4 DEF TableNext

(* Only the allocation of a page changes garbled. *)
LEMMA GarbledBy ==
    ASSUME TableNext \/ OtherNext \/ UNCHANGED pvars
    PROVE  \/ garbled' = garbled
           \/ (garbled' \in BOOLEAN) /\ \E p \in TablePages : AllocPage(p)
  <1>1. ASSUME NEW p \in TablePages, AllocPage(p)  PROVE garbled' \in BOOLEAN
    BY <1>1 DEF AllocPage
  <1> QED
    BY <1>1 DEF TableNext, Walk, Enter, Descend, NotFound, AllocPageFails, Link, UsePte,
                LoadMark, LoadPage, LoadReturns, unload, destroy, DestroyPage,
                DestroyReturns, OtherNext, tableVars, pvars

(* A page that begins with old contents leaves what does not depend on     *)
(* them.                                                                   *)
LEMMA GarbledKeeps ==
    ASSUME Usage, PtBase, NEW lev, NEW place, Shape(lev, place),
           NEW p \in TablePages, AllocPage(p), garbled' \in BOOLEAN
    PROVE  PtInv'
  <1>1. CallSound' /\ LoadSound' /\ ReadyInRam' /\ DistinctBases'
    BY AllocPageBase
  <1> QED  BY <1>1, TypesAre DEF TypesKnown, PtInv

(* Every step keeps the invariant and is a step of the flat table. *)
LEMMA PtStep ==
    ASSUME Usage, PtIInv, [PtNext]_pvars
    PROVE  PtIInv' /\ [Flat!Next]_(Flat!fvars)
  <1>1. CASE garbled
    <2>1. UNCHANGED pvars
      BY <1>1 DEF PtNext
    <2>2. PtInv /\ garbled \in BOOLEAN
      BY <1>1 DEF PtIInv
    <2>3. UNCHANGED <<flags, addr, pages, loaded, ready, garbled, call, pfidx, file, ram>>
      BY <2>1 DEF pvars, vars, tableVars
    <2>4. PtInv'
      BY <2>2, <2>3 DEF PtInv, PtTypeOK, ReadyInRam, DistinctBases, Walking,
                        Resident, Allocated, Swapped, Locked
    <2>5. \A v \in Vmas : FlatEntry(v)' = FlatEntry(v)
      BY <2>3 DEF FlatEntry, Destroyed, Path, PageAt, Table, Content, Allocated, Swapped
    <2>6. UNCHANGED Flat!fvars
      BY <2>3, <2>5 DEF Flat!fvars
    <2> QED  BY <1>1, <2>2, <2>3, <2>4, <2>6 DEF PtIInv
  <1>2. CASE ~garbled
    <2>1. PICK lev, place : Shape(lev, place)
      BY <1>2 DEF PtIInv
    <2>2. PtBase /\ garbled \in BOOLEAN
      BY <1>2 DEF PtIInv
    <2>3. TableNext \/ OtherNext \/ UNCHANGED pvars
      BY DEF PtNext
    <2>4. /\ garbled' \in BOOLEAN
          /\ garbled' => \E p \in TablePages : AllocPage(p)
      BY <1>2, <2>2, <2>3, GarbledBy
    <2>5. CASE garbled'
      <3>1. PtInv'
        BY <2>1, <2>2, <2>4, <2>5, GarbledKeeps
      <3>2. Flat!Lose
        BY <1>2, <2>5 DEF Flat!Lose
      <3> QED  BY <2>4, <2>5, <3>1, <3>2 DEF PtIInv, Flat!Next
    <2>6. CASE ~garbled'
      <3>1. Good
        BY <2>1, <2>2, <2>3, <2>6, GoodStep
      <3>2. PtIInv'
        BY <2>4, <2>6, <3>1 DEF PtIInv, Good
      <3>3. garbled' = garbled
        BY <1>2, <2>2, <2>4, <2>6
      <3>4. [Flat!Next]_(Flat!fvars)
        BY <1>2, <2>6, <3>1, <3>3 DEF Good, FlatStep, Flat!Next, Flat!fvars
      <3> QED  BY <3>2, <3>4
    <2> QED  BY <2>5, <2>6
  <1> QED  BY <1>1, <1>2

(* The table is sound: its pages are typed and have addresses of their     *)
(* own, and once load() has returned true they stay in RAM, locked, until  *)
(* unload().                                                               *)
THEOREM TableSound == Usage => (PtSpec => []PtInv)
  <1> SUFFICES ASSUME Usage  PROVE PtSpec => []PtInv
    OBVIOUS
  <1>1. PtIInv /\ [PtNext]_pvars => PtIInv'
    BY PtStep
  <1>2. PtIInv => PtInv
    <2> SUFFICES ASSUME PtIInv, ~garbled  PROVE PtInv
      BY DEF PtIInv
    <2> QED  BY TypesAre DEF PtInv, PtIInv, PtBase, TypesKnown
  <1> QED  BY <1>1, <1>2, PtInitInv, PTL DEF PtSpec

(* Until a page of the table is given a frame with old contents, the       *)
(* address a walk holds is that of the page its path leads to, and the     *)
(* page is there, whatever the other clients evict, free, swap out, lock   *)
(* and write between two levels.                                           *)
THEOREM WalksStayOnCourse == Usage => (PtSpec => []WalkOnCourse)
  <1> SUFFICES ASSUME Usage  PROVE PtSpec => []WalkOnCourse
    OBVIOUS
  <1>1. PtIInv /\ [PtNext]_pvars => PtIInv'
    BY PtStep
  <1>2. PtIInv => WalkOnCourse
    <2> SUFFICES ASSUME PtIInv, Walking, call.level > 0, ~garbled
                 PROVE  LET p == Path(call.vma)[call.level]
                        IN p # NULL /\ Resident(p) /\ addr[p] = call.at
      BY DEF WalkOnCourse
    <2>1. PICK lev, place : Shape(lev, place)
      BY DEF PtIInv
    <2>2. PtBase /\ call.op # "destroy"
      BY DEF PtIInv, Walking
    <2>3. PICK p \in Placed :
              /\ At(lev, place, p, call.vma, call.level) /\ addr[p] = call.at
              /\ p \in Refs /\ Resident(p)
              /\ call.level \in 1 .. Levels /\ call.vma \in Places
      BY <2>1, <2>2, WalkStands
    <2>4. pages # <<>>
      BY <2>2, <2>3 DEF PtBase, CallSound
    <2>5. Path(call.vma)[call.level] = PageOf(lev, place, call.vma, call.level)
      BY <2>1, <2>2, <2>3, <2>4, PathIs
    <2>6. PageOf(lev, place, call.vma, call.level) = p
      BY <2>1, <2>2, <2>3, PageOfUnique DEF Shape
    <2>7. p # NULL
      BY <2>3, RamAssumption
    <2> QED  BY <2>3, <2>5, <2>6, <2>7
  <1> QED  BY <1>1, <1>2, PtInitInv, PTL DEF PtSpec

(* Until a page of the table is given a frame with old contents, no call   *)
(* on the table changes a block of another client.                         *)
THEOREM TableSparesOthers == Usage => (PtSpec => []OthersKeepData)
  <1> SUFFICES ASSUME Usage  PROVE PtSpec => []OthersKeepData
    OBVIOUS
  <1>1. PtIInv /\ [PtNext]_pvars => PtIInv'
    BY PtStep
  <1>2. PtIInv => OthersKeepData
    BY DEF PtIInv, PtBase, OthersData, OthersKeepData
  <1> QED  BY <1>1, <1>2, PtInitInv, PTL DEF PtSpec

(* While the page file works and the table is loaded before it is walked,  *)
(* load() is refused only by a locked block of another client in the frame *)
(* of one of the pages: no page of the table stands in another's frame.    *)
THEOREM LoadNeverRefused == Usage => (PtSpec => LoadBringsAll)
  <1> SUFFICES ASSUME Usage  PROVE PtSpec => LoadBringsAll
    OBVIOUS
  <1>1. PtIInv /\ [PtNext]_pvars => PtIInv'
    BY PtStep
  <1>2. ASSUME PtIInv, PtNext, call.op = "load", status = "open", Faults = {},
               ~FrameLockedByOther(pages[call.level])
        PROVE  call'.op = "load" \/ ready'
    <2>0. PtBase
      BY <1>2 DEF PtIInv, PtNext
    <2> USE DEF PtBase
    <2>1. CASE LoadPage
      <3>1. PICK p : p = pages[call.level]
        OBVIOUS
      <3>2. /\ call.level \in Nat \ {0} /\ call.level <= Len(pages)
            /\ call \in Calls
        BY <1>2, <2>0, <2>1 DEF LoadPage, CallSound, Calls
      <3>3. /\ call.level \in DOMAIN pages /\ p \in Refs /\ p \in TablePages
            /\ Locked(p) /\ Allocated(p)
        BY <1>2, <2>0, <3>1, <3>2, PagesAreBlocks DEF LoadSound
      <3>4. ~SeekFails
        BY <1>2 DEF SeekFails
      <3>5. Swapped(p) => ~SwapInRefused(p)
        <4> SUFFICES ASSUME Swapped(p), NEW i, i = addr[p],
                            frames[i] # NULL, ~Swappable(i)
                     PROVE  FALSE
          BY <3>4 DEF SwapInRefused
        <4>1. PICK q : q = frames[i]
          OBVIOUS
        <4>2. i \in Frames /\ q \in Refs /\ Locked(q) /\ Resident(q) /\ addr[q] = i
          BY <2>0, <3>3, <4>1 DEF RamCore, TypeOK, FrameOwnership, Swappable
        <4>3. q \in TablePages /\ Owns(q)
          BY <1>2, <2>0, <3>1, <4>2 DEF LockedOwned, Others, FrameLockedByOther
        <4>4. PICK j \in DOMAIN pages : pages[j] = q
          BY <4>3 DEF Owns
        <4>5. j = call.level
          BY <1>2, <2>0, <3>1, <3>3, <4>2, <4>4 DEF DistinctBases
        <4> QED  BY <3>1, <4>2, <4>4, <4>5 DEF Resident
      <3>6. RamSwapIn(p) => "SWAPPED" \notin flags'[p]
        <4> SUFFICES ASSUME RamSwapIn(p)  PROVE "SWAPPED" \notin flags'[p]
          OBVIOUS
        <4>1. Resident(p)'
          BY <2>0, <3>3, <3>4, SwapMoves
        <4> QED  BY <4>1 DEF Resident, Swapped
      <3>7. call' = [call EXCEPT !.level = @ + 1]
        BY <2>1, <3>1, <3>5, <3>6 DEF LoadPage
      <3> QED  BY <1>2, <3>2, <3>7 DEF Calls
    <2>2. CASE LoadReturns
      BY <2>2 DEF LoadReturns
    <2>3. CASE OtherNext
      BY <1>2, <2>3 DEF OtherNext
    <2>4. ~Walking /\ call # Idle /\ call.op # "destroy" /\ call.op # "vmmap"
          /\ call.fresh = NULL
      BY <1>2, <2>0 DEF Walking, Idle, CallSound
    <2>5. ~Walk
      BY <2>4 DEF Walk, Enter, Descend, NotFound, AllocPage, AllocPageFails, NeedsPage,
                  Link, UsePte, vmmap, vmattr, vmunmap, get_pma, AtEntry, Walking
    <2>6. ~(LoadMark \/ unload \/ destroy \/ DestroyPage \/ DestroyReturns)
      BY <2>4 DEF LoadMark, unload, destroy, DestroyPage, DestroyReturns
    <2> QED  BY <1>2, <2>1, <2>2, <2>3, <2>5, <2>6 DEF PtNext, TableNext
  <1>3. PtIInv /\ [PtNext]_pvars =>
          [call.op = "load" /\ status = "open" /\ Faults = {} =>
              \/ call'.op = "load" \/ ready'
              \/ FrameLockedByOther(pages[call.level])]_pvars
    BY <1>2
  <1> QED  BY <1>1, <1>3, PtInitInv, PTL DEF PtSpec, LoadBringsAll

(* Through evictions, unload() and load(), and allocations that fail half  *)
(* way down, the table keeps one entry per virtual page, which only the    *)
(* calls for that page change, until one of its pages is given a frame     *)
(* with old contents.                                                      *)
THEOREM TableIsFlat == Usage => (PtSpec => ImplementsFlatTable)
  <1> SUFFICES ASSUME Usage  PROVE PtSpec => ImplementsFlatTable
    OBVIOUS
  <1>1. PtIInv /\ [PtNext]_pvars => PtIInv' /\ [Flat!Next]_(Flat!fvars)
    BY PtStep
  <1>2. PtInit => Flat!Init
    BY DEF PtInit, Flat!Init, FlatEntry, Destroyed
  <1> QED  BY <1>1, <1>2, PtInitInv, PTL
           DEF PtSpec, ImplementsFlatTable, Flat!Spec
=============================================================================
