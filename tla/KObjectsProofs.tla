--------------------------- MODULE KObjectsProofs ---------------------------
(***************************************************************************)
(* Proofs about KObjects, for any number of objects, nodes, handles and    *)
(* refp variables.  Every action is shown to settle its accounts: it moves *)
(* the count of each object by as much as it moves the number of its       *)
(* holders.  The rest of the invariant follows from that.                  *)
(***************************************************************************)
EXTENDS KObjects, FiniteSetTheorems, TLAPS

-----------------------------------------------------------------------------
(* Numbers *)

(* A set of numbers that is not empty has a least one (next() finds the    *)
(* child it returns).                                                      *)
LEMMA LeastNatural ==
    ASSUME NEW S \in SUBSET Nat, S # {}
    PROVE  \E m \in S : \A k \in S : m <= k
  <1>1. PICK m \in S : \A k \in S : ~(<<k, m>> \in OpToRel(<, Nat))
    BY WFMin, NatLessThanWellFounded
  <1>2. ASSUME NEW k \in S, k < m  PROVE FALSE
    <2>1. <<k, m>> \in OpToRel(<, Nat)
      BY <1>2, Zenon DEF OpToRel
    <2> QED  BY <1>1, <2>1
  <1> QED  BY <1>2

(* A bounded set of numbers has a greatest one (allocHandle finds the      *)
(* highest handle).                                                        *)
LEMMA GreatestNatural ==
    ASSUME NEW S \in SUBSET Nat, S # {}, NEW b \in Nat, \A k \in S : k <= b
    PROVE  \E m \in S : \A k \in S : k <= m
  <1> DEFINE T == {k \in Nat : b - k \in S}
  <1>1. T # {}
    <2>1. PICK k \in S : TRUE
      OBVIOUS
    <2>2. b - k \in T
      BY <2>1
    <2> QED  BY <2>2
  <1>2. PICK t \in T : \A k \in T : t <= k
    <2>1. T \subseteq Nat
      OBVIOUS
    <2> HIDE DEF T
    <2> QED  BY <1>1, <2>1, LeastNatural
  <1>3. ASSUME NEW k \in S  PROVE k <= b - t
    <2>1. b - k \in T
      OBVIOUS
    <2> QED  BY <1>2, <2>1
  <1> QED  BY <1>2, <1>3

-----------------------------------------------------------------------------
(* Holders *)

(* The holders of an object can be counted. *)
LEMMA HoldersFinite ==
    ASSUME KObjectsTypeOK, NEW o
    PROVE  /\ IsFiniteSet(MountsOf(o)) /\ Cardinality(MountsOf(o)) \in Nat
           /\ IsFiniteSet(HandlesOf(o)) /\ Cardinality(HandlesOf(o)) \in Nat
           /\ IsFiniteSet(RefpsOf(o)) /\ Cardinality(RefpsOf(o)) \in Nat
  <1>1. MountsOf(o) \in SUBSET Nodes /\ RefpsOf(o) \in SUBSET Refps
    BY DEF KObjectsTypeOK, MountsOf, RefpsOf
  <1>2. HandlesOf(o) \in SUBSET (0 .. HandleMod - 1)
    BY DEF KObjectsTypeOK, HandlesOf
  <1>3. IsFiniteSet(0 .. HandleMod - 1)
    BY FS_Interval, KObjectsAssumption
  <1> QED
    BY <1>1, <1>2, <1>3, FS_Subset, FS_CardinalityType, KObjectsAssumption

(* So can the holders after a step. *)
LEMMA HoldersFiniteNext ==
    ASSUME KObjectsTypeOK', NEW o
    PROVE  /\ IsFiniteSet(MountsOf(o)') /\ Cardinality(MountsOf(o))' \in Nat
           /\ IsFiniteSet(HandlesOf(o)') /\ Cardinality(HandlesOf(o))' \in Nat
           /\ IsFiniteSet(RefpsOf(o)') /\ Cardinality(RefpsOf(o))' \in Nat
  <1>1. MountsOf(o)' \in SUBSET Nodes /\ RefpsOf(o)' \in SUBSET Refps
    BY DEF KObjectsTypeOK, MountsOf, RefpsOf
  <1>2. HandlesOf(o)' \in SUBSET (0 .. HandleMod - 1)
    BY DEF KObjectsTypeOK, HandlesOf
  <1>3. IsFiniteSet(0 .. HandleMod - 1)
    BY FS_Interval, KObjectsAssumption
  <1> QED
    BY <1>1, <1>2, <1>3, FS_Subset, FS_CardinalityType, KObjectsAssumption

(* In a state the program goes on from, only live objects are held.        *)
LEMMA OnlyLiveHeld ==
    ASSUME KObjectsInv, Running, NEW o \in Objects, heap[o] # "live"
    PROVE  MountsOf(o) = {} /\ HandlesOf(o) = {} /\ RefpsOf(o) = {}
  <1>1. Holders(o) \in Nat
    BY HoldersFinite DEF KObjectsInv, Holders
  <1>2. Holders(o) = 0
    BY <1>1 DEF KObjectsInv, KObjectsTypeOK, UnbornUnheld, Running, Dangling
  <1>3. /\ Cardinality(MountsOf(o)) = 0 /\ Cardinality(HandlesOf(o)) = 0
        /\ Cardinality(RefpsOf(o)) = 0
    BY <1>2, HoldersFinite DEF KObjectsInv, Holders
  <1> QED  BY <1>3, HoldersFinite, FS_EmptySet DEF KObjectsInv

-----------------------------------------------------------------------------
(* The account of a step *)

(* A count moves with the holders. *)
Balanced(o) == count'[o] - count[o] = Holders(o)' - Holders(o)

(* An object is made, or dies when the count reaches 0 or in a refp that   *)
(* is bound to it again.                                                   *)
Lives(o) ==
    \/ heap'[o] = heap[o]
    \/ heap[o] = "none" /\ heap'[o] = "live"
    \/ /\ heap[o] = "live" /\ heap'[o] = "freed"
       /\ count'[o] = 0 \/ \E c \in Refps : refp[c] = o /\ refp'[c] = o

Settled ==
    \A o \in Objects :
        /\ Balanced(o) /\ Lives(o)
        /\ count'[o] \in Nat
        /\ heap'[o] = "none" => count'[o] = count[o]

(* A step that settles its accounts keeps the counts right, and what dies  *)
(* in it is held by nobody.                                                *)
LEMMA SettledKeepsCounts ==
    ASSUME KObjectsInv, KObjectsTypeOK', Running, Settled
    PROVE  /\ CountsHolders' /\ UnbornUnheld'
           /\ \A o \in Objects : heap[o] = "live" /\ heap'[o] = "freed" =>
                Holders(o)' = 0 \/ \E c \in Refps : refp[c] = o /\ refp'[c] = o
  <1>1. ASSUME NEW o \in Objects
        PROVE  Holders(o) \in Nat /\ Holders(o)' \in Nat /\ count[o] \in Nat
    <2>1. Holders(o) \in Nat
      BY HoldersFinite DEF KObjectsInv, Holders
    <2>2. Holders(o)' \in Nat
      BY HoldersFiniteNext DEF Holders
    <2> QED  BY <2>1, <2>2 DEF KObjectsInv, KObjectsTypeOK
  <1>2. ASSUME NEW o \in Objects, heap[o] = "live" \/ heap[o] = "none"
        PROVE  count'[o] = Holders(o)'
    <2>1. count[o] = Holders(o)
      BY <1>2 DEF KObjectsInv, CountsHolders, UnbornUnheld, Live
    <2> QED  BY <1>1, <2>1 DEF Settled, Balanced
  <1>3. CountsHolders'
    BY <1>2 DEF CountsHolders, Live, Settled, Lives
  <1>4. UnbornUnheld'
    BY <1>2 DEF UnbornUnheld, Settled, Lives, KObjectsInv
  <1> QED  BY <1>2, <1>3, <1>4 DEF Settled, Lives

(* Counts that are not released below 0 keep their type. *)
LEMMA ReleaseTypes ==
    ASSUME KObjectsInv, Running,
           NEW drops \in [Objects -> Nat], _release(drops),
           \A o \in Objects : drops[o] <= Holders(o)
    PROVE  /\ count' \in [Objects -> Nat]
           /\ heap' \in [Objects -> {"none", "live", "freed"}]
  <1>1. ASSUME NEW o \in Objects  PROVE count[o] - drops[o] \in Nat
    <2>1. Holders(o) \in Nat /\ count[o] \in Nat /\ drops[o] \in Nat
      BY HoldersFinite DEF Holders, KObjectsInv, KObjectsTypeOK
    <2>2. CASE heap[o] = "live"
      BY <2>1, <2>2 DEF KObjectsInv, CountsHolders, Live
    <2>3. CASE heap[o] # "live"
      <3>1. MountsOf(o) = {} /\ HandlesOf(o) = {} /\ RefpsOf(o) = {}
        BY <2>3, OnlyLiveHeld
      <3>2. Holders(o) = 0
        BY <3>1, FS_EmptySet DEF Holders
      <3> QED  BY <2>1, <3>2
    <2> QED  BY <2>2, <2>3
  <1>2. count' \in [Objects -> Nat]
    BY <1>1 DEF _release
  <1>3. heap' \in [Objects -> {"none", "live", "freed"}]
    BY DEF _release, KObjectsInv, KObjectsTypeOK
  <1> QED  BY <1>2, <1>3

(* Releases settle when the released references are the lost holders.      *)
LEMMA ReleaseSettles ==
    ASSUME KObjectsInv, KObjectsTypeOK', Running,
           NEW drops \in [Objects -> Nat], _release(drops),
           \A o \in Objects : Holders(o)' = Holders(o) - drops[o]
    PROVE  Settled
  <1> SUFFICES ASSUME NEW o \in Objects
               PROVE  /\ Balanced(o) /\ Lives(o) /\ count'[o] \in Nat
                      /\ heap'[o] = "none" => count'[o] = count[o]
    BY DEF Settled
  <1>1. /\ count'[o] = count[o] - drops[o]
        /\ heap'[o] = IF drops[o] > 0 /\ drops[o] = count[o] THEN "freed" ELSE heap[o]
    BY DEF _release
  <1>2. /\ Holders(o) \in Nat /\ Holders(o)' \in Nat /\ drops[o] \in Nat
        /\ count[o] \in Nat
    BY HoldersFinite, HoldersFiniteNext DEF Holders, KObjectsInv, KObjectsTypeOK
  <1>3. heap[o] # "live" => drops[o] = 0
    <2>1. ASSUME heap[o] # "live"  PROVE Holders(o) = 0
      <3>1. MountsOf(o) = {} /\ HandlesOf(o) = {} /\ RefpsOf(o) = {}
        BY <2>1, OnlyLiveHeld
      <3>2. Cardinality({}) = 0
        BY FS_EmptySet
      <3> QED  BY <3>1, <3>2 DEF Holders
    <2> QED  BY <1>2, <2>1
  <1>4. heap[o] = "live" => count[o] = Holders(o)
    BY DEF KObjectsInv, CountsHolders, Live
  <1> QED  BY <1>1, <1>2, <1>3, <1>4 DEF Balanced, Lives

-----------------------------------------------------------------------------
(* New and refp::bind *)

(* A new object is held by nobody. *)
LEMMA NewSettles ==
    ASSUME KObjectsInv, Running, NEW o \in Objects, New(o)
    PROVE  KObjectsTypeOK' /\ Settled
  <1>1. KObjectsTypeOK'
    BY DEF New, KObjectsInv, KObjectsTypeOK, nodeVars
  <1>2. ASSUME NEW x \in Objects
        PROVE  Holders(x)' = Holders(x) /\ Holders(x) \in Nat
    <2>1. /\ MountsOf(x)' = MountsOf(x) /\ HandlesOf(x)' = HandlesOf(x)
          /\ RefpsOf(x)' = RefpsOf(x)
      BY DEF New, nodeVars, MountsOf, HandlesOf, RefpsOf
    <2> QED  BY <2>1, HoldersFinite DEF Holders, KObjectsInv
  <1>3. count' = count /\ count \in [Objects -> Nat]
    BY DEF New, KObjectsInv, KObjectsTypeOK
  <1>4. \A x \in Objects : Balanced(x)
    BY <1>2, <1>3 DEF Balanced
  <1>5. \A x \in Objects : Lives(x)
    BY DEF New, Lives, KObjectsInv, KObjectsTypeOK
  <1>6. Settled
    BY <1>3, <1>4, <1>5 DEF Settled
  <1> QED  BY <1>1, <1>6

(* The holders of an object when a set of them changes by one member.      *)
LEMMA OneHolder ==
    ASSUME NEW S, NEW T, NEW x, IsFiniteSet(S), Cardinality(S) \in Nat
    PROVE  /\ T = S \cup {x} /\ x \notin S => Cardinality(T) = Cardinality(S) + 1
           /\ T = S \ {x} /\ x \in S => Cardinality(T) = Cardinality(S) - 1
  BY FS_AddElement, FS_RemoveElement

(* bind settles, whether or not the object is the one the refp had.        *)
LEMMA BindSettles ==
    ASSUME KObjectsInv, Running, NEW c \in Refps, NEW o \in Objects \cup {NULL},
           bind(c, o)
    PROVE  KObjectsTypeOK' /\ Settled
  <1> DEFINE old == refp[c]
  <1>1. /\ o \in Live \cup {NULL} /\ ReleaseThenReference(old, o)
        /\ refp' = [refp EXCEPT ![c] = o]
        /\ UNCHANGED <<tree, mount, bound, handles, sweep, status>>
    BY DEF bind, nodeVars
  <1>2. /\ refp \in [Refps -> Objects \cup {NULL}]
        /\ heap \in [Objects -> {"none", "live", "freed"}]
        /\ count \in [Objects -> Nat]
    BY DEF KObjectsInv, KObjectsTypeOK
  <1>3. ASSUME NEW x \in Objects
        PROVE  /\ count'[x] = count[x] - (IF x = old THEN 1 ELSE 0)
                                       + (IF x = o THEN 1 ELSE 0)
               /\ heap'[x] = IF x = old /\ count[x] = 1 THEN "freed" ELSE heap[x]
    BY <1>1 DEF ReleaseThenReference, Once
  <1>4. ASSUME NEW x \in Objects
        PROVE  Holders(x)' - Holders(x) =
                 (IF x = o THEN 1 ELSE 0) - (IF x = old THEN 1 ELSE 0)
    <2>1. MountsOf(x)' = MountsOf(x) /\ HandlesOf(x)' = HandlesOf(x)
      BY <1>1 DEF MountsOf, HandlesOf
    <2>2. IsFiniteSet(RefpsOf(x)) /\ Cardinality(RefpsOf(x)) \in Nat
      BY HoldersFinite DEF KObjectsInv
    <2>3. Cardinality(RefpsOf(x))' = Cardinality(RefpsOf(x)) +
                 (IF x = o THEN 1 ELSE 0) - (IF x = old THEN 1 ELSE 0)
      <3>1. CASE (x = o) <=> (x = old)
        <4>1. RefpsOf(x)' = RefpsOf(x)
          BY <1>1, <1>2, <3>1 DEF RefpsOf
        <4> QED  BY <2>2, <3>1, <4>1
      <3>2. CASE x = o /\ x # old
        <4>1. RefpsOf(x)' = RefpsOf(x) \cup {c} /\ c \notin RefpsOf(x)
          BY <1>1, <1>2, <3>2 DEF RefpsOf
        <4> QED  BY <2>2, <3>2, <4>1, OneHolder
      <3>3. CASE x # o /\ x = old
        <4>1. RefpsOf(x)' = RefpsOf(x) \ {c} /\ c \in RefpsOf(x)
          BY <1>1, <1>2, <3>3 DEF RefpsOf
        <4> QED  BY <2>2, <3>3, <4>1, OneHolder
      <3> QED  BY <3>1, <3>2, <3>3
    <2>4. Cardinality(MountsOf(x)) \in Nat /\ Cardinality(HandlesOf(x)) \in Nat
      BY HoldersFinite DEF KObjectsInv
    <2> QED  BY <2>1, <2>2, <2>3, <2>4 DEF Holders
  <1>5. old \in Objects => heap[old] = "live" /\ count[old] > 0
    <2> SUFFICES ASSUME old \in Objects
                 PROVE  heap[old] = "live" /\ count[old] > 0
      OBVIOUS
    <2>1. c \in RefpsOf(old)
      BY DEF RefpsOf
    <2>2. heap[old] = "live"
      BY <2>1, OnlyLiveHeld
    <2>3. Cardinality(RefpsOf(old)) # 0
      BY <2>1, HoldersFinite, FS_EmptySet DEF KObjectsInv
    <2>4. Holders(old) > 0
      BY <2>3, HoldersFinite DEF Holders, KObjectsInv
    <2> QED  BY <2>2, <2>4 DEF KObjectsInv, CountsHolders, Live
  <1>6. \A x \in Objects : count'[x] \in Nat
    BY <1>2, <1>3, <1>5
  <1>7. KObjectsTypeOK'
    <2>1. count' = [x \in Objects |-> count'[x]] /\ heap' = [x \in Objects |-> heap'[x]]
      BY <1>1 DEF ReleaseThenReference
    <2>2. count' \in [Objects -> Nat]
      BY <1>6, <2>1, Zenon
    <2>3. heap' \in [Objects -> {"none", "live", "freed"}]
      BY <1>2, <1>3, <2>1
    <2>4. refp' \in [Refps -> Objects \cup {NULL}]
      BY <1>1, <1>2
    <2> QED  BY <1>1, <2>2, <2>3, <2>4 DEF KObjectsInv, KObjectsTypeOK
  <1>8. Settled
    <2> SUFFICES ASSUME NEW x \in Objects
                 PROVE  /\ Balanced(x) /\ Lives(x)
                        /\ heap'[x] = "none" => count'[x] = count[x]
      BY <1>6 DEF Settled
    <2>1. Balanced(x)
      BY <1>2, <1>3, <1>4 DEF Balanced
    <2>2. x = o => heap[x] = "live"
      BY <1>1, KObjectsAssumption DEF Live
    <2>3. heap'[x] = "none" => count'[x] = count[x]
      BY <1>2, <1>3, <1>5, <2>2
    <2>4. Lives(x)
      <3>1. CASE x = old /\ count[x] = 1 /\ x # o
        BY <1>3, <1>5, <3>1 DEF Lives
      <3>2. CASE x = old /\ count[x] = 1 /\ x = o
        <4>1. refp[c] = x /\ refp'[c] = x
          BY <1>1, <1>2, <3>2
        <4> QED  BY <1>3, <1>5, <3>2, <4>1 DEF Lives
      <3> QED  BY <1>3, <3>1, <3>2 DEF Lives
    <2> QED  BY <2>1, <2>3, <2>4
  <1> QED  BY <1>7, <1>8

-----------------------------------------------------------------------------
(* Nodes *)

(* A node is among the nodes erased with it, and the root is not.          *)
LEMMA BelowNode ==
    ASSUME KObjectsTypeOK, NEW n \in tree \ {Root}
    PROVE  /\ n \in Below(n) /\ Below(n) \subseteq tree /\ Root \notin Below(n)
           /\ \A k \in tree \ {Root} : Parent[k] \in Below(n) => k \in Below(n)
  <1>1. n \in Below(n) /\ Below(n) \subseteq tree
    BY DEF Below
  <1>2. Root \notin Below(n)
    <2>1. tree \ {Root} \in SUBSET tree
      OBVIOUS
    <2> QED  BY <2>1 DEF Below
  <1>3. ASSUME NEW k \in tree \ {Root}, Parent[k] \in Below(n)
        PROVE  k \in Below(n)
    BY <1>3 DEF Below
  <1> QED  BY <1>1, <1>2, <1>3

(* A node more holds nothing, and a crash changes no count. *)
LEMMA AddChildSettles ==
    ASSUME KObjectsInv, Running, NEW n \in Nodes,
           addChild(n) \/ EraseChildCrashes(n)
    PROVE  KObjectsTypeOK' /\ Settled
  <1>1. /\ UNCHANGED <<heap, count, bound, mount, handles, refp, sweep>>
        /\ tree' \in {tree, tree \cup {n}}
        /\ tree' # tree => n \notin tree /\ Parent[n] \in tree
    BY DEF addChild, EraseChildCrashes, objVars, nodeVars
  <1>2. KObjectsTypeOK'
    BY <1>1 DEF KObjectsInv, KObjectsTypeOK
  <1>3. ASSUME NEW x \in Objects
        PROVE  Holders(x)' = Holders(x) /\ Holders(x) \in Nat
    <2>1. MountsOf(x)' = MountsOf(x)
      BY <1>1, KObjectsAssumption DEF MountsOf, KObjectsInv, KObjectsTypeOK
    <2>2. HandlesOf(x)' = HandlesOf(x) /\ RefpsOf(x)' = RefpsOf(x)
      BY <1>1 DEF HandlesOf, RefpsOf
    <2> QED  BY <2>1, <2>2, HoldersFinite DEF Holders, KObjectsInv
  <1>4. Settled
    BY <1>1, <1>3 DEF Settled, Balanced, Lives, KObjectsInv, KObjectsTypeOK
  <1> QED  BY <1>2, <1>4

(* A mount is one holder more, and one reference. *)
LEMMA MountSettles ==
    ASSUME KObjectsInv, Running, NEW n \in Nodes, NEW o \in Objects, Mount(n, o)
    PROVE  KObjectsTypeOK' /\ Settled
  <1>1. /\ n \in tree /\ heap[o] = "live" /\ mount[n] = NULL
        /\ mount' = [mount EXCEPT ![n] = o] /\ bound' = [bound EXCEPT ![o] = n]
        /\ count' = [count EXCEPT ![o] = @ + 1]
        /\ UNCHANGED <<heap, tree, handles, refp, sweep, status>>
    BY DEF Mount, _reference, Live
  <1>2. KObjectsTypeOK'
    <2>1. count' \in [Objects -> Nat]
      BY <1>1 DEF KObjectsInv, KObjectsTypeOK
    <2> QED  BY <1>1, <2>1 DEF KObjectsInv, KObjectsTypeOK
  <1>3. ASSUME NEW x \in Objects
        PROVE  Holders(x)' = Holders(x) + (IF x = o THEN 1 ELSE 0)
    <2>1. HandlesOf(x)' = HandlesOf(x) /\ RefpsOf(x)' = RefpsOf(x)
      BY <1>1 DEF HandlesOf, RefpsOf
    <2>2. Cardinality(MountsOf(x))' =
             Cardinality(MountsOf(x)) + (IF x = o THEN 1 ELSE 0)
      <3>1. CASE x = o
        <4>1. MountsOf(x)' = MountsOf(x) \cup {n} /\ n \notin MountsOf(x)
          BY <1>1, <3>1, KObjectsAssumption DEF MountsOf, KObjectsInv, KObjectsTypeOK
        <4> QED  BY <3>1, <4>1, OneHolder, HoldersFinite DEF KObjectsInv
      <3>2. CASE x # o
        <4>1. MountsOf(x)' = MountsOf(x)
          BY <1>1, <3>2, KObjectsAssumption DEF MountsOf, KObjectsInv, KObjectsTypeOK
        <4> QED  BY <3>2, <4>1, HoldersFinite DEF KObjectsInv
      <3> QED  BY <3>1, <3>2
    <2> QED  BY <2>1, <2>2, HoldersFinite DEF Holders, KObjectsInv
  <1>4. \A x \in Objects : Holders(x) \in Nat
    BY HoldersFinite DEF Holders, KObjectsInv
  <1>5. Settled
    BY <1>1, <1>3, <1>4 DEF Settled, Balanced, Lives, KObjectsInv, KObjectsTypeOK
  <1> QED  BY <1>2, <1>5

(* An unmount is one holder less. *)
LEMMA UnmountSettles ==
    ASSUME KObjectsInv, Running, NEW n \in Nodes, unmount(n)
    PROVE  KObjectsTypeOK' /\ Settled
  <1> DEFINE o == mount[n]
  <1>1. /\ n \in tree /\ o \in Objects
        /\ mount' = [mount EXCEPT ![n] = NULL] /\ bound' = [bound EXCEPT ![o] = NULL]
        /\ _release(Once(o))
        /\ UNCHANGED <<tree, handles, refp, sweep, status>>
    BY DEF unmount, KObjectsInv, KObjectsTypeOK
  <1>2. Once(o) \in [Objects -> Nat]
    BY DEF Once
  <1>3. ASSUME NEW x \in Objects
        PROVE  /\ Holders(x)' = Holders(x) - Once(o)[x]
               /\ Once(o)[x] <= Holders(x)
    <2>1. HandlesOf(x)' = HandlesOf(x) /\ RefpsOf(x)' = RefpsOf(x)
      BY <1>1 DEF HandlesOf, RefpsOf
    <2>2. /\ Cardinality(MountsOf(x))' = Cardinality(MountsOf(x)) - Once(o)[x]
          /\ Once(o)[x] <= Cardinality(MountsOf(x))
      <3>1. CASE x = o
        <4>1. MountsOf(x)' = MountsOf(x) \ {n} /\ n \in MountsOf(x)
          BY <1>1, <3>1, KObjectsAssumption DEF MountsOf, KObjectsInv, KObjectsTypeOK
        <4>2. Cardinality(MountsOf(x)) # 0
          BY <4>1, HoldersFinite, FS_EmptySet DEF KObjectsInv
        <4> QED
          BY <3>1, <4>1, <4>2, OneHolder, HoldersFinite DEF KObjectsInv, Once
      <3>2. CASE x # o
        <4>1. MountsOf(x)' = MountsOf(x)
          BY <1>1, <3>2, KObjectsAssumption DEF MountsOf, KObjectsInv, KObjectsTypeOK
        <4> QED  BY <3>2, <4>1, HoldersFinite DEF KObjectsInv, Once
      <3> QED  BY <3>1, <3>2
    <2> QED  BY <1>2, <2>1, <2>2, HoldersFinite DEF Holders, KObjectsInv
  <1>4. /\ count' \in [Objects -> Nat]
        /\ heap' \in [Objects -> {"none", "live", "freed"}]
    BY <1>1, <1>2, <1>3, ReleaseTypes
  <1>5. KObjectsTypeOK'
    BY <1>1, <1>4 DEF KObjectsInv, KObjectsTypeOK
  <1> QED  BY <1>1, <1>2, <1>3, <1>5, ReleaseSettles

(* What erasing the nodes gone, and unmounting also, takes from each       *)
(* object.                                                                 *)
LEMMA EraseMounts ==
    ASSUME KObjectsTypeOK, NEW gone \in SUBSET tree, NEW also \in SUBSET tree,
           EraseNodes(gone, also), NEW x \in Objects
    PROVE  LET lost == {m \in gone \cup also : mount[m] = x} IN
           /\ IsFiniteSet(lost) /\ Cardinality(lost) \in Nat
           /\ Cardinality(lost) <= Cardinality(MountsOf(x))
           /\ Cardinality(MountsOf(x))' = Cardinality(MountsOf(x)) - Cardinality(lost)
  <1> DEFINE lost == {m \in gone \cup also : mount[m] = x}
  <1>1. lost \in SUBSET MountsOf(x) /\ MountsOf(x) \cap lost = lost
    BY DEF MountsOf
  <1>2. MountsOf(x)' = MountsOf(x) \ lost
    BY KObjectsAssumption DEF EraseNodes, MountsOf, KObjectsTypeOK
  <1>3. /\ IsFiniteSet(lost) /\ Cardinality(lost) \in Nat
        /\ Cardinality(lost) <= Cardinality(MountsOf(x))
    BY <1>1, HoldersFinite, FS_Subset, FS_CardinalityType
  <1>4. Cardinality(MountsOf(x) \ lost) = Cardinality(MountsOf(x)) - Cardinality(lost)
    BY <1>1, HoldersFinite, FS_Difference
  <1> QED  BY <1>2, <1>3, <1>4

(* The tree without a node and all below it is a tree. *)
LEMMA EraseTypes ==
    ASSUME KObjectsTypeOK, NEW n \in tree \ {Root}, NEW also \in SUBSET tree,
           EraseNodes(Below(n), also)
    PROVE  /\ Root \in tree' /\ tree' \subseteq Nodes
           /\ \A k \in tree' \ {Root} : Parent[k] \in tree'
           /\ mount' \in [Nodes -> Objects \cup {NULL}]
           /\ \A k \in Nodes \ tree' : mount'[k] = NULL
           /\ sweep' \in [on : BOOLEAN, at : Nodes \cup {NULL}, erased : BOOLEAN,
                           seen : SUBSET Nodes, there : SUBSET Nodes]
  <1>1. Root \in tree' /\ tree' \subseteq Nodes
    BY BelowNode DEF EraseNodes, KObjectsTypeOK
  <1>2. \A k \in tree' \ {Root} : Parent[k] \in tree'
    BY BelowNode DEF EraseNodes, KObjectsTypeOK
  <1>3. mount' \in [Nodes -> Objects \cup {NULL}] /\ \A k \in Nodes \ tree' : mount'[k] = NULL
    BY DEF EraseNodes, KObjectsTypeOK
  <1>4. sweep' \in [on : BOOLEAN, at : Nodes \cup {NULL}, erased : BOOLEAN,
                    seen : SUBSET Nodes, there : SUBSET Nodes]
    BY DEF EraseNodes, KObjectsTypeOK
  <1> QED  BY <1>1, <1>2, <1>3, <1>4

(* eraseChild without pp gives back the references of the whole subtree    *)
(* and of the parent.                                                      *)
LEMMA EraseChildSettles ==
    ASSUME KObjectsInv, Running, NEW n \in Nodes, eraseChild(n)
    PROVE  KObjectsTypeOK' /\ Settled
  <1> DEFINE p == Parent[n]
             drops == DropsOf(Below(n) \cup {p})
  <1>1. /\ n \in tree \ {Root} /\ EraseNodes(Below(n), {p}) /\ _release(drops)
        /\ bound' = [o \in Objects |-> IF o = mount[p] THEN NULL ELSE bound[o]]
        /\ UNCHANGED <<handles, refp, status>>
    BY DEF eraseChild
  <1>2. KObjectsTypeOK /\ Below(n) \in SUBSET tree /\ {p} \in SUBSET tree
    BY <1>1, BelowNode DEF KObjectsInv, KObjectsTypeOK
  <1>3. ASSUME NEW x \in Objects
        PROVE  /\ drops[x] \in Nat /\ drops[x] <= Holders(x)
               /\ Holders(x)' = Holders(x) - drops[x]
    <2>1. HandlesOf(x)' = HandlesOf(x) /\ RefpsOf(x)' = RefpsOf(x)
      BY <1>1 DEF HandlesOf, RefpsOf
    <2> DEFINE lost == {m \in Below(n) \cup {p} : mount[m] = x}
    <2>2. drops[x] = Cardinality(lost)
      BY DEF DropsOf
    <2>3. /\ Cardinality(lost) \in Nat
          /\ Cardinality(lost) <= Cardinality(MountsOf(x))
          /\ Cardinality(MountsOf(x))' = Cardinality(MountsOf(x)) - Cardinality(lost)
      BY <1>1, <1>2, EraseMounts
    <2> HIDE DEF lost, drops
    <2> QED  BY <1>2, <2>1, <2>2, <2>3, HoldersFinite DEF Holders
  <1>4. drops \in [Objects -> Nat]
    <2>1. drops = [x \in Objects |-> drops[x]]
      BY DEF DropsOf
    <2> QED  BY <1>3, <2>1, Zenon
  <1>5. /\ count' \in [Objects -> Nat]
        /\ heap' \in [Objects -> {"none", "live", "freed"}]
    BY <1>1, <1>3, <1>4, ReleaseTypes
  <1>6. KObjectsTypeOK'
    <2>1. bound' \in [Objects -> Nodes \cup {NULL}]
      BY <1>1, <1>2 DEF KObjectsTypeOK
    <2> QED  BY <1>1, <1>2, <1>5, <2>1, EraseTypes DEF KObjectsTypeOK
  <1> QED  BY <1>1, <1>3, <1>4, <1>6, ReleaseSettles

(* eraseChild with pp gives back the subtree's references but the one that *)
(* the caller's refp takes over.                                           *)
LEMMA EraseChildToSettles ==
    ASSUME KObjectsInv, Running, NEW n \in Nodes, NEW c \in Refps, EraseChildTo(n, c)
    PROVE  KObjectsTypeOK' /\ Settled
  <1> DEFINE o == mount[n]
             drops == DropsOf(Below(n) \ {n})
  <1>1. /\ n \in tree \ {Root} /\ o # NULL /\ refp[c] = NULL
        /\ EraseNodes(Below(n), {}) /\ _release(drops)
        /\ bound' = [bound EXCEPT ![o] = NULL] /\ refp' = [refp EXCEPT ![c] = o]
        /\ UNCHANGED <<handles, status>>
    BY DEF EraseChildTo
  <1>2. /\ KObjectsTypeOK /\ Below(n) \in SUBSET tree /\ n \in Below(n)
        /\ o \in Objects /\ {} \in SUBSET tree
    BY <1>1, BelowNode DEF KObjectsInv, KObjectsTypeOK
  <1>3. ASSUME NEW x \in Objects
        PROVE  /\ drops[x] \in Nat /\ drops[x] <= Holders(x)
               /\ Holders(x)' = Holders(x) - drops[x]
    <2> DEFINE lost == {m \in Below(n) \cup {} : mount[m] = x}
               kept == {m \in Below(n) \ {n} : mount[m] = x}
               mine == IF x = o THEN 1 ELSE 0
    <2>1. HandlesOf(x)' = HandlesOf(x)
      BY <1>1 DEF HandlesOf
    <2>2. drops[x] = Cardinality(kept)
      BY DEF DropsOf
    <2>3. /\ IsFiniteSet(lost) /\ Cardinality(lost) \in Nat
          /\ Cardinality(lost) <= Cardinality(MountsOf(x))
          /\ Cardinality(MountsOf(x))' = Cardinality(MountsOf(x)) - Cardinality(lost)
      BY <1>1, <1>2, EraseMounts
    <2>4. drops[x] = Cardinality(lost) - mine /\ drops[x] \in Nat
      <3>1. CASE x = o
        <4>1. kept = lost \ {n} /\ n \in lost
          BY <1>2, <3>1
        <4>2. Cardinality(lost) # 0
          BY <2>3, <4>1, FS_EmptySet
        <4> HIDE DEF lost, kept
        <4> QED  BY <2>2, <2>3, <3>1, <4>1, <4>2, OneHolder
      <3>2. CASE x # o
        <4>1. kept = lost
          BY <3>2
        <4> QED  BY <2>2, <2>3, <3>2, <4>1
      <3> QED  BY <3>1, <3>2
    <2>5. Cardinality(RefpsOf(x))' = Cardinality(RefpsOf(x)) + mine
      <3>1. CASE x = o
        <4>1. RefpsOf(x)' = RefpsOf(x) \cup {c} /\ c \notin RefpsOf(x)
          BY <1>1, <1>2, <3>1 DEF RefpsOf, KObjectsTypeOK
        <4> QED  BY <1>2, <3>1, <4>1, OneHolder, HoldersFinite
      <3>2. CASE x # o
        <4>1. RefpsOf(x)' = RefpsOf(x)
          BY <1>1, <1>2, <3>2, KObjectsAssumption DEF RefpsOf, KObjectsTypeOK
        <4> QED  BY <1>2, <3>2, <4>1, HoldersFinite
      <3> QED  BY <3>1, <3>2
    <2> HIDE DEF lost, kept, drops
    <2> QED  BY <1>2, <2>1, <2>3, <2>4, <2>5, HoldersFinite DEF Holders
  <1>4. drops \in [Objects -> Nat]
    <2>1. drops = [x \in Objects |-> drops[x]]
      BY DEF DropsOf
    <2> QED  BY <1>3, <2>1, Zenon
  <1>5. /\ count' \in [Objects -> Nat]
        /\ heap' \in [Objects -> {"none", "live", "freed"}]
    BY <1>1, <1>3, <1>4, ReleaseTypes
  <1>6. KObjectsTypeOK'
    <2>1. /\ bound' \in [Objects -> Nodes \cup {NULL}]
          /\ refp' \in [Refps -> Objects \cup {NULL}]
      BY <1>1, <1>2 DEF KObjectsTypeOK
    <2> QED  BY <1>1, <1>2, <1>5, <2>1, EraseTypes DEF KObjectsTypeOK
  <1> QED  BY <1>1, <1>3, <1>4, <1>6, ReleaseSettles

-----------------------------------------------------------------------------
(* Handles *)

(* The next handle is a handle, and a handle in use only if it is 0.       *)
LEMMA NewHandleFresh ==
    ASSUME KObjectsTypeOK
    PROVE  /\ NewHandle \in {h \in 0 .. HandleMod - 1 : h % 4 = 0}
           /\ NewHandle \in DOMAIN handles => NewHandle = 0
  <1>1. CASE DOMAIN handles = {}
    BY <1>1, KObjectsAssumption DEF NewHandle
  <1>2. CASE DOMAIN handles # {}
    <2> DEFINE D == DOMAIN handles
               top == CHOOSE h \in D : \A g \in D : g <= h
    <2>1. D \in SUBSET Nat /\ \A k \in D : k <= HandleMod
      BY KObjectsAssumption DEF KObjectsTypeOK
    <2>2. \E h \in D : \A g \in D : g <= h
      <3> HIDE DEF D
      <3> QED  BY <1>2, <2>1, GreatestNatural, KObjectsAssumption DEF D
    <2>3. top \in D /\ \A g \in D : g <= top
      <3> HIDE DEF D
      <3> QED  BY <2>2
    <2>4. top \in 0 .. HandleMod - 1 /\ top % 4 = 0
      <3> HIDE DEF top
      <3> QED  BY <2>3 DEF KObjectsTypeOK
    <2>5. NewHandle = (top + 4) % HandleMod
      BY <1>2 DEF NewHandle
    <2> HIDE DEF top
    <2>6. top + 4 <= HandleMod
      BY <2>4, KObjectsAssumption
    <2>7. CASE top + 4 = HandleMod
      <3>1. NewHandle = 0
        BY <2>5, <2>7, KObjectsAssumption
      <3> QED  BY <3>1, KObjectsAssumption
    <2>8. CASE top + 4 < HandleMod
      <3>1. NewHandle = top + 4
        BY <2>4, <2>5, <2>8, KObjectsAssumption
      <3> QED  BY <2>3, <2>4, <2>8, <3>1, KObjectsAssumption
    <2> QED  BY <2>4, <2>6, <2>7, <2>8, KObjectsAssumption
  <1> QED  BY <1>1, <1>2

(* allocHandle settles, also when it takes handle 0 from another object.   *)
LEMMA AllocHandleSettles ==
    ASSUME KObjectsInv, Running, NEW o \in Objects, allocHandle(o)
    PROVE  KObjectsTypeOK' /\ Settled
  <1> DEFINE new == NewHandle
             old == IF new \in DOMAIN handles THEN handles[new] ELSE NULL
  <1>1. /\ heap[o] = "live" /\ ReferenceFirst(old, o)
        /\ handles' = [h \in DOMAIN handles \cup {new} |->
                         IF h = new THEN o ELSE handles[h]]
        /\ UNCHANGED <<tree, mount, bound, refp, sweep, status>>
    BY DEF allocHandle, nodeVars, Live
  <1>2. /\ heap \in [Objects -> {"none", "live", "freed"}]
        /\ count \in [Objects -> Nat]
        /\ new \in {h \in 0 .. HandleMod - 1 : h % 4 = 0}
    BY NewHandleFresh DEF KObjectsInv, KObjectsTypeOK
  <1> HIDE DEF new
  <1>3. ASSUME NEW x \in Objects
        PROVE  /\ count'[x] = count[x] - (IF x = old THEN 1 ELSE 0)
                                       + (IF x = o THEN 1 ELSE 0)
               /\ heap'[x] = IF x = old /\ x # o /\ count[x] = 1 THEN "freed"
                             ELSE heap[x]
    BY <1>1 DEF ReferenceFirst, Once
  <1>4. ASSUME NEW x \in Objects
        PROVE  Holders(x)' - Holders(x) =
                 (IF x = o THEN 1 ELSE 0) - (IF x = old THEN 1 ELSE 0)
    <2>1. MountsOf(x)' = MountsOf(x) /\ RefpsOf(x)' = RefpsOf(x)
      BY <1>1 DEF MountsOf, RefpsOf
    <2>2. IsFiniteSet(HandlesOf(x)) /\ Cardinality(HandlesOf(x)) \in Nat
      BY HoldersFinite DEF KObjectsInv
    <2>3. Cardinality(HandlesOf(x))' = Cardinality(HandlesOf(x)) +
                 (IF x = o THEN 1 ELSE 0) - (IF x = old THEN 1 ELSE 0)
      <3>1. CASE (x = o) <=> (x = old)
        <4>1. HandlesOf(x)' = HandlesOf(x)
          BY <1>1, <3>1, KObjectsAssumption DEF HandlesOf
        <4> QED  BY <2>2, <3>1, <4>1
      <3>2. CASE x = o /\ x # old
        <4>1. HandlesOf(x)' = HandlesOf(x) \cup {new} /\ new \notin HandlesOf(x)
          BY <1>1, <3>2 DEF HandlesOf
        <4> QED  BY <2>2, <3>2, <4>1, OneHolder
      <3>3. CASE x # o /\ x = old
        <4>1. HandlesOf(x)' = HandlesOf(x) \ {new} /\ new \in HandlesOf(x)
          BY <1>1, <3>3, KObjectsAssumption DEF HandlesOf
        <4> QED  BY <2>2, <3>3, <4>1, OneHolder
      <3> QED  BY <3>1, <3>2, <3>3
    <2>4. Cardinality(MountsOf(x)) \in Nat /\ Cardinality(RefpsOf(x)) \in Nat
      BY HoldersFinite DEF KObjectsInv
    <2> QED  BY <2>1, <2>2, <2>3, <2>4 DEF Holders
  <1>5. ASSUME NEW x \in Objects, x = old
        PROVE  heap[x] = "live" /\ count[x] > 0
    <2>1. new \in HandlesOf(x)
      BY <1>5, KObjectsAssumption DEF HandlesOf
    <2>2. heap[x] = "live"
      BY <2>1, OnlyLiveHeld
    <2>3. Cardinality(HandlesOf(x)) # 0
      BY <2>1, HoldersFinite, FS_EmptySet DEF KObjectsInv
    <2>4. Holders(x) > 0
      BY <2>3, HoldersFinite DEF Holders, KObjectsInv
    <2> QED  BY <2>2, <2>4 DEF KObjectsInv, CountsHolders, Live
  <1>6. \A x \in Objects : count'[x] \in Nat
    BY <1>2, <1>3, <1>5
  <1>7. KObjectsTypeOK'
    <2>1. count' = [x \in Objects |-> count'[x]] /\ heap' = [x \in Objects |-> heap'[x]]
      BY <1>1 DEF ReferenceFirst
    <2>2. count' \in [Objects -> Nat]
      BY <1>6, <2>1, Zenon
    <2>3. heap' \in [Objects -> {"none", "live", "freed"}]
      BY <1>2, <1>3, <2>1
    <2>4. DOMAIN handles' \subseteq {h \in 0 .. HandleMod - 1 : h % 4 = 0}
      BY <1>1, <1>2 DEF KObjectsInv, KObjectsTypeOK
    <2> QED  BY <1>1, <2>2, <2>3, <2>4 DEF KObjectsInv, KObjectsTypeOK
  <1>8. Settled
    BY <1>1, <1>2, <1>3, <1>4, <1>5, <1>6 DEF Settled, Balanced, Lives
  <1> QED  BY <1>7, <1>8

(* freeHandle gives back the handle's reference. *)
LEMMA FreeHandleSettles ==
    ASSUME KObjectsInv, Running, NEW h \in DOMAIN handles, freeHandle(h)
    PROVE  KObjectsTypeOK' /\ Settled
  <1> DEFINE o == handles[h]
  <1>1. /\ _release(Once(o)) /\ handles' = [g \in DOMAIN handles \ {h} |-> handles[g]]
        /\ UNCHANGED <<tree, mount, bound, refp, sweep, status>>
    BY DEF freeHandle, nodeVars
  <1>2. Once(o) \in [Objects -> Nat]
    BY DEF Once
  <1>3. ASSUME NEW x \in Objects
        PROVE  /\ Holders(x)' = Holders(x) - Once(o)[x]
               /\ Once(o)[x] <= Holders(x)
    <2>1. MountsOf(x)' = MountsOf(x) /\ RefpsOf(x)' = RefpsOf(x)
      BY <1>1 DEF MountsOf, RefpsOf
    <2>2. /\ Cardinality(HandlesOf(x))' = Cardinality(HandlesOf(x)) - Once(o)[x]
          /\ Once(o)[x] <= Cardinality(HandlesOf(x))
      <3>1. CASE x = o
        <4>1. HandlesOf(x)' = HandlesOf(x) \ {h} /\ h \in HandlesOf(x)
          BY <1>1, <3>1 DEF HandlesOf
        <4>2. Cardinality(HandlesOf(x)) # 0
          BY <4>1, HoldersFinite, FS_EmptySet DEF KObjectsInv
        <4> QED
          BY <3>1, <4>1, <4>2, OneHolder, HoldersFinite DEF KObjectsInv, Once
      <3>2. CASE x # o
        <4>1. HandlesOf(x)' = HandlesOf(x)
          BY <1>1, <3>2 DEF HandlesOf
        <4> QED  BY <3>2, <4>1, HoldersFinite DEF KObjectsInv, Once
      <3> QED  BY <3>1, <3>2
    <2> QED  BY <1>2, <2>1, <2>2, HoldersFinite DEF Holders, KObjectsInv
  <1>4. /\ count' \in [Objects -> Nat]
        /\ heap' \in [Objects -> {"none", "live", "freed"}]
    BY <1>1, <1>2, <1>3, ReleaseTypes
  <1>5. KObjectsTypeOK'
    BY <1>1, <1>4 DEF KObjectsInv, KObjectsTypeOK
  <1> QED  BY <1>1, <1>2, <1>3, <1>5, ReleaseSettles

-----------------------------------------------------------------------------
(* Enumeration *)

(* next() returns the first child that follows. *)
LEMMA NextOfLeast ==
    ASSUME KObjectsTypeOK, After(sweep.at) # {}
    PROVE  /\ NextOf(After(sweep.at)) \in After(sweep.at)
           /\ \A k \in After(sweep.at) : NextOf(After(sweep.at)) <= k
  <1>1. After(sweep.at) \in SUBSET Nat
    BY KObjectsAssumption DEF KObjectsTypeOK, After, ChildrenOf
  <1>2. \E m \in After(sweep.at) : \A k \in After(sweep.at) : m <= k
    BY <1>1, LeastNatural
  <1> QED  BY <1>2 DEF NextOf

(* The children an enumeration owes stay ahead of it while others are      *)
(* added and erased, and one of them is what next() returns.               *)
LEMMA SweepStep ==
    ASSUME KObjectsInv, KObjectsNext
    PROVE  /\ SweepOnCourse'
           /\ sweep.on /\ ~sweep'.on => sweep.there \subseteq sweep.seen
  <1> USE DEF KObjectsInv
  <1>1. sweep \in [on : BOOLEAN, at : Nodes \cup {NULL}, erased : BOOLEAN,
                   seen : SUBSET Nodes, there : SUBSET Nodes]
    BY DEF KObjectsTypeOK
  <1>2. CASE UNCHANGED sweep /\ tree \subseteq tree'
    BY <1>2 DEF SweepOnCourse, After, ChildrenOf
  <1>3. ASSUME NEW gone, NEW also, EraseNodes(gone, also)
        PROVE  /\ SweepOnCourse'
               /\ sweep.on /\ ~sweep'.on => sweep.there \subseteq sweep.seen
    <2>1. /\ tree' = tree \ gone
          /\ sweep' = [sweep EXCEPT !.there = @ \ gone,
                                    !.erased = @ \/ sweep.at \in gone]
      BY <1>3 DEF EraseNodes
    <2>2. /\ sweep'.on = sweep.on /\ sweep'.at = sweep.at /\ sweep'.seen = sweep.seen
          /\ sweep'.there = sweep.there \ gone
          /\ sweep'.erased <=> sweep.erased \/ sweep.at \in gone
      BY <1>1, <2>1, Zenon
    <2> QED  BY <2>1, <2>2 DEF SweepOnCourse, After, ChildrenOf
  <1>4. CASE SweepStart
    <2>1. /\ ~sweep.on /\ tree' = tree
          /\ sweep' = [NoSweep EXCEPT !.on = TRUE, !.there = ChildrenOf(Root)]
      BY <1>4 DEF SweepStart, nodeVars
    <2>2. sweep'.at = NULL /\ sweep'.there = ChildrenOf(Root)
      BY <2>1 DEF NoSweep
    <2> QED  BY <2>1, <2>2 DEF SweepOnCourse, After, ChildrenOf
  <1>5. CASE next
    <2>1. /\ sweep.on /\ tree' = tree
          /\ sweep' = IF After(sweep.at) = {} THEN NoSweep
                      ELSE [sweep EXCEPT !.at = NextOf(After(sweep.at)),
                                   !.seen = @ \cup {NextOf(After(sweep.at))}]
      BY <1>5 DEF next, nodeVars
    <2>2. CASE After(sweep.at) = {}
      BY <2>1, <2>2 DEF NoSweep, SweepOnCourse
    <2>3. CASE After(sweep.at) # {}
      <3> DEFINE m == NextOf(After(sweep.at))
      <3>1. /\ m \in After(sweep.at) /\ \A k \in After(sweep.at) : m <= k
        BY <2>3, NextOfLeast
      <3>2. m \in Nat /\ m # NULL
        BY <3>1, KObjectsAssumption DEF After, ChildrenOf, KObjectsTypeOK
      <3>3. sweep'.on /\ sweep'.at = m /\ sweep'.seen = sweep.seen \cup {m}
            /\ sweep'.there = sweep.there
        BY <1>1, <2>1, <2>3
      <3>5. m \in tree
        BY <3>1 DEF After, ChildrenOf
      <3> HIDE DEF m
      <3>4. ASSUME NEW k \in sweep.there
            PROVE  /\ k \in ChildrenOf(Root)'
                   /\ k \in sweep'.seen \/ k \in After(sweep.at)'
        <4>1. k \in ChildrenOf(Root) /\ (k \in sweep.seen \/ k \in After(sweep.at))
          BY <2>1 DEF SweepOnCourse
        <4>2. ChildrenOf(Root)' = ChildrenOf(Root) /\ k \in Nat
          BY <2>1, <4>1, KObjectsAssumption DEF ChildrenOf, KObjectsTypeOK
        <4>3. CASE k \in After(sweep.at) /\ k # m
          <5>1. k > m
            BY <3>1, <3>2, <4>2, <4>3
          <5> QED  BY <3>3, <4>1, <4>2, <5>1 DEF After
        <4> QED  BY <3>3, <4>1, <4>2, <4>3
      <3> QED  BY <2>1, <3>3, <3>4, <3>5 DEF SweepOnCourse
    <2> QED  BY <2>2, <2>3
  <1>6. ASSUME NEW n \in Nodes, NodeStep(n)
        PROVE  /\ SweepOnCourse'
               /\ sweep.on /\ ~sweep'.on => sweep.there \subseteq sweep.seen
    <2>1. CASE addChild(n)
      BY <1>2, <2>1 DEF addChild
    <2>2. CASE (\E o \in Objects : Mount(n, o)) \/ unmount(n) \/ EraseChildCrashes(n)
      BY <1>2, <2>2 DEF Mount, unmount, EraseChildCrashes, nodeVars
    <2>3. CASE eraseChild(n) \/ \E c \in Refps : EraseChildTo(n, c)
      BY <1>3, <2>3 DEF eraseChild, EraseChildTo
    <2> QED  BY <1>6, <2>1, <2>2, <2>3 DEF NodeStep
  <1>7. CASE \E o \in Objects : New(o) \/ allocHandle(o)
    BY <1>2, <1>7 DEF New, allocHandle, nodeVars
  <1>8. CASE \E c \in Refps, o \in Objects \cup {NULL} : bind(c, o)
    BY <1>2, <1>8 DEF bind, nodeVars
  <1>9. CASE \E h \in DOMAIN handles : freeHandle(h)
    BY <1>2, <1>9 DEF freeHandle, nodeVars
  <1>10. CASE NextReadsFreed
    BY <1>2, <1>10 DEF NextReadsFreed, nodeVars
  <1> QED  BY <1>4, <1>5, <1>6, <1>7, <1>8, <1>9, <1>10 DEF KObjectsNext

-----------------------------------------------------------------------------
(* Every step *)

(* Before the first step nothing is made and nothing is held. *)
LEMMA KObjectsStart == KObjectsInit => KObjectsInv
  <1> SUFFICES ASSUME KObjectsInit  PROVE KObjectsInv
    OBVIOUS
  <1> USE DEF KObjectsInit
  <1>1. KObjectsTypeOK
    BY KObjectsAssumption DEF KObjectsTypeOK, NoSweep
  <1>2. ASSUME NEW o \in Objects  PROVE Holders(o) = 0
    <2>1. MountsOf(o) = {} /\ HandlesOf(o) = {} /\ RefpsOf(o) = {}
      BY KObjectsAssumption DEF MountsOf, HandlesOf, RefpsOf
    <2>2. Cardinality({}) = 0
      BY FS_EmptySet
    <2> QED  BY <2>1, <2>2 DEF Holders
  <1>3. CountsHolders /\ UnbornUnheld
    BY <1>2 DEF CountsHolders, UnbornUnheld, Live
  <1>4. SweepOnCourse
    BY DEF SweepOnCourse, NoSweep
  <1> QED  BY <1>1, <1>3, <1>4 DEF KObjectsInv

(* Every step has its types and settles its accounts. *)
LEMMA StepSettles ==
    ASSUME KObjectsInv, KObjectsNext
    PROVE  KObjectsTypeOK' /\ Settled
  <1>1. Running
    BY DEF KObjectsNext
  <1>2. ASSUME NEW n \in Nodes, NodeStep(n)  PROVE KObjectsTypeOK' /\ Settled
    BY <1>1, <1>2, AddChildSettles, MountSettles, UnmountSettles,
       EraseChildSettles, EraseChildToSettles DEF NodeStep
  <1>3. CASE SweepStart \/ next \/ NextReadsFreed
    <2>1. UNCHANGED <<heap, count, bound, tree, mount, handles, refp>>
      BY <1>3 DEF SweepStart, next, NextReadsFreed, objVars, nodeVars
    <2>2. sweep' \in [on : BOOLEAN, at : Nodes \cup {NULL}, erased : BOOLEAN,
                      seen : SUBSET Nodes, there : SUBSET Nodes]
      <3>1. CASE SweepStart
        BY <3>1 DEF SweepStart, NoSweep, KObjectsInv, KObjectsTypeOK, ChildrenOf
      <3>2. CASE next
        <4>1. After(sweep.at) # {} => NextOf(After(sweep.at)) \in Nodes
          BY NextOfLeast DEF KObjectsInv, KObjectsTypeOK, After, ChildrenOf
        <4> QED  BY <3>2, <4>1 DEF next, NoSweep, KObjectsInv, KObjectsTypeOK
      <3>3. CASE NextReadsFreed
        BY <3>3 DEF NextReadsFreed, KObjectsInv, KObjectsTypeOK
      <3> QED  BY <1>3, <3>1, <3>2, <3>3
    <2>3. KObjectsTypeOK'
      BY <2>1, <2>2 DEF KObjectsInv, KObjectsTypeOK
    <2>4. ASSUME NEW x \in Objects
          PROVE  Holders(x)' = Holders(x) /\ Holders(x) \in Nat
      <3>1. /\ MountsOf(x)' = MountsOf(x) /\ HandlesOf(x)' = HandlesOf(x)
            /\ RefpsOf(x)' = RefpsOf(x)
        BY <2>1 DEF MountsOf, HandlesOf, RefpsOf
      <3> QED  BY <3>1, HoldersFinite DEF Holders, KObjectsInv
    <2>5. Settled
      BY <2>1, <2>4 DEF Settled, Balanced, Lives, KObjectsInv, KObjectsTypeOK
    <2> QED  BY <2>3, <2>5
  <1> QED
    BY <1>1, <1>2, <1>3, NewSettles, BindSettles, AllocHandleSettles,
       FreeHandleSettles DEF KObjectsNext

(* Every step keeps the invariant. *)
LEMMA KObjectsStep ==
    ASSUME KObjectsInv, [KObjectsNext]_kovars
    PROVE  KObjectsInv'
  <1>1. CASE KObjectsNext
    BY <1>1, StepSettles, SettledKeepsCounts, SweepStep DEF KObjectsInv, KObjectsNext
  <1>2. CASE UNCHANGED kovars
    <2> USE <1>2 DEF kovars
    <2>1. \A o : Holders(o)' = Holders(o)
      BY DEF Holders, MountsOf, HandlesOf, RefpsOf
    <2>2. KObjectsTypeOK'
      BY DEF KObjectsInv, KObjectsTypeOK
    <2>3. CountsHolders' /\ UnbornUnheld'
      BY <2>1 DEF KObjectsInv, CountsHolders, UnbornUnheld, Live
    <2>4. SweepOnCourse'
      BY DEF KObjectsInv, SweepOnCourse, ChildrenOf, After
    <2> QED  BY <2>2, <2>3, <2>4 DEF KObjectsInv
  <1> QED  BY <1>1, <1>2

(* Whatever is mounted, erased, bound and given handles in any order, the  *)
(* count of a live object is the number of its holders, and an enumeration *)
(* is on course.                                                           *)
THEOREM ObjectsCounted == KObjectsSpec => []KObjectsInv
  BY KObjectsStart, KObjectsStep, PTL DEF KObjectsSpec

(* No object dies while anybody holds it, but by a refp bound to the       *)
(* object it holds.                                                        *)
THEOREM NoneDiesHeld == KObjectsSpec => DiesUnheld
  <1> DEFINE Unheld ==
        \A o \in Objects : heap[o] = "live" /\ heap'[o] = "freed" =>
          Holders(o)' = 0 \/ \E c \in Refps : refp[c] = o /\ refp'[c] = o
  <1>1. KObjectsInv /\ [KObjectsNext]_kovars => [Unheld]_kovars
    <2> SUFFICES ASSUME KObjectsInv, KObjectsNext  PROVE Unheld
      OBVIOUS
    <2> QED  BY StepSettles, SettledKeepsCounts DEF KObjectsNext
  <1>2. DiesUnheld <=> [][Unheld]_kovars
    BY DEF DiesUnheld
  <1> QED  BY <1>1, <1>2, ObjectsCounted, PTL DEF KObjectsSpec

(* A live object that knows its node goes on knowing it until an           *)
(* eraseChild takes the node.                                              *)
THEOREM BindingsLostByErasing == KObjectsSpec => BindingLostByErasing
  <1> DEFINE Kept ==
        \A o \in Live : WellBound(o) /\ heap'[o] = "live" /\ ~WellBound(o)' =>
          bound[o] \in tree \ tree'
  <1>1. KObjectsInv /\ [KObjectsNext]_kovars => [Kept]_kovars
    <2> SUFFICES ASSUME KObjectsInv, KObjectsNext,
                        NEW o \in Objects, WellBound(o), bound[o] \notin tree \ tree'
                 PROVE  WellBound(o)'
      BY DEF Live
    <2> USE KObjectsAssumption DEF KObjectsInv, KObjectsTypeOK
    <2>1. CASE UNCHANGED <<tree, mount, bound>>
      BY <2>1 DEF WellBound
    <2>2. ASSUME NEW n \in Nodes, NodeStep(n)  PROVE WellBound(o)'
      <3>1. CASE addChild(n)
        BY <3>1 DEF addChild, WellBound
      <3>2. ASSUME NEW x \in Objects, Mount(n, x)  PROVE WellBound(o)'
        BY <3>2 DEF Mount, WellBound
      <3>3. CASE unmount(n)
        BY <3>3 DEF unmount, WellBound
      <3>4. CASE eraseChild(n)
        BY <3>4 DEF eraseChild, EraseNodes, WellBound
      <3>5. ASSUME NEW c \in Refps, EraseChildTo(n, c)  PROVE WellBound(o)'
        BY <3>5 DEF EraseChildTo, EraseNodes, WellBound
      <3>6. CASE EraseChildCrashes(n)
        BY <2>1, <3>6 DEF EraseChildCrashes, nodeVars
      <3> QED  BY <2>2, <3>1, <3>2, <3>3, <3>4, <3>5, <3>6 DEF NodeStep
    <2>3. CASE SweepStart \/ next \/ NextReadsFreed
      BY <2>1, <2>3 DEF SweepStart, next, NextReadsFreed, nodeVars
    <2>4. CASE \E x \in Objects : New(x) \/ allocHandle(x)
      BY <2>1, <2>4 DEF New, allocHandle, nodeVars
    <2>5. CASE \E c \in Refps, x \in Objects \cup {NULL} : bind(c, x)
      BY <2>1, <2>5 DEF bind, nodeVars
    <2>6. CASE \E h \in DOMAIN handles : freeHandle(h)
      BY <2>1, <2>6 DEF freeHandle, nodeVars
    <2> QED  BY <2>2, <2>3, <2>4, <2>5, <2>6 DEF KObjectsNext
  <1>2. BindingLostByErasing <=> [][Kept]_kovars
    BY DEF BindingLostByErasing
  <1> QED  BY <1>1, <1>2, ObjectsCounted, PTL DEF KObjectsSpec

(* A handle in use never comes to name another object, unless it is        *)
(* handle 0, which allocHandle gives out when the numbers have wrapped.    *)
THEOREM HandlesKeepObjects == KObjectsSpec => HandleKeepsObject
  <1> DEFINE Same ==
        \A h \in DOMAIN handles \cap DOMAIN handles' :
          handles'[h] = handles[h] \/ h = 0
  <1>1. KObjectsInv /\ [KObjectsNext]_kovars => [Same]_kovars
    <2> SUFFICES ASSUME KObjectsInv, KObjectsNext  PROVE Same
      OBVIOUS
    <2>1. CASE UNCHANGED handles
      BY <2>1
    <2>2. ASSUME NEW o \in Objects, allocHandle(o)  PROVE Same
      <3>1. NewHandle \in DOMAIN handles => NewHandle = 0
        BY NewHandleFresh DEF KObjectsInv
      <3>2. handles' = [h \in DOMAIN handles \cup {NewHandle} |->
                         IF h = NewHandle THEN o ELSE handles[h]]
        BY <2>2 DEF allocHandle
      <3> QED  BY <3>1, <3>2
    <2>3. ASSUME NEW h \in DOMAIN handles, freeHandle(h)  PROVE Same
      BY <2>3 DEF freeHandle
    <2>4. ASSUME NEW n \in Nodes, NodeStep(n)  PROVE UNCHANGED handles
      BY <2>4 DEF NodeStep, addChild, Mount, unmount, eraseChild, EraseChildTo,
                  EraseChildCrashes
    <2> QED
      BY <2>1, <2>2, <2>3, <2>4 DEF KObjectsNext, New, bind, SweepStart, next,
                                           NextReadsFreed
  <1>2. HandleKeepsObject <=> [][Same]_kovars
    BY DEF HandleKeepsObject
  <1> QED  BY <1>1, <1>2, ObjectsCounted, PTL DEF KObjectsSpec

(* No enumeration that ends has missed a child that was there all along;   *)
(* one whose node was erased while others are left does not end, as its    *)
(* next call reads a freed node.                                           *)
THEOREM SweepsMissNone == KObjectsSpec => SweepMissesNone
  <1>1. KObjectsInv /\ [KObjectsNext]_kovars =>
          [sweep.on /\ ~sweep'.on => sweep.there \subseteq sweep.seen]_kovars
    BY SweepStep
  <1> QED  BY <1>1, ObjectsCounted, PTL DEF KObjectsSpec, SweepMissesNone
=============================================================================
