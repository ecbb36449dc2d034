------------------------------ MODULE KObjects -------------------------------
(***************************************************************************)
(* Who holds a kernel object: the nodes of the name space it is mounted on *)
(* (vfs::node_t), the handles that name it (KsHandleManager) and the refp  *)
(* variables of the program (refable.h), all of which count references on  *)
(* the object.  Kvfs says how paths lead to nodes; here a node is given,   *)
(* and the tree is only what erasing a node takes with it.                 *)
(*                                                                         *)
(* An object is created with a count of 0 and dies when its count returns  *)
(* there.  The program handles plain pointers to live objects too.         *)
(***************************************************************************)
EXTENDS Integers, FiniteSets

CONSTANTS Objects,      \* KoMountable objects
          Nodes,        \* the nodes there may be: numbers in name order
          Parent,       \* _parent: a function from the nodes but the root
          Root,
          Refps,        \* the program's refp variables
          HandleMod,    \* 2^32, the values of a handle
          NULL

ASSUME KObjectsAssumption ==
    /\ Root \in Nodes /\ Nodes \subseteq Nat /\ IsFiniteSet(Nodes)
    /\ IsFiniteSet(Refps)
    /\ Parent \in [Nodes \ {Root} -> Nodes]
    /\ NULL \notin Objects /\ NULL \notin Nodes
    /\ HandleMod \in Nat /\ HandleMod % 4 = 0 /\ HandleMod > 4

VARIABLES
    heap,       \* "none" before new, "live", "freed"
    count,      \* _ref_count
    bound,      \* KoMountable::_node
    tree,       \* the nodes there are
    mount,      \* node_t::_mount
    handles,    \* _handles: a function from the handles in use
    refp,       \* m_p
    sweep,      \* an enumeration of the root's children with next()
    status      \* "running", "crashed" by a null pointer, or "dangling":
                \* a node that was freed has been read

objVars  == <<heap, count>>
nodeVars == <<tree, mount, bound>>
kovars == <<heap, count, bound, tree, mount, handles, refp, sweep, status>>

NoSweep == [on |-> FALSE, at |-> NULL, erased |-> FALSE, seen |-> {}, there |-> {}]

KObjectsInit ==
    /\ heap = [o \in Objects |-> "none"]
    /\ count = [o \in Objects |-> 0]
    /\ bound = [o \in Objects |-> NULL]
    /\ tree = {Root}
    /\ mount = [n \in Nodes |-> NULL]
    /\ handles = [h \in {} |-> NULL]
    /\ refp = [c \in Refps |-> NULL]
    /\ sweep = NoSweep
    /\ status = "running"

-----------------------------------------------------------------------------
(* References *)

Live == {o \in Objects : heap[o] = "live"}

MountsOf(o)  == {n \in tree : mount[n] = o}
HandlesOf(o) == {h \in DOMAIN handles : handles[h] = o}
RefpsOf(o)   == {c \in Refps : refp[c] = o}
Holders(o)   == Cardinality(MountsOf(o)) + Cardinality(HandlesOf(o))
                  + Cardinality(RefpsOf(o))

(* A freed object is referred to: what the program does next is undefined. *)
Dangling == \E o \in Objects : heap[o] = "freed" /\ Holders(o) > 0

Running == status = "running" /\ ~Dangling

_reference(o) ==
    /\ count' = [count EXCEPT ![o] = @ + 1]
    /\ UNCHANGED heap

(* _release, drops[o] times for each object o. *)
_release(drops) ==
    /\ count' = [o \in Objects |-> count[o] - drops[o]]
    /\ heap' = [o \in Objects |->
                  IF drops[o] > 0 /\ drops[o] = count[o] THEN "freed" ELSE heap[o]]

Once(o) == [x \in Objects |-> IF x = o THEN 1 ELSE 0]

ReferenceFirst(old, o) ==
    /\ count' = [x \in Objects |-> count[x] - Once(old)[x] + Once(o)[x]]
    /\ heap' = [x \in Objects |->
                  IF x = old /\ x # o /\ count[x] = 1 THEN "freed" ELSE heap[x]]

(* The release of the old object, then the reference of the new one.       *)
ReleaseThenReference(old, o) ==
    /\ count' = [x \in Objects |-> count[x] - Once(old)[x] + Once(o)[x]]
    /\ heap' = [x \in Objects |->
                  IF x = old /\ count[x] = 1 THEN "freed" ELSE heap[x]]

New(o) ==
    /\ heap[o] = "none"
    /\ heap' = [heap EXCEPT ![o] = "live"]
    /\ UNCHANGED <<count, nodeVars, handles, refp, sweep, status>>

(* refp = p; NULL stands for dispose(). *)
bind(c, o) ==
    /\ o \in Live \cup {NULL}
    /\ ReleaseThenReference(refp[c], o)
    /\ refp' = [refp EXCEPT ![c] = o]
    /\ UNCHANGED <<nodeVars, handles, sweep, status>>

-----------------------------------------------------------------------------
(* Nodes *)

ChildrenOf(n) == {m \in tree \ {Root} : Parent[m] = n}

(* A node and all below it: the least set of nodes that has it and, with   *)
(* every node, the node's children.                                        *)
Below(n) ==
    {m \in tree : \A S \in SUBSET tree :
        n \in S /\ (\A k \in tree \ {Root} : Parent[k] \in S => k \in S)
            => m \in S}

addChild(n) ==
    /\ n \in Nodes \ tree /\ Parent[n] \in tree
    /\ tree' = tree \cup {n}
    /\ UNCHANGED <<objVars, bound, mount, handles, refp, sweep, status>>

MountUncounted(n, o) ==
    /\ n \in tree /\ o \in Live
    /\ mount[n] = NULL
    /\ mount' = [mount EXCEPT ![n] = o]
    /\ bound' = [bound EXCEPT ![o] = n]
    /\ UNCHANGED <<objVars, tree, handles, refp, sweep, status>>

(* node_t::mount; E_UNEXPECTED when something is mounted already. *)
Mount(n, o) ==
    /\ n \in tree /\ o \in Live
    /\ mount[n] = NULL
    /\ mount' = [mount EXCEPT ![n] = o]
    /\ _reference(o)
    /\ bound' = [bound EXCEPT ![o] = n]
    /\ UNCHANGED <<tree, handles, refp, sweep, status>>

UnmountKeepsBinding(n) ==
    /\ n \in tree /\ mount[n] # NULL
    /\ mount' = [mount EXCEPT ![n] = NULL]
    /\ _release(Once(mount[n]))
    /\ UNCHANGED <<tree, bound, handles, refp, sweep, status>>

unmount(n) ==
    /\ n \in tree /\ mount[n] # NULL
    /\ bound' = [bound EXCEPT ![mount[n]] = NULL]
    /\ mount' = [mount EXCEPT ![n] = NULL]
    /\ _release(Once(mount[n]))
    /\ UNCHANGED <<tree, handles, refp, sweep, status>>

(* _nodes.erase(it): the nodes below go too, each with its reference.  A   *)
(* node made again under the same name is another one: erased remembers    *)
(* that the node an enumeration stands on is gone.                         *)
EraseNodes(gone, alsoUnmounted) ==
    /\ tree' = tree \ gone
    /\ mount' = [n \in Nodes |->
                   IF n \in gone \cup alsoUnmounted THEN NULL ELSE mount[n]]
    /\ sweep' = [sweep EXCEPT !.there = @ \ gone,
                               !.erased = @ \/ sweep.at \in gone]

DropsOf(ns) == [o \in Objects |-> Cardinality({n \in ns : mount[n] = o})]

EraseReleasesNode(n) ==
    LET p == Parent[n] IN
    /\ n \in tree \ {Root}
    /\ bound' = [o \in Objects |-> IF o = mount[p] THEN NULL ELSE bound[o]]
    /\ EraseNodes(Below(n), {p})
    /\ _release(DropsOf({n, p}))
    /\ UNCHANGED <<handles, refp, status>>

(* eraseChild(name, 0) unmounts the node it is called on, n's parent.      *)
eraseChild(n) ==
    LET p == Parent[n] IN
    /\ n \in tree \ {Root}
    /\ bound' = [o \in Objects |-> IF o = mount[p] THEN NULL ELSE bound[o]]
    /\ EraseNodes(Below(n), {p})
    /\ _release(DropsOf(Below(n) \cup {p}))
    /\ UNCHANGED <<handles, refp, status>>

(* eraseChild(name, pp): the caller, who attaches what it gets to an empty *)
(* refp, takes over the local variable's reference.                        *)
EraseChildTo(n, c) ==
    /\ n \in tree \ {Root} /\ mount[n] # NULL
    /\ refp[c] = NULL
    /\ bound' = [bound EXCEPT ![mount[n]] = NULL]
    /\ refp' = [refp EXCEPT ![c] = mount[n]]
    /\ EraseNodes(Below(n), {})
    /\ _release(DropsOf(Below(n) \ {n}))
    /\ UNCHANGED <<handles, status>>

(* Nothing is mounted: eraseChild calls bindNode on a null pointer. *)
EraseChildCrashes(n) ==
    /\ n \in tree \ {Root} /\ mount[n] = NULL
    /\ status' = "crashed"
    /\ UNCHANGED <<objVars, nodeVars, handles, refp, sweep>>

-----------------------------------------------------------------------------
(* Enumerating the children of a directory *)

SweepStart ==
    /\ ~sweep.on
    /\ sweep' = [NoSweep EXCEPT !.on = TRUE, !.there = ChildrenOf(Root)]
    /\ UNCHANGED <<objVars, nodeVars, handles, refp, status>>

After(n) == {m \in ChildrenOf(Root) : n = NULL \/ m > n}

NextSkips(ms) == CHOOSE m \in ms : \A k \in ms : k <= m

NextOf(ms) == CHOOSE m \in ms : \A k \in ms : m <= k

(* next(p) where p is a node, or NULL, or there is no child to look among. *)
next ==
    /\ sweep.on
    /\ ~sweep.erased \/ ChildrenOf(Root) = {}
    /\ sweep' = IF After(sweep.at) = {} THEN NoSweep
                ELSE [sweep EXCEPT !.at = NextOf(After(sweep.at)),
                                   !.seen = @ \cup {NextOf(After(sweep.at))}]
    /\ UNCHANGED <<objVars, nodeVars, handles, refp, status>>

(* Here next compares the children with a node that has been freed: what   *)
(* follows is undefined.                                                   *)
NextReadsFreed ==
    /\ sweep.on /\ sweep.erased
    /\ ChildrenOf(Root) # {}
    /\ status' = "dangling"
    /\ UNCHANGED <<objVars, nodeVars, handles, refp, sweep>>

-----------------------------------------------------------------------------
(* Handles *)

HandleOfSize == (4 * (Cardinality(DOMAIN handles) + 1)) % HandleMod

(* The number after the highest in use; *ph is never written. *)
NewHandle ==
    IF DOMAIN handles = {} THEN 4
    ELSE ((CHOOSE h \in DOMAIN handles : \A g \in DOMAIN handles : g <= h) + 4)
             % HandleMod

(* _handles[hv] = tmp, where tmp holds a reference until the call returns. *)
allocHandle(o) ==
    /\ o \in Live
    /\ LET old == IF NewHandle \in DOMAIN handles THEN handles[NewHandle] ELSE NULL
       IN ReferenceFirst(old, o)
    /\ handles' = [h \in DOMAIN handles \cup {NewHandle} |->
                     IF h = NewHandle THEN o ELSE handles[h]]
    /\ UNCHANGED <<nodeVars, refp, sweep, status>>

freeHandle(h) ==
    /\ h \in DOMAIN handles
    /\ _release(Once(handles[h]))
    /\ handles' = [g \in DOMAIN handles \ {h} |-> handles[g]]
    /\ UNCHANGED <<nodeVars, refp, sweep, status>>

-----------------------------------------------------------------------------
NodeStep(n) ==
    \/ addChild(n)
    \/ \E o \in Objects : Mount(n, o)
    \/ unmount(n)
    \/ eraseChild(n)
    \/ \E c \in Refps : EraseChildTo(n, c)
    \/ EraseChildCrashes(n)

KObjectsNext ==
    /\ Running
    /\ \/ \E o \in Objects : New(o) \/ allocHandle(o)
       \/ \E c \in Refps, o \in Objects \cup {NULL} : bind(c, o)
       \/ \E n \in Nodes : NodeStep(n)
       \/ SweepStart \/ next \/ NextReadsFreed
       \/ \E h \in DOMAIN handles : freeHandle(h)

KObjectsSpec == KObjectsInit /\ [][KObjectsNext]_kovars
-----------------------------------------------------------------------------
(* Properties *)

(* Every variable has its type; a node's parent is a node. *)
KObjectsTypeOK ==
    /\ heap \in [Objects -> {"none", "live", "freed"}]
    /\ count \in [Objects -> Nat]
    /\ bound \in [Objects -> Nodes \cup {NULL}]
    /\ Root \in tree /\ tree \subseteq Nodes
    /\ \A n \in tree \ {Root} : Parent[n] \in tree
    /\ mount \in [Nodes -> Objects \cup {NULL}]
    /\ \A n \in Nodes \ tree : mount[n] = NULL
    /\ DOMAIN handles \subseteq {h \in 0 .. HandleMod - 1 : h % 4 = 0}
    /\ refp \in [Refps -> Objects \cup {NULL}]
    /\ sweep \in [on : BOOLEAN, at : Nodes \cup {NULL}, erased : BOOLEAN,
                  seen : SUBSET Nodes, there : SUBSET Nodes]

(* A live object's count is the number of nodes, handles and refp          *)
(* variables that hold it, after any sequence of mounts, handle calls and  *)
(* erasures of whole subtrees: none leaks a reference or gives one back    *)
(* twice.                                                                  *)
CountsHolders == \A o \in Live : count[o] = Holders(o)

(* Nobody holds an object that is not made yet. *)
UnbornUnheld == \A o \in Objects : heap[o] = "none" => count[o] = 0 /\ Holders(o) = 0

(* An enumeration stands on a node that exists, unless it was erased; the  *)
(* children it still owes are children, and ahead of it.                   *)
SweepOnCourse ==
    sweep.on =>
        /\ sweep.erased \/ sweep.at \in tree \cup {NULL}
        /\ \A m \in sweep.there :
              m \in ChildrenOf(Root) /\ (m \in sweep.seen \/ m \in After(sweep.at))

(* The invariant of the objects: types, the counts, and where an           *)
(* enumeration stands.                                                     *)
KObjectsInv ==
    KObjectsTypeOK /\ CountsHolders /\ UnbornUnheld /\ SweepOnCourse

(* An object dies only when nobody holds it any more, save when a refp     *)
(* that alone holds it is bound to it again: bind releases before it       *)
(* references.                                                             *)
DiesUnheld ==
    [][\A o \in Objects : heap[o] = "live" /\ heap'[o] = "freed" =>
          Holders(o)' = 0 \/ \E c \in Refps : refp[c] = o /\ refp'[c] = o]_kovars

(* The node an object is bound to has it mounted. *)
WellBound(o) == bound[o] # NULL => bound[o] \in tree /\ mount[bound[o]] = o

(* A live object's binding goes wrong in one way only: its node is erased  *)
(* by an eraseChild that does not unmount it.                              *)
BindingLostByErasing ==
    [][\A o \in Live : WellBound(o) /\ heap'[o] = "live" /\ ~WellBound(o)' =>
          bound[o] \in tree \ tree']_kovars

(* A handle names the object it was made for until it is freed, save that  *)
(* handle 0 is given out again and again once the numbers have wrapped.    *)
HandleKeepsObject ==
    [][\A h \in DOMAIN handles \cap DOMAIN handles' :
          handles'[h] = handles[h] \/ h = 0]_kovars

(* An enumeration that ends has returned every child that was there all    *)
(* the time, whatever was added and erased meanwhile.  It does not end     *)
(* when the node the caller stands on is erased and others are left: then  *)
(* the next call reads a freed node, and nothing is claimed from there on. *)
SweepMissesNone ==
    [][sweep.on /\ ~sweep'.on => sweep.there \subseteq sweep.seen]_kovars
=============================================================================
