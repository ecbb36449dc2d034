----------------------------- MODULE KvfsProofs -----------------------------
(***************************************************************************)
(* Proofs about Kvfs, for any objects, links, paths and depth of stack:    *)
(* the tree and the bindings of the objects agree after any calls,         *)
(* createPath mounts where its path leads and getNodeByPath finds what its *)
(* path means.  What Walk and Rewritten compute is shown by looking at the *)
(* first step at which it would be wrong.                                  *)
(***************************************************************************)
EXTENDS Kvfs, SequenceTheorems, WellFoundedInduction, TLAPS

-----------------------------------------------------------------------------
(* Numbers and paths *)

(* A set of numbers that is not empty has a least one. *)
LEMMA LeastNatural ==
    ASSUME NEW S \in SUBSET Nat, S # {}
    PROVE  \E m \in S : \A k \in S : m <= k
  <1>1. PICK m \in S : \A k \in S : ~(<<k, m>> \in OpToRel(<, Nat))
    BY WFMin, NatLessThanWellFounded
  <1>2. ASSUME NEW k \in S, k < m  PROVE FALSE
    <2>1. <<k, m>> \in OpToRel(<, Nat)
      BY <1>2, Zenon DEF OpToRel
    <2> QED  BY <1>1, <2>1
  <1> QED  BY <1>2

Names == STRING
Paths == Seq(Names)

(* A step of a walk. *)
Onward(n, part) == IF n = NULL THEN NULL ELSE Towards(n, part)

(* w has the nodes of p up to part n. *)
WalksTo(w, p, n) ==
    /\ w = [k \in 0 .. n |-> w[k]]
    /\ w[0] = Root
    /\ \A k \in 1 .. n : w[k] = Onward(w[k - 1], p[k])

(* Every path can be walked, a part at a time. *)
LEMMA WalkExists ==
    ASSUME NEW p, NEW n \in Nat
    PROVE  \E w : WalksTo(w, p, n)
  <1> DEFINE Bad == {m \in Nat : ~ \E w : WalksTo(w, p, m)}
  <1> SUFFICES ASSUME Bad # {}  PROVE FALSE
    BY DEF WalksTo
  <1>1. PICK m \in Bad : \A k \in Bad : m <= k
    <2>1. Bad \in SUBSET Nat
      OBVIOUS
    <2> HIDE DEF Bad
    <2> QED  BY <2>1, LeastNatural
  <1>2. CASE m = 0
    <2> DEFINE w == [k \in 0 .. 0 |-> Root]
    <2>1. WalksTo(w, p, 0)
      BY DEF WalksTo
    <2> QED  BY <1>1, <1>2, <2>1
  <1>3. CASE m # 0
    <2>1. m - 1 \in Nat /\ m \in Nat
      BY <1>3
    <2>2. m - 1 \notin Bad
      BY <1>1, <2>1
    <2>3. PICK w : WalksTo(w, p, m - 1)
      BY <2>1, <2>2
    <2> DEFINE v == [k \in 0 .. m |-> IF k = m THEN Onward(w[m - 1], p[m]) ELSE w[k]]
    <2>4. v = [k \in 0 .. m |-> v[k]]
      OBVIOUS
    <2>5. v[0] = Root
      BY <1>3, <2>1, <2>3 DEF WalksTo
    <2>6. ASSUME NEW k \in 1 .. m  PROVE v[k] = Onward(v[k - 1], p[k])
      <3>1. v[k - 1] = w[k - 1]
        BY <2>1
      <3>2. CASE k = m
        BY <2>1, <3>1, <3>2
      <3>3. CASE k # m
        <4>1. k \in 1 .. m - 1 /\ v[k] = w[k]
          BY <2>1, <3>3
        <4> QED  BY <2>3, <3>1, <4>1 DEF WalksTo
      <3> QED  BY <3>2, <3>3
    <2>7. WalksTo(v, p, m)
      <3> HIDE DEF v
      <3> QED  BY <2>4, <2>5, <2>6 DEF WalksTo
    <2> QED  BY <2>7
  <1> QED  BY <1>2, <1>3

(* What Walk computes. *)
LEMMA WalkDef ==
    ASSUME NEW p \in Paths
    PROVE  WalksTo(Walk(p), p, Len(p))
  <1> DEFINE G(w) == [k \in 0 .. Len(p) |->
                        IF k = 0 THEN Root
                        ELSE IF w[k - 1] = NULL THEN NULL
                        ELSE Towards(w[k - 1], p[k])]
  <1>1. Len(p) \in Nat
    BY DEF Paths
  <1>2. PICK w : WalksTo(w, p, Len(p))
    BY <1>1, WalkExists
  <1>3. w = G(w)
    <2>1. \A k \in 0 .. Len(p) : w[k] = G(w)[k]
      BY <1>1, <1>2 DEF WalksTo, Onward
    <2> QED  BY <1>2, <2>1 DEF WalksTo
  <1>4. Walk(p) = CHOOSE f : f = G(f)
    BY DEF Walk
  <1>5. Walk(p) = G(Walk(p))
    <2> HIDE DEF G
    <2> QED  BY <1>3, <1>4
  <1> QED  BY <1>1, <1>5 DEF WalksTo, Onward

WalksAll == \A p \in Paths : WalksTo(Walk(p), p, Len(p))

(* The same, before and after a step. *)
LEMMA WalkSteps == WalksAll /\ WalksAll'
  <1>1. WalksAll
    BY WalkDef DEF WalksAll
  <1> QED  BY <1>1, PTL

(* A node that a walk has led to is still there when the tree has grown,   *)
(* and a walk is the same when the tree is.                                *)
LEMMA WalkGrows ==
    ASSUME NEW p \in Paths, tree \subseteq tree', NEW k \in 0 .. Len(p),
           Walk(p)[k] # NULL \/ tree' = tree
    PROVE  Walk(p)'[k] = Walk(p)[k]
  <1> DEFINE v == Walk(p)
             w == Walk(p)'
             Bad == {m \in 0 .. Len(p) : (v[m] # NULL \/ tree' = tree) /\ w[m] # v[m]}
  <1>1. Len(p) \in Nat
    BY DEF Paths
  <1>2. /\ v[0] = Root /\ w[0] = Root
        /\ \A m \in 1 .. Len(p) : v[m] = Onward(v[m - 1], p[m])
        /\ \A m \in 1 .. Len(p) :
             w[m] = IF w[m - 1] = NULL THEN NULL
                    ELSE IF p[m] = "." THEN w[m - 1]
                    ELSE IF p[m] = ".." THEN Parent(w[m - 1])
                    ELSE IF Append(w[m - 1], p[m]) \in tree' THEN Append(w[m - 1], p[m])
                    ELSE NULL
    BY WalkSteps DEF WalksAll, WalksTo, Onward, Towards, Parent, Root
  <1> HIDE DEF v, w
  <1>3. ASSUME Bad # {}  PROVE FALSE
    <2>1. PICK m \in Bad : \A j \in Bad : m <= j
      <3>1. Bad \in SUBSET Nat
        BY <1>1
      <3> HIDE DEF Bad
      <3> QED  BY <1>3, <3>1, LeastNatural
    <2>2. m \in 1 .. Len(p) /\ m - 1 \in 0 .. Len(p) /\ m - 1 < m
      BY <1>1, <1>2, <2>1
    <2>3. v[m - 1] # NULL \/ tree' = tree
      BY <1>2, <2>1, <2>2 DEF Onward
    <2>4. w[m - 1] = v[m - 1]
      BY <1>1, <2>1, <2>2, <2>3
    <2> QED  BY <1>2, <2>1, <2>2, <2>3, <2>4 DEF Onward, Towards
  <1>4. k \notin Bad
    BY <1>3
  <1> QED  BY <1>4 DEF v, w

(* The parent of a node is the path without its last part. *)
LEMMA ParentOf ==
    /\ \A n \in Paths : n # Root => Parent(n) \in Paths
    /\ \A n \in Paths, part \in Names :
          /\ Append(n, part) \in Paths /\ Append(n, part) # Root
          /\ Parent(Append(n, part)) = n
  <1>1. ASSUME NEW n \in Paths, n # Root  PROVE Parent(n) \in Paths
    <2>1. Len(n) \in Nat /\ \A i \in 1 .. Len(n) - 1 : n[i] \in Names
      BY ElementOfSeq, LenProperties DEF Paths
    <2> QED  BY <1>1, <2>1, SubSeqProperties DEF Paths, Parent
  <1>2. ASSUME NEW n \in Paths, NEW part \in Names
        PROVE  /\ Append(n, part) \in Paths /\ Append(n, part) # Root
               /\ Parent(Append(n, part)) = n
    <2> DEFINE a == Append(n, part)
    <2>1. /\ a \in Paths /\ a # Root /\ Len(a) = Len(n) + 1
          /\ \A i \in 1 .. Len(n) : a[i] = n[i]
      BY AppendProperties DEF Paths, Root
    <2>2. Len(n) \in Nat /\ \A i \in 1 .. Len(n) : n[i] \in Names
      BY ElementOfSeq, LenProperties DEF Paths
    <2>3. /\ SubSeq(a, 1, Len(n)) \in Paths
          /\ Len(SubSeq(a, 1, Len(n))) = Len(n)
          /\ \A i \in 1 .. Len(n) : SubSeq(a, 1, Len(n))[i] = n[i]
      <3> HIDE DEF a
      <3> QED  BY <2>1, <2>2, SubSeqProperties DEF Paths
    <2>4. SubSeq(a, 1, Len(n)) = n
      BY <2>3, SeqEqual DEF Paths
    <2>5. Parent(a) = SubSeq(a, 1, Len(n))
      <3> HIDE DEF a
      <3> QED  BY <2>1, <2>2 DEF Parent
    <2> QED  BY <2>1, <2>4, <2>5
  <1> QED  BY <1>1, <1>2

-----------------------------------------------------------------------------
(* The inductive invariant *)

Frame == [at : Paths, rest : Paths]
Calls == [op : {"done", "create", "lookup", "overflow"},
          req : Creations \cup Lookups \cup {NULL},
          stack : Seq(Frame),
          result : Paths \cup {NULL},
          followed : Nat]

(* Nodes are paths; mounts and bindings are of objects. *)
StoreTyped ==
    /\ tree \subseteq Paths
    /\ \A n \in DOMAIN mount : mount[n] \in Objects
    /\ bound \in [Objects -> Paths \cup {NULL}]

(* The calls on the stack stand on nodes; createPath does not nest.        *)
CallTyped ==
    /\ call \in Calls
    /\ \A k \in 1 .. Len(call.stack) : call.stack[k].at \in tree
    /\ call.op \in {"create", "lookup"} => call.stack # <<>>
    /\ call.op = "create" => call.req \in Creations /\ Len(call.stack) = 1
    /\ call.op = "lookup" => call.req \in Lookups

(* Only what has been handed to a createPath is bound, and what the        *)
(* createPath under way brings is not bound yet.                           *)
BoundGiven ==
    /\ \A o \in Objects : bound[o] # NULL => o \in given
    /\ call.op = "create" /\ call.req.ob # NULL =>
          call.req.ob \in given /\ bound[call.req.ob] = NULL

(* createPath is on its way along its path, unless it has met a link or    *)
(* has been sent out of the root.                                          *)
CreateOnCourse ==
    call.op = "create" =>
        LET p == call.req.path IN
        \/ LinksOn(p) # {}
        \/ ClimbsOut(p)
        \/ \E j \in 0 .. Len(p) :
              Top.at = Walk(p)[j] /\ Top.rest = SubSeq(p, j + 1, Len(p))

(* The calls of a lookup stand along one path q, of which pos[k] parts lie *)
(* before those the k-th call still has to do: what they have to do is the *)
(* end of q, and the first pos[d] parts lead to where the last call is.    *)
Along(q, pos) ==
    LET d == Len(call.stack) IN
    /\ pos \in [0 .. d -> 0 .. Len(q)]
    /\ pos[0] = Len(q)
    /\ \A k \in 1 .. d :
          /\ \A i \in 0 .. k - 1 : pos[k] <= pos[i]
          /\ call.stack[k].rest = SubSeq(q, pos[k] + 1, pos[k - 1])
    /\ Top.at = Walk(q)[pos[d]]
    /\ call.req.reparse => \A i \in 1 .. pos[d] : i \notin LinksOn(q)

(* A lookup is on its way along its path, with the links it has followed   *)
(* written out, and has met no other link there.                           *)
LookupOnCourse ==
    call.op = "lookup" =>
        /\ Sought \in Paths
        /\ ~call.req.reparse => Len(call.stack) = 1
        /\ \E pos : Along(Sought, pos)

KvfsIInv == /\ KvfsInv
            /\ StoreTyped /\ CallTyped /\ BoundGiven
            /\ CreateOnCourse /\ MountedWhereAsked
            /\ LookupOnCourse /\ LookupSound

-----------------------------------------------------------------------------
(* Nodes and the stack *)

(* What the assumption says of requests, in terms of paths. *)
LEMMA Requests ==
    /\ NULL \notin Objects /\ NULL \notin Paths /\ Root \in Paths
    /\ \A o \in DOMAIN Target : Target[o] \in Paths /\ o \in Objects
    /\ \A c \in Creations : c.path \in Paths /\ c.ob \in Objects \cup {NULL}
    /\ \A l \in Lookups : l.path \in Paths
    /\ \A c \in Creations : c \notin Lookups
    /\ StackDepth \in Nat \ {0} /\ NULL \notin Lookups
  <1>1. Paths = Seq(STRING)
    BY DEF Paths, Names
  <1>2. Root \in Paths
    BY EmptySeq DEF Paths, Root
  <1>3. ASSUME NEW c \in Creations, c \in Lookups  PROVE FALSE
    <2>1. c \in [path : Seq(STRING), ob : Objects \cup {NULL}]
      BY KvfsAssumption
    <2>2. c \in [path : Seq(STRING), reparse : BOOLEAN]
      BY <1>3, KvfsAssumption
    <2>3. DOMAIN c = {"path", "ob"}
      BY <2>1
    <2>4. DOMAIN c = {"path", "reparse"}
      BY <2>2
    <2> QED  BY <2>3, <2>4
  <1> HIDE DEF Paths
  <1>4. \A c \in Creations : c.path \in Paths /\ c.ob \in Objects \cup {NULL}
    BY <1>1, KvfsAssumption
  <1>5. \A l \in Lookups : l.path \in Paths
    BY <1>1, KvfsAssumption
  <1> QED  BY <1>1, <1>2, <1>3, <1>4, <1>5, KvfsAssumption

(* A part leads to a node or nowhere. *)
LEMMA TowardsTree ==
    ASSUME KvfsTypeOK, NEW n \in tree, NEW part
    PROVE  Towards(n, part) = NULL \/ Towards(n, part) \in tree
  <1>1. Parent(n) = NULL \/ Parent(n) \in tree
    <2>1. CASE n = Root
      BY <2>1 DEF Parent
    <2>2. CASE n # Root
      BY <2>2 DEF KvfsTypeOK
    <2> QED  BY <2>1, <2>2
  <1> QED  BY <1>1 DEF Towards

(* The call on top of the stack. *)
LEMMA TopTyped ==
    ASSUME StoreTyped, CallTyped, call.stack # <<>>
    PROVE  /\ Len(call.stack) \in Nat \ {0}
           /\ Top.at \in tree /\ Top.at \in Paths /\ Top.rest \in Paths
           /\ Top.rest # <<>> => Head(Top.rest) \in Names /\ Tail(Top.rest) \in Paths
  <1>1. call.stack \in Seq(Frame)
    BY DEF CallTyped, Calls
  <1>2. Len(call.stack) \in Nat \ {0}
    BY <1>1, EmptySeq
  <1>3. Top \in Frame
    BY <1>1, <1>2, ElementOfSeq DEF Top
  <1>4. Top.at \in tree
    BY <1>2 DEF CallTyped, Top
  <1>5. Top.rest \in Paths
    BY <1>3 DEF Frame
  <1>6. Top.rest # <<>> => Head(Top.rest) \in Names /\ Tail(Top.rest) \in Paths
    BY <1>5, HeadTailProperties DEF Paths
  <1> QED  BY <1>2, <1>4, <1>5, <1>6 DEF StoreTyped

(* Moving the call on top along. *)
LEMMA SetTopTyped ==
    ASSUME CallTyped, call.stack # <<>>, NEW at \in Paths, NEW rest \in Paths
    PROVE  /\ SetTop(at, rest) \in Calls
           /\ SetTop(at, rest).op = call.op
           /\ SetTop(at, rest).req = call.req
           /\ SetTop(at, rest).result = call.result
           /\ Len(SetTop(at, rest).stack) = Len(call.stack)
           /\ SetTop(at, rest).stack # <<>>
           /\ \A k \in 1 .. Len(call.stack) :
                 \/ SetTop(at, rest).stack[k].at = at
                 \/ SetTop(at, rest).stack[k].at \in tree
           /\ SetTop(at, rest).stack[Len(call.stack)] = [at |-> at, rest |-> rest]
  <1> DEFINE st == call.stack
             f  == [at |-> at, rest |-> rest]
             nt == [st EXCEPT ![Len(st)] = f]
  <1>1. st \in Seq(Frame) /\ Len(st) \in Nat \ {0} /\ f \in Frame
    BY EmptySeq DEF CallTyped, Calls, Frame
  <1>2. /\ nt \in Seq(Frame) /\ Len(nt) = Len(st)
        /\ \A j \in 1 .. Len(st) : nt[j] = IF j = Len(st) THEN f ELSE st[j]
    <2> HIDE DEF st, f
    <2> QED  BY <1>1, ExceptSeq
  <1>3. SetTop(at, rest) = [call EXCEPT !.stack = nt]
    BY DEF SetTop
  <1>4. /\ SetTop(at, rest).op = call.op /\ SetTop(at, rest).req = call.req
        /\ SetTop(at, rest).result = call.result /\ SetTop(at, rest).stack = nt
        /\ SetTop(at, rest) \in Calls
    <2> HIDE DEF nt
    <2> QED  BY <1>2, <1>3 DEF CallTyped, Calls
  <1>5. \A k \in 1 .. Len(st) : nt[k].at = at \/ nt[k].at \in tree
    <2>1. \A k \in 1 .. Len(st) : st[k].at \in tree
      BY DEF CallTyped
    <2> HIDE DEF st, nt
    <2> QED  BY <1>2, <2>1
  <1>6. nt # <<>>
    <2> HIDE DEF nt, st
    <2> QED  BY <1>1, <1>2, EmptySeq
  <1>7. nt[Len(st)] = f
    <2> HIDE DEF nt, st, f
    <2> QED  BY <1>1, <1>2
  <1> HIDE DEF nt
  <1> QED  BY <1>2, <1>4, <1>5, <1>6, <1>7

(* A call that ends. *)
LEMMA DoneTyped ==
    ASSUME CallTyped, NEW n \in Paths \cup {NULL}
    PROVE  /\ Done(n) \in Calls /\ Done(n).op = "done" /\ Done(n).req = call.req
           /\ Done(n).stack = <<>> /\ Done(n).result = n /\ Len(<<>>) = 0
  <1>1. <<>> \in Seq(Frame) /\ Len(<<>>) = 0
    BY EmptySeq
  <1> QED  BY <1>1 DEF Done, CallTyped, Calls

-----------------------------------------------------------------------------
(* Links written out *)

(* r has p with 0, 1, ... n links written out. *)
RewritesTo(r, p, n) ==
    /\ r = [k \in 0 .. n |-> r[k]]
    /\ r[0] = p
    /\ \A k \in 1 .. n : r[k] = Rewrite(r[k - 1])

(* What Rewritten computes. *)
LEMMA RewritesExist ==
    ASSUME NEW p, NEW n \in Nat
    PROVE  \E r : RewritesTo(r, p, n)
  <1> DEFINE Bad == {m \in Nat : ~ \E r : RewritesTo(r, p, m)}
  <1> SUFFICES ASSUME Bad # {}  PROVE FALSE
    BY DEF RewritesTo
  <1>1. PICK m \in Bad : \A k \in Bad : m <= k
    <2>1. Bad \in SUBSET Nat
      OBVIOUS
    <2> HIDE DEF Bad
    <2> QED  BY <2>1, LeastNatural
  <1>2. CASE m = 0
    <2> DEFINE r == [k \in 0 .. 0 |-> p]
    <2>1. RewritesTo(r, p, 0)
      BY DEF RewritesTo
    <2> QED  BY <1>1, <1>2, <2>1
  <1>3. CASE m # 0
    <2>1. m - 1 \in Nat /\ m \in Nat
      BY <1>3
    <2>2. m - 1 \notin Bad
      BY <1>1, <2>1
    <2>3. PICK r : RewritesTo(r, p, m - 1)
      BY <2>1, <2>2
    <2> DEFINE s == [k \in 0 .. m |-> IF k = m THEN Rewrite(r[m - 1]) ELSE r[k]]
    <2>4. s = [k \in 0 .. m |-> s[k]]
      OBVIOUS
    <2>5. s[0] = p
      BY <1>3, <2>1, <2>3 DEF RewritesTo
    <2>6. ASSUME NEW k \in 1 .. m  PROVE s[k] = Rewrite(s[k - 1])
      <3>1. s[k - 1] = r[k - 1]
        BY <2>1
      <3>2. CASE k = m
        BY <2>1, <3>1, <3>2
      <3>3. CASE k # m
        <4>1. k \in 1 .. m - 1 /\ s[k] = r[k]
          BY <2>1, <3>3
        <4> QED  BY <2>3, <3>1, <4>1 DEF RewritesTo
      <3> QED  BY <3>2, <3>3
    <2>7. RewritesTo(s, p, m)
      <3> HIDE DEF s
      <3> QED  BY <2>4, <2>5, <2>6 DEF RewritesTo
    <2> QED  BY <2>7
  <1> QED  BY <1>2, <1>3

LEMMA RewritesSame ==
    ASSUME NEW p, NEW m \in Nat, NEW n \in Nat, m <= n,
           NEW r, RewritesTo(r, p, m), NEW s, RewritesTo(s, p, n)
    PROVE  r[m] = s[m]
  <1> DEFINE Bad == {k \in 0 .. m : r[k] # s[k]}
  <1>1. SUFFICES ASSUME Bad # {}  PROVE FALSE
    OBVIOUS
  <1>2. PICK k \in Bad : \A j \in Bad : k <= j
    <2>1. Bad \in SUBSET Nat
      OBVIOUS
    <2> HIDE DEF Bad
    <2> QED  BY <1>1, <2>1, LeastNatural
  <1>3. k # 0 /\ k \in 0 .. m /\ r[k] # s[k]
    BY <1>2 DEF RewritesTo
  <1>4. k \in 1 .. m /\ k \in 1 .. n /\ k - 1 \in 0 .. m /\ k - 1 < k
    BY <1>3
  <1>5. r[k - 1] = s[k - 1]
    BY <1>2, <1>4
  <1> QED  BY <1>3, <1>4, <1>5 DEF RewritesTo

LEMMA RewrittenDef ==
    ASSUME NEW p, NEW n \in Nat
    PROVE  \A r : RewritesTo(r, p, n) => Rewritten(p, n) = r[n]
  <1> DEFINE G(r) == [k \in 0 .. n |-> IF k = 0 THEN p ELSE Rewrite(r[k - 1])]
  <1>1. PICK s : RewritesTo(s, p, n)
    BY RewritesExist
  <1>2. s = G(s)
    <2>1. ASSUME NEW k \in 0 .. n  PROVE s[k] = G(s)[k]
      <3>1. CASE k = 0
        BY <1>1, <3>1 DEF RewritesTo
      <3>2. CASE k # 0
        <4>1. k \in 1 .. n
          BY <3>2
        <4>2. s[k] = Rewrite(s[k - 1])
          BY <1>1, <4>1 DEF RewritesTo
        <4> QED  BY <3>2, <4>2
      <3> QED  BY <3>1, <3>2
    <2> QED  BY <1>1, <2>1 DEF RewritesTo
  <1> DEFINE path == CHOOSE f : f = G(f)
  <1>3. Rewritten(p, n) = path[n]
    BY DEF Rewritten
  <1>4. path = G(path)
    <2> HIDE DEF G
    <2> QED  BY <1>2
  <1> HIDE DEF path
  <1>5. RewritesTo(path, p, n)
    BY <1>4 DEF RewritesTo
  <1> QED  BY <1>3, <1>5, RewritesSame

(* One link more is one step more. *)
RewrittenAll ==
    \A p \in Paths : /\ Rewritten(p, 0) = p
                     /\ \A n \in Nat : Rewritten(p, n + 1) = Rewrite(Rewritten(p, n))

LEMMA RewrittenSteps == RewrittenAll /\ RewrittenAll'
  <1>1. RewrittenAll
    <2> SUFFICES ASSUME NEW p \in Paths
                 PROVE  /\ Rewritten(p, 0) = p
                        /\ \A n \in Nat : Rewritten(p, n + 1) = Rewrite(Rewritten(p, n))
      BY DEF RewrittenAll
    <2>1. Rewritten(p, 0) = p
      <3>1. PICK r : RewritesTo(r, p, 0)
        BY RewritesExist
      <3> QED  BY <3>1, RewrittenDef DEF RewritesTo
    <2>2. ASSUME NEW n \in Nat
          PROVE  Rewritten(p, n + 1) = Rewrite(Rewritten(p, n))
      <3>1. PICK r : RewritesTo(r, p, n + 1)
        BY RewritesExist
      <3>2. PICK s : RewritesTo(s, p, n)
        BY RewritesExist
      <3>3. n + 1 \in Nat /\ n <= n + 1 /\ n + 1 \in 1 .. n + 1 /\ n + 1 - 1 = n
        OBVIOUS
      <3>4. s[n] = r[n]
        BY <3>1, <3>2, <3>3, RewritesSame
      <3>5. r[n + 1] = Rewrite(r[n])
        <4> DEFINE m == n + 1
        <4>1. m \in 1 .. m /\ m - 1 = n
          OBVIOUS
        <4> HIDE DEF m
        <4>2. RewritesTo(r, p, m)
          BY <3>1 DEF m
        <4>3. r[m] = Rewrite(r[n])
          BY <4>1, <4>2 DEF RewritesTo
        <4> QED  BY <4>3 DEF m
      <3>6. Rewritten(p, n + 1) = r[n + 1] /\ Rewritten(p, n) = s[n]
        BY <3>1, <3>2, <3>3, RewrittenDef
      <3> QED  BY <3>4, <3>5, <3>6
    <2> QED  BY <2>1, <2>2
  <1> QED  BY <1>1, PTL

(* What writing out a link does. *)
RewriteAll ==
    \A p \in Paths :
        \/ LinksOn(p) = {} /\ Rewrite(p) = p
        \/ \E k \in LinksOn(p) :
              /\ \A i \in LinksOn(p) : k <= i
              /\ Rewrite(p) = Target[Mounted(Walk(p)[k])] \o SubSeq(p, k + 1, Len(p))

LEMMA RewriteSteps == RewriteAll /\ RewriteAll'
  <1>1. RewriteAll
    <2> SUFFICES ASSUME NEW p \in Paths, LinksOn(p) # {}
                 PROVE  \E k \in LinksOn(p) :
                          /\ \A i \in LinksOn(p) : k <= i
                          /\ Rewrite(p) = Target[Mounted(Walk(p)[k])]
                                             \o SubSeq(p, k + 1, Len(p))
      BY DEF RewriteAll, Rewrite
    <2>1. LinksOn(p) \in SUBSET Nat
      BY LenProperties DEF LinksOn, Paths
    <2> DEFINE k == CHOOSE j \in LinksOn(p) : \A i \in LinksOn(p) : j <= i
    <2>2. \E j \in LinksOn(p) : \A i \in LinksOn(p) : j <= i
      BY <2>1, LeastNatural
    <2>3. k \in LinksOn(p) /\ \A i \in LinksOn(p) : k <= i
      BY <2>2
    <2>4. Rewrite(p) = Target[Mounted(Walk(p)[k])] \o SubSeq(p, k + 1, Len(p))
      BY DEF Rewrite
    <2> HIDE DEF k
    <2> QED  BY <2>3, <2>4
  <1> QED  BY <1>1, PTL

(* What is on a path is there after a step that leaves the tree alone. *)
LEMMA LinksStay ==
    ASSUME tree' = tree, mount' = mount, NEW p \in Paths
    PROVE  /\ Len(p) \in Nat
           /\ \A k \in 0 .. Len(p) : Walk(p)'[k] = Walk(p)[k]
           /\ LinksOn(p)' = LinksOn(p)
  <1>1. Len(p) \in Nat
    BY LenProperties DEF Paths
  <1>2. \A k \in 0 .. Len(p) : Walk(p)'[k] = Walk(p)[k]
    BY WalkGrows
  <1>3. \A k \in 1 .. Len(p) : k \in 0 .. Len(p)
    BY <1>1
  <1>4. \A k \in 1 .. Len(p) : IsLink(Walk(p)[k])' = IsLink(Walk(p)[k])
    BY <1>2, <1>3 DEF IsLink, Mounted
  <1>5. LinksOn(p)' = LinksOn(p)
    BY <1>4 DEF LinksOn
  <1> QED  BY <1>1, <1>2, <1>5

LEMMA RewriteStays ==
    ASSUME tree' = tree, mount' = mount, NEW p \in Paths
    PROVE  Rewrite(p)' = Rewrite(p) /\ Rewrite(p) \in Paths
  <1>1. /\ Len(p) \in Nat
        /\ \A k \in 0 .. Len(p) : Walk(p)'[k] = Walk(p)[k]
        /\ LinksOn(p)' = LinksOn(p)
    BY LinksStay
  <1>2. CASE LinksOn(p) = {}
    BY <1>1, <1>2, RewriteSteps DEF RewriteAll
  <1>3. CASE LinksOn(p) # {}
    <2>1. PICK k \in LinksOn(p) :
              /\ \A i \in LinksOn(p) : k <= i
              /\ Rewrite(p) = Target[Mounted(Walk(p)[k])] \o SubSeq(p, k + 1, Len(p))
      BY <1>3, RewriteSteps DEF RewriteAll
    <2>2. PICK j \in LinksOn(p)' :
              /\ \A i \in LinksOn(p)' : j <= i
              /\ Rewrite(p)' = Target[Mounted(Walk(p)[j])'] \o SubSeq(p, j + 1, Len(p))
      BY <1>1, <1>3, RewriteSteps DEF RewriteAll
    <2>3. k \in 1 .. Len(p) /\ j \in 1 .. Len(p) /\ IsLink(Walk(p)[k])
      BY <1>1, <2>1, <2>2 DEF LinksOn
    <2>4. j = k
      BY <1>1, <2>1, <2>2, <2>3
    <2>5. Mounted(Walk(p)[j])' = Mounted(Walk(p)[k])
      <3>1. Walk(p)'[j] = Walk(p)[k]
        BY <1>1, <2>3, <2>4
      <3> QED  BY <3>1 DEF Mounted
    <2>6. Target[Mounted(Walk(p)[k])] \in Paths
      BY <2>3, Requests DEF IsLink
    <2>7. SubSeq(p, k + 1, Len(p)) \in Paths
      <3>1. \A i \in k + 1 .. Len(p) : p[i] \in Names
        BY <1>1, <2>3, ElementOfSeq DEF Paths
      <3> QED  BY <1>1, <2>3, <3>1, SubSeqProperties DEF Paths
    <2>8. Rewrite(p) \in Paths
      BY <2>1, <2>6, <2>7, ConcatProperties DEF Paths
    <2> QED  BY <2>1, <2>2, <2>4, <2>5, <2>8
  <1> QED  BY <1>2, <1>3

(* A step that leaves the tree alone leaves paths their meaning. *)
LEMMA RewrittenStays ==
    ASSUME tree' = tree, mount' = mount, NEW p \in Paths, NEW n \in Nat
    PROVE  Rewritten(p, n)' = Rewritten(p, n) /\ Rewritten(p, n) \in Paths
  <1> DEFINE Good(m) == Rewritten(p, m)' = Rewritten(p, m) /\ Rewritten(p, m) \in Paths
             Bad == {m \in Nat : ~Good(m)}
  <1>1. SUFFICES ASSUME Bad # {}  PROVE FALSE
    OBVIOUS
  <1>2. PICK m \in Bad : \A j \in Bad : m <= j
    <2>1. Bad \in SUBSET Nat
      OBVIOUS
    <2> HIDE DEF Bad
    <2> QED  BY <1>1, <2>1, LeastNatural
  <1>3. Good(0)
    BY RewrittenSteps DEF RewrittenAll
  <1>4. m # 0
    BY <1>2, <1>3
  <1>5. m - 1 \in Nat /\ m - 1 < m /\ (m - 1) + 1 = m /\ ~Good(m)
    BY <1>2, <1>4
  <1>6. Good(m - 1)
    BY <1>2, <1>5
  <1> DEFINE k == m - 1
  <1>7. k \in Nat /\ k + 1 = m
    BY <1>5
  <1> HIDE DEF k
  <1>8. PICK q \in Paths : q = Rewritten(p, k)
    BY <1>6 DEF k
  <1>9. Rewritten(p, k)' = q
    BY <1>6, <1>8 DEF k
  <1>10. Rewritten(p, m) = Rewrite(q)
    BY <1>7, <1>8, RewrittenSteps DEF RewrittenAll
  <1>11. Rewritten(p, m)' = Rewrite(q)'
    BY <1>7, <1>9, RewrittenSteps DEF RewrittenAll
  <1>12. Rewrite(q)' = Rewrite(q) /\ Rewrite(q) \in Paths
    BY RewriteStays
  <1> QED  BY <1>5, <1>10, <1>11, <1>12

-----------------------------------------------------------------------------
(* How far a lookup is *)

(* The path of a lookup is the same while no link is followed. *)
LEMMA SoughtStays ==
    ASSUME tree' = tree, mount' = mount, call.req \in Lookups,
           call'.req = call.req, call.followed \in Nat, call'.followed = call.followed
    PROVE  Sought' = Sought /\ Sought \in Paths
  <1> DEFINE p == call.req.path
             n == call.followed
  <1>1. p \in Paths /\ n \in Nat /\ call'.req.path = p /\ call'.followed = n
    BY Requests
  <1>2. ASSUME NEW r \in Paths, NEW m \in Nat
        PROVE  Rewritten(r, m)' = Rewritten(r, m) /\ Rewritten(r, m) \in Paths
    BY RewrittenStays
  <1>3. PICK r \in Paths, m \in Nat : r = p /\ m = n
    BY <1>1
  <1>4. Rewritten(call.req.path, call.followed)' = Rewritten(r, m)'
    BY <1>1, <1>3
  <1>5. Rewritten(call.req.path, call.followed) = Rewritten(r, m)
    BY <1>3
  <1>6. Rewritten(r, m)' = Rewritten(r, m) /\ Rewritten(r, m) \in Paths
    BY <1>2
  <1> HIDE DEF p, n
  <1>7. call'.req.reparse = call.req.reparse /\ call'.req.path = call.req.path
    OBVIOUS
  <1> QED  BY <1>1, <1>4, <1>5, <1>6, <1>7 DEF Sought, p

(* Following one link writes it out. *)
LEMMA SoughtRewritten ==
    ASSUME tree' = tree, mount' = mount, call.req \in Lookups, call.req.reparse,
           call'.req = call.req, call.followed \in Nat,
           call'.followed = call.followed + 1
    PROVE  Sought' = Rewrite(Sought) /\ Sought \in Paths /\ Rewrite(Sought) \in Paths
  <1>1. call.req.path \in Paths /\ call'.req.path = call.req.path
    BY Requests
  <1>2. PICK r \in Paths, m \in Nat : r = call.req.path /\ m = call.followed
    BY <1>1
  <1>3. Rewritten(call.req.path, call.followed)' = Rewritten(r, m + 1)'
    BY <1>1, <1>2
  <1>4. Rewritten(call.req.path, call.followed) = Rewritten(r, m)
    BY <1>2
  <1>5. m + 1 \in Nat
    OBVIOUS
  <1>6. /\ Rewritten(r, m + 1)' = Rewritten(r, m + 1)
        /\ Rewritten(r, m) \in Paths /\ Rewritten(r, m + 1) \in Paths
    BY <1>5, RewrittenStays
  <1>7. Rewritten(r, m + 1) = Rewrite(Rewritten(r, m))
    BY RewrittenSteps DEF RewrittenAll
  <1> QED  BY <1>1, <1>3, <1>4, <1>6, <1>7 DEF Sought

(* Where the last of d calls stands, and what it does next. *)
NextOnPath(q, pos, d) ==
           /\ d \in Nat \ {0} /\ pos[d] \in 0 .. Len(q) /\ pos[d - 1] \in 0 .. Len(q)
           /\ Top.at = Walk(q)[pos[d]] /\ Walk(q)[pos[d]] # NULL
           /\ Top.rest = SubSeq(q, pos[d] + 1, pos[d - 1]) /\ pos[d] <= pos[d - 1]
           /\ Top.rest = <<>> => pos[d] = pos[d - 1]
           /\ Top.rest # <<>> =>
                 /\ pos[d] + 1 <= pos[d - 1]
                 /\ FoundNode = Walk(q)[pos[d] + 1]
                 /\ Tail(Top.rest) = SubSeq(q, pos[d] + 2, pos[d - 1])

(* The part a lookup does next is that of its path. *)
LEMMA CourseHead ==
    ASSUME KvfsIInv, call.op = "lookup", NEW q \in Paths, NEW pos, Along(q, pos)
    PROVE  NextOnPath(q, pos, Len(call.stack))
  <1> USE DEF KvfsIInv
  <1> DEFINE d == Len(call.stack)
  <1>1. call.stack # <<>> /\ call.req \in Lookups
    BY DEF CallTyped
  <1>2. d \in Nat \ {0} /\ Top.at \in Paths
    BY <1>1, TopTyped
  <1>3. /\ pos \in [0 .. d -> 0 .. Len(q)] /\ pos[0] = Len(q)
        /\ pos[d] <= pos[d - 1]
        /\ Top.rest = SubSeq(q, pos[d] + 1, pos[d - 1])
        /\ Top.at = Walk(q)[pos[d]]
    <2>1. d \in 1 .. d /\ d - 1 \in 0 .. d - 1
      BY <1>2
    <2> QED  BY <2>1 DEF Along, Top
  <1>4. pos[d] \in 0 .. Len(q) /\ pos[d - 1] \in 0 .. Len(q) /\ Len(q) \in Nat
    <2>1. d \in 0 .. d /\ d - 1 \in 0 .. d
      BY <1>2
    <2>2. Len(q) \in Nat
      BY LenProperties DEF Paths
    <2> QED  BY <1>3, <2>1, <2>2
  <1>5. Walk(q)[pos[d]] # NULL
    BY <1>2, <1>3, Requests
  <1> DEFINE a == pos[d]
             b == pos[d - 1]
  <1>6. a \in 0 .. Len(q) /\ b \in 0 .. Len(q) /\ a <= b
    BY <1>3, <1>4
  <1> HIDE DEF a, b
  <1>7. Len(SubSeq(q, a + 1, b)) = b - a
    <2>1. \A i \in (a + 1) .. b : q[i] \in Names
      BY <1>4, <1>6, ElementOfSeq DEF Paths
    <2>2. a + 1 <= b => Len(SubSeq(q, a + 1, b)) = b - (a + 1) + 1
      BY <1>4, <1>6, <2>1, SubSeqProperties
    <2>3. a = b => SubSeq(q, a + 1, b) = <<>>
      BY <1>4, <1>6, SubSeqEmpty DEF Paths
    <2>4. Len(<<>>) = 0
      BY EmptySeq
    <2> QED  BY <1>4, <1>6, <2>2, <2>3, <2>4
  <1>8. Top.rest = <<>> => a = b
    <2>1. Len(<<>>) = 0
      BY EmptySeq
    <2>2. Top.rest = SubSeq(q, a + 1, b)
      BY <1>3 DEF a, b
    <2>3. Top.rest = <<>> => b - a = 0
      BY <1>7, <2>1, <2>2
    <2> QED  BY <1>4, <1>6, <2>3
  <1>9. ASSUME Top.rest # <<>>
        PROVE  /\ a + 1 <= b /\ FoundNode = Walk(q)[a + 1]
               /\ Tail(Top.rest) = SubSeq(q, a + 2, b)
    <2>1. a # b
      <3>1. a = b => SubSeq(q, a + 1, b) = <<>>
        BY <1>4, <1>6, SubSeqEmpty DEF Paths
      <3> QED  BY <1>3, <1>9, <3>1 DEF a, b
    <2>2. a + 1 <= b /\ a + 1 \in 1 .. Len(q) /\ b \in a + 1 .. Len(q)
          /\ (a + 1) + 1 = a + 2 /\ (a + 1) - 1 = a
      BY <1>4, <1>6, <2>1
    <2>3. /\ Head(SubSeq(q, a + 1, b)) = q[a + 1]
          /\ Tail(SubSeq(q, a + 1, b)) = SubSeq(q, (a + 1) + 1, b)
      BY <2>2, HeadTailOfSubSeq DEF Paths
    <2>4. Walk(q)[a + 1] = Onward(Walk(q)[a], q[a + 1])
      BY <2>2, WalkDef DEF WalksTo
    <2>5. FoundNode = Towards(Walk(q)[a], q[a + 1])
      BY <1>3, <2>3 DEF FoundNode, a, b
    <2> QED  BY <1>3, <1>5, <2>2, <2>3, <2>4, <2>5 DEF Onward, a, b
  <1>10. NextOnPath(q, pos, d)
    <2> HIDE DEF d
    <2> QED  BY <1>2, <1>3, <1>4, <1>5, <1>8, <1>9 DEF NextOnPath, a, b
  <1> QED  BY <1>10

(* A lookup begins at the beginning of its path. *)
LEMMA BeginLookupCourse ==
    ASSUME KvfsIInv, NEW l \in Lookups, BeginLookup(l)
    PROVE  LookupOnCourse'
  <1> DEFINE f == [at |-> Root, rest |-> l.path]
             q == l.path
             pos == [k \in 0 .. 1 |-> IF k = 0 THEN Len(q) ELSE 0]
  <1>1. /\ UNCHANGED store
        /\ call' = [op |-> "lookup", req |-> l, result |-> NULL,
                    followed |-> 0, stack |-> <<f>>]
    BY DEF BeginLookup, Begin
  <1>2. /\ call'.stack = <<f>> /\ Len(<<f>>) = 1 /\ <<f>>[1] = f
        /\ call'.req = l /\ call'.followed = 0 /\ call'.op = "lookup"
    BY <1>1
  <1>3. q \in Paths /\ Len(q) \in Nat
    BY Requests, LenProperties DEF Paths
  <1>4. Sought' = q
    <2>1. call'.req.path = q /\ Rewritten(q, 0)' = q
      BY <1>2, <1>3, RewrittenSteps DEF RewrittenAll
    <2> HIDE DEF q
    <2>2. Rewritten(call.req.path, call.followed)' = q
      BY <1>2, <2>1
    <2> QED  BY <2>1, <2>2 DEF Sought
  <1>5. Top'.at = Root /\ Top'.rest = q
    BY <1>2 DEF Top
  <1>6. Walk(q)'[0] = Root
    BY <1>3, WalkSteps DEF WalksAll, WalksTo, Root
  <1>7. q = SubSeq(q, 0 + 1, Len(q))
    BY <1>3, SubSeqFull DEF Paths
  <1>8. /\ pos \in [0 .. 1 -> 0 .. Len(q)] /\ pos[0] = Len(q) /\ pos[1] = 0
    BY <1>3
  <1>9. call'.stack[1].rest = q
    BY <1>2
  <1> HIDE DEF q, pos, f
  <1>10. Along(q, pos)'
    <2>1. 1 .. 1 = {1} /\ 1 - 1 = 0 /\ Len(call'.stack) = 1
      BY <1>2
    <2>2. \A k \in 1 .. 1 : /\ \A i \in 0 .. k - 1 : pos[k] <= pos[i]
                            /\ call'.stack[k].rest = SubSeq(q, pos[k] + 1, pos[k - 1])
      BY <1>3, <1>7, <1>8, <1>9, <2>1
    <2>3. \A i \in 1 .. pos[1] : FALSE
      BY <1>8
    <2> QED  BY <1>5, <1>6, <1>8, <2>1, <2>2, <2>3 DEF Along
  <1>11. Len(call'.stack) = 1
    BY <1>2
  <1> QED  BY <1>3, <1>4, <1>10, <1>11 DEF LookupOnCourse

(* A part that is not a link is behind a lookup. *)
LEMMA FindPartCourse ==
    ASSUME KvfsIInv, FindPart
    PROVE  LookupOnCourse'
  <1> USE DEF KvfsIInv
  <1> DEFINE n == FoundNode
             t == Tail(Top.rest)
             d == Len(call.stack)
  <1>1. /\ call.op = "lookup" /\ Top.rest # <<>> /\ n # NULL /\ ~Reparses(n)
        /\ call' = SetTop(n, t) /\ tree' = tree /\ mount' = mount
    BY DEF FindPart, AtPart, store
  <1>2. call.stack # <<>> /\ call.req \in Lookups /\ call.followed \in Nat
    BY <1>1 DEF CallTyped, Calls
  <1>3. Top.at \in tree /\ t \in Paths
    BY <1>1, <1>2, TopTyped
  <1>4. n \in Paths
    BY <1>1, <1>3, TowardsTree DEF FoundNode, KvfsInv, StoreTyped
  <1>5. /\ call'.op = "lookup" /\ call'.req = call.req /\ Len(call'.stack) = d
        /\ call'.stack[d] = [at |-> n, rest |-> t]
        /\ call'.followed = call.followed
        /\ \A k \in 1 .. d - 1 : call'.stack[k] = call.stack[k]
    <2>1. call.stack \in Seq(Frame) /\ call \in Calls /\ d \in Nat \ {0}
      BY <1>2, EmptySeq DEF CallTyped, Calls
    <2> HIDE DEF n, t
    <2>2. /\ SetTop(n, t).op = call.op /\ SetTop(n, t).req = call.req
          /\ Len(SetTop(n, t).stack) = d
          /\ SetTop(n, t).stack[d] = [at |-> n, rest |-> t]
      BY <1>2, <1>3, <1>4, SetTopTyped DEF n, t
    <2>3. /\ SetTop(n, t).followed = call.followed
          /\ SetTop(n, t).stack = [call.stack EXCEPT ![d] = [at |-> n, rest |-> t]]
      BY <2>1 DEF SetTop, Calls
    <2>4. \A k \in 1 .. d - 1 : SetTop(n, t).stack[k] = call.stack[k]
      <3>1. \A k \in 1 .. Len(call.stack) :
              [call.stack EXCEPT ![d] = [at |-> n, rest |-> t]][k]
                 = IF k = d THEN [at |-> n, rest |-> t] ELSE call.stack[k]
        BY <2>1
      <3> QED  BY <2>1, <2>3, <3>1
    <2> QED  BY <1>1, <2>2, <2>3, <2>4
  <1>6. PICK q, pos : q \in Paths /\ q = Sought /\ Along(q, pos)
    BY <1>1 DEF LookupOnCourse
  <1>7. Sought' = q
    BY <1>1, <1>2, <1>5, <1>6, SoughtStays
  <1>8. /\ d \in Nat \ {0} /\ pos[d] \in 0 .. Len(q) /\ pos[d - 1] \in 0 .. Len(q)
        /\ pos[d] + 1 <= pos[d - 1] /\ n = Walk(q)[pos[d] + 1]
        /\ t = SubSeq(q, pos[d] + 2, pos[d - 1])
    <2>1. NextOnPath(q, pos, d)
      BY <1>1, <1>6, CourseHead
    <2> HIDE DEF d
    <2> QED  BY <1>1, <2>1 DEF NextOnPath
  <1>9. /\ Len(q) \in Nat /\ LinksOn(q)' = LinksOn(q)
        /\ \A k \in 0 .. Len(q) : Walk(q)'[k] = Walk(q)[k]
    BY <1>6, <1>1, LinksStay
  <1>10. /\ pos \in [0 .. d -> 0 .. Len(q)] /\ pos[0] = Len(q)
         /\ \A k \in 1 .. d : /\ \A i \in 0 .. k - 1 : pos[k] <= pos[i]
                              /\ call.stack[k].rest = SubSeq(q, pos[k] + 1, pos[k - 1])
         /\ call.req.reparse => \A i \in 1 .. pos[d] : i \notin LinksOn(q)
    BY <1>6 DEF Along
  <1>17. PICK npos : npos = [pos EXCEPT ![d] = pos[d] + 1]
    OBVIOUS
  <1>11. /\ npos \in [0 .. d -> 0 .. Len(q)] /\ npos[0] = Len(q)
         /\ npos[d] = pos[d] + 1 /\ \A k \in 0 .. d - 1 : npos[k] = pos[k]
    <2> HIDE DEF d
    <2>1. pos[d] + 1 \in 0 .. Len(q) /\ d \in 0 .. d /\ 0 # d
      BY <1>8, <1>9
    <2>2. /\ npos \in [0 .. d -> 0 .. Len(q)] /\ npos[d] = pos[d] + 1
          /\ \A k \in 0 .. d : k # d => npos[k] = pos[k]
      BY <1>10, <1>17, <2>1
    <2>3. 0 \in 0 .. d /\ \A k \in 0 .. d - 1 : k \in 0 .. d /\ k # d
      BY <1>8
    <2> QED  BY <1>10, <2>1, <2>2, <2>3
  <1>12. Top'.at = n /\ Top'.rest = t
    BY <1>5 DEF Top
  <1>13. call.req.reparse => pos[d] + 1 \notin LinksOn(q)
    BY <1>1, <1>8 DEF Reparses, LinksOn
  <1> HIDE DEF n, t, d
  <1>14. Along(q, npos)'
    <2>1. ASSUME NEW k \in 1 .. d
          PROVE  /\ \A i \in 0 .. k - 1 : npos[k] <= npos[i]
                 /\ call'.stack[k].rest = SubSeq(q, npos[k] + 1, npos[k - 1])
      <3>1. CASE k = d
        <4>1. d - 1 \in 0 .. d - 1 /\ (pos[d] + 1) + 1 = pos[d] + 2
          BY <1>8
        <4>2. npos[d - 1] = pos[d - 1]
          BY <1>11, <4>1
        <4>3. call'.stack[d].rest = SubSeq(q, npos[d] + 1, npos[d - 1])
          <5>1. call'.stack[d].rest = t
            BY <1>5
          <5>2. npos[d] + 1 = pos[d] + 2
            BY <1>8, <1>11
          <5> QED  BY <1>8, <4>2, <5>1, <5>2
        <4>4. \A i \in 0 .. d - 1 : i \in 0 .. d /\ pos[i] \in Nat
          <5>1. \A i \in 0 .. d - 1 : i \in 0 .. d
            BY <1>8
          <5>2. \A i \in 0 .. d : pos[i] \in 0 .. Len(q)
            BY <1>10
          <5> QED  BY <1>9, <5>1, <5>2
        <4>5. \A i \in 0 .. d - 2 : pos[d] + 1 <= pos[i]
          <5>1. \A i \in 0 .. d - 2 : i \in 0 .. (d - 1) - 1 /\ d - 1 \in 1 .. d /\ i \in 0 .. d - 1
            BY <1>8
          <5>2. \A i \in 0 .. d - 2 : pos[d - 1] <= pos[i] /\ pos[i] \in Nat
            BY <1>10, <4>4, <5>1
          <5>3. pos[d] \in Nat /\ pos[d - 1] \in Nat /\ pos[d] + 1 <= pos[d - 1]
            BY <1>8, <1>9
          <5> QED  BY <5>2, <5>3
        <4>6. \A i \in 0 .. d - 1 : i = d - 1 \/ i \in 0 .. d - 2
          BY <1>8
        <4> QED  BY <1>8, <1>11, <3>1, <4>3, <4>5, <4>6
      <3>2. CASE k # d
        <4>1. k \in 0 .. d - 1 /\ k - 1 \in 0 .. d - 1 /\ k \in 1 .. d - 1
          BY <1>8, <3>2
        <4>2. npos[k] = pos[k] /\ npos[k - 1] = pos[k - 1] /\ call'.stack[k] = call.stack[k]
          BY <1>5, <1>11, <4>1
        <4>3. \A i \in 0 .. k - 1 : i \in 0 .. d - 1
          BY <1>8, <4>1
        <4> QED  BY <1>10, <1>11, <4>2, <4>3
      <3> QED  BY <3>1, <3>2
    <2>2. Top'.at = Walk(q)'[npos[d]]
      <3>1. pos[d] + 1 \in 0 .. Len(q)
        BY <1>8, <1>9
      <3> QED  BY <1>8, <1>9, <1>11, <1>12, <3>1
    <2>3. call.req.reparse => \A i \in 1 .. npos[d] : i \notin LinksOn(q)'
      <3> SUFFICES ASSUME call.req.reparse, NEW i \in 1 .. pos[d] + 1
                   PROVE  i \notin LinksOn(q)
        BY <1>9, <1>11
      <3>1. CASE i = pos[d] + 1
        BY <1>13, <3>1
      <3>2. CASE i # pos[d] + 1
        <4>1. i \in 1 .. pos[d]
          BY <1>8, <3>2
        <4> QED  BY <1>10, <4>1
      <3> QED  BY <3>1, <3>2
    <2>4. Len(call'.stack) = d /\ call'.req.reparse = call.req.reparse
      BY <1>5
    <2>5. npos \in [0 .. d -> 0 .. Len(q)] /\ npos[0] = Len(q)
      BY <1>11
    <2> DEFINE e == Len(call'.stack)
    <2>6. e = d
      BY <2>4
    <2> HIDE DEF e
    <2>7. /\ npos \in [0 .. e -> 0 .. Len(q)] /\ npos[0] = Len(q)
          /\ \A k \in 1 .. e : /\ \A i \in 0 .. k - 1 : npos[k] <= npos[i]
                               /\ call'.stack[k].rest = SubSeq(q, npos[k] + 1, npos[k - 1])
          /\ Top'.at = Walk(q)'[npos[e]]
          /\ call'.req.reparse => \A i \in 1 .. npos[e] : i \notin LinksOn(q)'
      BY <2>1, <2>2, <2>3, <2>4, <2>5, <2>6
    <2> QED  BY <2>7 DEF Along, e
  <1>15. ~call'.req.reparse => Len(call'.stack) = 1
    BY <1>1, <1>5 DEF LookupOnCourse, d
  <1>16. Sought' \in Paths
    BY <1>6, <1>7
  <1> QED  BY <1>7, <1>14, <1>15, <1>16 DEF LookupOnCourse

(* A piece of a path. *)
LEMMA Piece ==
    ASSUME NEW q \in Paths, NEW a \in 0 .. Len(q), NEW b \in a .. Len(q)
    PROVE  /\ SubSeq(q, a + 1, b) \in Paths
           /\ Len(SubSeq(q, a + 1, b)) = b - a
           /\ \A i \in 1 .. b - a : SubSeq(q, a + 1, b)[i] = q[a + i]
  <1>1. Len(q) \in Nat /\ \A i \in (a + 1) .. b : q[i] \in Names
    <2>1. Len(q) \in Nat
      BY LenProperties DEF Paths
    <2>2. \A i \in (a + 1) .. b : i \in 1 .. Len(q)
      BY <2>1
    <2> QED  BY <2>1, <2>2, ElementOfSeq DEF Paths
  <1>2. a + 1 \in Int /\ b \in Int /\ a <= b /\ b - (a + 1) + 1 = b - a
    BY <1>1
  <1>3. /\ SubSeq(q, a + 1, b) \in Paths
        /\ Len(SubSeq(q, a + 1, b)) = IF a + 1 <= b THEN b - (a + 1) + 1 ELSE 0
        /\ \A i \in 1 .. b - (a + 1) + 1 : SubSeq(q, a + 1, b)[i] = q[(a + 1) + i - 1]
    BY <1>1, <1>2, SubSeqProperties DEF Paths
  <1>4. \A i \in 1 .. b - a : (a + 1) + i - 1 = a + i
    BY <1>1
  <1>5. Len(SubSeq(q, a + 1, b)) = b - a
    BY <1>1, <1>2, <1>3
  <1> QED  BY <1>2, <1>3, <1>4, <1>5

(* w is q with t in the place of its first c parts: the pieces further on  *)
(* are the same.                                                           *)
Replaces(w, t, q, c) ==
    /\ w \in Paths /\ Len(t) \in 0 .. Len(w)
    /\ Len(w) = Len(t) + (Len(q) - c)
    /\ SubSeq(w, 1, Len(t)) = t
    /\ \A a \in c .. Len(q), b \in c .. Len(q) : a <= b =>
          SubSeq(w, (Len(t) + (a - c)) + 1, Len(t) + (b - c)) = SubSeq(q, a + 1, b)

LEMMA PieceAfter ==
    ASSUME NEW q \in Paths, NEW t \in Paths, NEW c \in 0 .. Len(q)
    PROVE  Replaces(t \o SubSeq(q, c + 1, Len(q)), t, q, c)
  <1>0. PICK w : w = t \o SubSeq(q, c + 1, Len(q))
    OBVIOUS
  <1> DEFINE v == SubSeq(q, c + 1, Len(q))
  <1>1. Len(q) \in Nat /\ Len(t) \in Nat /\ c \in Nat
    BY LenProperties DEF Paths
  <1>2. v \in Paths /\ Len(v) = Len(q) - c /\ \A i \in 1 .. Len(q) - c : v[i] = q[c + i]
    <2>1. Len(q) \in c .. Len(q)
      BY <1>1
    <2> QED  BY <2>1, Piece
  <1>3. w = t \o v
    BY <1>0
  <1> HIDE DEF v
  <1>4. /\ w \in Paths /\ Len(w) = Len(t) + Len(v)
        /\ \A i \in 1 .. Len(t) + Len(v) : w[i] = IF i <= Len(t) THEN t[i] ELSE v[i - Len(t)]
    <2>1. t \in Seq(Names) /\ v \in Seq(Names)
      BY <1>2 DEF Paths
    <2>2. /\ t \o v \in Seq(Names) /\ Len(t \o v) = Len(t) + Len(v)
          /\ \A i \in 1 .. Len(t) + Len(v) :
                (t \o v)[i] = IF i <= Len(t) THEN t[i] ELSE v[i - Len(t)]
      BY <2>1, ConcatProperties
    <2> QED  BY <1>3, <2>2 DEF Paths
  <1>5. Len(w) = Len(t) + (Len(q) - c) /\ Len(t) \in 0 .. Len(w) /\ Len(w) \in Nat
    BY <1>1, <1>2, <1>4
  <1>6. SubSeq(w, 1, Len(t)) = t
    <2> DEFINE u == SubSeq(w, 0 + 1, Len(t))
    <2>1. 0 \in 0 .. Len(w) /\ Len(t) \in 0 .. Len(w) /\ Len(t) - 0 = Len(t)
      BY <1>1, <1>5
    <2>2. u \in Paths /\ Len(u) = Len(t) /\ \A i \in 1 .. Len(t) : u[i] = w[0 + i]
      <3>1. /\ u \in Paths /\ Len(u) = Len(t) - 0
            /\ \A i \in 1 .. Len(t) - 0 : u[i] = w[0 + i]
        BY <1>4, <2>1, Piece
      <3> HIDE DEF u
      <3> QED  BY <2>1, <3>1
    <2>3. \A i \in 1 .. Len(t) : w[0 + i] = t[i]
      BY <1>1, <1>2, <1>4
    <2>4. u = SubSeq(w, 1, Len(t))
      OBVIOUS
    <2> HIDE DEF u
    <2> QED  BY <2>2, <2>3, <2>4, SeqEqual DEF Paths
  <1>7. ASSUME NEW a \in c .. Len(q), NEW b \in c .. Len(q), a <= b
        PROVE  SubSeq(w, (Len(t) + (a - c)) + 1, Len(t) + (b - c)) = SubSeq(q, a + 1, b)
    <2> DEFINE a1 == Len(t) + (a - c)
               b1 == Len(t) + (b - c)
               u  == SubSeq(w, a1 + 1, b1)
               x  == SubSeq(q, a + 1, b)
    <2>1. a1 \in 0 .. Len(w) /\ b1 \in a1 .. Len(w) /\ b1 - a1 = b - a
          /\ a \in 0 .. Len(q) /\ b \in a .. Len(q) /\ a1 \in Nat
      BY <1>1, <1>5, <1>7
    <2>2. x \in Paths /\ Len(x) = b - a /\ \A i \in 1 .. b - a : x[i] = q[a + i]
      BY <2>1, Piece
    <2>3. u \in Paths /\ Len(u) = b1 - a1 /\ \A i \in 1 .. b1 - a1 : u[i] = w[a1 + i]
      <3> HIDE DEF a1, b1
      <3> QED  BY <1>4, <2>1, Piece
    <2>4. ASSUME NEW i \in 1 .. b - a  PROVE w[a1 + i] = q[a + i]
      <3>1. /\ a1 + i \in 1 .. Len(t) + Len(v) /\ ~(a1 + i <= Len(t))
            /\ (a1 + i) - Len(t) = (a - c) + i /\ (a - c) + i \in 1 .. Len(q) - c
            /\ c + ((a - c) + i) = a + i
        BY <1>1, <1>2, <1>7
      <3>2. w[a1 + i] = v[(a - c) + i]
        <4> HIDE DEF a1
        <4> QED  BY <1>4, <3>1
      <3>3. v[(a - c) + i] = q[a + i]
        BY <1>2, <3>1
      <3> QED  BY <3>2, <3>3
    <2> HIDE DEF a1, b1, u, x
    <2>5. \A i \in 1 .. Len(u) : u[i] = x[i]
      BY <2>1, <2>2, <2>3, <2>4
    <2>6. Len(u) = Len(x)
      BY <2>1, <2>2, <2>3
    <2>7. u = x
      BY <2>2, <2>3, <2>5, <2>6, SeqEqual DEF Paths
    <2> QED  BY <2>7 DEF u, x, a1, b1
  <1> QED  BY <1>0, <1>4, <1>5, <1>6, <1>7 DEF Replaces

(* A link is followed: its target is written out, and what is left of the  *)
(* path stays as it was.                                                   *)
LEMMA FollowLinkCourse ==
    ASSUME KvfsIInv, FollowLink
    PROVE  LookupOnCourse'
  <1> USE DEF KvfsIInv
  <1> DEFINE n == FoundNode
             t == Tail(Top.rest)
             c == SetTop(n, t)
             g == Target[Mounted(n)]
             f == [at |-> Root, rest |-> g]
             d == Len(call.stack)
  <1>1. /\ call.op = "lookup" /\ Top.rest # <<>> /\ n # NULL /\ Reparses(n)
        /\ tree' = tree /\ mount' = mount
        /\ call' = IF d = StackDepth
                   THEN [call EXCEPT !.op = "overflow"]
                   ELSE [c EXCEPT !.followed = @ + 1, !.stack = Append(@, f)]
    BY DEF FollowLink, AtPart, store
  <1>2. call.stack # <<>> /\ call.req \in Lookups /\ call.followed \in Nat /\ call \in Calls
    BY <1>1 DEF CallTyped, Calls
  <1>3. Top.at \in tree /\ t \in Paths /\ d \in Nat \ {0}
    BY <1>1, <1>2, TopTyped
  <1>4. n \in Paths
    BY <1>1, <1>3, TowardsTree DEF FoundNode, KvfsInv, StoreTyped
  <1>5. CASE d = StackDepth
    <2>1. call'.op = "overflow"
      BY <1>1, <1>2, <1>5 DEF Calls
    <2> QED  BY <2>1 DEF LookupOnCourse
  <1>6. CASE d # StackDepth
    <2>1. call.req.reparse
      <3>1. call.req.reparse \/ Len(call.stack) > 1
        BY <1>1 DEF Reparses
      <3>2. call.req.reparse \/ Len(call.stack) = 1
        BY <1>1 DEF LookupOnCourse
      <3>3. ~(Len(call.stack) > 1 /\ Len(call.stack) = 1)
        <4>1. \A e : ~(e > 1 /\ e = 1)
          OBVIOUS
        <4> QED  BY <4>1, Zenon
      <3> QED  BY <3>1, <3>2, <3>3, Zenon
    <2>2. /\ call'.op = "lookup" /\ call'.req = call.req /\ Len(call'.stack) = d + 1
          /\ call'.stack[d + 1] = f /\ call'.stack[d].rest = t
          /\ call'.followed = call.followed + 1
          /\ \A k \in 1 .. d - 1 : call'.stack[k] = call.stack[k]
      <3>1. call.stack \in Seq(Frame)
        BY <1>2 DEF Calls
      <3>2. f \in Frame /\ [at |-> n, rest |-> t] \in Frame
        BY <1>1, <1>3, <1>4, Requests DEF Frame, Reparses, IsLink
      <3> HIDE DEF n, t, f
      <3>3. /\ c \in Calls /\ c.op = call.op /\ c.req = call.req
            /\ Len(c.stack) = d /\ c.stack[d] = [at |-> n, rest |-> t]
        BY <1>2, <1>3, <1>4, SetTopTyped
      <3>4. /\ c.followed = call.followed
            /\ c.stack = [call.stack EXCEPT ![d] = [at |-> n, rest |-> t]]
        BY <1>2 DEF SetTop, Calls
      <3>5. \A k \in 1 .. d - 1 : c.stack[k] = call.stack[k]
        <4>1. \A k \in 1 .. Len(call.stack) :
                [call.stack EXCEPT ![d] = [at |-> n, rest |-> t]][k]
                   = IF k = d THEN [at |-> n, rest |-> t] ELSE call.stack[k]
          BY <3>1
        <4> QED  BY <1>3, <3>4, <4>1
      <3>6. call' = [c EXCEPT !.followed = @ + 1, !.stack = Append(@, f)]
        BY <1>1, <1>6
      <3> HIDE DEF c
      <3>7. c.stack \in Seq(Frame)
        BY <3>3 DEF Calls
      <3>8. /\ call'.op = c.op /\ call'.req = c.req /\ call'.followed = c.followed + 1
            /\ call'.stack = Append(c.stack, f)
        BY <3>3, <3>6 DEF Calls
      <3>9. /\ Len(Append(c.stack, f)) = d + 1 /\ Append(c.stack, f)[d + 1] = f
            /\ \A k \in 1 .. d : Append(c.stack, f)[k] = c.stack[k]
        BY <3>2, <3>3, <3>7, AppendProperties
      <3>10. call'.stack[d].rest = t /\ \A k \in 1 .. d - 1 : call'.stack[k] = call.stack[k]
        <4>1. d \in 1 .. d /\ \A k \in 1 .. d - 1 : k \in 1 .. d
          BY <1>3
        <4>2. call'.stack[d] = [at |-> n, rest |-> t]
          BY <3>3, <3>8, <3>9, <4>1
        <4> QED  BY <3>5, <3>8, <3>9, <4>1, <4>2
      <3> QED  BY <1>1, <3>3, <3>4, <3>8, <3>9, <3>10
    <2>3. PICK q, pos : q \in Paths /\ q = Sought /\ Along(q, pos)
      BY <1>1 DEF LookupOnCourse
    <2>4. /\ pos[d] \in 0 .. Len(q) /\ pos[d - 1] \in 0 .. Len(q)
          /\ pos[d] + 1 <= pos[d - 1] /\ n = Walk(q)[pos[d] + 1]
          /\ t = SubSeq(q, pos[d] + 2, pos[d - 1])
      <3>1. NextOnPath(q, pos, d)
        BY <1>1, <2>3, CourseHead
      <3> HIDE DEF d
      <3> QED  BY <1>1, <3>1 DEF NextOnPath
    <2>5. Len(q) \in Nat
      BY LenProperties DEF Paths
    <2>6. /\ pos \in [0 .. d -> 0 .. Len(q)] /\ pos[0] = Len(q)
          /\ \A k \in 1 .. d : /\ \A i \in 0 .. k - 1 : pos[k] <= pos[i]
                               /\ call.stack[k].rest = SubSeq(q, pos[k] + 1, pos[k - 1])
          /\ \A i \in 1 .. pos[d] : i \notin LinksOn(q)
      BY <2>1, <2>3 DEF Along
    <2>7. PICK j : j = pos[d] + 1
      OBVIOUS
    <2>8. j \in 1 .. Len(q) /\ j \in LinksOn(q) /\ \A i \in LinksOn(q) : j <= i
      <3>1. j \in 1 .. Len(q)
        BY <2>4, <2>5, <2>7
      <3>2. j \in LinksOn(q)
        BY <1>1, <2>4, <2>7, <3>1 DEF LinksOn, Reparses
      <3>3. ASSUME NEW i \in LinksOn(q), ~(j <= i)  PROVE FALSE
        <4>1. i \in 1 .. Len(q)
          BY DEF LinksOn
        <4>2. i \in 1 .. pos[d]
          BY <2>4, <2>5, <2>7, <3>3, <4>1
        <4> QED  BY <2>6, <3>3, <4>2
      <3> QED  BY <3>1, <3>2, <3>3
    <2>9. PICK w : w = Rewrite(q)
      OBVIOUS
    <2>10. w = g \o SubSeq(q, j + 1, Len(q))
      <3>1. PICK k \in LinksOn(q) :
              /\ \A i \in LinksOn(q) : k <= i
              /\ Rewrite(q) = Target[Mounted(Walk(q)[k])] \o SubSeq(q, k + 1, Len(q))
        BY <2>3, <2>8, RewriteSteps DEF RewriteAll
      <3>2. k = j
        <4>1. k \in 1 .. Len(q)
          BY <3>1 DEF LinksOn
        <4> QED  BY <2>5, <2>8, <3>1, <4>1
      <3>3. Walk(q)[j] = n
        BY <2>4, <2>7
      <3> QED  BY <2>9, <3>1, <3>2, <3>3
    <2>11. Sought' = w /\ w \in Paths
      BY <1>1, <1>2, <2>1, <2>2, <2>3, <2>9, SoughtRewritten
    <2>12. g \in Paths /\ Len(g) \in Nat
      BY <1>1, Requests, LenProperties DEF Reparses, IsLink, Paths
    <2>13. PICK h : h = g
      OBVIOUS
    <2>14. PICK e : e = d
      OBVIOUS
    <2>15. PICK npos : npos = [k \in 0 .. e + 1 |->
                          IF k = e + 1 THEN 0
                          ELSE IF k = e THEN Len(h) ELSE Len(h) + (pos[k] - j)]
      OBVIOUS
    <2>16. f.at = Root /\ f.rest = h
      BY <2>13
    <2>17. ~call'.req.reparse => Len(call'.stack) = 1
      BY <2>1, <2>2
    <2>18. /\ call'.op = "lookup" /\ Len(call'.stack) = e + 1
           /\ call'.stack[e + 1].rest = h /\ call'.stack[e].rest = t
           /\ \A k \in 1 .. e - 1 : call'.stack[k] = call.stack[k]
           /\ Top'.at = Root /\ e \in Nat \ {0}
      BY <1>3, <2>2, <2>14, <2>16 DEF Top
    <2>19. h \in Paths /\ Len(h) \in Nat /\ w = h \o SubSeq(q, j + 1, Len(q))
      BY <2>10, <2>12, <2>13
    <2> HIDE DEF n, t, c, g, f
    <2>20. /\ Len(h) \in 0 .. Len(w) /\ Len(w) = Len(h) + (Len(q) - j)
           /\ SubSeq(w, 1, Len(h)) = h
           /\ \A a \in j .. Len(q), b \in j .. Len(q) : a <= b =>
                 SubSeq(w, (Len(h) + (a - j)) + 1, Len(h) + (b - j)) = SubSeq(q, a + 1, b)
      <3>1. j \in 0 .. Len(q)
        BY <2>8
      <3>2. Replaces(h \o SubSeq(q, j + 1, Len(q)), h, q, j)
        BY <2>3, <2>19, <3>1, PieceAfter
      <3>3. Replaces(w, h, q, j)
        BY <2>19, <3>2
      <3> QED  BY <3>3 DEF Replaces
    <2>21. \A k \in 0 .. e - 1 : /\ pos[k] \in j .. Len(q)
                                 /\ npos[k] = Len(h) + (pos[k] - j)
      <3> TAKE k \in 0 .. e - 1
      <3>1. k \in 0 .. e /\ e \in 1 .. e /\ k \in 0 .. e + 1 /\ k # e + 1 /\ k # e
            /\ e - 1 \in 0 .. e
        BY <2>18
      <3>2. npos[k] = Len(h) + (pos[k] - j)
        BY <2>15, <3>1
      <3>3. pos[e] \in Nat /\ pos[k] \in 0 .. Len(q) /\ pos[e - 1] \in 0 .. Len(q)
            /\ j <= pos[e - 1] /\ j \in Nat
        <4>1. /\ pos[e] \in 0 .. Len(q) /\ pos[e - 1] \in 0 .. Len(q)
              /\ pos[e] + 1 <= pos[e - 1] /\ j = pos[e] + 1
          BY <2>4, <2>7, <2>14
        <4>2. pos[k] \in 0 .. Len(q)
          BY <2>6, <2>14, <3>1
        <4> QED  BY <2>5, <4>1, <4>2
      <3>4. pos[e - 1] <= pos[k]
        <4>1. CASE k = e - 1
          BY <3>3, <4>1
        <4>2. CASE k # e - 1
          <5>1. e - 1 \in 1 .. e /\ k \in 0 .. (e - 1) - 1
            BY <2>18, <4>2
          <5> QED  BY <2>6, <2>14, <5>1
        <4> QED  BY <4>1, <4>2
      <3> QED  BY <2>5, <3>2, <3>3, <3>4
    <2>22. npos[e + 1] = 0 /\ npos[e] = Len(h) /\ j \in Nat
      BY <2>8, <2>15, <2>18
    <2> HIDE DEF d
    <2>23. npos \in [0 .. e + 1 -> 0 .. Len(w)] /\ npos[0] = Len(w)
      <3>1. ASSUME NEW k \in 0 .. e + 1  PROVE npos[k] \in 0 .. Len(w)
        <4>1. k = e + 1 \/ k = e \/ k \in 0 .. e - 1
          BY <2>18
        <4>2. CASE k \in 0 .. e - 1
          <5>1. Len(h) + (pos[k] - j) \in 0 .. Len(w)
            <6>1. pos[k] \in j .. Len(q)
              BY <2>21, <4>2
            <6>2. Len(h) \in Nat /\ Len(w) \in Nat /\ Len(q) \in Nat /\ j \in Nat
              BY <2>3, <2>5, <2>19, <2>20, <2>22
            <6>3. Len(w) = Len(h) + (Len(q) - j)
              BY <2>20
            <6> QED  BY <6>1, <6>2, <6>3
          <5> QED  BY <2>21, <4>2, <5>1
        <4>3. 0 \in 0 .. Len(w)
          BY <2>5, <2>8, <2>19, <2>20
        <4> QED  BY <2>20, <2>22, <4>1, <4>2, <4>3
      <3>2. 0 \in 0 .. e - 1
        BY <2>18
      <3>3. npos[0] = Len(w)
        BY <2>6, <2>20, <2>21, <3>2
      <3> QED  BY <2>15, <3>1, <3>3
    <2>24. ASSUME NEW k \in 1 .. e + 1
           PROVE  /\ \A i \in 0 .. k - 1 : npos[k] <= npos[i]
                  /\ call'.stack[k].rest = SubSeq(w, npos[k] + 1, npos[k - 1])
      <3>1. CASE k = e + 1
        <4>1. \A i \in 0 .. k - 1 : npos[k] <= npos[i]
          <5>1. \A i \in 0 .. k - 1 : npos[i] \in 0 .. Len(w)
            BY <2>18, <2>23, <3>1
          <5> QED  BY <2>22, <3>1, <5>1
        <4>2. k - 1 = e /\ npos[k] + 1 = 1
          BY <2>18, <2>22, <3>1
        <4> QED  BY <2>18, <2>20, <2>22, <3>1, <4>1, <4>2
      <3>2. CASE k = e
        <4>1. \A i \in 0 .. e - 1 : npos[e] <= npos[i]
          BY <2>5, <2>19, <2>21, <2>22
        <4>2. e - 1 \in 0 .. e - 1
          BY <2>18
        <4>3. npos[e - 1] = Len(h) + (pos[e - 1] - j) /\ pos[e - 1] \in j .. Len(q)
          BY <2>21, <4>2
        <4>4. /\ j \in j .. Len(q) /\ j <= pos[e - 1]
              /\ (Len(h) + (j - j)) + 1 = Len(h) + 1
          BY <2>5, <2>8, <2>19, <4>3
        <4>5. SubSeq(w, Len(h) + 1, Len(h) + (pos[e - 1] - j))
                 = SubSeq(q, j + 1, pos[e - 1])
          <5>1. SubSeq(w, (Len(h) + (j - j)) + 1, Len(h) + (pos[e - 1] - j))
                 = SubSeq(q, j + 1, pos[e - 1])
            BY <2>20, <4>3, <4>4
          <5> QED  BY <4>4, <5>1
        <4>6. j + 1 = pos[e] + 2
          BY <2>4, <2>7, <2>14
        <4>7. t = SubSeq(q, j + 1, pos[e - 1])
          BY <2>4, <2>14, <4>6
        <4> QED  BY <2>18, <2>22, <3>2, <4>1, <4>3, <4>5, <4>7
      <3>3. CASE k \in 1 .. e - 1
        <4>1. k \in 0 .. e - 1 /\ k \in 1 .. e /\ k - 1 \in 0 .. e - 1
              /\ k - 1 \in 0 .. k - 1
          BY <2>18, <3>3
        <4>2. \A i \in 0 .. k - 1 : i \in 0 .. e - 1
          BY <2>18, <3>3
        <4>3. \A i \in 0 .. k - 1 : npos[k] <= npos[i]
          <5> TAKE i \in 0 .. k - 1
          <5>1. pos[k] <= pos[i]
            BY <2>6, <2>14, <4>1
          <5>2. /\ npos[k] = Len(h) + (pos[k] - j) /\ pos[k] \in j .. Len(q)
                /\ npos[i] = Len(h) + (pos[i] - j) /\ pos[i] \in j .. Len(q)
            BY <2>21, <4>1, <4>2
          <5> QED  BY <2>5, <2>19, <2>22, <5>1, <5>2
        <4>4. call'.stack[k].rest = SubSeq(q, pos[k] + 1, pos[k - 1])
          BY <2>6, <2>14, <2>18, <3>3, <4>1
        <4>5. /\ npos[k] = Len(h) + (pos[k] - j) /\ pos[k] \in j .. Len(q)
              /\ npos[k - 1] = Len(h) + (pos[k - 1] - j) /\ pos[k - 1] \in j .. Len(q)
              /\ pos[k] <= pos[k - 1]
          BY <2>6, <2>14, <2>21, <4>1
        <4>6. SubSeq(w, (Len(h) + (pos[k] - j)) + 1, Len(h) + (pos[k - 1] - j))
                 = SubSeq(q, pos[k] + 1, pos[k - 1])
          BY <2>20, <4>5
        <4> QED  BY <4>3, <4>4, <4>5, <4>6
      <3>4. k = e + 1 \/ k = e \/ k \in 1 .. e - 1
        BY <2>18
      <3> QED  BY <3>1, <3>2, <3>3, <3>4
    <2>25. Top'.at = Walk(w)'[npos[e + 1]]
      <3>1. Walk(w)'[0] = Root
        BY <2>11, WalkSteps DEF WalksAll, WalksTo, Root
      <3> QED  BY <2>18, <2>22, <3>1
    <2>26. \A i \in 1 .. npos[e + 1] : i \notin LinksOn(w)'
      BY <2>22
    <2>27. Along(w, npos)'
      <3> DEFINE m == Len(call'.stack)
      <3>1. m = e + 1
        BY <2>18
      <3> HIDE DEF m
      <3>2. /\ npos \in [0 .. m -> 0 .. Len(w)] /\ npos[0] = Len(w)
            /\ \A k \in 1 .. m :
                  /\ \A i \in 0 .. k - 1 : npos[k] <= npos[i]
                  /\ call'.stack[k].rest = SubSeq(w, npos[k] + 1, npos[k - 1])
            /\ Top'.at = Walk(w)'[npos[m]]
            /\ call'.req.reparse => \A i \in 1 .. npos[m] : i \notin LinksOn(w)'
        BY <2>23, <2>24, <2>25, <2>26, <3>1
      <3> QED  BY <3>2 DEF Along, m
    <2> QED  BY <2>11, <2>17, <2>27 DEF LookupOnCourse
  <1> QED  BY <1>5, <1>6

(* What is behind a part that leads nowhere leads nowhere. *)
LEMMA NowhereOn ==
    ASSUME NEW q \in Paths, NEW j \in 0 .. Len(q), Walk(q)[j] = NULL
    PROVE  \A k \in j .. Len(q) : Walk(q)[k] = NULL
  <1> DEFINE Bad == {k \in j .. Len(q) : Walk(q)[k] # NULL}
  <1>1. Len(q) \in Nat
    BY LenProperties DEF Paths
  <1>2. SUFFICES ASSUME Bad # {}  PROVE FALSE
    OBVIOUS
  <1>3. PICK k \in Bad : \A i \in Bad : k <= i
    <2>1. Bad \in SUBSET Nat
      BY <1>1
    <2> HIDE DEF Bad
    <2> QED  BY <1>2, <2>1, LeastNatural
  <1>4. k \in 1 .. Len(q) /\ k - 1 \in j .. Len(q) /\ k - 1 < k
    BY <1>1, <1>3
  <1>5. Walk(q)[k - 1] = NULL
    BY <1>3, <1>4
  <1>6. Walk(q)[k] = Onward(Walk(q)[k - 1], q[k])
    BY <1>4, WalkDef DEF WalksTo
  <1> QED  BY <1>3, <1>5, <1>6 DEF Onward

(* A lookup that ends has found what its path means. *)
LEMMA DoneSound ==
    ASSUME KvfsIInv, call.op = "lookup", NEW n \in Paths \cup {NULL},
           call' = Done(n), tree' = tree, mount' = mount,
           NEW q \in Paths, q = Sought, n = Walk(q)[Len(q)],
           call.req.reparse => LinksOn(q) = {}
    PROVE  LookupSound' /\ LookupOnCourse'
  <1> USE DEF KvfsIInv
  <1>1. call.req \in Lookups /\ call \in Calls /\ call.followed \in Nat
    BY DEF CallTyped, Calls
  <1>2. /\ call'.op = "done" /\ call'.req = call.req /\ call'.result = n
        /\ call'.followed = call.followed
    BY <1>1 DEF Done, Calls
  <1>3. Sought' = q
    BY <1>1, <1>2, SoughtStays
  <1>4. /\ Len(q) \in Nat /\ LinksOn(q)' = LinksOn(q)
        /\ \A k \in 0 .. Len(q) : Walk(q)'[k] = Walk(q)[k]
    BY LinksStay
  <1>5. Walk(q)'[Len(q)] = n
    <2>1. Len(q) \in 0 .. Len(q)
      BY <1>4
    <2> QED  BY <1>4, <2>1
  <1>6. /\ LinksOn(Sought)' = LinksOn(q)'
        /\ Walk(Sought)'[Len(Sought)'] = Walk(q)'[Len(q)]
    BY <1>3
  <1>7. call'.req.reparse => LinksOn(Sought)' = {}
    BY <1>2, <1>4, <1>6
  <1>8. call'.result = Walk(Sought)'[Len(Sought)']
    BY <1>2, <1>5, <1>6
  <1>9. LookupSound'
    BY <1>7, <1>8 DEF LookupSound
  <1>10. LookupOnCourse'
    BY <1>2 DEF LookupOnCourse
  <1> QED  BY <1>9, <1>10

(* A lookup that finds no node for a part ends without one. *)
LEMMA FindFailsSound ==
    ASSUME KvfsIInv, FindFails
    PROVE  LookupSound' /\ LookupOnCourse'
  <1>1. /\ call.op = "lookup" /\ Top.rest # <<>> /\ FoundNode = NULL
        /\ call' = Done(NULL) /\ tree' = tree /\ mount' = mount
    BY DEF FindFails, AtPart, store
  <1>2. PICK q, pos : q \in Paths /\ q = Sought /\ Along(q, pos)
    BY <1>1 DEF KvfsIInv, LookupOnCourse
  <1> DEFINE d == Len(call.stack)
  <1>3. /\ pos[d] \in 0 .. Len(q) /\ pos[d - 1] \in 0 .. Len(q)
        /\ pos[d] + 1 <= pos[d - 1] /\ FoundNode = Walk(q)[pos[d] + 1]
    <2>1. NextOnPath(q, pos, d)
      BY <1>1, <1>2, CourseHead
    <2> HIDE DEF d
    <2> QED  BY <1>1, <2>1 DEF NextOnPath
  <1>4. call.req.reparse => \A i \in 1 .. pos[d] : i \notin LinksOn(q)
    BY <1>2 DEF Along
  <1> HIDE DEF d
  <1>5. Len(q) \in Nat
    BY LenProperties DEF Paths
  <1>6. pos[d] + 1 \in 0 .. Len(q) /\ Walk(q)[pos[d] + 1] = NULL
    BY <1>1, <1>3, <1>5
  <1>7. \A k \in pos[d] + 1 .. Len(q) : Walk(q)[k] = NULL
    BY <1>2, <1>6, NowhereOn
  <1>8. Walk(q)[Len(q)] = NULL
    BY <1>5, <1>6, <1>7
  <1>9. \A k \in pos[d] + 1 .. Len(q) : k \notin LinksOn(q)
    BY <1>7, Requests DEF LinksOn, IsLink, Mounted, KvfsIInv, KvfsInv, KvfsTypeOK, StoreTyped
  <1>10. call.req.reparse => LinksOn(q) = {}
    <2> SUFFICES ASSUME call.req.reparse, NEW k \in LinksOn(q)  PROVE FALSE
      OBVIOUS
    <2>1. k \in 1 .. Len(q)
      BY DEF LinksOn
    <2>2. k \in 1 .. pos[d] \/ k \in pos[d] + 1 .. Len(q)
      BY <1>3, <1>5, <2>1
    <2> QED  BY <1>4, <1>9, <2>2
  <1> QED  BY <1>1, <1>2, <1>8, <1>10, DoneSound

(* A nested call hands the node it has found to the one below it; when the *)
(* outermost one ends, all of its path is behind it.                       *)
LEMMA FindReturnsCourse ==
    ASSUME KvfsIInv, FindReturns
    PROVE  LookupSound' /\ LookupOnCourse'
  <1> USE DEF KvfsIInv
  <1> DEFINE d == Len(call.stack)
             b == d - 1
             sub == SubSeq(call.stack, 1, b)
  <1>1. /\ call.op = "lookup" /\ Top.rest = <<>> /\ tree' = tree /\ mount' = mount
        /\ call' = IF b = 0 THEN Done(Top.at)
                   ELSE [call EXCEPT !.stack = [sub EXCEPT ![b].at = Top.at]]
    BY DEF FindReturns, AtEnd, store
  <1>2. /\ call.stack # <<>> /\ call.req \in Lookups /\ call \in Calls
        /\ call.followed \in Nat /\ call.stack \in Seq(Frame)
    BY <1>1 DEF CallTyped, Calls
  <1>3. Top.at \in Paths /\ d \in Nat \ {0}
    BY <1>2, TopTyped
  <1>4. PICK q, pos : q \in Paths /\ q = Sought /\ Along(q, pos)
    BY <1>1 DEF LookupOnCourse
  <1>5. /\ pos[d] = pos[b] /\ Top.at = Walk(q)[pos[d]]
    <2>1. NextOnPath(q, pos, d)
      BY <1>1, <1>4, CourseHead
    <2> HIDE DEF d
    <2> QED  BY <1>1, <2>1 DEF NextOnPath
  <1>6. /\ pos \in [0 .. d -> 0 .. Len(q)] /\ pos[0] = Len(q)
        /\ \A k \in 1 .. d : /\ \A i \in 0 .. k - 1 : pos[k] <= pos[i]
                             /\ call.stack[k].rest = SubSeq(q, pos[k] + 1, pos[k - 1])
        /\ call.req.reparse => \A i \in 1 .. pos[d] : i \notin LinksOn(q)
    BY <1>4 DEF Along
  <1>7. CASE b = 0
    <2>1. Top.at = Walk(q)[Len(q)] /\ pos[d] = Len(q)
      BY <1>5, <1>6, <1>7
    <2>2. call.req.reparse => LinksOn(q) = {}
      <3>1. LinksOn(q) \subseteq 1 .. Len(q)
        BY DEF LinksOn
      <3> HIDE DEF d
      <3> QED  BY <1>6, <2>1, <3>1
    <2>3. PICK n \in Paths : n = Top.at
      BY <1>3
    <2>4. call' = Done(n)
      BY <1>1, <1>7, <2>3
    <2> QED  BY <1>1, <1>4, <2>1, <2>2, <2>3, <2>4, DoneSound
  <1>8. CASE b # 0
    <2>1. b \in Nat \ {0} /\ b \in 1 .. d
      <3> HIDE DEF d
      <3> QED  BY <1>3, <1>8
    <2>2. \A k \in 1 .. b : call.stack[k] \in Frame
      BY <1>2, <1>3, <2>1, ElementOfSeq
    <2>3. /\ sub \in Seq(Frame) /\ Len(sub) = b
          /\ \A k \in 1 .. b : sub[k] = call.stack[k]
      <3> HIDE DEF b
      <3> QED  BY <2>1, <2>2, SubSeqProperties
    <2> DEFINE f == [sub[b] EXCEPT !.at = Top.at]
               ret == [sub EXCEPT ![b] = f]
    <2>4. f \in Frame /\ f.at = Top.at /\ f.rest = sub[b].rest
      <3>1. sub[b] \in Frame
        <4> HIDE DEF b, sub
        <4> QED  BY <2>1, <2>2, <2>3
      <3> QED  BY <1>3, <3>1 DEF Frame
    <2>5. /\ Len(ret) = b
          /\ \A k \in 1 .. b : ret[k] = IF k = b THEN f ELSE sub[k]
      <3> HIDE DEF b, f, sub
      <3> QED  BY <2>1, <2>3, <2>4, ExceptSeq
    <2>6. call' = [call EXCEPT !.stack = ret]
      BY <1>1, <1>8
    <2> HIDE DEF ret
    <2>7. /\ call'.op = "lookup" /\ call'.req = call.req /\ call'.stack = ret
          /\ call'.followed = call.followed
      BY <1>1, <1>2, <2>6 DEF Calls
    <2> HIDE DEF f, sub, b
    <2>8. \A k \in 1 .. b : call'.stack[k].rest = call.stack[k].rest
      BY <2>1, <2>3, <2>4, <2>5, <2>7
    <2>9. call'.stack[b].at = Top.at /\ Len(call'.stack) = b
      <3>1. b \in 1 .. b
        BY <2>1
      <3> QED  BY <2>4, <2>5, <2>7, <3>1
    <2>10. Top'.at = Top.at
      BY <2>9 DEF Top
    <2>11. Sought' = q
      BY <1>1, <1>2, <1>4, <2>7, SoughtStays
    <2>12. /\ Len(q) \in Nat /\ LinksOn(q)' = LinksOn(q)
           /\ \A k \in 0 .. Len(q) : Walk(q)'[k] = Walk(q)[k]
      BY <1>4, <1>1, LinksStay
    <2>13. PICK e : e = b
      OBVIOUS
    <2>14. PICK npos : npos = [k \in 0 .. e |-> pos[k]]
      OBVIOUS
    <2>15. /\ e \in Nat \ {0} /\ e \in 1 .. d /\ e \in 0 .. d /\ d \in 0 .. d
           /\ \A k \in 0 .. e : k \in 0 .. d
      BY <1>3, <2>1, <2>13 DEF b
    <2> HIDE DEF d
    <2>16. /\ npos \in [0 .. e -> 0 .. Len(q)]
           /\ \A k \in 0 .. e : npos[k] = pos[k]
      BY <1>6, <2>14, <2>15
    <2>17. npos[0] = Len(q) /\ npos[e] = pos[d] /\ pos[d] \in 0 .. Len(q)
      <3>1. 0 \in 0 .. e /\ e \in 0 .. e
        BY <2>15
      <3>2. npos[0] = pos[0] /\ npos[e] = pos[e]
        BY <2>16, <3>1
      <3> QED  BY <1>5, <1>6, <2>13, <2>15, <3>2
    <2>18. ASSUME NEW k \in 1 .. e
           PROVE  /\ \A i \in 0 .. k - 1 : npos[k] <= npos[i]
                  /\ call'.stack[k].rest = SubSeq(q, npos[k] + 1, npos[k - 1])
      <3>1. /\ k \in 0 .. e /\ k - 1 \in 0 .. e /\ k \in 1 .. d
            /\ \A i \in 0 .. k - 1 : i \in 0 .. e
        BY <2>15
      <3>2. call'.stack[k].rest = call.stack[k].rest
        BY <2>8, <2>13
      <3> QED  BY <1>6, <2>16, <3>1, <3>2
    <2>19. Top'.at = Walk(q)'[npos[e]]
      BY <1>5, <2>10, <2>12, <2>17
    <2>20. call'.req.reparse => \A i \in 1 .. npos[e] : i \notin LinksOn(q)'
      BY <1>6, <2>7, <2>12, <2>17
    <2>21. Along(q, npos)'
      <3> DEFINE m == Len(call'.stack)
      <3>1. m = e
        BY <2>9, <2>13
      <3> HIDE DEF m
      <3>2. /\ npos \in [0 .. m -> 0 .. Len(q)] /\ npos[0] = Len(q)
            /\ \A k \in 1 .. m :
                  /\ \A i \in 0 .. k - 1 : npos[k] <= npos[i]
                  /\ call'.stack[k].rest = SubSeq(q, npos[k] + 1, npos[k - 1])
            /\ Top'.at = Walk(q)'[npos[m]]
            /\ call'.req.reparse => \A i \in 1 .. npos[m] : i \notin LinksOn(q)'
        BY <2>16, <2>17, <2>18, <2>19, <2>20, <3>1
      <3> QED  BY <3>2 DEF Along, m
    <2>22. call'.req.reparse
      <3>1. call.req.reparse \/ d = 1
        BY <1>1 DEF LookupOnCourse, d
      <3>2. d # 1
        BY <2>1 DEF b
      <3>3. call.req.reparse
        BY <3>1, <3>2, Zenon
      <3> QED  BY <2>7, <3>3
    <2>23. LookupOnCourse'
      <3>1. Sought' \in Paths
        BY <1>4, <2>11
      <3> QED  BY <2>11, <2>21, <2>22, <3>1 DEF LookupOnCourse
    <2>24. LookupSound'
      BY <2>7 DEF LookupSound
    <2> QED  BY <2>23, <2>24
  <1> QED  BY <1>7, <1>8

-----------------------------------------------------------------------------
(* getNodeByPath *)

(* A lookup changes nothing but its own call. *)
LEMMA LookupKeeps ==
    ASSUME KvfsIInv, UNCHANGED store, CallTyped', Len(call'.stack) <= StackDepth,
           call'.op # "create", call'.op = "done" => call'.req \in Lookups,
           LookupOnCourse', LookupSound'
    PROVE  KvfsIInv'
  <1> USE DEF KvfsIInv, store
  <1>1. KvfsInv'
    BY DEF KvfsInv, KvfsTypeOK, BindingsAgree, CallTyped, Calls, Mounted
  <1>2. StoreTyped' /\ BoundGiven' /\ CreateOnCourse'
    BY DEF StoreTyped, BoundGiven, CreateOnCourse
  <1>3. MountedWhereAsked'
    BY Requests DEF MountedWhereAsked
  <1> QED  BY <1>1, <1>2, <1>3

(* A lookup begins at the root. *)
LEMMA BeginLookupInv ==
    ASSUME KvfsIInv, NEW l \in Lookups, BeginLookup(l)
    PROVE  KvfsIInv'
  <1> DEFINE f == [at |-> Root, rest |-> l.path]
  <1>1. /\ UNCHANGED store
        /\ call' = [op |-> "lookup", req |-> l, result |-> NULL,
                    followed |-> 0, stack |-> <<f>>]
    BY DEF BeginLookup, Begin
  <1>2. f \in Frame
    BY Requests DEF Frame
  <1>3. <<f>> \in Seq(Frame) /\ Len(<<f>>) = 1 /\ <<f>>[1] = f /\ <<f>> # <<>>
    <2> HIDE DEF f
    <2> QED  BY <1>2
  <1>4. Root \in tree'
    BY <1>1 DEF store, KvfsIInv, KvfsInv, KvfsTypeOK
  <1>5. CallTyped'
    <2>1. call' \in Calls
      <3> HIDE DEF f
      <3> QED  BY <1>1, <1>3 DEF Calls
    <2>2. call'.stack = <<f>> /\ call'.op = "lookup" /\ call'.req = l
      BY <1>1
    <2>3. \A k \in 1 .. Len(call'.stack) : call'.stack[k].at \in tree'
      BY <1>3, <1>4, <2>2
    <2> QED  BY <1>3, <2>1, <2>2, <2>3 DEF CallTyped
  <1>6. Len(call'.stack) <= StackDepth
    BY <1>1, <1>3, Requests
  <1>7. LookupOnCourse' /\ LookupSound'
    BY <1>1, BeginLookupCourse DEF LookupSound
  <1> QED  BY <1>1, <1>5, <1>6, <1>7, LookupKeeps

(* A part is found. *)
LEMMA FindPartInv == KvfsIInv /\ FindPart => KvfsIInv'
  <1> SUFFICES ASSUME KvfsIInv, FindPart  PROVE KvfsIInv'
    OBVIOUS
  <1> USE DEF KvfsIInv
  <1>1. /\ call.op = "lookup" /\ Top.rest # <<>> /\ FoundNode # NULL
        /\ call' = SetTop(FoundNode, Tail(Top.rest)) /\ UNCHANGED store
    BY DEF FindPart, AtPart
  <1>2. call.stack # <<>> /\ call.req \in Lookups
    BY <1>1 DEF CallTyped
  <1>3. Top.at \in tree /\ Tail(Top.rest) \in Paths
    BY <1>1, <1>2, TopTyped
  <1>4. FoundNode \in tree /\ FoundNode \in Paths
    BY <1>1, <1>3, TowardsTree DEF FoundNode, KvfsInv, StoreTyped
  <1> DEFINE n == FoundNode
             t == Tail(Top.rest)
  <1>5. /\ SetTop(n, t) \in Calls /\ SetTop(n, t).op = call.op
        /\ SetTop(n, t).req = call.req
        /\ Len(SetTop(n, t).stack) = Len(call.stack) /\ SetTop(n, t).stack # <<>>
        /\ \A k \in 1 .. Len(call.stack) : SetTop(n, t).stack[k].at \in tree
    <2> HIDE DEF n, t
    <2>1. n \in Paths /\ t \in Paths /\ n \in tree
      BY <1>3, <1>4 DEF n, t
    <2> QED  BY <1>2, <2>1, SetTopTyped
  <1>6. CallTyped'
    BY <1>1, <1>2, <1>5 DEF CallTyped, store
  <1>7. Len(call'.stack) <= StackDepth
    BY <1>1, <1>5 DEF KvfsInv, KvfsTypeOK
  <1>8. call'.op = "lookup"
    BY <1>1, <1>5
  <1>9. LookupOnCourse' /\ LookupSound'
    BY <1>8, FindPartCourse DEF LookupSound
  <1> QED  BY <1>1, <1>6, <1>7, <1>8, <1>9, LookupKeeps

(* A lookup ends with a node or without one. *)
LEMMA LookupDone ==
    ASSUME KvfsIInv, call.op = "lookup", NEW n \in Paths \cup {NULL},
           call' = Done(n), UNCHANGED store, LookupOnCourse', LookupSound'
    PROVE  KvfsIInv'
  <1>1. /\ call' \in Calls /\ call'.op = "done" /\ call'.req = call.req
        /\ call'.stack = <<>> /\ Len(<<>>) = 0
    BY DoneTyped DEF KvfsIInv
  <1>2. CallTyped' /\ Len(call'.stack) <= StackDepth
    BY <1>1, Requests DEF CallTyped
  <1> QED  BY <1>1, <1>2, LookupKeeps DEF KvfsIInv, CallTyped

(* A link is followed by a call of its own, while the stack has room.      *)
LEMMA FollowLinkInv == KvfsIInv /\ FollowLink => KvfsIInv'
  <1> SUFFICES ASSUME KvfsIInv, FollowLink  PROVE KvfsIInv'
    OBVIOUS
  <1> USE DEF KvfsIInv
  <1> DEFINE n == FoundNode
             t == Tail(Top.rest)
             c == SetTop(n, t)
             f == [at |-> Root, rest |-> Target[Mounted(n)]]
  <1>1. /\ call.op = "lookup" /\ Top.rest # <<>> /\ n # NULL /\ IsLink(n)
        /\ UNCHANGED store
        /\ call' = IF Len(call.stack) = StackDepth
                   THEN [call EXCEPT !.op = "overflow"]
                   ELSE [c EXCEPT !.followed = @ + 1, !.stack = Append(@, f)]
    BY DEF FollowLink, AtPart, Reparses
  <1>2. call.stack # <<>> /\ call.req \in Lookups
    BY <1>1 DEF CallTyped
  <1>3. Top.at \in tree /\ t \in Paths /\ Len(call.stack) \in Nat
    BY <1>1, <1>2, TopTyped
  <1>4. n \in tree /\ n \in Paths
    BY <1>1, <1>3, TowardsTree DEF FoundNode, KvfsInv, StoreTyped
  <1>5. /\ c \in Calls /\ c.op = call.op /\ c.req = call.req
        /\ Len(c.stack) = Len(call.stack)
        /\ \A k \in 1 .. Len(call.stack) : c.stack[k].at \in tree
    <2> HIDE DEF n, t
    <2> QED  BY <1>2, <1>3, <1>4, SetTopTyped
  <1>6. f \in Frame /\ f.at \in tree
    BY <1>1, Requests DEF IsLink, Frame, KvfsInv, KvfsTypeOK
  <1>7. Len(call.stack) <= StackDepth
    BY DEF KvfsInv, KvfsTypeOK
  <1>8. CASE Len(call.stack) = StackDepth
    <2>1. /\ call' \in Calls /\ call'.op = "overflow" /\ call'.stack = call.stack
      BY <1>1, <1>8 DEF CallTyped, Calls
    <2>2. CallTyped'
      <3>1. tree' = tree
        BY <1>1 DEF store
      <3>2. \A k \in 1 .. Len(call.stack) : call.stack[k].at \in tree
        BY DEF CallTyped
      <3> QED  BY <2>1, <3>1, <3>2 DEF CallTyped
    <2>3. LookupOnCourse' /\ LookupSound'
      BY <2>1, FollowLinkCourse DEF LookupSound
    <2> QED  BY <1>1, <1>7, <2>1, <2>2, <2>3, LookupKeeps
  <1>9. CASE Len(call.stack) # StackDepth
    <2> DEFINE a == Append(c.stack, f)
    <2>1. c.stack \in Seq(Frame)
      BY <1>5 DEF Calls
    <2>2. /\ a \in Seq(Frame) /\ a # <<>> /\ Len(a) = Len(call.stack) + 1
          /\ \A k \in 1 .. Len(call.stack) : a[k] = c.stack[k]
          /\ a[Len(call.stack) + 1] = f
      <3> HIDE DEF c, f
      <3> QED  BY <1>5, <1>6, <2>1, AppendProperties
    <2>3. \A k \in 1 .. Len(a) : a[k].at \in tree
      <3> HIDE DEF c, f, a
      <3> QED  BY <1>3, <1>5, <1>6, <2>2
    <2>4. /\ call' \in Calls /\ call'.op = "lookup" /\ call'.stack = a
          /\ call'.req = call.req
      <3>1. call' = [c EXCEPT !.followed = @ + 1, !.stack = a]
        BY <1>1, <1>9
      <3> HIDE DEF a, c
      <3>2. c \in Calls /\ a \in Seq(Frame) /\ c.op = "lookup" /\ c.req = call.req
        BY <1>1, <1>5, <2>2
      <3>3. PICK m \in Nat : m = c.followed + 1
        BY <3>2 DEF Calls
      <3>4. call' = [[c EXCEPT !.followed = m] EXCEPT !.stack = a]
        BY <3>1, <3>3
      <3>5. [c EXCEPT !.followed = m] \in Calls
        BY <3>2 DEF Calls
      <3> QED  BY <3>2, <3>4, <3>5 DEF Calls
    <2>5. CallTyped'
      <3> HIDE DEF a
      <3> QED  BY <1>1, <1>2, <2>2, <2>3, <2>4 DEF CallTyped, store
    <2>6. Len(call'.stack) <= StackDepth
      <3> HIDE DEF a
      <3> QED  BY <1>3, <1>7, <1>9, <2>2, <2>4, Requests
    <2>7. LookupOnCourse' /\ LookupSound'
      BY <2>4, FollowLinkCourse DEF LookupSound
    <2> QED  BY <1>1, <2>4, <2>5, <2>6, <2>7, LookupKeeps
  <1> QED  BY <1>8, <1>9

(* A nested call returns to the one below it, the outermost one ends. *)
LEMMA FindReturnsInv == KvfsIInv /\ FindReturns => KvfsIInv'
  <1> SUFFICES ASSUME KvfsIInv, FindReturns  PROVE KvfsIInv'
    OBVIOUS
  <1> USE DEF KvfsIInv
  <1> DEFINE below == Len(call.stack) - 1
             sub == SubSeq(call.stack, 1, below)
  <1>1. /\ call.op = "lookup" /\ UNCHANGED store
        /\ call' = IF below = 0 THEN Done(Top.at)
                   ELSE [call EXCEPT !.stack = [sub EXCEPT ![below].at = Top.at]]
    BY DEF FindReturns, AtEnd
  <1>2. call.stack # <<>> /\ call.req \in Lookups
    BY <1>1 DEF CallTyped
  <1>3. Top.at \in tree /\ Top.at \in Paths /\ Len(call.stack) \in Nat \ {0}
    BY <1>1, <1>2, TopTyped
  <1>4. CASE below = 0
    BY <1>1, <1>3, <1>4, LookupDone, FindReturnsCourse
  <1>5. CASE below # 0
    <2>1. call.stack \in Seq(Frame) /\ below \in Nat \ {0}
      BY <1>3, <1>5 DEF CallTyped, Calls
    <2>2. \A k \in 1 .. below : call.stack[k] \in Frame /\ call.stack[k].at \in tree
      BY <1>3, <2>1, ElementOfSeq DEF CallTyped
    <2>3. /\ sub \in Seq(Frame) /\ Len(sub) = below
          /\ \A k \in 1 .. below : sub[k] = call.stack[k]
      <3> HIDE DEF below
      <3> QED  BY <2>1, <2>2, SubSeqProperties
    <2> DEFINE f == [sub[below] EXCEPT !.at = Top.at]
               ret == [sub EXCEPT ![below] = f]
    <2>4. f \in Frame /\ f.at = Top.at
      <3>1. sub[below] \in Frame
        <4> HIDE DEF below, sub
        <4> QED  BY <2>1, <2>2, <2>3
      <3> QED  BY <1>3, <3>1 DEF Frame
    <2>5. /\ ret \in Seq(Frame) /\ Len(ret) = below
          /\ \A k \in 1 .. below : ret[k] = IF k = below THEN f ELSE sub[k]
      <3> HIDE DEF below, f, sub
      <3> QED  BY <2>1, <2>3, <2>4, ExceptSeq
    <2>6. /\ call' \in Calls /\ call'.op = "lookup" /\ call'.req = call.req
          /\ call'.stack = ret
      <3>1. call' = [call EXCEPT !.stack = ret]
        BY <1>1, <1>5
      <3> HIDE DEF ret
      <3> QED  BY <1>1, <2>5, <3>1 DEF CallTyped, Calls
    <2>7. \A k \in 1 .. below : ret[k].at \in tree
      <3> HIDE DEF ret, f, sub, below
      <3> QED  BY <1>3, <2>2, <2>3, <2>4, <2>5
    <2>8. ret # <<>>
      <3> HIDE DEF ret, below
      <3> QED  BY <2>1, <2>5, EmptySeq
    <2>9. CallTyped'
      <3>1. tree' = tree
        BY <1>1 DEF store
      <3> HIDE DEF ret, below
      <3> QED  BY <1>2, <2>5, <2>6, <2>7, <2>8, <3>1 DEF CallTyped
    <2>10. Len(call'.stack) <= StackDepth
      BY <1>3, <2>5, <2>6, Requests DEF KvfsInv, KvfsTypeOK
    <2> QED  BY <1>1, <2>6, <2>9, <2>10, LookupKeeps, FindReturnsCourse
  <1> QED  BY <1>4, <1>5

-----------------------------------------------------------------------------
(* createPath *)

(* createPath begins at the root, with an object nobody has mounted. *)
LEMMA BeginCreateInv ==
    ASSUME KvfsIInv, NEW c \in Creations, BeginCreate(c)
    PROVE  KvfsIInv'
  <1> USE DEF KvfsIInv
  <1> DEFINE f == [at |-> Root, rest |-> c.path]
  <1>1. /\ UNCHANGED <<tree, mount, bound>> /\ c.ob \notin given
        /\ given' = IF c.ob = NULL THEN given ELSE given \cup {c.ob}
        /\ call' = [op |-> "create", req |-> c, result |-> NULL,
                    followed |-> 0, stack |-> <<f>>]
    BY DEF BeginCreate, Begin
  <1>2. c.path \in Paths /\ c.ob \in Objects \cup {NULL} /\ f \in Frame
    BY Requests DEF Frame
  <1>3. <<f>> \in Seq(Frame) /\ Len(<<f>>) = 1 /\ <<f>>[1] = f /\ <<f>> # <<>>
    <2> HIDE DEF f
    <2> QED  BY <1>2
  <1>4. call'.stack = <<f>> /\ call'.op = "create" /\ call'.req = c
    BY <1>1
  <1>5. CallTyped'
    <2>1. call' \in Calls
      <3> HIDE DEF f
      <3> QED  BY <1>1, <1>3 DEF Calls
    <2>2. \A k \in 1 .. Len(call'.stack) : call'.stack[k].at \in tree'
      BY <1>1, <1>3, <1>4 DEF KvfsInv, KvfsTypeOK
    <2> QED  BY <1>3, <1>4, <2>1, <2>2 DEF CallTyped
  <1>6. KvfsInv'
    <2>1. Len(call'.stack) <= StackDepth
      BY <1>3, <1>4, Requests
    <2> QED
      BY <1>1, <1>4, <2>1 DEF KvfsInv, KvfsTypeOK, BindingsAgree, Mounted
  <1>7. StoreTyped' /\ BoundGiven'
    BY <1>1, <1>2, <1>4 DEF StoreTyped, BoundGiven
  <1>8. CreateOnCourse'
    <2>1. Walk(c.path)'[0] = Root
      BY <1>2, WalkSteps DEF WalksAll, WalksTo, Root
    <2>2. Top' = f
      BY <1>3, <1>4 DEF Top
    <2>3. SubSeq(c.path, 1, Len(c.path)) = c.path
      BY <1>2, SubSeqFull DEF Paths
    <2>4. 0 \in 0 .. Len(c.path)
      BY <1>2, LenProperties DEF Paths
    <2>5. call'.req.path = c.path
      BY <1>4
    <2> QED  BY <2>1, <2>2, <2>3, <2>4, <2>5 DEF CreateOnCourse
  <1>9. MountedWhereAsked' /\ LookupOnCourse' /\ LookupSound'
    BY <1>4 DEF MountedWhereAsked, LookupOnCourse, LookupSound
  <1> QED  BY <1>5, <1>6, <1>7, <1>8, <1>9

(* Where the creator goes. *)
LEMMA CreatorNodeTyped ==
    ASSUME KvfsIInv, AtPart("create")
    PROVE  /\ Top.at \in tree /\ Top.at \in Paths /\ call.stack # <<>>
           /\ Len(call.stack) = 1 /\ call.req \in Creations
           /\ Top.rest \in Paths /\ Top.rest # <<>>
           /\ Head(Top.rest) \in Names /\ Tail(Top.rest) \in Paths
           /\ CreatorNode \in Paths
           /\ CreatorNode \notin tree =>
                 CreatorNode # Root /\ Parent(CreatorNode) = Top.at
  <1> USE DEF KvfsIInv
  <1>1. call.op = "create" /\ Top.rest # <<>>
    BY DEF AtPart
  <1>2. call.stack # <<>> /\ Len(call.stack) = 1 /\ call.req \in Creations
    BY <1>1 DEF CallTyped
  <1>3. /\ Top.at \in tree /\ Top.at \in Paths /\ Top.rest \in Paths
        /\ Head(Top.rest) \in Names /\ Tail(Top.rest) \in Paths
    BY <1>1, <1>2, TopTyped
  <1>4. \/ CreatorNode \in tree
        \/ CreatorNode = Append(Top.at, Head(Top.rest))
    BY <1>3, TowardsTree DEF CreatorNode, KvfsInv
  <1> QED  BY <1>1, <1>2, <1>3, <1>4, ParentOf DEF StoreTyped

(* A way out of the root stays when the tree grows. *)
LEMMA ClimbStays ==
    ASSUME NEW p \in Paths, tree \subseteq tree', ClimbsOut(p)
    PROVE  ClimbsOut(p)'
  <1>1. Len(p) \in Nat
    BY LenProperties DEF Paths
  <1>2. PICK k \in 1 .. Len(p) : p[k] = ".." /\ Walk(p)[k - 1] = Root
    BY DEF ClimbsOut
  <1>3. Root # NULL /\ k - 1 \in 0 .. Len(p)
    BY <1>1, Requests
  <1>4. Walk(p)'[k - 1] = Walk(p)[k - 1]
    BY <1>2, <1>3, WalkGrows
  <1> QED  BY <1>2, <1>4 DEF ClimbsOut, Root

(* A link that has been met on p stays when the tree grows. *)
LEMMA LinkStays ==
    ASSUME StoreTyped, KvfsTypeOK, NEW p \in Paths, tree \subseteq tree',
           NEW k \in LinksOn(p)
    PROVE  /\ k \in 1 .. Len(p)
           /\ Walk(p)'[k] = Walk(p)[k]
           /\ Walk(p)[k] \in DOMAIN mount /\ Walk(p)[k] # NULL
           /\ mount[Walk(p)[k]] \in DOMAIN Target
  <1>1. Len(p) \in Nat
    BY LenProperties DEF Paths
  <1>2. k \in 1 .. Len(p) /\ k \in 0 .. Len(p) /\ IsLink(Walk(p)[k])
    BY <1>1 DEF LinksOn
  <1>3. /\ Walk(p)[k] \in DOMAIN mount /\ Walk(p)[k] # NULL
        /\ mount[Walk(p)[k]] \in DOMAIN Target
    BY <1>2, Requests DEF IsLink, Mounted, StoreTyped, KvfsTypeOK
  <1>4. Walk(p)'[k] = Walk(p)[k]
    BY <1>2, <1>3, WalkGrows
  <1> QED  BY <1>2, <1>3, <1>4

(* A part of the path is behind the creator. *)
LEMMA CourseStep ==
    ASSUME KvfsIInv, AtPart("create"), tree' = tree \cup {CreatorNode},
           UNCHANGED mount, NEW p \in Paths, NEW j \in 0 .. Len(p),
           Top.at = Walk(p)[j], Top.rest = SubSeq(p, j + 1, Len(p))
    PROVE  /\ j + 1 \in 1 .. Len(p)
           /\ Tail(Top.rest) = SubSeq(p, j + 2, Len(p))
           /\ ClimbsOut(p)' \/ Walk(p)'[j + 1] = CreatorNode
  <1> USE DEF KvfsIInv
  <1> DEFINE r == SubSeq(p, j + 1, Len(p))
  <1>1. Len(p) \in Nat /\ \A i \in 1 .. Len(p) : p[i] \in Names
    BY LenProperties, ElementOfSeq DEF Paths
  <1>2. r # <<>> /\ r = Top.rest
    BY CreatorNodeTyped
  <1>3. j + 1 \in 1 .. Len(p)
    <2>1. SUFFICES ASSUME j + 1 > Len(p)  PROVE FALSE
      BY <1>1
    <2>2. r = <<>>
      BY <1>1, <2>1, SubSeqEmpty DEF Paths
    <2> QED  BY <1>2, <2>2
  <1>5. Head(r) = p[j + 1]
    <2>1. Len(p) \in (j + 1) .. Len(p)
      BY <1>1, <1>3
    <2> QED  BY <1>3, <2>1, HeadTailOfSubSeq DEF Paths
  <1>6. Tail(r) = SubSeq(p, j + 2, Len(p))
    <2>1. Len(p) \in (j + 1) .. Len(p) /\ (j + 1) + 1 = j + 2
      BY <1>1, <1>3
    <2>2. Tail(r) = SubSeq(p, (j + 1) + 1, Len(p))
      BY <1>3, <2>1, HeadTailOfSubSeq DEF Paths
    <2> QED  BY <2>1, <2>2
  <1>7. Walk(p)[j] # NULL /\ Walk(p)[j] \in tree
    BY CreatorNodeTyped, Requests
  <1>8. Walk(p)'[j] = Walk(p)[j]
    BY <1>7, WalkGrows
  <1> DEFINE a == Top.at
             h == Head(Top.rest)
  <1>9. h = p[j + 1]
    BY <1>2, <1>5
  <1>10. CASE Towards(a, h) # NULL
    <2>1. CreatorNode = Towards(a, h)
      BY <1>10 DEF CreatorNode
    <2>2. Walk(p)[j + 1] = Onward(Walk(p)[j], p[j + 1])
      <3>1. (j + 1) - 1 = j
        BY <1>1
      <3> QED  BY <1>3, <3>1, WalkDef DEF WalksTo
    <2>3. Walk(p)[j + 1] = CreatorNode
      BY <1>7, <1>9, <2>1, <2>2 DEF Onward
    <2>4. j + 1 \in 0 .. Len(p)
      BY <1>1, <1>3
    <2> QED  BY <1>2, <1>3, <1>6, <1>10, <2>1, <2>3, <2>4, WalkGrows
  <1>11. CASE Towards(a, h) = NULL
    <2>1. CreatorNode = Append(a, h)
      BY <1>11 DEF CreatorNode
    <2>2. a \in tree /\ a # NULL
      BY CreatorNodeTyped, Requests
    <2>3. h # "."
      BY <1>11, <2>2 DEF Towards
    <2>4. CASE h = ".."
      <3>1. a = Root
        BY <1>11, <2>2, <2>4, CreatorNodeTyped, ParentOf, Requests DEF Towards
      <3>2. (j + 1) - 1 = j
        BY <1>1
      <3>3. ClimbsOut(p)'
        BY <1>3, <1>8, <1>9, <2>4, <3>1, <3>2 DEF ClimbsOut, Root
      <3> QED  BY <1>2, <1>3, <1>6, <3>3
    <2>5. CASE h # ".."
      <3>1. (j + 1) - 1 = j
        BY <1>1
      <3>2. Walk(p)'[j + 1] =
               IF Walk(p)'[j] = NULL THEN NULL
               ELSE IF p[j + 1] = "." THEN Walk(p)'[j]
               ELSE IF p[j + 1] = ".." THEN Parent(Walk(p)'[j])
               ELSE IF Append(Walk(p)'[j], p[j + 1]) \in tree'
                    THEN Append(Walk(p)'[j], p[j + 1]) ELSE NULL
        <4> DEFINE w == Walk(p)'
        <4>1. \A m \in 1 .. Len(p) :
                w[m] = IF w[m - 1] = NULL THEN NULL
                       ELSE IF p[m] = "." THEN w[m - 1]
                       ELSE IF p[m] = ".." THEN Parent(w[m - 1])
                       ELSE IF Append(w[m - 1], p[m]) \in tree'
                            THEN Append(w[m - 1], p[m]) ELSE NULL
          BY WalkSteps DEF WalksAll, WalksTo, Onward, Towards, Parent, Root
        <4> HIDE DEF w
        <4>2. w[j + 1] = IF w[j] = NULL THEN NULL
                         ELSE IF p[j + 1] = "." THEN w[j]
                         ELSE IF p[j + 1] = ".." THEN Parent(w[j])
                         ELSE IF Append(w[j], p[j + 1]) \in tree'
                              THEN Append(w[j], p[j + 1]) ELSE NULL
          BY <1>3, <3>1, <4>1
        <4> QED  BY <4>2 DEF w
      <3>3. Append(a, h) \in tree'
        BY <2>1
      <3>4. Walk(p)'[j + 1] = Append(a, h)
        BY <1>7, <1>8, <1>9, <2>3, <2>5, <3>2, <3>3
      <3> QED  BY <1>2, <1>3, <1>6, <2>1, <3>4
    <2> QED  BY <2>4, <2>5
  <1> QED  BY <1>10, <1>11

(* createPath does a part: the tree grows under a node that is there, or   *)
(* the call begins again with the target of a link.                        *)
LEMMA CreatePartInv == KvfsIInv /\ CreatePart => KvfsIInv'
  <1> SUFFICES ASSUME KvfsIInv, CreatePart  PROVE KvfsIInv'
    OBVIOUS
  <1> USE DEF KvfsIInv
  <1> DEFINE n == CreatorNode
             t == Tail(Top.rest)
  <1>1. /\ AtPart("create") /\ call.op = "create"
        /\ tree' = tree \cup {n} /\ UNCHANGED <<mount, bound, given>>
        /\ call' = IF IsLink(n) THEN SetTop(Root, Target[Mounted(n)]) ELSE SetTop(n, t)
    BY DEF CreatePart, AtPart
  <1>2. /\ Top.at \in tree /\ call.stack # <<>> /\ Len(call.stack) = 1
        /\ call.req \in Creations /\ t \in Paths /\ n \in Paths
        /\ n \notin tree => n # Root /\ Parent(n) = Top.at
    BY <1>1, CreatorNodeTyped
  <1>3. PICK at \in Paths, rest \in Paths :
          /\ call' = SetTop(at, rest)
          /\ IF IsLink(n) THEN at = Root ELSE at = n /\ rest = t
    <2>1. CASE IsLink(n)
      <3>1. Root \in Paths /\ Target[Mounted(n)] \in Paths
        BY <2>1, Requests DEF IsLink
      <3> QED  BY <1>1, <2>1, <3>1
    <2>2. CASE ~IsLink(n)
      BY <1>1, <1>2, <2>2
    <2> QED  BY <2>1, <2>2
  <1>4. at \in tree'
    BY <1>1, <1>3 DEF KvfsInv, KvfsTypeOK
  <1>5. /\ call' \in Calls /\ call'.op = "create" /\ call'.req = call.req
        /\ Len(call'.stack) = 1 /\ call'.stack # <<>>
        /\ call'.stack[1] = [at |-> at, rest |-> rest]
    BY <1>1, <1>2, <1>3, SetTopTyped
  <1>6. CallTyped'
    <2>1. \A k \in 1 .. Len(call'.stack) : call'.stack[k].at \in tree'
      BY <1>4, <1>5
    <2> QED  BY <1>2, <1>5, <2>1 DEF CallTyped
  <1>7. KvfsInv'
    <2>1. KvfsTypeOK'
      <3>1. \A m \in tree' \ {Root} : Parent(m) \in tree'
        BY <1>1, <1>2 DEF KvfsInv, KvfsTypeOK
      <3>2. Root \in tree' /\ DOMAIN mount' \subseteq tree'
        BY <1>1 DEF KvfsInv, KvfsTypeOK
      <3>3. Len(call'.stack) <= StackDepth
        BY <1>5, Requests
      <3> QED  BY <1>5, <3>1, <3>2, <3>3 DEF KvfsTypeOK
    <2>2. BindingsAgree'
      BY <1>1 DEF KvfsInv, BindingsAgree, Mounted
    <2> QED  BY <2>1, <2>2 DEF KvfsInv
  <1>8. StoreTyped' /\ BoundGiven'
    BY <1>1, <1>2, <1>5 DEF StoreTyped, BoundGiven
  <1>9. CreateOnCourse'
    <2> DEFINE p == call.req.path
    <2>1. p \in Paths /\ tree \subseteq tree' /\ Len(p) \in Nat
      BY <1>1, <1>2, Requests, LenProperties DEF Paths
    <2>2. Top'.at = at /\ Top'.rest = rest
      BY <1>5 DEF Top
    <2>3. ASSUME NEW q \in Paths, q = p
          PROVE  \/ LinksOn(q)' # {} \/ ClimbsOut(q)'
                 \/ \E j \in 0 .. Len(q) :
                       Top'.at = Walk(q)'[j] /\ Top'.rest = SubSeq(q, j + 1, Len(q))
      <3>1. CASE LinksOn(q) # {} \/ ClimbsOut(q)
        <4>1. CASE ClimbsOut(q)
          BY <2>1, <4>1, ClimbStays
        <4>2. ASSUME NEW k \in LinksOn(q)  PROVE k \in LinksOn(q)'
          <5>1. /\ k \in 1 .. Len(q) /\ Walk(q)'[k] = Walk(q)[k]
                /\ Walk(q)[k] \in DOMAIN mount
                /\ mount[Walk(q)[k]] \in DOMAIN Target
            BY <2>1, LinkStays DEF KvfsInv
          <5>2. (Mounted(Walk(q)[k]))' = mount[Walk(q)[k]]
            BY <1>1, <5>1 DEF Mounted
          <5> QED  BY <5>1, <5>2 DEF LinksOn, IsLink
        <4> QED  BY <3>1, <4>1, <4>2
      <3>2. CASE ~(LinksOn(q) # {} \/ ClimbsOut(q))
        <4>1. PICK j \in 0 .. Len(q) :
                 Top.at = Walk(q)[j] /\ Top.rest = SubSeq(q, j + 1, Len(q))
          BY <1>1, <2>3, <3>2 DEF CreateOnCourse
        <4>2. /\ j + 1 \in 1 .. Len(q) /\ t = SubSeq(q, j + 2, Len(q))
              /\ ClimbsOut(q)' \/ Walk(q)'[j + 1] = n
          BY <1>1, <4>1, CourseStep
        <4>3. CASE ClimbsOut(q)'
          BY <4>3
        <4>4. CASE Walk(q)'[j + 1] = n /\ IsLink(n)
          <5>1. (Mounted(Walk(q)[j + 1]))' = Mounted(n)
            BY <1>1, <4>4 DEF Mounted
          <5>2. j + 1 \in LinksOn(q)'
            BY <4>2, <4>4, <5>1 DEF LinksOn, IsLink
          <5> QED  BY <5>2
        <4>5. CASE Walk(q)'[j + 1] = n /\ ~IsLink(n)
          <5>1. j + 1 \in 0 .. Len(q) /\ (j + 1) + 1 = j + 2
            BY <2>1, <2>3, <4>2
          <5>2. Top'.at = n /\ Top'.rest = t
            BY <1>3, <2>2, <4>5
          <5>3. Top'.at = Walk(q)'[j + 1] /\ Top'.rest = SubSeq(q, (j + 1) + 1, Len(q))
            BY <4>2, <4>5, <5>1, <5>2
          <5> QED  BY <5>1, <5>3
        <4> QED  BY <4>2, <4>3, <4>4, <4>5
      <3> QED  BY <3>1, <3>2
    <2>4. call'.req.path = p
      BY <1>5
    <2> HIDE DEF p
    <2>5. \/ LinksOn(call.req.path)' # {} \/ ClimbsOut(call.req.path)'
          \/ \E j \in 0 .. Len(call'.req.path) :
                /\ Top'.at = Walk(call.req.path)'[j]
                /\ Top'.rest = SubSeq(call'.req.path, j + 1, Len(call'.req.path))
      BY <2>1, <2>3, <2>4
    <2> QED  BY <2>5 DEF CreateOnCourse
  <1>10. MountedWhereAsked' /\ LookupOnCourse' /\ LookupSound'
    BY <1>5 DEF MountedWhereAsked, LookupOnCourse, LookupSound
  <1> QED  BY <1>6, <1>7, <1>8, <1>9, <1>10

(* node_t::mount puts the object where the path of createPath has led. *)
LEMMA MountInv ==
    ASSUME KvfsIInv, AtEnd("create"), call.req.ob # NULL,
           Mounted(Top.at) = NULL,
           mount' = [n \in DOMAIN mount \cup {Top.at} |->
                        IF n = Top.at THEN call.req.ob ELSE mount[n]],
           bound' = [bound EXCEPT ![call.req.ob] = Top.at],
           call' = Done(Top.at), UNCHANGED <<tree, given>>
    PROVE  KvfsIInv'
  <1> USE DEF KvfsIInv
  <1> DEFINE n == Top.at
             ob == call.req.ob
  <1>1. call.op = "create" /\ Top.rest = <<>>
    BY DEF AtEnd
  <1>2. call.stack # <<>> /\ call.req \in Creations
    BY <1>1 DEF CallTyped
  <1>3. n \in tree /\ n \in Paths
    BY <1>1, <1>2, TopTyped
  <1>4. ob \in Objects /\ bound[ob] = NULL /\ ob \in given /\ NULL \notin Paths
        /\ n \notin DOMAIN mount
    BY <1>1, <1>2, Requests DEF BoundGiven, Mounted, StoreTyped
  <1>5. /\ call' \in Calls /\ call'.op = "done" /\ call'.req = call.req
        /\ call'.stack = <<>> /\ call'.result = n /\ Len(<<>>) = 0
    <2> HIDE DEF n
    <2>1. call' = Done(n) /\ n \in Paths \cup {NULL}
      BY <1>3 DEF n
    <2> QED  BY <2>1, DoneTyped
  <1>6. CallTyped'
    BY <1>5 DEF CallTyped
  <1>7. /\ \A m \in DOMAIN mount : m # n /\ mount'[m] = mount[m]
        /\ mount'[n] = ob /\ DOMAIN mount' = DOMAIN mount \cup {n}
        /\ \A o \in Objects : o # ob => bound'[o] = bound[o]
        /\ bound'[ob] = n /\ bound' \in [Objects -> Paths \cup {NULL}]
    BY <1>3, <1>4 DEF StoreTyped
  <1> HIDE DEF n, ob
  <1>8. KvfsTypeOK'
    <2>1. tree' = tree /\ Len(call'.stack) <= StackDepth
      BY <1>5, Requests
    <2> QED  BY <1>3, <1>5, <1>7, <2>1 DEF KvfsInv, KvfsTypeOK
  <1>9. BindingsAgree'
    <2>1. \A m \in DOMAIN mount : mount[m] # ob /\ mount[m] \in Objects
      BY <1>3, <1>4 DEF KvfsInv, BindingsAgree, KvfsTypeOK, StoreTyped
    <2>2. \A m \in DOMAIN mount' : bound'[mount'[m]] = m
      BY <1>7, <2>1 DEF KvfsInv, BindingsAgree
    <2>3. ASSUME NEW o \in Objects, bound'[o] # NULL
          PROVE  bound'[o] \in DOMAIN mount' /\ mount'[bound'[o]] = o
      <3>1. CASE o = ob
        BY <1>7, <3>1
      <3>2. CASE o # ob
        <4>1. bound'[o] = bound[o] /\ Mounted(bound[o]) = o
          BY <1>7, <2>3, <3>2 DEF KvfsInv, BindingsAgree
        <4>2. bound[o] \in DOMAIN mount /\ mount[bound[o]] = o
          BY <4>1, Requests DEF Mounted
        <4> QED  BY <1>7, <4>1, <4>2
      <3> QED  BY <3>1, <3>2
    <2> QED  BY <2>2, <2>3 DEF BindingsAgree, Mounted
  <1>10. StoreTyped'
    BY <1>4, <1>7 DEF StoreTyped
  <1>11. BoundGiven'
    BY <1>4, <1>5, <1>7 DEF BoundGiven
  <1>12. CreateOnCourse'
    BY <1>5 DEF CreateOnCourse
  <1>13. ASSUME NEW p \in Paths, p = call.req.path, ~ClimbsOut(p)',
                \A k \in LinksOn(p)' : (Mounted(Walk(p)[k]))' = ob
         PROVE  n = Walk(p)'[Len(p)]
    <2>1. tree \subseteq tree' /\ Len(p) \in Nat
      BY LenProperties DEF Paths
    <2>2. ~ClimbsOut(p)
      BY <1>13, <2>1, ClimbStays
    <2>3. ASSUME NEW k \in LinksOn(p)  PROVE FALSE
      <3> DEFINE m == Walk(p)[k]
      <3>1. /\ k \in 1 .. Len(p) /\ Walk(p)'[k] = m
            /\ m \in DOMAIN mount /\ m # NULL /\ mount[m] \in DOMAIN Target
        BY <2>1, LinkStays DEF KvfsInv
      <3>2. (Mounted(Walk(p)[k]))' = mount[m]
        BY <1>7, <3>1 DEF Mounted
      <3>3. k \in LinksOn(p)'
        BY <3>1, <3>2 DEF LinksOn, IsLink
      <3>4. mount[m] = ob
        BY <1>13, <3>2, <3>3
      <3>5. bound[ob] = m
        BY <3>1, <3>4 DEF KvfsInv, BindingsAgree
      <3> QED  BY <1>4, <3>1, <3>5
    <2>4. PICK j \in 0 .. Len(p) :
             Top.at = Walk(p)[j] /\ Top.rest = SubSeq(p, j + 1, Len(p))
      <3>1. LinksOn(p) = {}
        BY <2>3
      <3> QED  BY <1>1, <1>13, <2>2, <3>1 DEF CreateOnCourse
    <2>5. j = Len(p)
      <3>1. SUFFICES ASSUME j + 1 <= Len(p)  PROVE FALSE
        BY <2>1
      <3>2. \A i \in (j + 1) .. Len(p) : p[i] \in Names
        BY <2>1, ElementOfSeq DEF Paths
      <3>3. Len(SubSeq(p, j + 1, Len(p))) = Len(p) - (j + 1) + 1
        BY <2>1, <3>1, <3>2, SubSeqProperties
      <3> QED  BY <1>1, <2>1, <2>4, <3>1, <3>3, EmptySeq
    <2>6. Walk(p)[Len(p)] = n /\ Walk(p)[Len(p)] # NULL
      BY <1>3, <1>4, <2>4, <2>5 DEF n
    <2>7. Len(p) \in 0 .. Len(p)
      BY <2>1
    <2> QED  BY <2>1, <2>6, <2>7, WalkGrows
  <1>14. MountedWhereAsked'
    <2> DEFINE p == call.req.path
    <2>1. p \in Paths /\ call'.req.path = p /\ call'.req.ob = ob
      BY <1>2, <1>5, Requests DEF ob
    <2> HIDE DEF p
    <2>2. SUFFICES ASSUME ~ClimbsOut(call.req.path)',
                          \A k \in LinksOn(call.req.path)' :
                             (Mounted(Walk(call.req.path)[k]) = call.req.ob)'
                   PROVE  bound'[call'.req.ob] =
                             Walk(call.req.path)'[Len(call'.req.path)]
      BY DEF MountedWhereAsked
    <2> QED  BY <1>7, <1>13, <2>1, <2>2 DEF p
  <1>15. LookupOnCourse' /\ LookupSound'
    BY <1>2, <1>5, Requests DEF LookupOnCourse, LookupSound
  <1> QED  BY <1>6, <1>8, <1>9, <1>10, <1>11, <1>12, <1>14, <1>15 DEF KvfsInv

(* createPath ends: it has only made a path, it has mounted its object, or *)
(* something is mounted there already.                                     *)
LEMMA CreateReturnsInv == KvfsIInv /\ CreateReturns => KvfsIInv'
  <1> SUFFICES ASSUME KvfsIInv, CreateReturns  PROVE KvfsIInv'
    OBVIOUS
  <1>1. CASE call.req.ob # NULL /\ Mounted(Top.at) = NULL
    BY <1>1, MountInv DEF CreateReturns, MountHere
  <1>2. CASE ~(call.req.ob # NULL /\ Mounted(Top.at) = NULL)
    <2> USE DEF KvfsIInv
    <2>1. /\ AtEnd("create") /\ call.op = "create" /\ UNCHANGED store
          /\ \/ call.req.ob = NULL /\ call' = Done(Top.at)
             \/ call' = Done(NULL)
      BY <1>2 DEF CreateReturns, MountHere, AtEnd, store
    <2>2. call.stack # <<>> /\ Top.at \in Paths
      BY <2>1, TopTyped DEF CallTyped
    <2>3. PICK n \in Paths \cup {NULL} :
             call' = Done(n) /\ (call.req.ob = NULL \/ n = NULL)
      BY <2>1, <2>2
    <2>4. /\ call' \in Calls /\ call'.op = "done" /\ call'.req = call.req
          /\ call'.stack = <<>> /\ call'.result = n /\ Len(<<>>) = 0
      BY <2>3, DoneTyped
    <2>5. CallTyped'
      BY <2>4 DEF CallTyped
    <2>6. KvfsInv'
      <3>1. Len(call'.stack) <= StackDepth
        BY <2>4, Requests
      <3> QED
        BY <2>1, <2>4, <3>1 DEF KvfsInv, KvfsTypeOK, BindingsAgree, Mounted, store
    <2>7. StoreTyped' /\ BoundGiven' /\ CreateOnCourse'
      BY <2>1, <2>4 DEF StoreTyped, BoundGiven, CreateOnCourse, store
    <2>8. MountedWhereAsked'
      BY <2>3, <2>4 DEF MountedWhereAsked
    <2>9. call.req \in Creations
      BY <2>1 DEF CallTyped
    <2>10. LookupOnCourse' /\ LookupSound'
      BY <2>4, <2>9, Requests DEF LookupOnCourse, LookupSound
    <2> QED  BY <2>5, <2>6, <2>7, <2>8, <2>10
  <1> QED  BY <1>1, <1>2

-----------------------------------------------------------------------------
(* What the calls keep *)

(* The name space begins with the root alone. *)
LEMMA InitInv == Init => KvfsIInv
  <1> SUFFICES ASSUME Init  PROVE KvfsIInv
    OBVIOUS
  <1>1. /\ tree = {Root} /\ mount = [n \in {} |-> NULL] /\ DOMAIN mount = {}
        /\ bound = [o \in Objects |-> NULL]
        /\ call.op = "done" /\ call.stack = <<>> /\ call.req = NULL
        /\ call = [op |-> "done", req |-> NULL, stack |-> <<>>, result |-> NULL,
                   followed |-> 0]
    BY DEF Init
  <1>2. <<>> \in Seq(Frame) /\ Len(<<>>) = 0
    BY EmptySeq
  <1>3. CallTyped
    <2>1. call \in Calls
      BY <1>1, <1>2 DEF Calls
    <2> QED  BY <1>1, <1>2, <2>1 DEF CallTyped
  <1>4. KvfsInv
    BY <1>1, <1>2, Requests DEF KvfsInv, KvfsTypeOK, BindingsAgree
  <1>5. StoreTyped /\ BoundGiven /\ CreateOnCourse
    BY <1>1, Requests DEF StoreTyped, BoundGiven, CreateOnCourse
  <1>6. LookupOnCourse /\ LookupSound
    BY <1>1, Requests DEF LookupOnCourse, LookupSound
  <1>7. MountedWhereAsked
    <2>1. call.result = NULL
      BY <1>1
    <2> QED  BY <2>1 DEF MountedWhereAsked
  <1> QED  BY <1>3, <1>4, <1>5, <1>6, <1>7 DEF KvfsIInv

(* A step of any call keeps the inductive invariant. *)
LEMMA NextInv == KvfsIInv /\ [Next]_kvars => KvfsIInv'
  <1> SUFFICES ASSUME KvfsIInv, [Next]_kvars  PROVE KvfsIInv'
    OBVIOUS
  <1>1. CASE \E c \in Creations : BeginCreate(c)
    BY <1>1, BeginCreateInv
  <1>2. CASE \E l \in Lookups : BeginLookup(l)
    BY <1>2, BeginLookupInv
  <1>3. CASE CreatePart \/ CreateReturns
    BY <1>3, CreatePartInv, CreateReturnsInv
  <1>4. CASE FindPart \/ FollowLink \/ FindReturns
    BY <1>4, FindPartInv, FollowLinkInv, FindReturnsInv
  <1>5. CASE FindFails
    BY <1>5, LookupDone, FindFailsSound DEF FindFails, AtPart
  <1>6. CASE UNCHANGED kvars
    <2>1. KvfsInv'
      BY <1>6 DEF KvfsIInv, kvars, KvfsInv, KvfsTypeOK, BindingsAgree, Mounted
    <2>2. StoreTyped' /\ CallTyped' /\ BoundGiven'
      BY <1>6 DEF KvfsIInv, kvars, StoreTyped, CallTyped, BoundGiven
    <2>3. tree' = tree /\ call' = call /\ mount' = mount /\ bound' = bound
      BY <1>6 DEF kvars
    <2>4. ASSUME NEW p \in Paths
          PROVE  /\ \A k \in 0 .. Len(p) : Walk(p)'[k] = Walk(p)[k]
                 /\ LinksOn(p)' = LinksOn(p) /\ ClimbsOut(p)' = ClimbsOut(p)
                 /\ Len(p) \in Nat
      <3>1. Len(p) \in Nat
        BY LenProperties DEF Paths
      <3>2. \A k \in 0 .. Len(p) : Walk(p)'[k] = Walk(p)[k]
        BY <2>3, WalkGrows
      <3>3. \A k \in 1 .. Len(p) : k \in 0 .. Len(p) /\ k - 1 \in 0 .. Len(p)
        BY <3>1
      <3>4. \A k \in 1 .. Len(p) : IsLink(Walk(p)[k])' = IsLink(Walk(p)[k])
        BY <2>3, <3>2, <3>3 DEF IsLink, Mounted
      <3>5. LinksOn(p)' = LinksOn(p)
        BY <3>4 DEF LinksOn
      <3>6. ClimbsOut(p)' = ClimbsOut(p)
        BY <3>2, <3>3 DEF ClimbsOut, Root
      <3> QED  BY <3>1, <3>2, <3>5, <3>6
    <2>5. CreateOnCourse'
      <3>1. CASE call.op # "create"
        BY <2>3, <3>1 DEF CreateOnCourse
      <3>2. CASE call.op = "create"
        <4>1. call.req.path \in Paths /\ Top' = Top
          BY <2>3, <3>2, Requests DEF KvfsIInv, CallTyped, Top
        <4> QED  BY <2>3, <2>4, <4>1 DEF KvfsIInv, CreateOnCourse
      <3> QED  BY <3>1, <3>2
    <2>6. MountedWhereAsked'
      <3>1. CASE call.req \notin Creations
        BY <2>3, <3>1 DEF MountedWhereAsked
      <3>2. CASE call.req \in Creations
        <4>1. call.req.path \in Paths
          BY <3>2, Requests
        <4>2. ASSUME NEW p \in Paths, p = call.req.path
              PROVE  /\ ClimbsOut(p)' = ClimbsOut(p) /\ LinksOn(p)' = LinksOn(p)
                     /\ Walk(p)'[Len(p)] = Walk(p)[Len(p)]
                     /\ \A k \in LinksOn(p) :
                           (Mounted(Walk(p)[k]))' = Mounted(Walk(p)[k])
          <5>1. \A k \in LinksOn(p) : k \in 0 .. Len(p)
            BY <2>4 DEF LinksOn
          <5>2. \A k \in LinksOn(p) : (Mounted(Walk(p)[k]))' = Mounted(Walk(p)[k])
            BY <2>3, <2>4, <5>1 DEF Mounted
          <5> QED  BY <2>4, <5>2
        <4>3. SUFFICES ASSUME call.op = "done", call.req.ob # NULL, call.result # NULL,
                              ~ClimbsOut(call.req.path)',
                              \A k \in LinksOn(call.req.path)' :
                                 (Mounted(Walk(call.req.path)[k]) = call.req.ob)'
                       PROVE  bound'[call'.req.ob] =
                                 Walk(call.req.path)'[Len(call'.req.path)]
          BY <2>3 DEF MountedWhereAsked
        <4>4. /\ ~ClimbsOut(call.req.path)
              /\ \A k \in LinksOn(call.req.path) :
                    Mounted(Walk(call.req.path)[k]) = call.req.ob
          BY <2>3, <4>1, <4>2, <4>3
        <4>5. bound[call.req.ob] = Walk(call.req.path)[Len(call.req.path)]
          BY <3>2, <4>3, <4>4 DEF KvfsIInv, MountedWhereAsked
        <4> QED  BY <2>3, <4>1, <4>2, <4>5
      <3> QED  BY <3>1, <3>2
    <2>7. LookupOnCourse'
      <3>1. CASE call.op # "lookup"
        BY <2>3, <3>1 DEF LookupOnCourse
      <3>2. CASE call.op = "lookup"
        <4>1. /\ call.req \in Lookups /\ call.followed \in Nat
              /\ call.stack # <<>> /\ Top' = Top
          BY <2>3, <3>2 DEF KvfsIInv, CallTyped, Calls, Top
        <4>2. PICK q, pos : q \in Paths /\ q = Sought /\ Along(q, pos)
          BY <3>2 DEF KvfsIInv, LookupOnCourse
        <4>3. Sought' = q
          BY <2>3, <4>1, <4>2, SoughtStays
        <4> DEFINE d == Len(call.stack)
        <4>4. pos[d] \in 0 .. Len(q)
          <5>1. NextOnPath(q, pos, d)
            BY <3>2, <4>2, CourseHead
          <5> QED  BY <5>1 DEF NextOnPath
        <4>5. Walk(q)'[pos[d]] = Walk(q)[pos[d]] /\ LinksOn(q)' = LinksOn(q)
          BY <4>2, <2>4, <4>4
        <4>6. Along(q, pos)'
          BY <2>3, <4>1, <4>2, <4>5 DEF Along
        <4>7. Sought' \in Paths /\ (~call'.req.reparse => Len(call'.stack) = 1)
          BY <4>2, <2>3, <3>2, <4>3 DEF KvfsIInv, LookupOnCourse
        <4> QED  BY <4>3, <4>6, <4>7 DEF LookupOnCourse
      <3> QED  BY <3>1, <3>2
    <2>8. LookupSound'
      <3>1. CASE ~(call.op = "done" /\ call.req \in Lookups)
        BY <2>3, <3>1 DEF LookupSound
      <3>2. CASE call.op = "done" /\ call.req \in Lookups
        <4>1. call.followed \in Nat
          BY DEF KvfsIInv, CallTyped, Calls
        <4>2. PICK q \in Paths : q = Sought /\ q = Sought'
          BY <2>3, <3>2, <4>1, SoughtStays
        <4>3. /\ LinksOn(Sought)' = LinksOn(q)' /\ LinksOn(Sought) = LinksOn(q)
              /\ Walk(Sought)'[Len(Sought')] = Walk(q)'[Len(q)]
              /\ Walk(Sought)[Len(Sought)] = Walk(q)[Len(q)]
          BY <4>2
        <4>4. LinksOn(q)' = LinksOn(q) /\ Walk(q)'[Len(q)] = Walk(q)[Len(q)]
          <5>1. Len(q) \in 0 .. Len(q)
            BY <2>4
          <5> QED  BY <2>4, <5>1
        <4>5. /\ call.req.reparse => LinksOn(Sought) = {}
              /\ call.result = Walk(Sought)[Len(Sought)]
          BY <3>2 DEF KvfsIInv, LookupSound
        <4>6. /\ call'.req.reparse => LinksOn(Sought)' = {}
              /\ call'.result = Walk(Sought)'[Len(Sought')]
          BY <2>3, <4>3, <4>4, <4>5
        <4> QED  BY <4>6 DEF LookupSound
      <3> QED  BY <3>1, <3>2
    <2> QED  BY <2>1, <2>2, <2>5, <2>6, <2>7, <2>8 DEF KvfsIInv
  <1> QED  BY <1>1, <1>2, <1>3, <1>4, <1>5, <1>6 DEF Next, Work

(* createPath and getNodeByPath keep the tree together and the objects     *)
(* bound where they are mounted, after any calls and whatever links and    *)
(* links of links the paths meet.                                          *)
THEOREM NameSpaceSound == Spec => []KvfsInv
  <1>1. KvfsIInv => KvfsInv
    BY DEF KvfsIInv
  <1> QED  BY <1>1, InitInv, NextInv, PTL DEF Spec

(* An object that createPath has mounted is on the node of its path, for   *)
(* every path that meets no earlier link and does not climb out of the     *)
(* root: "." and ".." in the path included.                                *)
THEOREM CreatesWhereAsked == Spec => []MountedWhereAsked
  <1>1. KvfsIInv => MountedWhereAsked
    BY DEF KvfsIInv
  <1> QED  BY <1>1, InitInv, NextInv, PTL DEF Spec

(* getNodeByPath finds what its path means: with every link on it, and on  *)
(* the targets of links, written out from the left, for any tree and links *)
(* and any number of them, as long as the stack has room.                  *)
THEOREM LookupsFindMeaning == Spec => []LookupSound
  <1>1. KvfsIInv => LookupSound
    BY DEF KvfsIInv
  <1> QED  BY <1>1, InitInv, NextInv, PTL DEF Spec
=============================================================================
