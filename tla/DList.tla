-------------------------------- MODULE DList --------------------------------
(***************************************************************************)
(* The doubly linked list of dlinklist.h (struct dllist), for nodes that   *)
(* stand for ranges, as the regions and blocks of space.h do.  A list is   *)
(* its ends, the nodes that have not been deleted, and what has become of  *)
(* the program that used it: "null" when it has followed a null pointer    *)
(* and "dangling" when it has followed one to a deleted node.              *)
(*                                                                         *)
(* linkNext leaves the _prev of the following node alone, so a list is     *)
(* whole forwards and not backwards; nothing here assumes that it is.      *)
(***************************************************************************)
EXTENDS Integers, FiniteSets

CONSTANT MaxNodes       \* bound: the nodes a list makes in its life

ASSUME DListAssumption == MaxNodes \in Nat \ {0}

(* Addresses of nodes, in the order of their making and none used again; 0 *)
(* is the null pointer.                                                    *)
Ids == 1 .. MaxNodes

(* setFirst for one node, whose fields are in f. *)
Single(f) ==
    [first |-> 1, last |-> 1, fate |-> "ok", made |-> 1,
     node |-> [x \in {1} |-> [f |-> f, prev |-> 0, next |-> 0]]]

Empty == [first |-> 0, last |-> 0, fate |-> "ok", made |-> 0,
          node |-> [x \in {} |-> 0]]

Nodes(l) == DOMAIN l.node
NextOf(l, x) == l.node[x].next
PrevOf(l, x) == l.node[x].prev
Field(l, x)  == l.node[x].f
SetField(l, x, f) == [l EXCEPT !.node[x].f = f]

Fate(p) == IF p = 0 THEN "null" ELSE "dangling"

(* What dereferencing p does to the program. *)
Follow(l, p) ==
    IF l.fate = "ok" /\ p \notin Nodes(l) THEN [l EXCEPT !.fate = Fate(p)] ELSE l

NewNode(l) == l.made + 1

LinkNextAtEnd(l, self, new, f) ==
    [l EXCEPT !.last = new,
              !.made = new,
              !.node = [x \in Nodes(l) \cup {new} |->
                          IF x = new THEN [f |-> f, prev |-> self, next |-> NextOf(l, self)]
                          ELSE IF x = self THEN [@[x] EXCEPT !.next = new]
                          ELSE @[x]]]

LinkNextSkips(l, self, new, f) ==
    [l EXCEPT !.last = IF NextOf(l, self) = 0 THEN new ELSE @,
              !.made = new,
              !.node = [x \in Nodes(l) \cup {new} |->
                          IF x = new THEN [f |-> f, prev |-> PrevOf(l, self),
                                           next |-> NextOf(l, self)]
                          ELSE IF x = self THEN [@[x] EXCEPT !.next = new]
                          ELSE @[x]]]

linkNext(l, self, new, f) ==
    [l EXCEPT !.last = IF NextOf(l, self) = 0 THEN new ELSE @,
              !.made = new,
              !.node = [x \in Nodes(l) \cup {new} |->
                          IF x = new THEN [f |-> f, prev |-> self, next |-> NextOf(l, self)]
                          ELSE IF x = self THEN [@[x] EXCEPT !.next = new]
                          ELSE @[x]]]

(* unlink(x) stores through the _prev and _next of x, right or wrong. *)
unlink(l, x) ==
    LET p == PrevOf(l, x)
        n == NextOf(l, x)
    IN IF \E y \in {p, n} \ {0} : y \notin Nodes(l)
       THEN [l EXCEPT !.fate = "dangling"]
       ELSE [l EXCEPT !.first = IF p = 0 THEN n ELSE @,
                      !.last = IF n = 0 THEN p ELSE @,
                      !.node = [y \in Nodes(l) \ {x} |->
                                  [f |-> Field(l, y),
                                   prev |-> IF y = n THEN p ELSE PrevOf(l, y),
                                   next |-> IF y = p THEN n ELSE NextOf(l, y)]]]

-----------------------------------------------------------------------------
(* Ranges: f has a base and a size *)

End(l, x) == Field(l, x).base + Field(l, x).size

(* split(fit, want): the rest of fit becomes a node of its own. *)
SplitAt(l, fit, want) ==
    LET f == Field(l, fit) IN
    linkNext(SetField(l, fit, [f EXCEPT !.size = want]), fit, NewNode(l),
             [f EXCEPT !.base = f.base + want, !.size = f.size - want])

(* p->size += p->_next->size; unlink(p->_next) *)
AbsorbNext(l, p) ==
    LET n == NextOf(l, p)
        f == Field(l, p)
    IN unlink(SetField(l, p, [f EXCEPT !.size = f.size + Field(l, n).size]), n)

(* One turn of for( ; p->_next && p->_next is in S; ) AbsorbNext. *)
Absorb(l, p, S) ==
    LET here == Follow(l, p)
        n    == NextOf(here, p)
    IN IF here.fate # "ok" \/ n = 0 THEN here
       ELSE LET next == Follow(here, n) IN
            IF next.fate = "ok" /\ n \in S THEN AbsorbNext(next, p) ELSE next

(* The loop.  What its test reads does not change while it runs. *)
AbsorbWhile(l, p, S) ==
    LET loop[k \in 0 .. Cardinality(Nodes(l))] ==
            IF k = 0 THEN l ELSE Absorb(loop[k - 1], p, S)
    IN loop[Cardinality(Nodes(l))]

(* The first node of S, or what is no node, from x on along the pointers step. *)
Search(step, x, S) ==
    LET at[k \in 0 .. Cardinality(DOMAIN step)] ==
            IF k = 0 THEN x
            ELSE LET y == at[k - 1] IN IF y \in DOMAIN step \ S THEN step[y] ELSE y
    IN at[Cardinality(DOMAIN step)]

FirstFrom(l, x, S) == Search([y \in Nodes(l) |-> NextOf(l, y)], x, S)
LastUpTo(l, x, S)  == Search([y \in Nodes(l) |-> PrevOf(l, y)], x, S)

(* The first node at or after x that ends after a. *)
EndsAfter(l, x, a) == FirstFrom(l, x, {y \in Nodes(l) : End(l, y) > a})

(* Forwards, the list covers base to base + size without holes or overlaps *)
(* and has all nodes.                                                      *)
Tiles(l, base, size) ==
    /\ \A x \in Nodes(l) : FirstFrom(l, l.first, {x}) = x
    /\ Field(l, l.first).base = base
    /\ End(l, l.last) = base + size
    /\ \A x \in Nodes(l) :
          /\ NextOf(l, x) = 0 <=> x = l.last
          /\ NextOf(l, x) # 0 => /\ NextOf(l, x) \in Nodes(l)
                                 /\ Field(l, NextOf(l, x)).base = End(l, x)
=============================================================================
