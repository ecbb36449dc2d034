-------------------------------- MODULE Kvfs --------------------------------
(***************************************************************************)
(* The kernel object name space of rammgr.h: struct vin::kvfs over the     *)
(* node tree of vin::vfs, with createPath, getNodeByPath and the symbolic  *)
(* links both follow.  One thread makes one call at a time; a call is a    *)
(* step per part of its path, because it need not end.                     *)
(*                                                                         *)
(* A node is named by the sequence of names from the root: a parent has    *)
(* one child of a name and its own name never changes.  Names differ when  *)
(* stricmp says so.  A path is the sequence of its parts, as pather::parse *)
(* cuts them.  The root is the empty sequence.                             *)
(***************************************************************************)
EXTENDS Integers, Sequences

CONSTANTS Objects,      \* KoMountable objects, each made for one createPath
          Target,       \* KoSymbolLink::target: a function from the links
          Creations,    \* the createPath calls: [path, ob], ob may be NULL
          Lookups,      \* the getNodeByPath calls: [path, reparse]
          StackDepth,   \* nested getNodeByPath calls the thread's stack holds
          MostLinks,    \* bound: a path on which this many links have been
                        \* replaced and one is left is taken to be endless
          NULL

ASSUME KvfsAssumption ==
    /\ DOMAIN Target \subseteq Objects
    /\ NULL \notin Objects /\ NULL \notin Seq(STRING)
    /\ NULL \notin Creations /\ NULL \notin Lookups
    /\ \A o \in DOMAIN Target : Target[o] \in Seq(STRING)
    /\ Creations \subseteq [path : Seq(STRING), ob : Objects \cup {NULL}]
    /\ Lookups \subseteq [path : Seq(STRING), reparse : BOOLEAN]
    /\ StackDepth \in Nat \ {0}
    /\ MostLinks \in Nat

Root == <<>>

VARIABLES
    tree,       \* the nodes there are
    mount,      \* node_t::_mount
    bound,      \* KoMountable::_node
    given,      \* the objects that have been handed to a createPath
    call        \* the call under way and the calls nested in it; followed
                \* counts the links a lookup has followed, for LookupSound

kvars == <<tree, mount, bound, given, call>>
store == <<tree, mount, bound, given>>

Mounted(n) == IF n \in DOMAIN mount THEN mount[n] ELSE NULL
IsLink(n)  == Mounted(n) \in DOMAIN Target

-----------------------------------------------------------------------------
(* One part of a path *)

Parent(n) == IF n = Root THEN NULL ELSE SubSeq(n, 1, Len(n) - 1)

(* The node a part leads to, or NULL. *)
Towards(n, part) ==
    IF part = "." THEN n
    ELSE IF part = ".." THEN Parent(n)
    ELSE IF Append(n, part) \in tree THEN Append(n, part) ELSE NULL

-----------------------------------------------------------------------------
Init ==
    /\ tree = {Root}
    /\ mount = [n \in {} |-> NULL]
    /\ bound = [o \in Objects |-> NULL]
    /\ given = {}
    /\ call = [op |-> "done", req |-> NULL, stack |-> <<>>, result |-> NULL,
               followed |-> 0]

Begin(op, req) ==
    /\ call.op = "done"
    /\ call' = [op |-> op, req |-> req, result |-> NULL, followed |-> 0,
                stack |-> <<[at |-> Root, rest |-> req.path]>>]

Top == call.stack[Len(call.stack)]
SetTop(at, rest) ==
    [call EXCEPT !.stack[Len(call.stack)] = [at |-> at, rest |-> rest]]
Done(n) == [call EXCEPT !.op = "done", !.stack = <<>>, !.result = n]

(* The parts that are still to do, and none is left. *)
AtPart(op) == call.op = op /\ Top.rest # <<>>
AtEnd(op)  == call.op = op /\ Top.rest = <<>>

-----------------------------------------------------------------------------
(* createPath *)

BeginCreate(c) ==
    /\ c.ob \notin given
    /\ Begin("create", c)
    /\ given' = IF c.ob = NULL THEN given ELSE given \cup {c.ob}
    /\ UNCHANGED <<tree, mount, bound>>

CreatorStays ==
    LET n == Towards(Top.at, Head(Top.rest))
    IN IF n = NULL THEN Append(Top.at, Head(Top.rest)) ELSE Top.at

(* Where creator::onPathPart goes: it always creates what is missing (also *)
(* a child ".." of the root), as createPath does not pass force on.        *)

CreatorNode ==
    LET n == Towards(Top.at, Head(Top.rest))
    IN IF n = NULL THEN Append(Top.at, Head(Top.rest)) ELSE n

CreateRetries ==
    /\ AtPart("create")
    /\ tree' = tree \cup {CreatorNode}
    /\ call' = IF IsLink(CreatorNode) THEN SetTop(Root, call.req.path)
               ELSE SetTop(CreatorNode, Tail(Top.rest))
    /\ UNCHANGED <<mount, bound, given>>

(* At a link createPath begins again with the target of the link, and the  *)
(* rest of the path is forgotten.                                          *)
CreatePart ==
    /\ AtPart("create")
    /\ tree' = tree \cup {CreatorNode}
    /\ call' = IF IsLink(CreatorNode)
               THEN SetTop(Root, Target[Mounted(CreatorNode)])
               ELSE SetTop(CreatorNode, Tail(Top.rest))
    /\ UNCHANGED <<mount, bound, given>>

RemountOver ==
    /\ mount' = [n \in DOMAIN mount \cup {Top.at} |->
                    IF n = Top.at THEN call.req.ob ELSE mount[n]]
    /\ bound' = [bound EXCEPT ![call.req.ob] = Top.at]
    /\ call' = Done(Top.at)

(* node_t::mount *)
MountHere ==
    IF Mounted(Top.at) # NULL
    THEN call' = Done(NULL) /\ UNCHANGED <<mount, bound>>   \* E_UNEXPECTED
    ELSE /\ mount' = [n \in DOMAIN mount \cup {Top.at} |->
                         IF n = Top.at THEN call.req.ob ELSE mount[n]]
         /\ bound' = [bound EXCEPT ![call.req.ob] = Top.at]
         /\ call' = Done(Top.at)

CreateReturns ==
    /\ AtEnd("create")
    /\ IF call.req.ob = NULL
       THEN call' = Done(Top.at) /\ UNCHANGED <<mount, bound>>
       ELSE MountHere
    /\ UNCHANGED <<tree, given>>

-----------------------------------------------------------------------------
(* getNodeByPath *)

BeginLookup(l) == Begin("lookup", l) /\ UNCHANGED store

FoundNode == Towards(Top.at, Head(Top.rest))

(* Only the outermost call may have been told not to follow links. *)
Reparses(n) == IsLink(n) /\ (call.req.reparse \/ Len(call.stack) > 1)

FindPart ==
    /\ AtPart("lookup")
    /\ FoundNode # NULL /\ ~Reparses(FoundNode)
    /\ call' = SetTop(FoundNode, Tail(Top.rest))
    /\ UNCHANGED store

FindFails ==
    /\ AtPart("lookup")
    /\ FoundNode = NULL
    /\ call' = Done(NULL)
    /\ UNCHANGED store

(* getNodeByPath calls itself for the target of the link. *)
FollowLink ==
    /\ AtPart("lookup")
    /\ FoundNode # NULL /\ Reparses(FoundNode)
    /\ call' = IF Len(call.stack) = StackDepth
               THEN [call EXCEPT !.op = "overflow"]
               ELSE [SetTop(FoundNode, Tail(Top.rest)) EXCEPT
                        !.followed = @ + 1,
                        !.stack = Append(@, [at |-> Root,
                                             rest |-> Target[Mounted(FoundNode)]])]
    /\ UNCHANGED store

ReturnDropsRest ==
    /\ AtEnd("lookup")
    /\ call' = Done(Top.at)
    /\ UNCHANGED store

(* The nested call's node is where the outer one goes on. *)
FindReturns ==
    /\ AtEnd("lookup")
    /\ LET below == Len(call.stack) - 1 IN
       call' = IF below = 0 THEN Done(Top.at)
               ELSE [call EXCEPT !.stack =
                        [SubSeq(@, 1, below) EXCEPT ![below].at = Top.at]]
    /\ UNCHANGED store

-----------------------------------------------------------------------------
(* The call under way *)
Work ==
    \/ CreatePart \/ CreateReturns
    \/ FindPart \/ FindFails \/ FollowLink \/ FindReturns

Next ==
    \/ \E c \in Creations : BeginCreate(c)
    \/ \E l \in Lookups : BeginLookup(l)
    \/ Work

Spec == Init /\ [][Next]_kvars

(* The thread that makes the call runs. *)
FairSpec == Spec /\ WF_kvars(Work)

-----------------------------------------------------------------------------
(* What a lookup should find *)

(* The node at which p has led after k parts when no link is followed. *)
Walk(p) ==
    LET node[k \in 0 .. Len(p)] ==
            IF k = 0 THEN Root
            ELSE LET before == node[k - 1]
                 IN IF before = NULL THEN NULL ELSE Towards(before, p[k])
    IN node

(* p with its first link written out. *)
LinksOn(p) == {k \in 1 .. Len(p) : IsLink(Walk(p)[k])}

Rewrite(p) ==
    LET k == CHOOSE j \in LinksOn(p) : \A i \in LinksOn(p) : j <= i
    IN IF LinksOn(p) = {} THEN p
       ELSE Target[Mounted(Walk(p)[k])] \o SubSeq(p, k + 1, Len(p))

(* p with n links written out, one after the other. *)
Rewritten(p, n) ==
    LET path[k \in 0 .. n] == IF k = 0 THEN p ELSE Rewrite(path[k - 1])
    IN path[n]

(* The path a lookup is on. *)
Sought == IF call.req.reparse THEN Rewritten(call.req.path, call.followed)
          ELSE call.req.path

-----------------------------------------------------------------------------
(* Properties *)

(* Nodes hang together, and only nodes are mounted on. *)
KvfsTypeOK ==
    /\ Root \in tree
    /\ \A n \in tree \ {Root} : Parent(n) \in tree
    /\ DOMAIN mount \subseteq tree
    /\ call.op \in {"done", "create", "lookup", "overflow"}
    /\ Len(call.stack) <= StackDepth

(* An object knows the node it is mounted on, and no other object is there *)
(* (KoMountable::bindNode, node_t::mount).                                 *)
BindingsAgree ==
    /\ \A n \in DOMAIN mount : bound[mount[n]] = n
    /\ \A o \in Objects : bound[o] # NULL => Mounted(bound[o]) = o

(* The invariant of the tree: nodes, and objects that agree with them.     *)
KvfsInv == KvfsTypeOK /\ BindingsAgree

(* A lookup finds the node its path means when the first link on it is     *)
(* replaced by its target until no link is left, links in links included;  *)
(* one that is not to follow links finds the node its path names.          *)
LookupSound ==
    call.op = "done" /\ call.req \in Lookups =>
        /\ call.req.reparse => LinksOn(Sought) = {}
        /\ call.result = Walk(Sought)[Len(Sought)]

(* p asks for the parent of the root, of which createPath makes a child. *)
ClimbsOut(p) == \E k \in 1 .. Len(p) : p[k] = ".." /\ Walk(p)[k - 1] = Root

(* An object that createPath has put somewhere is on the node its path     *)
(* names, unless a link that was there before lies on the way, the last    *)
(* node included, or the way leads out of the root.                        *)
MountedWhereAsked ==
    LET p == call.req.path IN
    call.op = "done" /\ call.req \in Creations
    /\ call.req.ob # NULL /\ call.result # NULL
    /\ ~ClimbsOut(p) /\ (\A k \in LinksOn(p) : Mounted(Walk(p)[k]) = call.req.ob)
        => bound[call.req.ob] = Walk(p)[Len(p)]

(* The links on the way of the call under way lead back to themselves:     *)
(* however many of them are replaced by their targets, there is one left.  *)
EndlessWay ==
    /\ call.req \in Lookups => call.req.reparse
    /\ \A n \in 0 .. MostLinks : LinksOn(Rewritten(call.req.path, n)) # {}

(* Every call returns, and no nest of lookups overflows the stack, unless  *)
(* the links on its way lead back to themselves.  getNodeByPath and        *)
(* createPath have no check for those: main()'s second createPath of       *)
(* SysWOW64 makes one of System32, and its next lookup does not return.    *)
CallReturns == call.op # "done" ~> (call.op = "done" \/ EndlessWay)

=============================================================================
