----------------------------- MODULE BlockStore -----------------------------
(***************************************************************************)
(* What the RAM manager promises its clients, whatever it does with frames *)
(* and page-file slots: a store of whole pages keyed by the client's       *)
(* AddressRef.  content[r] is what the store holds for r, said[r] is what  *)
(* r's client last put there, None when r has no block.  damaged is the    *)
(* set of blocks that a failed page-file write has hit; for every other    *)
(* block the two agree.                                                    *)
(***************************************************************************)
CONSTANTS Refs,     \* the clients' AddressRef objects
          Page,     \* the contents a page can have
          None      \* no block

VARIABLES content, said, damaged

svars == <<content, said, damaged>>

Init ==
    /\ content = [r \in Refs |-> None]
    /\ said = [r \in Refs |-> None]
    /\ damaged = {}

(* A new block starts with any content, which its client can see. *)
Alloc(r, p) ==
    /\ content[r] = None
    /\ content' = [content EXCEPT ![r] = p]
    /\ said' = [said EXCEPT ![r] = p]
    /\ damaged' = damaged \ {r}

Free(r) ==
    /\ content[r] # None
    /\ content' = [content EXCEPT ![r] = None]
    /\ said' = [said EXCEPT ![r] = None]
    /\ damaged' = damaged \ {r}

Write(r, p) ==
    /\ content[r] # None
    /\ content' = [content EXCEPT ![r] = p]
    /\ said' = [said EXCEPT ![r] = p]
    /\ UNCHANGED damaged

(* A failed page-file write spoils the blocks of S and no other. *)
Damage(S) ==
    /\ content' \in [Refs -> Page \cup {None}]
    /\ \A r \in Refs : r \notin S => content'[r] = content[r]
    /\ \A r \in S : content[r] # None /\ content'[r] # None
    /\ damaged' = damaged \cup S
    /\ UNCHANGED said

Next ==
    \/ \E r \in Refs, p \in Page : Alloc(r, p) \/ Write(r, p)
    \/ \E r \in Refs : Free(r)
    \/ \E S \in SUBSET Refs : Damage(S)

Spec == Init /\ [][Next]_svars
=============================================================================
