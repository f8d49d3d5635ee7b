------------------------------ MODULE ZakeTree ------------------------------
(***************************************************************************)
(* What the storage promises the clients that share it: one tree of        *)
(* versioned nodes that only ever changes by a whole operation.  A step    *)
(* is a create (with the ancestors makepath adds), a write of one node, a  *)
(* delete of a node with everything below it, or the purge of the          *)
(* ephemeral nodes of one session; the tree passes through no state in     *)
(* between.  Who calls, what is returned, the watches and the counters are *)
(* no part of it: this is the tree as a reader of it can see it change.    *)
(*                                                                         *)
(* ZakeClient implements this specification with `tree` its `paths`.       *)
(***************************************************************************)
EXTENDS ZakePaths

CONSTANTS
    Data,           \* the values a node may hold
    EmptyData       \* the data of the root and of the ancestors makepath adds

VARIABLE tree       \* path -> [data, version, ephemeral, owner]

Plain == [data |-> EmptyData, version |-> 0, ephemeral |-> FALSE, owner |-> 0]

Above(p) == {q \in DOMAIN tree' : IsChildPath(q, p, FALSE)}
Below(p) == {q \in DOMAIN tree : IsChildPath(p, q, FALSE)}

Added   == DOMAIN tree' \ DOMAIN tree
Removed == DOMAIN tree \ DOMAIN tree'
OthersAsBefore(changed) ==
    \A p \in (DOMAIN tree \cap DOMAIN tree') \ changed : tree'[p] = tree[p]

Init == tree = (Root :> Plain)

(* A new node, at version 0 and ephemeral exactly if a session owns it,    *)
(* under a parent that is there and with no ephemeral node above it; the   *)
(* ancestors that were missing come with it, plain and empty.              *)
Create ==
    \E leaf \in Added :
        /\ Removed = {} /\ OthersAsBefore({})
        /\ Added \ {leaf} \subseteq Above(leaf)
        /\ \A p \in Prefixes(leaf) \ {leaf} :
              p \in DOMAIN tree' /\ ~tree'[p].ephemeral
        /\ \A p \in Added \ {leaf} : tree'[p] = Plain
        /\ tree'[leaf].version = 0
        /\ tree'[leaf].data \in Data
        /\ tree'[leaf].ephemeral <=> tree'[leaf].owner # 0

(* One node gets new data and the next version. *)
Write ==
    \E p \in DOMAIN tree, value \in Data :
        /\ Added = {} /\ Removed = {} /\ OthersAsBefore({p})
        /\ tree'[p] = [tree[p] EXCEPT !.data = value, !.version = @ + 1]

(* A node other than the root goes, and with it all that was below it. *)
Delete ==
    \E p \in Removed :
        /\ p # Root
        /\ Added = {} /\ OthersAsBefore({})
        /\ Removed = {p} \cup Below(p)

(* The ephemeral nodes of one session go, all of them and nothing else. *)
Purge ==
    \E p \in Removed :
        /\ Added = {} /\ OthersAsBefore({})
        /\ Removed = {q \in DOMAIN tree :
                         tree[q].ephemeral /\ tree[q].owner = tree[p].owner}

Next == Create \/ Write \/ Delete \/ Purge

Spec == Init /\ [][Next]_tree

=============================================================================
