---------------------------- MODULE ZakeStorage ----------------------------
(***************************************************************************)
(* FakeStorage (zake/fake_storage.py): the znode tree, the sequence        *)
(* counters and the set of attached clients.                               *)
(*                                                                         *)
(* Every method that touches _paths or _sequences runs under the one       *)
(* reentrant storage lock, and a caller that needs several of them in a    *)
(* row (makepath, delete, a transaction) holds the lock around all of      *)
(* them.  So each method is an operator from a store, the record           *)
(* [paths, sequences], to the outcome of the call: the store it leaves and *)
(* the exception it raised, if any.  The actions of ZakeClient and ZakeTxn *)
(* apply one such outcome, or a composition of them, in a single step.     *)
(*                                                                         *)
(* Left out: created_on / updated_on (wall-clock time), aversion and       *)
(* cversion (constant -1), and the stat fields derived from them or from   *)
(* the length of the data.                                                 *)
(***************************************************************************)
EXTENDS ZakePaths

CONSTANTS
    Data,           \* the values a node may hold
    EmptyData       \* b"", the data of the root and of makepath's ancestors

ASSUME EmptyData \in Data

VARIABLES
    paths,          \* FakeStorage._paths: path -> node
    sequences,      \* FakeStorage._sequences: parent path -> next sequence id
    clients         \* FakeStorage._clients: the attached clients

storageVars == <<paths, sequences, clients>>

SEQ_ROLLOVER    == 2147483647
SEQ_ROLLOVER_TO == -2147483647

NoSession == 0      \* session_id None: no session
OK        == "ok"   \* no exception raised

Znode == [data : Data, version : Nat, ephemeral : BOOLEAN, owner : Nat]
Stat  == [version : Nat, numChildren : Nat, ephemeralOwner : Nat]

RootNode == [data |-> EmptyData, version |-> 0, ephemeral |-> FALSE,
             owner |-> NoSession]

(* The store the operators below work on, and its assignment. *)
Store      == [paths |-> paths, sequences |-> sequences]
Become(st) == paths' = st.paths /\ sequences' = st.sequences

StorageTypeOK ==
    /\ DOMAIN paths \subseteq Path
    /\ \A p \in DOMAIN paths : paths[p] \in Znode
    /\ DOMAIN sequences \subseteq Path
    /\ \A p \in DOMAIN sequences : sequences[p] \in Int

(* FakeStorage(handler, sequences=initial): no paths but the root, and the *)
(* counters it is given.                                                   *)
NewStorage(initial) == [paths |-> (Root :> RootNode), sequences |-> initial]

Put(f, k, v) == (k :> v) @@ f
Drop(f, k)   == Restrict(f, DOMAIN f \ {k})

Raised(err, st) == [err |-> err, st |-> st]

-----------------------------------------------------------------------------
InStorage(st, path) == path \in DOMAIN st.paths

GetChildren(st, path, onlyDirect) ==
    {other \in DOMAIN st.paths : IsChildPath(path, other, onlyDirect)}

GetParents(st, path) ==
    {other \in DOMAIN st.paths : IsChildPath(other, path, FALSE)}

MakeZnode(node, childCount) ==
    [version        |-> node.version,
     numChildren    |-> childCount,
     ephemeralOwner |-> IF node.ephemeral THEN node.owner ELSE 0]

(* get(path), for a path that is there; a missing one is the KeyError     *)
(* each caller turns into its own answer.                                  *)
Get(st, path) ==
    [data |-> st.paths[path].data,
     stat |-> MakeZnode(st.paths[path],
                        Cardinality(GetChildren(st, path, TRUE)))]

(* set(path, value, version): both branches of the version test write the  *)
(* same fields, so the test only decides whether BadVersion is raised.     *)
SetBy(st, path, value, version, step) ==
    IF ~InStorage(st, path) THEN Raised("KeyError", st)
    ELSE IF version # -1 /\ st.paths[path].version # version
    THEN Raised("BadVersion", st)
    ELSE LET new == [st EXCEPT !.paths[path].data = value,
                               !.paths[path].version = @ + step]
         IN  [err |-> OK, st |-> new, stat |-> Get(new, path).stat]

SetSameVersion(st, path, value, version) == SetBy(st, path, value, version, 0)
Set(st, path, value, version) == SetBy(st, path, value, version, 1)

-----------------------------------------------------------------------------
(* sequence_iter: the counter of the parent advances once for every        *)
(* candidate name tried, and wraps at SEQ_ROLLOVER.                        *)
SameSequence(id) == id
NextSequence(id) == IF id = SEQ_ROLLOVER THEN SEQ_ROLLOVER_TO ELSE id + 1

SequenceOf(st, parentPath) ==
    IF parentPath \in DOMAIN st.sequences THEN st.sequences[parentPath] ELSE 0

RECURSIVE FirstUnused(_, _, _)
FirstUnused(st, path, id) ==
    IF ~InStorage(st, WithSuffix(path, id)) THEN id
    ELSE FirstUnused(st, path, NextSequence(id))

(* The loop over the parents in create: an ephemeral node has no children. *)
NoneAbove(st, parents) == FALSE
EphemeralAbove(st, parents) == \E q \in parents : st.paths[q].ephemeral

(* create(path, value, sequence, ephemeral, session_id).  The counter is   *)
(* advanced before anything is checked and stays advanced when a later     *)
(* check raises; only a missing parent forgets it.                         *)
Create(st, path, value, sequence, ephemeral, sessionId) ==
    LET parentPath == ParentPath(path)
        id      == FirstUnused(st, path, SequenceOf(st, parentPath))
        final   == IF sequence THEN WithSuffix(path, id) ELSE path
        bumped  == IF sequence
                   THEN [st EXCEPT !.sequences =
                                      Put(@, parentPath, NextSequence(id))]
                   ELSE st
        forgot  == [st EXCEPT !.sequences = Drop(@, parentPath)]
        parents == GetParents(st, final)
        node    == [data |-> value, version |-> 0, ephemeral |-> ephemeral,
                    owner |-> IF ephemeral THEN sessionId ELSE NoSession]
    IN  IF ~InStorage(st, parentPath)
        THEN Raised("NoNode", IF sequence THEN forgot ELSE st)
        ELSE IF ephemeral /\ sessionId = NoSession
        THEN Raised("SystemZookeeper", bumped)
        ELSE IF InStorage(st, final)
        THEN Raised("NodeExists", bumped)
        ELSE IF EphemeralAbove(st, parents)
        THEN Raised("NoChildrenForEphemerals", bumped)
        ELSE [err |-> OK, st |-> [bumped EXCEPT !.paths = Put(@, final, node)],
              parents |-> parents, path |-> final]

(* pop(path) *)
Pop(st, path) ==
    IF path = Root THEN Raised("BadArguments", st)
    ELSE IF ~InStorage(st, path) THEN Raised("KeyError", st)
    ELSE Raised(OK, [st EXCEPT !.paths = Drop(@, path)])

=============================================================================
