---------------------------- MODULE ZakePartial ----------------------------
(***************************************************************************)
(* _PartialClient (zake/fake_client.py): create, set and delete on the     *)
(* tree, each returning what it did together with the watches to fire, and *)
(* firing none itself.  FakeStorage.purge stages its watches the same way  *)
(* and is kept here with them.                                             *)
(*                                                                         *)
(* A staged watch is the pair the code appends to data_watches or          *)
(* child_watches: the paths whose watchers are to fire and the event they  *)
(* are handed.  Each operation is an operator from a store to              *)
(*   [err, st, result, data, child]                                        *)
(* and is applied in one step: the code holds the storage lock from its    *)
(* first read of the tree to its last write.                               *)
(*                                                                         *)
(* Arguments are taken to be well typed (a string path, a byte-string      *)
(* value, an integer version); each operation normalises the path it is    *)
(* given, and of an ACL only whether one was given matters.                *)
(***************************************************************************)
EXTENDS ZakeStorage

EventType == {"CREATED", "DELETED", "CHANGED", "CHILD"}
WatchedEvent(type, path) == [type |-> type, path |-> path]
Staged(watched, event)   == [paths |-> watched, event |-> event]

Outcome(err, st, result, data, child) ==
    [err |-> err, st |-> st, result |-> result, data |-> data, child |-> child]
Failed(err, st) == Outcome(err, st, err, << >>, << >>)

(* One DELETED event for each of the paths, in the order given. *)
DeletedEach(ordered) ==
    [i \in DOMAIN ordered |->
        Staged({ordered[i]}, WatchedEvent("DELETED", ordered[i]))]

-----------------------------------------------------------------------------
(* create without makepath: storage.create, then a CHILD event for every   *)
(* ancestor the new node has and a CREATED event for the node.             *)
CreateNode(st, sessionId, path, value, ephemeral, sequence) ==
    Given(Create(st, path, value, sequence, ephemeral, sessionId),
          LAMBDA made :
              IF made.err # OK THEN Failed(made.err, made.st)
              ELSE Outcome(OK, made.st, made.path,
                     <<Staged({made.path},
                              WatchedEvent("CREATED", made.path))>>,
                     IF made.parents = {} THEN << >>
                     ELSE <<Staged(made.parents,
                                   WatchedEvent("CHILD", made.path))>>))

(* One outcome after another: the store and the watches accumulate, the    *)
(* first exception ends the call with what was done before it left done.   *)
(* The outcome of a call that raised still names the watches staged before *)
(* it did; the caller gets the exception and never sees them.              *)
Then(before, after) ==
    IF after.err # OK
    THEN Outcome(after.err, after.st, after.err, before.data, before.child)
    ELSE Outcome(OK, after.st, after.result,
                 before.data \o after.data, before.child \o after.child)

(* makepath: every ancestor that is missing when its turn comes is created *)
(* by a create of its own, root first.                                     *)
MakePath(st, sessionId, path) ==
    LET CreateMissing(before, ancestor) ==
            Given(before, LAMBDA done :
                IF done.err # OK \/ InStorage(done.st, ancestor) THEN done
                ELSE Then(done, CreateNode(done.st, sessionId, ancestor,
                                           EmptyData, FALSE, FALSE)))
    IN  Given(Front(PartitionPath(path)), LAMBDA ancestors :
            FoldLeft(CreateMissing, Outcome(OK, st, Root, << >>, << >>),
                     ancestors))

(* create: an ACL is refused before anything is looked at; the trailing    *)
(* slash of the path is kept for a sequence number to follow.              *)
PartialCreate(st, sessionId, path, value, acl, ephemeral, sequence, makepath) ==
    LET norm == NormPath(path, sequence)
    IN  IF acl THEN Failed("NotImplemented", st)
        ELSE Given(IF makepath THEN MakePath(st, sessionId, norm)
                   ELSE Outcome(OK, st, Root, << >>, << >>),
                   LAMBDA ready :
                       IF ready.err # OK THEN ready
                       ELSE Then(ready, CreateNode(ready.st, sessionId, norm,
                                                   value, ephemeral, sequence)))

-----------------------------------------------------------------------------
PartialSet(st, path, value, version) ==
    LET norm == NormPath(path, FALSE)
        done == Set(st, norm, value, version)
    IN  CASE done.err = "KeyError" -> Failed("NoNode", done.st)
          [] done.err \notin {OK, "KeyError"} -> Failed(done.err, done.st)
          [] OTHER -> Outcome(OK, done.st, done.stat,
                         <<Staged({norm}, WatchedEvent("CHANGED", norm))>>,
                         << >>)

-----------------------------------------------------------------------------
(* delete: the node and, if recursive, everything below it are popped,     *)
(* deepest first, inside a storage transaction; a pop that raises (only    *)
(* the root's does) puts the tree back.  The parents that get a child      *)
(* event are the ancestors still there once the pops are done.             *)
PopAll(st, ordered) ==
    LET PopNext(before, path) ==
            Given(before, LAMBDA done : IF done.err # OK THEN done
                                        ELSE Pop(done.st, path))
    IN  Given(FoldLeft(PopNext, Raised(OK, st), ordered),
              LAMBDA popped : IF popped.err # OK THEN Raised(popped.err, st)
                              ELSE popped)

(* What a delete removes, and the order it pops it in:                     *)
(* reversed(sorted(...)) of the node and everything below it.              *)
DoomedAlone(st, path) == {path}
Doomed(st, path) == {path} \cup GetChildren(st, path, FALSE)

ShallowestFirst(doomed) == Sorted(doomed)
DeepestToShallowest(doomed) == ReverseSorted(doomed)

PartialDelete(st, given, version, recursive) ==
    LET path == NormPath(given, FALSE)
        children == GetChildren(st, path, FALSE)
        Popped(removed) ==
            Given(PopAll(st, removed), LAMBDA popped :
                LET parents == UNION {GetParents(popped.st, p) :
                                         p \in Range(removed)}
                IN  IF popped.err # OK THEN Failed(popped.err, popped.st)
                    ELSE Outcome(OK, popped.st, TRUE, DeletedEach(removed),
                                 DeletedEach(ReverseSorted(parents))))
    IN  IF ~InStorage(st, path) THEN Failed("NoNode", st)
        ELSE IF version # -1 /\ st.paths[path].version # version
        THEN Failed("BadVersion", st)
        ELSE IF ~recursive /\ children # {} THEN Failed("NotEmpty", st)
        ELSE Given(DeepestToShallowest(Doomed(st, path)), Popped)

-----------------------------------------------------------------------------
(* FakeStorage.purge, the part under the storage lock: the ephemeral nodes *)
(* of the session are removed.  `ordered` is the order in which the dict   *)
(* yielded them, which the data watches keep; the child watches go to      *)
(* every ancestor of a removed node, in order of first appearance.         *)
RemovalsOfNoSession(st, sessionId) ==
    {p \in DOMAIN st.paths :
        st.paths[p].ephemeral /\ st.paths[p].owner = NoSession}

Removals(st, sessionId) ==
    {p \in DOMAIN st.paths :
        st.paths[p].ephemeral /\ st.paths[p].owner = sessionId}

FirePaths(st, ordered) ==
    LET AddNew(before, p) ==
            Given(before, LAMBDA found : IF p \in Range(found) THEN found
                                         ELSE Append(found, p))
        AddParents(found, removed) ==
            FoldLeft(AddNew, found, Sorted(GetParents(st, removed)))
    IN  FoldLeft(AddParents, << >>, ordered)

Purge(st, ordered) ==
    Outcome(OK,
            [st EXCEPT !.paths = Restrict(@, DOMAIN @ \ Range(ordered))],
            Len(ordered), DeletedEach(ordered),
            DeletedEach(FirePaths(st, ordered)))

=============================================================================
