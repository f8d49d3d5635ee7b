------------------------------ MODULE ZakeTxn ------------------------------
(***************************************************************************)
(* FakeTransactionRequest (zake/fake_client.py) and the storage            *)
(* transaction it commits in (FakeStorage.transaction), on top of the      *)
(* clients of ZakeClient: operations are staged on a transaction object    *)
(* and commit runs them in one hold of the storage lock, informing the     *)
(* clients afterwards or putting the storage back.                         *)
(*                                                                         *)
(* commit is cut at its locks: the first test of the committed flag and    *)
(* verify | the transaction lock, the second test and the storage          *)
(* transaction | storage.inform and the _fire_watches rounds, with the     *)
(* transaction lock still held | committed, unlock.                        *)
(***************************************************************************)
EXTENDS ZakeClient

CONSTANTS
    Txns,           \* the transaction objects
    TxnClient       \* the client each was made by: client.transaction()

ASSUME TxnClient \in [Txns -> Clients]

VARIABLES
    operations,     \* FakeTransactionRequest.operations
    committed,      \* FakeTransactionRequest.committed
    txnLock,        \* the thread holding FakeTransactionRequest._lock
    applied         \* history: the commits of a transaction that went through

txnVars == <<operations, committed, txnLock, applied>>
allVars == <<vars, txnVars>>

OpNames == {"create", "set_data", "delete", "check"}

(* Thread t is where _add or commit hold the lock of transaction x. *)
Holds(t, x) ==
    /\ pc[t] \in {"stage", "inform", "fire", "committed", "rolledback"}
    /\ frame[t].call.op \in {"stage", "commit"}
    /\ frame[t].call.txn = x

TxnTypeOK ==
    /\ TypeOK
    /\ \A x \in Txns : \A i \in DOMAIN operations[x] :
          /\ operations[x][i].name \in OpNames
          /\ operations[x][i].path \in Path
    /\ committed \in [Txns -> BOOLEAN]
    /\ txnLock \in [Txns -> Threads \cup {None}]
    /\ \A x \in Txns : \A t \in Threads : txnLock[x] = t <=> Holds(t, x)
    /\ applied \in [Txns -> Nat]

TxnInit ==
    /\ Init
    /\ operations = [x \in Txns |-> << >>]
    /\ committed = [x \in Txns |-> FALSE]
    /\ txnLock = [x \in Txns |-> None]
    /\ applied = [x \in Txns |-> 0]

-----------------------------------------------------------------------------
(* try_txn_lock, for a thread that does not hold the lock already. *)
NoTxnLock(x)  == OK
TryTxnLock(x) == IF txnLock[x] # None THEN "RuntimeError" ELSE OK

(* _check_tx_state *)
CheckTxState(x) == IF committed[x] THEN "ValueError" ELSE OK

(* The first exception of two things done in turn. *)
Both(first, second) == IF first # OK THEN first ELSE second

(* _add: the lock is tried, the committed flag tested. *)
AddUnlocked(x) == CheckTxState(x)
Add(x) == Both(TryTxnLock(x), CheckTxState(x))

(* delete, check, set_data and create of a transaction call _add, which    *)
(* raises if the transaction is being staged on or committed, or was       *)
(* committed, and otherwise holds its lock.                                *)
StageCall(t) ==
    \E call \in Offered(t) :
        /\ call.op = "stage"
        /\ Begins(t, call)
        /\ IF Add(call.txn) # OK
           THEN /\ Returns(t, Raises(Add(call.txn)))
                /\ UNCHANGED txnLock
           ELSE /\ Goto(t, "stage")
                /\ frame' = [frame EXCEPT ![t].call = call]
                /\ txnLock' = [txnLock EXCEPT ![call.txn] = t]
                /\ UNCHANGED result
        /\ UNCHANGED <<storageVars, clientVars, nextSession, ghostVars,
                       operations, committed, applied>>

(* The rest of _add: the operation is kept for commit, the lock released.  *)
StageAppend(t) ==
    /\ pc[t] = "stage"
    /\ operations' = [operations EXCEPT ![frame[t].call.txn] =
                                            Append(@, frame[t].call.staged)]
    /\ txnLock' = [txnLock EXCEPT ![frame[t].call.txn] = None]
    /\ Returns(t, None)
    /\ UNCHANGED <<storageVars, clientVars, opsDone, nextSession, ghostVars,
                   committed, applied>>

-----------------------------------------------------------------------------
(* The closure check() stages. *)
DelayedCheck(st, path, version) ==
    IF ~InStorage(st, path) THEN Failed("StopTransactionNoExists", st)
    ELSE IF st.paths[path].version # version
    THEN Failed("StopTransactionBadVersion", st)
    ELSE Outcome(OK, st, TRUE, << >>, << >>)

(* DelayedOperation.__call__: the partial client does what was staged. *)
Delayed(st, sessionId, op) ==
    CASE op.name = "create" ->
            PartialCreate(st, sessionId, op.path, op.value, op.acl,
                          op.ephemeral, op.sequence, FALSE)
      [] op.name = "set_data" -> PartialSet(st, op.path, op.value, op.version)
      [] op.name = "delete" -> PartialDelete(st, op.path, op.version, FALSE)
      [] op.name = "check" -> DelayedCheck(st, op.path, op.version)

(* FakeStorage.transaction on entry: copies of the two dicts.  The copy of *)
(* _paths holds the very nodes _paths holds, so it changes with every node *)
(* that is changed in place: `kept` is the copy as it is by now, `fresh`   *)
(* the paths whose node was made since and is not the one copied.          *)
Begun(st) ==
    [err |-> OK, st |-> st, kept |-> st.paths, counters |-> st.sequences,
     fresh |-> {}, results |-> << >>, data |-> << >>, child |-> << >>]

(* FakeStorage.transaction when the body raised: the copies are put back. *)
PutBackPaths(run) == [paths |-> run.kept, sequences |-> run.st.sequences]
PutBack(run) == [paths |-> run.kept, sequences |-> run.counters]

(* The loop of commit: the operations in turn, up to the first that        *)
(* raises.  set changes the node where it is; create puts a new one.       *)
RunNext(run, done, op) ==
    LET path    == NormPath(op.path, FALSE)
        inPlace == op.name = "set_data" /\ path \notin run.fresh
    IN  IF run.err # OK THEN run
        ELSE IF done.err # OK THEN [run EXCEPT !.err = done.err, !.st = done.st]
        ELSE [run EXCEPT
                !.st      = done.st,
                !.kept    = IF inPlace
                            THEN Put(@, path, done.st.paths[path]) ELSE @,
                !.fresh   = IF op.name = "create" THEN @ \cup {done.result}
                            ELSE @,
                !.results = Append(@, Gives(op.name, done.result)),
                !.data    = @ \o done.data,
                !.child   = @ \o done.child]

RunAll(st, sessionId, ops) ==
    FoldLeft(LAMBDA run, op :
                 RunNext(run, Delayed(run.st, sessionId, op), op),
             Begun(st), ops)

(* What commit returns when an operation raised: RolledBack for those done *)
(* before it, what it raised, and RuntimeInconsistency up to the number of *)
(* operations.                                                             *)
Marker(err) ==
    CASE err = "StopTransactionBadVersion" -> "BadVersion"
      [] err = "StopTransactionNoExists"   -> "NoNode"
      [] OTHER                             -> err

RolledBackResults(run, ops) ==
    [i \in DOMAIN ops |->
        IF i <= Len(run.results) THEN Raises("RolledBack")
        ELSE IF i = Len(run.results) + 1 THEN Raises(Marker(run.err))
        ELSE Raises("RuntimeInconsistency")]

-----------------------------------------------------------------------------
(* __exit__ of a block that did not raise: nothing to do for a            *)
(* transaction that was committed in it.                                   *)
ExitsDone(call) == call.exit /\ committed[call.txn]

(* commit(), and __exit__ which commits unless that was done: the          *)
(* committed flag is tested and the client verified, no lock held.         *)
CommitCall(t) ==
    \E call \in Offered(t) :
        LET x     == call.txn
            raise == Both(CheckTxState(x), Verify(TxnClient[x]))
        IN  /\ call.op = "commit"
            /\ Begins(t, call)
            /\ IF ExitsDone(call) THEN Returns(t, None)
               ELSE IF raise # OK THEN Returns(t, Raises(raise))
               ELSE /\ Goto(t, "commit")
                    /\ frame' = [frame EXCEPT ![t].call = call]
                    /\ UNCHANGED result
            /\ UNCHANGED <<storageVars, clientVars, nextSession, ghostVars,
                           txnVars>>

(* The exceptions of an operation that commit lets through to its caller;  *)
(* of well-typed operations only a create with an ACL raises one.          *)
Bubbles == {"NotImplemented"}

(* commit() from the transaction lock to the end of the storage            *)
(* transaction.  The lock is tried and the flag tested again; the          *)
(* operations run; if one raised the storage is put back and the results   *)
(* say so, or the exception goes on to the caller; else the watches are    *)
(* kept for storage.inform.                                                *)
LockedUnchecked(x) == TryTxnLock(x)
Locked(x) == Both(TryTxnLock(x), CheckTxState(x))

CommitRun(t) ==
    LET x      == frame[t].call.txn
        ops    == operations[x]
        run    == RunAll(Store, session[TxnClient[x]], ops)
        events == Rounds(run.child, "child") \o Rounds(run.data, "data")
        named  == {run.results[i].create : i \in {i \in DOMAIN ops :
                                              /\ ops[i].name = "create"
                                              /\ ops[i].sequence}}
    IN  /\ pc[t] = "commit"
        /\ IF Locked(x) # OK
           THEN /\ Returns(t, Raises(Locked(x)))
                /\ UNCHANGED <<paths, sequences, ghostVars, txnLock, applied>>
           ELSE IF run.err # OK
           THEN /\ Become(PutBack(run))
                /\ Goto(t, "rolledback")
                /\ result' = [result EXCEPT ![t] =
                       IF run.err \in Bubbles THEN Raises(run.err)
                       ELSE Gives("commit", RolledBackResults(run, ops))]
                /\ txnLock' = [txnLock EXCEPT ![x] = t]
                /\ UNCHANGED <<frame, ghostVars, applied>>
           ELSE /\ Become(run.st)
                /\ Goto(t, "inform")
                /\ frame' = [frame EXCEPT ![t].events = events]
                /\ result' = [result EXCEPT ![t] = Gives("commit", run.results)]
                /\ owed' = owed \cup Owing(frame'[t].events)
                /\ issued' = IssuedSince(issued \cup named, run.st)
                /\ txnLock' = [txnLock EXCEPT ![x] = t]
                /\ applied' = [applied EXCEPT ![x] = @ + 1]
        /\ UNCHANGED <<clients, clientVars, opsDone, nextSession, operations,
                       committed>>

(* The end of commit(), the clients informed: committed, and the lock is   *)
(* released.                                                               *)
CommitDone(t) ==
    /\ pc[t] = "committed"
    /\ committed' = [committed EXCEPT ![frame[t].call.txn] = TRUE]
    /\ txnLock' = [txnLock EXCEPT ![frame[t].call.txn] = None]
    /\ Returns(t, result[t])
    /\ UNCHANGED <<storageVars, clientVars, opsDone, nextSession, ghostVars,
                   operations, applied>>

(* The end of a commit() that did not go through: the lock it held over    *)
(* the storage transaction is released, and it answers or raises.          *)
CommitFailed(t) ==
    /\ pc[t] = "rolledback"
    /\ txnLock' = [txnLock EXCEPT ![frame[t].call.txn] = None]
    /\ Returns(t, result[t])
    /\ UNCHANGED <<storageVars, clientVars, opsDone, nextSession, ghostVars,
                   operations, committed, applied>>

-----------------------------------------------------------------------------
ClientStep(t) == Step(t) /\ UNCHANGED txnVars
TxnStep(t)    == \/ StageCall(t) \/ StageAppend(t)
                 \/ CommitCall(t) \/ CommitRun(t) \/ CommitDone(t)
                 \/ CommitFailed(t)

TxnNext ==
    \/ \E t \in Threads : ClientStep(t) \/ TxnStep(t)
    \/ Terminating /\ UNCHANGED txnVars

TxnRunning(t) == pc[t] # "idle" /\ (ClientStep(t) \/ TxnStep(t))

TxnSpec ==
    TxnInit /\ [][TxnNext]_allVars /\ \A t \in Threads : WF_allVars(TxnRunning(t))

-----------------------------------------------------------------------------
(* The step of a commit that is refused the lock or whose operations did   *)
(* not all run.                                                            *)
NotThrough(t) == pc[t] = "commit" /\ pc'[t] \in {"idle", "rolledback"}

(* A commit that returns without going through leaves the storage as it    *)
(* found it, data and versions included: "a transaction either applies     *)
(* every staged op or none".  FakeStorage.transaction puts back a copy of  *)
(* the dict of nodes, and the nodes in it are those set() wrote to.        *)
AllOrNothing ==
    [][\A t \in Threads :
          NotThrough(t) => UNCHANGED <<paths, sequences>>
      ]_allVars

(* What does hold of a commit that did not go through: the nodes that      *)
(* exist, whose they are and the sequence counters are as before, whatever *)
(* mix of creates, deletes and sequence creates ran before the operation   *)
(* that raised.                                                            *)
FailedCommitKeepsTree ==
    [][\A t \in Threads :
          NotThrough(t) =>
              /\ DOMAIN paths' = DOMAIN paths
              /\ \A p \in DOMAIN paths :
                    /\ paths'[p].ephemeral = paths[p].ephemeral
                    /\ paths'[p].owner = paths[p].owner
              /\ sequences' = sequences
      ]_allVars

(* The operations of a transaction are applied at most once, also when two *)
(* threads commit it at a time: the committed flag is tested again under   *)
(* the transaction lock, which is held until the flag is set.              *)
CommitsOnce == \A x \in Txns : applied[x] <= 1

(* While a thread commits a transaction and once it is committed, nothing  *)
(* is staged on it: what commit ran and informed of is what it holds       *)
(* (_add tries the lock commit holds and tests the committed flag).        *)
StagedIsFinal ==
    [][\A x \in Txns :
          LET committing == \E t \in Threads : /\ Holds(t, x)
                                               /\ frame[t].call.op = "commit"
          IN  committing \/ committed[x] => operations'[x] = operations[x]
      ]_allVars

=============================================================================
