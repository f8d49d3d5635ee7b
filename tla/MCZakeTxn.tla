----------------------------- MODULE MCZakeTxn -----------------------------
(***************************************************************************)
(* ZakeTxn for TLC: one transaction that two threads of a client stage on  *)
(* and commit, beside plain calls on the same tree.                        *)
(***************************************************************************)
EXTENDS ZakeTxn, MCZakeClient

CONSTANTS x1

stage(x, op) == [op |-> "stage", txn |-> x, staged |-> op]
commit(x, exit) == [op |-> "commit", txn |-> x, exit |-> exit]

txnCreate(path, value, ephemeral, sequence) ==
    [name |-> "create", path |-> path, value |-> value, acl |-> FALSE,
     ephemeral |-> ephemeral, sequence |-> sequence]
withAcl(op) == [op EXCEPT !.acl = TRUE]
txnSet(path, value, version) ==
    [name |-> "set_data", path |-> path, value |-> value, version |-> version]
txnDelete(path, version) ==
    [name |-> "delete", path |-> path, version |-> version]
txnCheck(path, version) ==
    [name |-> "check", path |-> path, version |-> version]

OfFirst == (x1 :> c1)

(* One thread stages and commits; the other makes and changes the node the *)
(* operations are about, stages too, and commits the same transaction.     *)
(* One of the creates comes with an ACL, which no operation takes.  The    *)
(* first may close the client and the second restart it, so that a close   *)
(* and a commit fall between the two halves of a restart.                  *)
TxnMenu ==
    (t1 :> {stage(x1, txnCreate(AB, "x", TRUE, TRUE)),
            stage(x1, txnSet(A, "x", -1)),
            stage(x1, txnDelete(A, -1)),
            stage(x1, txnCheck(A, 0)),
            stage(x1, withAcl(txnCreate(E, "x", FALSE, FALSE))),
            close(TRUE),
            commit(x1, FALSE)})
 @@ (t2 :> {create(A, "", FALSE, FALSE, FALSE),
            stage(x1, txnSet(A, "x", 0)),
            call("get_acls"), call("restart"),
            commit(x1, FALSE), commit(x1, TRUE)})

=============================================================================
