---------------------------- MODULE MCZakeClient ----------------------------
(***************************************************************************)
(* ZakeClient for TLC: two or three names, two clients, and the calls each *)
(* thread may make in each configuration.                                  *)
(***************************************************************************)
EXTENDS ZakeClient

CONSTANTS c1, c2, t1, t2, t3, w1, l1

MCBaseOrder == <<"", "a", "b", "e">>
MCData      == {"", "x"}

A  == <<PlainName("a")>>
AB == <<PlainName("a"), PlainName("b")>>
E  == <<PlainName("e")>>
EB == <<PlainName("e"), PlainName("b")>>
ASlash == <<PlainName("a"), EmptyName>>     \* "/a/"

NoCounters == << >>

create(path, value, ephemeral, sequence, makepath) ==
    [op |-> "create", path |-> path, value |-> value, acl |-> FALSE,
     ephemeral |-> ephemeral, sequence |-> sequence, makepath |-> makepath]
set(path, value, version) ==
    [op |-> "set", path |-> path, value |-> value, version |-> version]
delete(path, version, recursive) ==
    [op |-> "delete", path |-> path, version |-> version,
     recursive |-> recursive]
read(op, path, watch) == [op |-> op, path |-> path, watch |-> watch]
call(op) == [op |-> op]
close(stop) == [op |-> "close", close_handler |-> stop]
command(cmd) == [op |-> "command", cmd |-> cmd]
ensure_path(path) == [op |-> "ensure_path", path |-> path]
listener(op, l) == [op |-> op, listener |-> l]

(* One thread on each of two clients. *)
OneEach == (t1 :> c1) @@ (t2 :> c2)

(* The tree and the sessions: ephemeral and sequence nodes made and        *)
(* deleted by one client while the other closes, starts and restarts.      *)
(* "/a/" with a sequence number is a child of "/a", and "/a" otherwise.    *)
TreeMenu ==
    (t1 :> {create(E, "x", TRUE, FALSE, FALSE),
            create(ASlash, "x", FALSE, TRUE, TRUE),
            delete(A, -1, TRUE),
            close(TRUE), call("restart")})
 @@ (t2 :> {create(EB, "", FALSE, FALSE, FALSE),
            create(AB, "", TRUE, TRUE, FALSE),
            delete(ASlash, 0, FALSE),
            set(A, "x", 0),
            close(TRUE), call("start"), command("ruok")})

(* Watches: a thread of one client reads with watches while a second      *)
(* thread of it creates an ephemeral node, closes and starts it, and the   *)
(* other client makes, writes and deletes what is watched: the rounds of   *)
(* two mutations and of a purge run between each other.                    *)
TwoOnSecond == (t1 :> c1) @@ (t2 :> c2) @@ (t3 :> c2)

WatchMenu ==
    (t1 :> {create(AB, "x", FALSE, FALSE, TRUE),
            set(A, "x", -1),
            delete(A, -1, TRUE)})
 @@ (t2 :> {close(TRUE), call("start"),
            create(E, "", TRUE, FALSE, FALSE)})
 @@ (t3 :> {read("exists", A, TRUE),
            read("get", AB, TRUE),
            read("get_children", Root, TRUE)})

(* Two threads on one client: one creates an ephemeral node while the      *)
(* other closes the client.                                                *)
BothOnFirst == (t1 :> c1) @@ (t2 :> c1)

OrphanMenu ==
    (t1 :> {create(E, "x", TRUE, FALSE, FALSE)})
 @@ (t2 :> {close(TRUE)})

(* The locks: each client is closed and restarted by its thread while the  *)
(* other thread's calls fire watches on it, with a listener on each.       *)
LockMenu ==
    (t1 :> {call("restart"), close(TRUE),
            listener("add_listener", l1),
            create(E, "x", TRUE, FALSE, FALSE),
            read("exists", A, TRUE)})
 @@ (t2 :> {close(TRUE), call("start"),
            listener("add_listener", l1), listener("remove_listener", l1),
            call("expire"), call("get_acls"),
            create(A, "", TRUE, FALSE, FALSE),
            read("get_children", Root, TRUE)})

(* makepath half done: a thread creates an ephemeral node and the          *)
(* ancestors it lacks while another closes the client, and a thread of the *)
(* second client watches the children of the root.                         *)
TwoOnFirst == (t1 :> c1) @@ (t2 :> c1) @@ (t3 :> c2)

PartialMenu ==
    (t1 :> {create(AB, "x", TRUE, FALSE, TRUE)})
 @@ (t2 :> {close(TRUE)})
 @@ (t3 :> {read("get_children", Root, TRUE)})

(* A client with an ephemeral node two levels down closes while the other  *)
(* watches the children of both ancestors.                                 *)
PurgeMenu ==
    (t1 :> {create(AB, "x", TRUE, FALSE, TRUE), close(TRUE)})
 @@ (t2 :> {read("get_children", Root, TRUE), read("get_children", A, TRUE)})

(* The handler: one thread of a client makes a call through the handler,   *)
(* waits for the handler to drain, watches and ensures a path, while a     *)
(* second kills and starts the client and deletes, and the dispatch thread *)
(* of the handler makes the call that was dispatched.                      *)
WithWorker == (t1 :> c1) @@ (w1 :> c1) @@ (t2 :> c1)

HandlerMenu ==
    (t1 :> {Async(create(AB, "x", TRUE, FALSE, TRUE)),
            call("flush"), ensure_path(AB),
            read("get_children", Root, TRUE)})
 @@ (w1 :> {})
 @@ (t2 :> {command("kill"), close(FALSE), call("start"), call("sync"),
            delete(A, -1, TRUE)})

(* A flush while another thread kills the client. *)
FlushMenu ==
    (t1 :> {call("flush")}) @@ (w1 :> {}) @@ (t2 :> {command("kill")})

(* The counter of "/" two creates before SEQ_ROLLOVER, and sequence       *)
(* creates under "/" by both threads.                                      *)
NearRollover == Root :> 2147483646

RolloverMenu ==
    (t1 :> {create(A, "", FALSE, TRUE, FALSE)})
 @@ (t2 :> {create(A, "x", FALSE, TRUE, FALSE)})

=============================================================================
