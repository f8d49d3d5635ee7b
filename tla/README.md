# Zake in TLA+

A model-checking project for **Zake** (`src/Zake/zake/`), the in-process
ZooKeeper emulator with the kazoo client interface. The other sources of the
repository (the TensorFlowOnSpark MNIST examples, the `python_shebang` setup and
test, the `setup.py` files) hold no protocol or shared state and are listed in
`PROJECT.json` as not modelled.

## The system

| Part | Source | State | Operations |
|---|---|---|---|
| Tree and counters | `fake_storage.py` | `_paths` (path → node: data, version, ephemeral, owner), `_sequences` (parent → next suffix) | `create`, `set`, `pop`, `get`, `get_children`, `get_parents`, `transaction` |
| Attached clients | `fake_storage.py` | `_clients` | `attach`, `purge`, `inform` |
| Partial client | `fake_client.py` `_PartialClient` | `session_id` | `create` (makepath, sequence, ephemeral), `set`, `delete` (recursive): change the tree and return the watches to fire |
| Client | `fake_client.py` `FakeClient` | `_connected`, `expired`, `_child_watchers`, `_data_watchers`, `_listeners`, `_open_close_lock` | `create`, `set`, `delete`, `get`, `exists`, `get_children`, `start`, `close`/`stop`, `restart`, `add_listener`, `remove_listener`, `_fire_watches`, `_fire_state_change`, `flush`, `ensure_path`, `command`, `*_async` |
| Transaction | `fake_client.py` `FakeTransactionRequest` | `operations`, `committed`, `_lock` | `create`, `set_data`, `delete`, `check` (staging through `_add`), `commit`, `__exit__` |
| Path helpers | `utils.py` | none | `normpath`, `partition_path`, `is_child_path`, `dispatch_async`, `make_cb` |
| Handler | kazoo, not in `src/`; section 4.3 of `spec.md` | callback queue, dispatch thread | `dispatch_callback`, `start`, `stop` |

Several clients share one storage, and several application threads may use one
client. A mutating call verifies the connection, changes the tree under the
storage lock, and then — outside that lock — has `storage.inform` hand the
staged events to every attached client, each of which pops the matching
watchers under its own `open_close_lock` and gives them to its handler. What
makes this hard to test is all in the gaps between those steps: verify against
close, read against watch registration, commit against inform, one
transaction used by two threads, a rollback that restores a shallow copy, and
calls that run later, on the dispatch thread, than they were asked for.

## Modules

| Module | Models | How |
|---|---|---|
| `ZakePaths` | paths, `normpath`, `is_child_path`, `partition_path`, `sorted` | A path is a sequence of names `[base, suffix]`, the root the empty sequence; a trailing slash is a last name with the empty base (`EmptyName`), which `NormPath` drops or keeps as `utils.normpath` does; a sequence create fills the suffix with the counter. `PathPieces` is the loop of `partition_path`; `IsChildPath` compares the pieces of two paths with the empty ones left out (`Pieces`), as `is_child_path` does. `PathLess` is the order of the strings, including where the `'%010d'` suffixes of negative counters fall. |
| `ZakeStorage` | `FakeStorage` tree operations | Operators over a store `[paths, sequences]` that return the new store with the exception raised or `"ok"`; the variables `paths`, `sequences`, `clients`. |
| `ZakePartial` | `_PartialClient`, the locked part of `purge` | Operators returning an outcome `[err, st, result, data, child]`: the store and the data and child watches staged. |
| `ZakeClient` | `FakeClient`, `attach`/`purge`/`inform`, `utils.dispatch_async`, the handler | One action per step of each call, per thread (`pc`, `frame`, `result`); `oclOwner` is the `open_close_lock`; `dispatched[c]` is the queue of the handler of client `c`, `running[c]` its lifecycle, and the thread of `Workers` that belongs to `c` its dispatch thread. |
| `ZakeTree` | what the storage promises its readers | One variable `tree`; a step is a whole create, write, delete or purge. `ZakeClient` implements it with `tree <- paths`. |
| `ZakeTxn` | `FakeTransactionRequest`, `FakeStorage.transaction` | Extends `ZakeClient` with `operations`, `committed`, `txnLock`; commit runs its operations with `RunAll` and puts the storage back with `PutBack`. |
| `MCZakeClient`, `MCZakeTxn` | — | Constants for TLC: names, clients, threads, and the calls each thread may make in each run. |

### Steps

A call is one action per stretch of code between two points where another
thread can see or change what the call uses:

* `create`/`set`/`delete`: `Enter` (verify) · `DoCreate`/`DoSet`/`DoDelete`
  (the partial operation, one hold of the storage lock) · `Inform` (the copy of
  the client set) · `FireWatches` once per client and path (that client's
  `open_close_lock`).
* `get`/`exists`/`get_children`: `Enter` (verify, `normpath`) ·
  `DoGet`/`DoExists`/`DoGetChildren` (read under the storage lock) ·
  `AddWatch` (append to the end of the path's list, under the watches lock).
* `set_acls`, `get_acls` and their async forms: `AclCall`, which raises
  `NotImplementedError` without looking at the client.
* `start`: `StartCall` (unlocked test) · `StartLock` (lock, test, connected) ·
  `StartClear` · `Attach` · `StartSession` (session id, CONNECTED, unlock). The
  steps are kept apart because other threads pass `verify` as soon as
  `_connected` is set, before the client is attached or has a session.
* `close`: `CloseCall` · `CloseLock` (lock, test, disconnected, watches
  cleared, detached) · `PurgeRemove` · `Inform`, `FireWatches` · `CloseLost`
  (LOST, the handler stopped unless `close_handler=False`, session forgotten,
  unlock). Disconnecting, clearing and detaching are
  one step: between them nothing another thread does depends on which of the
  three has happened, since `verify` already fails and `_fire_watches` waits
  for the lock.
* `restart`: `RestartCall` · `RestartLock`, then the steps of close and start
  with the lock held throughout.
* `ensure_path`: `Enter` (verify, and the pieces of the path) · for each piece
  `EnsureNext` (the verify of `create`) and the steps of a create; a piece
  that exists (`NodeExists`) is passed over, any other error ends the call.
* `command`: `Command` (verify and the answer); `kill` goes on to
  `KillClose`, the test of `close()` before the lock, which is a read of its
  own after the verify: a client another thread has disconnected in between
  is left alone and the call returns without waiting for the lock; otherwise
  the steps of close follow, and then `''` is returned. `sync`, `server_version`: `Sync`.
* `*_async`: `DispatchAsync` appends the call to the client's queue and
  returns. The dispatch thread takes it (`Offered`) and makes the call with
  the very actions above; its `result` is what `async_result` is set to.
  Watchers, listeners and the callback of a flush are taken with
  `RunCallback`.
* `flush`: `Enter` (verify) · `FlushDispatch` · `FlushWait`, the loop, which
  returns once the dispatch thread has taken the callback (`Flipped`).
* `_add`: `StageCall` (lock tried, flag tested) · `StageAppend` (append,
  unlock). `commit`: `CommitCall` (flag and verify, no lock) · `CommitRun`
  (lock tried, flag tested, the storage transaction) · `Inform`, `FireWatches`
  · `CommitDone` (committed, unlock). A `CommitRun` in which an operation
  raised puts the storage back and keeps the lock; `CommitFailed` then
  releases it and answers with the result vector, or, for the exceptions
  commit lets through (`Bubbles`: of well-typed operations only the
  `NotImplementedError` of a create with an ACL), raises. Until then a
  concurrent `_add` or `commit` of the same transaction is refused with
  `RuntimeError`. A `set_data` in a transaction acts on the normalised path,
  as `_PartialClient.set` does. `__exit__` commits unless the transaction
  is committed (`ExitsDone`).

`Init` is the storage and the clients as constructed; the clients of the
constant `Started` have had `start()` called on them, one after the other,
before the threads begin (attached, connected, a session each, the handler
running), the others are started by a thread of the run if at all.

`owed`, `issued` and `applied` are history variables used by the properties
only: `issued` holds every name a sequence create returned under a parent
that has existed ever since, whether the node is still there or not
(`IssuedSince`); `frame[t].seen` records what a read saw for the watcher it registers.

### Abstractions

Node data is one of two values; timestamps, `aversion`, `cversion`,
`dataLength` and the zxids are left out. Arguments are well typed (the
`isinstance` checks always pass), and of an ACL only whether one was given is
kept. Paths are absolute and free of repeated slashes, so what `normpath`
still has to do is the trailing slash: `/a/` is `<<a, EmptyName>>`, which
`set`, `delete`, the reads and `ensure_path` turn into `/a`, and which a
sequence create keeps, so that the node is `/a/0000000000`, a child of `/a`
named by the bare number and numbered by the counter of `/a`. Session
ids are fresh numbers (`uuid4` collisions are not considered). The answer of
`command` is the word asked for (`imok`, `stat`, `envi`, or `''`), not the text.

### The handler

kazoo's `SequentialThreadingHandler` is not part of the repository, so it is
modelled from section 4.3 of `spec.md` (these definitions are marked
`spec_modelled` in `PROJECT.json`): one dispatch thread per handler, which
invokes the callbacks in enqueue order and never inline from the caller.
A client owns the handler it makes (`handler=None` in `__init__`) and not one
it is given: `ownHandler` is `_own_handler`, chosen in `Init` among the
constructions the constant `HandlerGiven` allows (`Constructed`). `start()`
starts the handler either way, as the code does (the specification says "if
owned"); `close()` stops it only if the client owns it and `close_handler` is
true (`StopsHandler`). A handler that was given is the client's alone in the
model, and not started before the client is. The specification lists `stop()`
as lifecycle and says no more; the model gives it the reading that is kindest
to its callers: callbacks that were queued before the stop are still run
(`Served`), callbacks queued after it wait for the next start, and `stop()`
itself does not wait for the dispatch thread. A `stop()` that joins the thread
while `close()` holds the `open_close_lock` would block on a dispatch thread
that is itself waiting for that lock in `_fire_watches`; that behaviour is
kazoo's and is not claimed either way here. What the callbacks of the
application do is not modelled: running one is a step without effect.

## Runs

All runs use the names `a`, `b`, `e` and the empty name of a trailing slash,
the paths `/a`, `/a/`, `/a/b`, `/e`, `/e/b`, and data `""`, `"x"`. `MaxOps`
bounds the calls one thread makes.

| Run | Configuration | Result |
|---|---|---|
| `client_tree` | 2 clients, 1 thread each, 3 calls each from: ephemeral, sequence (of `/a/b` and of `/a/`), makepath creates; versioned and recursive deletes (of `/a/` too); set; close, start, restart, `command('ruok')` | `TypeOK`, `TreeIsRooted`, `NoChildUnderEphemeral`, `EphemeralOwnerLive`, `SequenceAhead`, `ImplementsTree` hold |
| `client_watch` | 2 clients, 3 threads, 2 calls each: one thread creates `/a/b` with makepath, writes `/a`, deletes `/a` recursively; a thread of the other client closes and starts it and creates the ephemeral `/e`; a second thread of that client reads `/a`, `/a/b` and the children of `/` with watches | `AtRestNoWatchOwed`, `WatchFiresOnce`, `DeepestFirst`, `FiresInRegistrationOrder` hold |
| `client_locks` | 2 clients, 1 thread each, 2 calls each from close, start, restart, listeners, expiry, `get_acls`, the create of an ephemeral node and watched reads | `CallsReturn` holds under weak fairness; `AtRestNoWatchOwed`, `WatchFiresOnce` hold |
| `txn_commit` | 1 client, 2 threads, 1 transaction, 3 calls each from stagings of create (one with an ACL)/set_data/delete/check, commit, `__exit__`, `get_acls`, a create outside, a close and a restart of the client | `TxnTypeOK`, `CommitsOnce`, `FailedCommitKeepsTree`, `StagedIsFinal` hold |
| `client_handler` | 1 client, constructed with a handler of its own or with one given to it, 2 application threads and the dispatch thread, 2 calls each from: async makepath create, flush, ensure_path, watched `get_children`; `command('kill')`, `close(close_handler=False)`, start, sync, recursive delete | `CallsReturn` holds under weak fairness, `ImplementsTree` holds |
| `orphan_ephemeral` | 1 client, 2 threads: ephemeral create against close | `EphemeralOwnerLive` violated |
| `missed_watch` | as `client_watch` | `AtRestDataWatchersCurrent` violated |
| `txn_atomicity` | as `txn_commit` | `AllOrNothing` violated |
| `seq_rollover` | storage constructed with the counter of `/` at 2147483646, 2 threads, sequence creates | `SequenceWrapsAsInt32` violated |
| `purge_order` | 2 clients: one creates the ephemeral `/a/b` with makepath and closes, the other watches the children of `/` and `/a` | `ParentsDeepestFirst` violated |
| `flush_close` | 1 client, its dispatch thread, one thread flushing, one sending `kill` | `FlushReturns` violated |
| `makepath_partial` | 2 clients, 3 threads, 1 call each: ephemeral makepath create of `/a/b` and close on one client, watched `get_children('/')` on the other | `AtRestNoWatchOwed` violated |

The bounds are the smallest at which every hazard the properties are about
occurs: two levels of paths give a parent with a child for recursive delete,
makepath and the ephemeral-parent check; two clients give a caller and a
watcher whose lifecycle is independent of it; a third thread gives a second
user of the watching client; two or three calls per thread give
read–mutate–close sequences. `client_handler` has one client because the
races it is about are between the application threads of a client and its own
dispatch thread; two calls per thread let a kill be followed by a start, so
that callbacks left in the queue of a stopped handler are taken up again; it
is checked for both constructions of the client, since only a handler the
client owns is ever stopped. In `client_locks` each client has an ephemeral
node, so that the purge of either close fires at the other client while its
own lock is held: two closes at once wait on each other unless the closing
client has left the attached set before the other copies it (`Detached`);
in `txn_commit` the two threads share one client, so that a close and a
commit of one thread fall between the stop and the start of the other's
restart, which must hold the lock from the one to the other (`TxnTypeOK`
includes `TypeOK`). In `client_locks`, with three calls per thread the run has 689,598 states and passes too, in
more time than a routine run is given. Every property of a passing run is shown to fail
when the definition it depends on is replaced by a plausible wrong one
(`PROJECT.json`, `mutants`) — for instance `SequenceAhead` with a counter that
does not advance, `CommitsOnce` without the second test of the committed flag.

### What the properties say

* **`TreeIsRooted`, `NoChildUnderEphemeral`** — the tree invariants, under
  interleaved creates, recursive deletes and purges.
* **`EphemeralOwnerLive`** — every ephemeral node belongs to the session of an
  attached client (or of one that `close` is just purging). Holds with one
  thread per client; fails with two (finding 1).
* **`SequenceAhead`** — the counter of a parent is beyond every suffix handed
  out under it since the parent exists, the names of nodes deleted or purged
  since included: no name is handed out twice under a parent that stays,
  although the counter is advanced before the checks and forgotten on a
  missing parent.
* **`AtRestNoWatchOwed`** — when all calls have returned, every watcher that
  was registered at an attached, connected client when a change it watches was
  committed has been fired or cleared by start/close.
* **`WatchFiresOnce`** — a watcher is handed to the handler at most once and is
  then out of the registry.
* **`DeepestFirst`** — the DELETED data events of one delete reach a client
  deepest path first.
* **`FiresInRegistrationOrder`** — of two watchers that one thread registered
  on one path and that fire for the same event, the one registered first is
  handed to the handler first, although the rounds of two mutations and of a
  purge interleave and a close or start may clear the lists in between
  (`_fire_watches` pops the whole list of a path and dispatches it in order;
  the reads append at the end).
* **`CallsReturn`** — `pc[t] # "idle" ~> (pc[t] = "idle" \/ Stranded(t))`: no
  thread, the dispatch thread included, waits for ever for an
  `open_close_lock`, ensure_path comes to its last piece, and a flush returns
  unless its callback came to the queue of a handler that its client owns
  and had stopped before (`Stranded`), which is finding 6. A flush on a
  client that was given its handler always returns.
* **`ImplementsTree`** — every step of `ZakeClient` is a step of `ZakeTree` or
  leaves the tree alone (see Refinement).
* **`CommitsOnce`, `StagedIsFinal`, `TxnTypeOK`** — the transaction lock
  protocol: applied at most once, nothing staged while or after commit, and
  the lock held exactly by the thread that is inside `_add` or past the
  storage transaction of a commit.
* **`FailedCommitKeepsTree`** — what a failed commit does restore: the set of
  nodes, their owners, the counters; also when the commit raises instead of
  answering (a create with an ACL after operations that were applied).

## Findings

1. **Ephemeral node of an ended session** (`orphan_ephemeral`).
   `fake_client.py:204-207`: `verify()` and the partial create are not under
   one lock. Thread A passes verify; thread B runs `close()` up to and
   including the purge; A creates the ephemeral node before B reaches the
   last line of close (`fake_client.py:409`), where the session id is
   forgotten. The node belongs to a session that has ended and is never
   purged. (Once close has finished, the create raises instead.)
2. **Watch registered after the event** (`missed_watch`).
   `fake_client.py:278-283`: `exists` reads, releases the storage lock, and
   appends the watcher later. A create and its whole inform in between leave
   the caller with `None` and a watcher that is not told the node exists. The
   same holds for `get` and `get_children`.
3. **Rollback keeps `set_data`** (`txn_atomicity`).
   `fake_storage.py:258`: the rollback copy is shallow and `set` writes into
   the node dicts (`fake_storage.py:122-128`). A transaction `set_data(/a)`,
   `check(/a, 0)` on a node at version 0 returns `[RolledBack, BadVersion]` and
   leaves `/a` with the new data at version 1.
4. **Rollover value** (`seq_rollover`). `fake_storage.py:34`: the counter goes
   from 2147483647 to −2147483647; the specification says −2147483648.
5. **Purge reports ancestors first** (`purge_order`). `fake_storage.py:154`:
   `purge` fires the child watches of the parents of what it removed in
   `sorted(parents)` order, `/` before `/a`; the partial delete reverses its
   list, and the specification's ordering section asks for deepest first in
   both.

6. **flush() never returns after a close** (`flush_close`).
   `fake_client.py:183-200`: `flush` verifies once and then loops until its
   callback has run. Thread A passes `verify()`; thread B runs `close()` (or
   `command('kill')`), which stops the handler; A dispatches its callback to
   a queue nothing takes from and sleeps in the loop for ever, on a client
   every other call of which raises `ConnectionClosedError`. Only a later
   `start()` would release it.
7. **makepath leaves ancestors and drops their events** (`makepath_partial`).
   `fake_client.py:503-511`: the missing ancestors are created one by one with
   the partial client's own `create`, and the watches to fire are kept in
   local lists until the node itself is created. When that last create
   raises — an ephemeral node asked for while a `close()` on another thread
   has just purged and forgotten the session (`SystemZookeeperError`) — `/a`
   stays in the tree and the CHILD event for `/` is lost with the exception:
   a client watching the children of `/` is never told.

Observed while modelling, without a run of its own: the result list of a
failed commit has one entry per staged operation (`RolledBackResults`), where
scenario S5 of the specification shows one more.

## Refinement

`ZakeTree` is the tree as a reader of the storage sees it: it starts as the
root alone and changes only by `Create` (a new node at version 0, ephemeral
exactly if a session owns it, under a non-ephemeral parent that exists,
together with the plain ancestors makepath added), `Write` (one node, new data,
the next version), `Delete` (one node other than the root with everything
below it) or `Purge` (all ephemeral nodes of one owner). `ZakeClient`
instantiates it with `tree <- paths`, and `ImplementsTree == Tree!Spec` is
checked as a property of `client_tree` and `client_handler`: however the steps
of creates, recursive deletes, purges, ensure_path and async calls of several
threads interleave, the tree never shows half of a delete or of a purge, a
version that was skipped or kept, or a node whose parent is missing. The
abstract `Create` deliberately admits what finding 7 leaves behind (ancestors
without the node): it is the tree that is specified, and the ancestors alone
are a legal tree; what is wrong there is the lost event, which
`AtRestNoWatchOwed` states. Sequence counters, watches and results are not part
of `ZakeTree`.

## Fairness

`Spec` has `WF_vars(Running(t))` for every thread `t`: a thread in the middle
of a call that can take its next step eventually takes it, and a dispatch
thread whose queue holds a callback it may serve eventually takes it (its loop
does nothing else). The wait of `flush` is a loop that looks again: while its
callback has not run, `FlushWait` changes nothing, so fairness never forces a
flush out of it. The code justifies
exactly this: threads are scheduled by the operating system, and every wait in
the modelled code is a blocking acquire of a lock, which is granted once the
lock is free and stays free. Nothing stronger is assumed — a lock that is
taken again and again by others may starve a waiter under weak fairness, and
`CallsReturn` holds nevertheless because every holder releases after a bounded
number of its own steps and calls are bounded by `MaxOps`. Threads are not
required to start calls: `Terminating` lets the system stop when all calls have
returned, so the deadlock check of the passing runs means that some thread can
always finish its call.

## Not modelled

* **`retry`** and the recipes bound in `__init__` (`Lock`, `Barrier`,
  `Election`, ...): `retry` verifies and hands the call to a copy of a
  `KazooRetry`; that class and the recipes are kazoo's, not in the repository,
  and the specification leaves the retry policy open, so there is nothing of
  this program to translate beyond the verify. The exceptions a retry policy
  retries (`SessionExpiredError` here) are raised by `verify` and `command`
  only, before a create, set or delete has changed anything, so a retried
  mutation is not applied twice.
* **The string work of `normpath`** (a missing leading slash, repeated
  slashes, `.` and `..`) is kazoo's; only the trailing slash, which
  `utils.normpath` handles itself, is modelled. The `isinstance` checks
  always pass.
* **The properties of `FakeClient`** (`handler`, `storage`, `session_id`,
  `connected`, ...): each returns a field.
* **Timestamps and derived stat fields** (`millitime`, `created_on`,
  `updated_on`, `aversion`, `cversion`, `dataLength`): data no property tells
  apart.
* **A handler shared by several clients**: a handler given to `__init__` is
  modelled as the handler of that client alone. Sharing needs the queue and
  the dispatch thread keyed by handler, and a dispatch thread that acts for
  whichever client the callback belongs to; the run it calls for (the owner
  closes and stops the handler under a client that still uses it) is listed
  here and not checked.
* **What `stop()` of the kazoo handler does beyond ending the dispatch**, in
  particular joining the dispatch thread: see *The handler*.
* **An order of events across calls**: two mutations commit in one order and
  inform outside the storage lock, so their events can reach a handler in the
  other order. The model produces these behaviours (`client_watch`), and
  checks what is promised of them: an order within one call (`DeepestFirst`),
  the registration order on one path (`FiresInRegistrationOrder`), and that
  no watcher is fired twice or left owed.
* **The TensorFlowOnSpark examples, `python_shebang`, the `setup.py` files**:
  numeric scripts and packaging, with no state or protocol to check.
