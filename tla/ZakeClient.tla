----------------------------- MODULE ZakeClient -----------------------------
(***************************************************************************)
(* FakeClient (zake/fake_client.py) and the client side of FakeStorage     *)
(* (attach, purge, inform in zake/fake_storage.py): several clients on one *)
(* storage, each used by one or more application threads.                  *)
(*                                                                         *)
(* A call is cut into steps where the code takes or leaves a lock that     *)
(* another thread can be waiting for or racing with:                       *)
(*   create/set/delete  verify | partial operation (storage lock) |        *)
(*                      inform: copy of the client set (client lock) |     *)
(*                      one _fire_watches round per client and path        *)
(*                      (that client's open_close_lock)                    *)
(*   get/exists/...     verify | read (storage lock) | append the watcher  *)
(*   start              unlocked test | lock, connected | clear watches |  *)
(*                      attach | session id, CONNECTED, unlock             *)
(*   close              unlocked test | lock, disconnected, clear, detach  *)
(*                      | remove ephemerals | inform others | LOST, no     *)
(*                      session, unlock                                    *)
(*   ensure_path        verify | a whole create for each piece of the path *)
(*   flush              verify | dispatch of its callback | the wait       *)
(*   ..._async          dispatch of the call, which the dispatch thread of *)
(*                      the handler makes when it comes to it              *)
(* Steps that only touch state nobody else can see in between are merged.  *)
(*                                                                         *)
(* Each client has a handler of its own, made by it or given to it when it *)
(* was constructed: dispatched[c] is the sequence of callbacks given to    *)
(* it, which its dispatch thread takes in that order while the handler     *)
(* runs.  A handler that several clients share is not modelled.            *)
(***************************************************************************)
EXTENDS ZakePartial

CONSTANTS
    Clients,        \* the FakeClient objects sharing the storage
    Threads,        \* the application threads and the dispatch threads
    Workers,        \* the dispatch threads, one of the handler of a client
    ClientOf,       \* the client each thread calls
    Menu,           \* the calls each thread may make
    Listeners,      \* the state listeners that may be added
    Started,        \* the clients that start() has completed on initially
    HandlerGiven,   \* the clients that may be constructed with a handler
    InitSequences,  \* the sequence counters the storage is constructed with
    MaxOps,         \* bound: calls made by one thread
    None            \* Python's None

ASSUME /\ ClientOf \in [Threads -> Clients]
       /\ Workers \subseteq Threads
       /\ \A v, w \in Workers : ClientOf[v] = ClientOf[w] => v = w
       /\ DOMAIN Menu = Threads
       /\ Started \subseteq Clients
       /\ HandlerGiven \subseteq Clients
       /\ MaxOps \in Nat

VARIABLES
    connected,      \* FakeClient._connected
    expired,        \* FakeClient.expired
    session,        \* _PartialClient.session_id, NoSession for None
    watchers,       \* FakeClient._child_watchers and ._data_watchers
    listeners,      \* FakeClient._listeners
    oclOwner,       \* the thread holding FakeClient._open_close_lock
    dispatched,     \* the callbacks given to handler.dispatch_callback
    running,        \* the handler: whether it is started, and how many
                    \* callbacks were in its queue when it was stopped
    ownHandler,     \* FakeClient._own_handler
    pc,             \* where each thread is in its call
    frame,          \* the local variables of the call
    result,         \* what the last call of the thread returned or raised
    opsDone,        \* calls started by the thread; of a dispatch thread,
                    \* the callbacks it has taken from its queue
    nextSession,    \* source of fresh session ids (uuid4)
    owed,           \* history: watchers registered when a change they
                    \* watch was committed, and not yet fired or cleared
    issued          \* history: the names sequence creates have returned
                    \* under parents that exist since

sessionVars  == <<connected, expired, session>>
registryVars == <<watchers, listeners>>
handlerVars  == <<dispatched, running, ownHandler>>
clientVars   == <<sessionVars, registryVars, oclOwner, handlerVars>>
threadVars   == <<pc, frame, result, opsDone>>
ghostVars    == <<owed, issued>>
vars == <<storageVars, clientVars, threadVars, nextSession, owed, issued>>

me(t) == ClientOf[t]

Mutations == {"create", "set", "delete"}
Reads     == {"get", "exists", "get_children"}
Lifecycle == {"close", "restart", "command"}
Verified  == Mutations \cup Reads \cup {"ensure_path", "flush"}
Labels    == Verified \cup
             {"idle", "inform", "fire", "watch", "start", "clear", "attach",
              "flushing",
              "session", "kill", "close", "purge", "lost", "restart",
              "stage", "commit", "committed", "rolledback"} \* ZakeTxn's

WatchKind  == {"child", "data"}
KazooState == {"CONNECTED", "LOST"}
NoWatchers == [child |-> << >>, data |-> << >>]
NoFrame    == [call |-> None, events |-> << >>, work |-> << >>, seen |-> None,
               restart |-> FALSE, pieces |-> None]

(* The watchers of a client, of one registry or of one path of it. *)
WatchersAt(c, kind, path) ==
    IF path \in DOMAIN watchers[c][kind] THEN watchers[c][kind][path]
    ELSE << >>
WatchersOf(c) ==
    UNION {UNION {Range(watchers[c][k][p]) : p \in DOMAIN watchers[c][k]} :
              k \in WatchKind}

TypeOK ==
    /\ StorageTypeOK
    /\ clients \subseteq Clients
    /\ connected \in [Clients -> BOOLEAN]
    /\ expired \in [Clients -> BOOLEAN]
    /\ session \in [Clients -> Nat]
    /\ \A c \in Clients, k \in WatchKind :
          /\ DOMAIN watchers[c][k] \subseteq Path
          /\ \A p \in DOMAIN watchers[c][k] :
                \A i \in DOMAIN watchers[c][k][p] :
                   watchers[c][k][p][i].by \in Threads
    /\ listeners \in [Clients -> SUBSET Listeners]
    /\ oclOwner \in [Clients -> Threads \cup {None}]
    /\ \A c \in Clients : \A i \in DOMAIN dispatched[c] :
          /\ dispatched[c][i].kind \in WatchKind \cup {"listener", "async", ""}
          /\ dispatched[c][i].kind \in WatchKind \cup {"listener"} =>
                dispatched[c][i].event.type \in EventType \cup KazooState
    /\ running \in [Clients -> [on : BOOLEAN, upTo : Nat]]
    /\ ownHandler \in [Clients -> BOOLEAN]
    /\ pc \in [Threads -> Labels]
    /\ \A t \in Threads :
          /\ pc[t] = "idle" <=> frame[t] = NoFrame
          /\ pc[t] = "ensure_path" => frame[t].pieces \in Seq(Path)
          /\ pc[t] = "fire" <=> frame[t].work # << >>
          /\ frame[t].restart => oclOwner[me(t)] = t
    /\ \A t \in Threads :
          opsDone[t] \in 0..(IF t \in Workers THEN Len(dispatched[me(t)])
                             ELSE MaxOps)
    /\ nextSession \in Nat \ {NoSession}
    /\ \A w \in owed : w.by \in Threads
    /\ issued \subseteq Path

(* FakeClient(handler=None): a client owns the handler it makes itself,    *)
(* and not one it is given.                                                *)
Constructed ==
    {own \in [Clients -> BOOLEAN] :
        \A c \in Clients : own[c] \/ c \in HandlerGiven}

(* Clients are constructed on one storage; those in Started have had       *)
(* start() called on them in turn, with no listener added before.  Their   *)
(* session ids are distinct numbers, and which is whose is of no matter.   *)
FirstSessions ==
    CHOOSE ids \in [Started -> 1..Cardinality(Started)] : IsInjective(ids)

Init ==
    /\ paths = NewStorage(InitSequences).paths
    /\ sequences = NewStorage(InitSequences).sequences
    /\ clients = Started
    /\ session = [c \in Clients |-> IF c \in Started THEN FirstSessions[c]
                                    ELSE NoSession]
    /\ connected = [c \in Clients |-> c \in Started]
    /\ expired = [c \in Clients |-> FALSE]
    /\ watchers = [c \in Clients |-> NoWatchers]
    /\ listeners = [c \in Clients |-> {}]
    /\ oclOwner = [c \in Clients |-> None]
    /\ dispatched = [c \in Clients |-> << >>]
    /\ running = [c \in Clients |-> [on |-> c \in Started, upTo |-> 0]]
    /\ ownHandler \in Constructed
    /\ pc = [t \in Threads |-> "idle"]
    /\ frame = [t \in Threads |-> NoFrame]
    /\ result = [t \in Threads |-> None]
    /\ opsDone = [t \in Threads |-> 0]
    /\ nextSession = Cardinality(Started) + 1
    /\ owed = {}
    /\ issued = {}

-----------------------------------------------------------------------------
(* A callback as the handler is given it: utils.make_cb. *)
Callback(t, kind, func, event) ==
    [kind |-> kind, callback |-> func, event |-> event,
     from |-> <<t, opsDone[t]>>]

(* What a thread may do next.  An application thread makes a call of its   *)
(* menu.  The dispatch thread of a handler takes the callback that has     *)
(* waited longest: the call an ..._async method wrapped, which it makes as *)
(* utils.dispatch_async's `call` does, or a callback of the application.   *)
(* A handler that was stopped still serves what was in its queue then, and *)
(* the rest when it is started again.                                      *)
TakenButLast(w) == SubSeq(dispatched[me(w)], 1, opsDone[w] - 1)
Taken(w) == SubSeq(dispatched[me(w)], 1, opsDone[w])
Served(c) ==
    IF running[c].on THEN Len(dispatched[c]) ELSE running[c].upTo

Offered(t) ==
    IF t \notin Workers THEN {call \in Menu[t] : opsDone[t] < MaxOps}
    ELSE IF opsDone[t] < Served(me(t))
    THEN LET cb == dispatched[me(t)][opsDone[t] + 1]
         IN  {IF cb.kind = "async" THEN cb.callback ELSE [op |-> "callback"]}
    ELSE {}

(* Thread t starts `call`, goes to `label`, returns or raises. *)
Begins(t, call) ==
    /\ pc[t] = "idle"
    /\ call \in Offered(t)
    /\ opsDone' = [opsDone EXCEPT ![t] = @ + 1]

Goto(t, label) == pc' = [pc EXCEPT ![t] = label]

Returns(t, value) ==
    /\ pc' = [pc EXCEPT ![t] = "idle"]
    /\ frame' = [frame EXCEPT ![t] = NoFrame]
    /\ result' = [result EXCEPT ![t] = value]

(* A result says what raised it or which call gave it. *)
Raises(err)      == [raised |-> err]
Gives(op, value) == op :> value

(* verify() *)
Verify(c) ==
    IF ~connected[c] THEN "ConnectionClosed"
    ELSE IF expired[c] THEN "SessionExpired"
    ELSE OK

(* create(piece), as ensure_path calls it. *)
Piece(path) ==
    [op |-> "create", path |-> path, value |-> EmptyData, acl |-> FALSE,
     ephemeral |-> FALSE, sequence |-> FALSE, makepath |-> FALSE]

(* The first line of create, set, delete, get, exists and get_children, of *)
(* ensure_path, which then has the pieces of its path to create, and of    *)
(* flush.  The reads and ensure_path go on with the normalised path.       *)
Normed(call) ==
    IF call.op \in Reads \cup {"ensure_path"}
    THEN [call EXCEPT !.path = NormPath(@, FALSE)] ELSE call

Enter(t) ==
    \E call \in Offered(t) :
        /\ call.op \in Verified
        /\ Begins(t, call)
        /\ IF Verify(me(t)) = OK
           THEN /\ Goto(t, call.op)
                /\ frame' = [frame EXCEPT ![t].call = Normed(call),
                                 ![t].pieces =
                                     IF call.op = "ensure_path"
                                     THEN PartitionPath(Normed(call).path)
                                     ELSE None]
                /\ UNCHANGED result
           ELSE Returns(t, Raises(Verify(me(t))))
        /\ UNCHANGED <<storageVars, clientVars, nextSession, ghostVars>>

-----------------------------------------------------------------------------
(* The _fire_watches rounds one client goes through for staged watches:    *)
(* the child watches, then the data watches, the paths of each in reverse  *)
(* sorted order.                                                           *)
Rounds(staged, kind) ==
    LET Each(s) == [i \in 1..Cardinality(s.paths) |->
                       [kind  |-> kind,
                        path  |-> ReverseSorted(s.paths)[i],
                        event |-> s.event]]
    IN  FoldLeft(LAMBDA rounds, s : rounds \o Each(s), << >>, staged)

(* The watchers a committed change is owed to: those registered for it at  *)
(* a client that is attached and connected when it is committed.           *)
Owing(events) ==
    UNION {Range(WatchersAt(c, events[i].kind, events[i].path)) :
              <<c, i>> \in {c \in clients : connected[c]} \X DOMAIN events}

(* The names sequence creates have returned that stay to be told from new  *)
(* ones: those under a parent that has been there since.                   *)
IssuedSince(names, st) == {p \in names : InStorage(st, ParentPath(p))}

(* What create, set and delete do with the outcome of their partial        *)
(* operation: raise, or keep the staged watches for storage.inform.  The   *)
(* watchers are owed what was changed, whether the call then raised or not.*)
Applies(t, outcome) ==
    \E done \in {outcome} :
    \E events \in {Rounds(done.child, "child") \o Rounds(done.data, "data")} :
    LET op    == frame[t].call.op
        named == IF done.err = OK /\ op = "create" /\ frame[t].call.sequence
                 THEN {done.result} ELSE {}
    IN  /\ Become(done.st)
        /\ issued' = IssuedSince(issued \cup named, done.st)
        /\ owed' = owed \cup Owing(events)
        /\ IF done.err = OK
           THEN /\ frame' = [frame EXCEPT ![t].events = events]
                /\ result' = [result EXCEPT ![t] = Gives(op, done.result)]
                /\ Goto(t, "inform")
           ELSE IF done.err = "NodeExists" /\ frame[t].pieces # None
           THEN Goto(t, "ensure_path") /\ UNCHANGED <<frame, result>>
           ELSE Returns(t, Raises(done.err))
        /\ UNCHANGED <<clients, clientVars, opsDone, nextSession>>

DoCreate(t) ==
    /\ pc[t] = "create"
    /\ LET call == frame[t].call
       IN  Applies(t, PartialCreate(Store, session[me(t)], call.path,
                                    call.value, call.acl, call.ephemeral,
                                    call.sequence, call.makepath))

DoSet(t) ==
    /\ pc[t] = "set"
    /\ LET call == frame[t].call
       IN  Applies(t, PartialSet(Store, call.path, call.value, call.version))

DoDelete(t) ==
    /\ pc[t] = "delete"
    /\ LET call == frame[t].call
       IN  Applies(t, PartialDelete(Store, call.path, call.version,
                                    call.recursive))

(* The call is over once its watches are fired; close goes on to its       *)
(* listeners, commit to its committed flag, ensure_path to its next piece. *)
Resumes(t) ==
    CASE frame[t].call.op \in Lifecycle -> "lost"
      [] frame[t].call.op = "commit"    -> "committed"
      [] frame[t].pieces # None         -> "ensure_path"
      [] OTHER                          -> "idle"

Fired(t, left) ==
    LET label == IF left # << >> THEN "fire" ELSE Resumes(t)
    IN  /\ Goto(t, label)
        /\ frame' = IF label = "idle" THEN [frame EXCEPT ![t] = NoFrame]
                    ELSE [frame EXCEPT ![t].work = left, ![t].events = << >>]

(* storage.inform: the attached clients are copied under the client lock   *)
(* and gone through in the order the set yields them; purge leaves out the *)
(* client it purges.                                                       *)
InformedOthers(t) == clients \ {me(t)}
Informed(t) ==
    clients \ (IF frame[t].call.op \in Lifecycle THEN {me(t)} ELSE {})

Inform(t) ==
    /\ pc[t] = "inform"
    /\ LET For(c)  == [i \in DOMAIN frame[t].events |->
                          [target |-> c] @@ frame[t].events[i]]
       IN  \E order \in SetToSeqs(Informed(t)) :
              Fired(t, FoldLeft(LAMBDA work, c : work \o For(c), << >>, order))
    /\ UNCHANGED <<storageVars, clientVars, result, opsDone, nextSession,
                   ghostVars>>

(* watch_source.pop(path, []) *)
KeptWatchers(registry, path) == registry
PopWatchers(registry, path) == Drop(registry, path)

(* One round of _fire_watches: under the open_close_lock of the client, if *)
(* it is connected, the watchers of the path are popped and each is given  *)
(* to the handler with the event.                                          *)
FireWatches(t) ==
    /\ pc[t] = "fire"
    /\ LET round == Head(frame[t].work)
           c     == round.target
           found == WatchersAt(c, round.kind, round.path)
           calls == [i \in DOMAIN found |->
                        Callback(t, round.kind, found[i], round.event)]
       IN  /\ oclOwner[c] \in {None, t}
           /\ IF connected[c]
              THEN /\ watchers' = [watchers EXCEPT ![c][round.kind] =
                                              PopWatchers(@, round.path)]
                   /\ dispatched' = [dispatched EXCEPT ![c] = @ \o calls]
                   /\ owed' = owed \ Range(found)
              ELSE UNCHANGED <<watchers, dispatched, owed>>
    /\ Fired(t, Tail(frame[t].work))
    /\ UNCHANGED <<storageVars, sessionVars, listeners, oclOwner, running,
                   ownHandler, result, opsDone, nextSession, issued>>

-----------------------------------------------------------------------------
(* What a watcher is registered for having seen: the node, or the children *)
(* of the node, as the read of its call found them.                        *)
Observed(st, op, path) ==
    IF ~InStorage(st, path) THEN None
    ELSE IF op = "get_children"
    THEN [children |-> GetChildren(st, path, TRUE)]
    ELSE [data |-> st.paths[path].data, version |-> st.paths[path].version]

(* After the read: the call raises, returns, or goes on to add its watch. *)
HasRead(t, value, raises) ==
    /\ IF raises
       THEN Returns(t, Raises(value))
       ELSE /\ result' = [result EXCEPT ![t] = Gives(frame[t].call.op, value)]
            /\ IF frame[t].call.watch
               THEN /\ Goto(t, "watch")
                    /\ frame' = [frame EXCEPT ![t].seen = Observed(Store,
                                    frame[t].call.op, frame[t].call.path)]
               ELSE /\ Goto(t, "idle")
                    /\ frame' = [frame EXCEPT ![t] = NoFrame]
    /\ UNCHANGED <<storageVars, clientVars, opsDone, nextSession, ghostVars>>

DoGet(t) ==
    /\ pc[t] = "get"
    /\ LET path == frame[t].call.path
       IN  IF InStorage(Store, path) THEN HasRead(t, Get(Store, path), FALSE)
           ELSE HasRead(t, "NoNode", TRUE)

DoExists(t) ==
    /\ pc[t] = "exists"
    /\ LET path == frame[t].call.path
       IN  IF InStorage(Store, path)
           THEN HasRead(t, Get(Store, path).stat, FALSE)
           ELSE HasRead(t, None, FALSE)

DoGetChildren(t) ==
    /\ pc[t] = "get_children"
    /\ LET path == frame[t].call.path
       IN  IF InStorage(Store, path)
           THEN HasRead(t, GetChildren(Store, path, TRUE), FALSE)
           ELSE HasRead(t, "NoNode", TRUE)

(* The watch is put to the list of its path under the watches lock, after  *)
(* the read and whatever the client has become since.                      *)
Registers(t, atEnd) ==
    /\ pc[t] = "watch"
    /\ LET call == frame[t].call
           kind == IF call.op = "get_children" THEN "child" ELSE "data"
           w    == [by |-> t, nth |-> opsDone[t], seen |-> frame[t].seen]
           had  == WatchersAt(me(t), kind, call.path)
       IN  watchers' = [watchers EXCEPT ![me(t)][kind] =
                           Put(@, call.path, IF atEnd THEN Append(had, w)
                                                  ELSE <<w>> \o had)]
    /\ Goto(t, "idle")
    /\ frame' = [frame EXCEPT ![t] = NoFrame]
    /\ UNCHANGED <<storageVars, sessionVars, listeners, oclOwner, handlerVars,
                   result, opsDone, nextSession, ghostVars>>

(* watch_source[path].append(watch), and what insert(0, watch) would do. *)
AddWatchFirst(t) == Registers(t, FALSE)
AddWatch(t) == Registers(t, TRUE)

-----------------------------------------------------------------------------
(* _fire_state_change: the listeners are copied and each is dispatched.    *)
StateCalls(t, state, order) ==
    [i \in DOMAIN order |->
        Callback(t, "listener", order[i], [type |-> state])]

(* start(): nothing to do for a connected client. *)
StartCall(t) ==
    \E call \in Offered(t) :
        /\ call.op = "start"
        /\ Begins(t, call)
        /\ IF connected[me(t)]
           THEN Returns(t, None)
           ELSE /\ Goto(t, "start")
                /\ frame' = [frame EXCEPT ![t].call = call]
                /\ UNCHANGED result
        /\ UNCHANGED <<storageVars, clientVars, nextSession, ghostVars>>

(* start(), under the open_close_lock: the test again, then connected. *)
StartLock(t) ==
    /\ pc[t] = "start"
    /\ oclOwner[me(t)] \in {None, t}
    /\ IF connected[me(t)]
       THEN /\ Returns(t, None)
            /\ UNCHANGED <<connected, oclOwner>>
       ELSE /\ connected' = [connected EXCEPT ![me(t)] = TRUE]
            /\ oclOwner' = [oclOwner EXCEPT ![me(t)] = t]
            /\ Goto(t, "clear")
            /\ UNCHANGED <<frame, result>>
    /\ UNCHANGED <<storageVars, expired, session, registryVars, handlerVars,
                   opsDone, nextSession, ghostVars>>

StartClear(t) ==
    /\ pc[t] = "clear"
    /\ watchers' = [watchers EXCEPT ![me(t)] = NoWatchers]
    /\ owed' = owed \ WatchersOf(me(t))
    /\ Goto(t, "attach")
    /\ UNCHANGED <<storageVars, sessionVars, listeners, oclOwner, handlerVars,
                   frame, result, opsDone, nextSession, issued>>

(* storage.attach, and the handler is started. *)
Attached(c) == clients \cup {c}

Attach(t) ==
    /\ pc[t] = "attach"
    /\ clients' = Attached(me(t))
    /\ running' = [running EXCEPT ![me(t)].on = TRUE]
    /\ Goto(t, "session")
    /\ UNCHANGED <<paths, sequences, sessionVars, registryVars, oclOwner,
                   dispatched, ownHandler, frame, result, opsDone,
                   nextSession, ghostVars>>

(* The end of start(): a fresh session id, CONNECTED to the listeners, and *)
(* the lock is released (restart's with it).                               *)
StartSession(t) ==
    /\ pc[t] = "session"
    /\ session' = [session EXCEPT ![me(t)] = nextSession]
    /\ nextSession' = nextSession + 1
    /\ \E order \in SetToSeqs(listeners[me(t)]) :
          dispatched' = [dispatched EXCEPT ![me(t)] =
                            @ \o StateCalls(t, "CONNECTED", order)]
    /\ oclOwner' = [oclOwner EXCEPT ![me(t)] = None]
    /\ Goto(t, "idle")
    /\ frame' = [frame EXCEPT ![t] = NoFrame]
    /\ UNCHANGED <<storageVars, connected, expired, registryVars, running,
                   ownHandler, result, opsDone, ghostVars>>

-----------------------------------------------------------------------------
(* close(): nothing to do for a client that is not connected. *)
CloseCall(t) ==
    \E call \in Offered(t) :
        /\ call.op = "close"
        /\ Begins(t, call)
        /\ IF connected[me(t)]
           THEN /\ Goto(t, "close")
                /\ frame' = [frame EXCEPT ![t].call = call]
                /\ result' = [result EXCEPT ![t] = None]
           ELSE Returns(t, None)
        /\ UNCHANGED <<storageVars, clientVars, nextSession, ghostVars>>

(* The first half of storage.purge: the client is taken from the attached  *)
(* clients before anything is removed or anybody informed.                 *)
StillAttached(c) == clients
Detached(c) == clients \ {c}

(* close(), under the open_close_lock: the test again, disconnected, the   *)
(* watches cleared, and the first half of storage.purge, which detaches    *)
(* the client unless it has no session or is not attached.                 *)
CloseLock(t) ==
    LET c == me(t)
        purged == session[c] # NoSession /\ c \in clients
    IN  /\ pc[t] = "close"
        /\ oclOwner[c] \in {None, t}
        /\ IF connected[c]
           THEN /\ connected' = [connected EXCEPT ![c] = FALSE]
                /\ watchers' = [watchers EXCEPT ![c] = NoWatchers]
                /\ owed' = owed \ WatchersOf(c)
                /\ clients' = IF purged THEN Detached(c) ELSE clients
                /\ oclOwner' = [oclOwner EXCEPT ![c] = t]
                /\ Goto(t, IF purged THEN "purge" ELSE "lost")
                /\ UNCHANGED <<frame, result>>
           ELSE /\ Returns(t, result[t])
                /\ UNCHANGED <<clients, connected, watchers, oclOwner, owed>>
        /\ UNCHANGED <<paths, sequences, expired, session, listeners,
                       handlerVars, opsDone, nextSession, issued>>

(* storage.purge under the storage lock: the ephemeral nodes of the        *)
(* session are removed, in the order the dict yields them.                 *)
PurgeRemove(t) ==
    /\ pc[t] = "purge"
    /\ \E ordered \in SetToSeqs(Removals(Store, session[me(t)])) :
          \E done \in {Purge(Store, ordered)} :
          LET events == Rounds(done.child, "child")
                           \o Rounds(done.data, "data")
          IN  /\ Become(done.st)
              /\ issued' = IssuedSince(issued, done.st)
              /\ frame' = [frame EXCEPT ![t].events = events]
              /\ owed' = owed \cup Owing(frame'[t].events)
    /\ Goto(t, "inform")
    /\ UNCHANGED <<clients, clientVars, result, opsDone, nextSession>>

(* close() leaves its `with self._open_close_lock` block: the lock is an   *)
(* RLock, which restart() holds around stop() and start().                 *)
LetsGo(t)    == FALSE
HoldsOn(t)   == TRUE
KeepsLock(t) == frame[t].restart

(* close(close_handler): the handler is stopped if the client owns it and  *)
(* the caller did not ask to keep it; stop() and restart() close with the  *)
(* default.                                                                *)
StopsWhateverHandler(c, call) == call.op = "close" => call.close_handler
StopsHandler(c, call) ==
    ownHandler[c] /\ (call.op = "close" => call.close_handler)

(* The end of close(): LOST to the listeners, the handler stopped if that  *)
(* was asked for, the session id forgotten.  restart() goes on to start()  *)
(* with the lock still held.                                               *)
CloseLost(t) ==
    /\ pc[t] = "lost"
    /\ \E order \in SetToSeqs(listeners[me(t)]) :
          dispatched' = [dispatched EXCEPT ![me(t)] =
                            @ \o StateCalls(t, "LOST", order)]
    /\ running' = IF StopsHandler(me(t), frame[t].call)
                  THEN [running EXCEPT ![me(t)] =
                           [on |-> FALSE, upTo |-> Len(dispatched'[me(t)])]]
                  ELSE running
    /\ session' = [session EXCEPT ![me(t)] = NoSession]
    /\ oclOwner' = IF KeepsLock(t) THEN oclOwner
                   ELSE [oclOwner EXCEPT ![me(t)] = None]
    /\ IF frame[t].restart
       THEN /\ Goto(t, "start")
            /\ UNCHANGED frame
       ELSE /\ Goto(t, "idle")
            /\ frame' = [frame EXCEPT ![t] = NoFrame]
    /\ UNCHANGED <<storageVars, connected, expired, registryVars, ownHandler,
                   result, opsDone, nextSession, ghostVars>>

(* restart(): the lock is taken around stop() and start(); the session id  *)
(* before is what it returns.                                              *)
RestartCall(t) ==
    \E call \in Offered(t) :
        /\ call.op = "restart"
        /\ Begins(t, call)
        /\ Goto(t, "restart")
        /\ frame' = [frame EXCEPT ![t].call = call]
        /\ UNCHANGED <<storageVars, clientVars, result, nextSession,
                       ghostVars>>

RestartLock(t) ==
    /\ pc[t] = "restart"
    /\ oclOwner[me(t)] \in {None, t}
    /\ oclOwner' = [oclOwner EXCEPT ![me(t)] = t]
    /\ result' = [result EXCEPT ![t] = Gives("restart", session[me(t)])]
    /\ frame' = [frame EXCEPT ![t].restart = TRUE]
    /\ Goto(t, IF connected[me(t)] THEN "close" ELSE "start")
    /\ UNCHANGED <<storageVars, sessionVars, registryVars, handlerVars,
                   opsDone, nextSession, ghostVars>>

-----------------------------------------------------------------------------
AddListener(t) ==
    \E call \in Offered(t) :
        /\ call.op = "add_listener"
        /\ Begins(t, call)
        /\ listeners' = [listeners EXCEPT ![me(t)] = @ \cup {call.listener}]
        /\ UNCHANGED <<storageVars, sessionVars, watchers, oclOwner,
                       handlerVars, pc, frame, result, nextSession,
                       ghostVars>>

RemoveListener(t) ==
    \E call \in Offered(t) :
        /\ call.op = "remove_listener"
        /\ Begins(t, call)
        /\ listeners' = [listeners EXCEPT ![me(t)] = @ \ {call.listener}]
        /\ UNCHANGED <<storageVars, sessionVars, watchers, oclOwner,
                       handlerVars, pc, frame, result, nextSession,
                       ghostVars>>

(* client.expired = True: the attribute is the application's to set, as a  *)
(* test of session expiry does; the client has no method for it.           *)
Expire(t) ==
    \E call \in Offered(t) :
        /\ call.op = "expire"
        /\ Begins(t, call)
        /\ expired' = [expired EXCEPT ![me(t)] = TRUE]
        /\ UNCHANGED <<storageVars, connected, session, registryVars,
                       oclOwner, handlerVars, pc, frame, result, nextSession,
                       ghostVars>>

-----------------------------------------------------------------------------
(* ensure_path: create(piece) for the path and each of its ancestors, the  *)
(* root first, each a call of its own that verifies, changes the tree and  *)
(* informs; a piece that is there already is passed over.                  *)
EnsureNext(t) ==
    /\ pc[t] = "ensure_path"
    /\ IF frame[t].pieces = << >> THEN Returns(t, None)
       ELSE IF Verify(me(t)) # OK THEN Returns(t, Raises(Verify(me(t))))
       ELSE /\ Goto(t, "create")
            /\ frame' = [frame EXCEPT ![t].call = Piece(Head(frame[t].pieces)),
                                      ![t].pieces = Tail(@)]
            /\ UNCHANGED result
    /\ UNCHANGED <<storageVars, clientVars, opsDone, nextSession, ghostVars>>

(* command: the answer to a four letter word, which for "kill" comes after *)
(* a close().                                                              *)
Answer(cmd) ==
    CASE cmd = "ruok"            -> "imok"
      [] cmd \in {"stat", "envi"} -> cmd
      [] OTHER                   -> ""

Command(t) ==
    \E call \in Offered(t) :
        /\ call.op = "command"
        /\ Begins(t, call)
        /\ IF Verify(me(t)) # OK THEN Returns(t, Raises(Verify(me(t))))
           ELSE IF call.cmd # "kill"
           THEN Returns(t, Gives("command", Answer(call.cmd)))
           ELSE /\ Goto(t, "kill")
                /\ frame' = [frame EXCEPT ![t].call = call]
                /\ result' = [result EXCEPT ![t] =
                                 Gives("command", Answer(call.cmd))]
        /\ UNCHANGED <<storageVars, clientVars, nextSession, ghostVars>>

(* command('kill') has come to stop(), which is close(): the test of       *)
(* close() before the lock, made after the verify of command() and apart   *)
(* from it.  A client disconnected in between is left as it is.            *)
KillClose(t) ==
    /\ pc[t] = "kill"
    /\ IF connected[me(t)]
       THEN Goto(t, "close") /\ UNCHANGED <<frame, result>>
       ELSE Returns(t, result[t])
    /\ UNCHANGED <<storageVars, clientVars, opsDone, nextSession, ghostVars>>

(* sync and server_version: verify, and nothing of the tree. *)
Sync(t) ==
    \E call \in Offered(t) :
        /\ call.op \in {"sync", "server_version"}
        /\ Begins(t, call)
        /\ Returns(t, IF Verify(me(t)) = OK THEN Gives(call.op, None)
                      ELSE Raises(Verify(me(t))))
        /\ UNCHANGED <<storageVars, clientVars, nextSession, ghostVars>>

(* set_acls, get_acls and their ..._async forms: not implemented, for a    *)
(* closed client as for a connected one.                                   *)
AclCall(t) ==
    \E call \in Offered(t) :
        /\ call.op \in {"set_acls", "get_acls"}
        /\ Begins(t, call)
        /\ Returns(t, Raises("NotImplemented"))
        /\ UNCHANGED <<storageVars, clientVars, nextSession, ghostVars>>

-----------------------------------------------------------------------------
Dispatch(c, cb) == dispatched' = [dispatched EXCEPT ![c] = Append(@, cb)]

(* create_async(...), and each of the others: the call itself, to be made  *)
(* by the handler.                                                         *)
Async(call) == [op |-> "async", call |-> call]

(* create_async and the like: utils.dispatch_async gives the handler the   *)
(* call and returns the async_result where its outcome will be set.        *)
DispatchAsync(t) ==
    \E call \in Offered(t) :
        /\ call.op = "async"
        /\ Begins(t, call)
        /\ Dispatch(me(t), Callback(t, "async", call.call, None))
        /\ result' = [result EXCEPT ![t] = Gives("async", opsDone[t])]
        /\ UNCHANGED <<storageVars, sessionVars, registryVars, oclOwner,
                       running, ownHandler, pc, frame, nextSession,
                       ghostVars>>

(* The dispatch thread runs a callback of the application: a watcher, a    *)
(* listener, or the callback of a flush.                                   *)
RunCallback(t) ==
    \E call \in Offered(t) :
        /\ call.op = "callback"
        /\ Begins(t, call)
        /\ UNCHANGED <<storageVars, clientVars, pc, frame, result,
                       nextSession, ghostVars>>

(* flush, after verify: its callback goes to the end of the queue ... *)
FlushDispatch(t) ==
    /\ pc[t] = "flush"
    /\ Dispatch(me(t), Callback(t, "", "flip", None))
    /\ Goto(t, "flushing")
    /\ UNCHANGED <<storageVars, sessionVars, registryVars, oclOwner, running,
                   ownHandler, frame, result, opsDone, nextSession, ghostVars>>

(* ... and flush sleeps, and looks again, until the dispatch thread has run *)
(* it.                                                                     *)
FlippedIn(t, taken(_)) ==
    \E w \in Workers :
        /\ me(w) = me(t)
        /\ \E cb \in Range(taken(w)) :
              cb.kind = "" /\ cb.from = <<t, opsDone[t]>>

FlippedButLast(t) == FlippedIn(t, TakenButLast)
Flipped(t) == FlippedIn(t, Taken)

FlushWait(t) ==
    /\ pc[t] = "flushing"
    /\ IF Flipped(t) THEN Returns(t, None) ELSE UNCHANGED <<pc, frame, result>>
    /\ UNCHANGED <<storageVars, clientVars, opsDone, nextSession, ghostVars>>

-----------------------------------------------------------------------------
Step(t) ==
    \/ Enter(t)
    \/ EnsureNext(t) \/ Command(t) \/ KillClose(t) \/ Sync(t) \/ AclCall(t)
    \/ DispatchAsync(t) \/ RunCallback(t) \/ FlushDispatch(t) \/ FlushWait(t)
    \/ DoCreate(t) \/ DoSet(t) \/ DoDelete(t)
    \/ Inform(t) \/ FireWatches(t)
    \/ DoGet(t) \/ DoExists(t) \/ DoGetChildren(t) \/ AddWatch(t)
    \/ StartCall(t) \/ StartLock(t) \/ StartClear(t) \/ Attach(t)
    \/ StartSession(t)
    \/ CloseCall(t) \/ CloseLock(t) \/ PurgeRemove(t) \/ CloseLost(t)
    \/ RestartCall(t) \/ RestartLock(t)
    \/ AddListener(t) \/ RemoveListener(t) \/ Expire(t)

AtRest == \A t \in Threads : pc[t] = "idle"

(* The threads may make no further call once every call has returned. *)
Terminating == AtRest /\ UNCHANGED vars

Next == (\E t \in Threads : Step(t)) \/ Terminating

(* A thread that can take the next step of its call takes it: the threads  *)
(* are scheduled, and a lock that stays free is acquired.  The dispatch    *)
(* thread of a handler goes on to the next callback of its queue.          *)
Running(t) == (pc[t] # "idle" \/ t \in Workers) /\ Step(t)

Spec == Init /\ [][Next]_vars /\ \A t \in Threads : WF_vars(Running(t))

-----------------------------------------------------------------------------
(* The tree the clients share changes by whole operations only: whatever   *)
(* the threads interleave, a step that changes `paths` is one create with  *)
(* the ancestors makepath added (also when the create then failed), one    *)
(* write, the delete of one whole subtree, or the purge of one session,    *)
(* as ZakeTree specifies with this module's `paths` for its `tree`.        *)
Tree == INSTANCE ZakeTree WITH tree <- paths
ImplementsTree == Tree!Spec

(* The tree is rooted: "/" is always there and every other node has its    *)
(* parent, whatever creates, deletes (recursive or not) and purges of      *)
(* closing clients have been interleaved.                                  *)
TreeIsRooted ==
    /\ Root \in DOMAIN paths
    /\ \A p \in DOMAIN paths : ParentPath(p) \in DOMAIN paths

(* No node lies below an ephemeral node: storage.create refuses a child of *)
(* one, and nothing else puts a node into the tree.                        *)
NoChildUnderEphemeral ==
    \A p, q \in DOMAIN paths : IsChildPath(q, p, FALSE) => ~paths[q].ephemeral

(* An ephemeral node belongs to the session of a client that is attached,  *)
(* or that close() has detached and is about to purge: close removes the   *)
(* nodes of the session before it forgets the session id, and create reads *)
(* the session id under the storage lock.                                  *)
EphemeralOwnerLive ==
    \A p \in DOMAIN paths :
        paths[p].ephemeral =>
            \E c \in Clients :
                /\ session[c] = paths[p].owner
                /\ \/ c \in clients
                   \/ \E t \in Threads : me(t) = c /\ pc[t] = "purge"

(* The counter of a parent is beyond every suffix a sequence create has    *)
(* returned under it since the parent exists, whether the node it named is *)
(* still there or was deleted or purged since: create(sequence=True) never *)
(* hands out a name twice under a parent that stays, and the names grow in *)
(* the order of the calls (sequence_iter and the counters create keeps or  *)
(* forgets).                                                               *)
SequenceAhead ==
    \A p \in issued : p[Len(p)].suffix < SequenceOf(Store, ParentPath(p))

(* The increment of a signed 32-bit integer. *)
Int32Next(n) == IF n = 2147483647 THEN -2147483647 - 1 ELSE n + 1

(* The counter of a parent wraps as a signed 32-bit integer does, from     *)
(* 2147483647 to -2147483648, as the specification says of sequence_iter   *)
(* (no name the counter reaches is taken in the configuration that checks  *)
(* this, so a create advances it once).                                    *)
SequenceWrapsAsInt32 ==
    [][\A p \in DOMAIN sequences \cap DOMAIN sequences' :
          sequences'[p] # sequences[p] =>
              sequences'[p] = Int32Next(sequences[p])]_vars

(* Once every call has returned, no watcher is still waiting for a change  *)
(* that was committed while it was registered at an attached, connected    *)
(* client: storage.inform and _fire_watches reach it, or start/close have  *)
(* cleared it, however the calls of the other threads fell in between.     *)
AtRestNoWatchOwed == AtRest => owed = {}

(* A watch is one-shot: _fire_watches hands a registered watcher to the    *)
(* handler at most once, and a watcher handed over is no longer in the     *)
(* registry, even when two _fire_watches rounds for one path interleave.   *)
WatchFiresOnce ==
    \A c \in Clients :
        LET fired == SelectSeq(dispatched[c], LAMBDA d : d.kind \in WatchKind)
        IN  /\ \A i, j \in DOMAIN fired :
                  fired[i].callback = fired[j].callback => i = j
            /\ \A i \in DOMAIN fired : fired[i].callback \notin WatchersOf(c)

(* For a given path the watches fire in registration order: the watchers   *)
(* a thread has registered on one path of a client come to the handler in  *)
(* the order of its calls, whether one _fire_watches round pops them       *)
(* together or the rounds of several mutations, running between each       *)
(* other, each find some of them (get, exists and get_children append to   *)
(* the list that _fire_watches pops and goes through under the             *)
(* open_close_lock).                                                       *)
FiresInRegistrationOrder ==
    \A c \in Clients : \A i, j \in DOMAIN dispatched[c] :
        LET first == dispatched[c][i]
            later == dispatched[c][j]
        IN  /\ i < j
            /\ first.kind \in WatchKind /\ later.kind = first.kind
            /\ first.event.path = later.event.path
            /\ first.callback.by = later.callback.by
            => first.callback.nth < later.callback.nth

(* What one delete tells the data watchers of a client comes deepest       *)
(* first: no node is reported deleted before a node below it that the same *)
(* call removed (the reverse sorted order of _PartialClient.delete, kept   *)
(* by inform and _fire_watches while other calls fire in between).         *)
DeepestFirst ==
    \A c \in Clients : \A i, j \in DOMAIN dispatched[c] :
        LET first == dispatched[c][i]
            later == dispatched[c][j]
        IN  /\ i < j
            /\ first.kind = "data" /\ later.kind = "data"
            /\ first.event.type = "DELETED" /\ later.event.type = "DELETED"
            /\ first.from = later.from
            => ~IsChildPath(first.event.path, later.event.path, FALSE)

(* The same of the child watchers: the parents of what one call removed    *)
(* are reported deepest first, for a recursive delete and for the purge of *)
(* a closing client alike, as the specification orders the events "across  *)
(* paths during a recursive delete or ephemeral purge".  FakeStorage.purge *)
(* goes through sorted(parents), not reversed.                             *)
ParentsDeepestFirst ==
    \A c \in Clients : \A i, j \in DOMAIN dispatched[c] :
        LET first == dispatched[c][i]
            later == dispatched[c][j]
        IN  /\ i < j
            /\ first.kind = "child" /\ later.kind = "child"
            /\ first.event.type = "DELETED" /\ later.event.type = "DELETED"
            /\ first.from = later.from
            => ~IsChildPath(first.event.path, later.event.path, FALSE)

(* A data watcher left in the registry of an attached, connected client    *)
(* when every call has returned has seen the node as it is now: had the    *)
(* node changed since the read of get or exists, the watcher would have    *)
(* been notified.  This is what exists(path, watch) promises for a path    *)
(* that appears later; the code reads, lets the storage lock go, and only  *)
(* then appends the watcher.                                               *)
AtRestDataWatchersCurrent ==
    AtRest =>
        \A c \in clients : connected[c] =>
            \A p \in DOMAIN watchers[c].data :
                \A w \in Range(watchers[c].data[p]) :
                    w.seen = Observed(Store, "exists", p)

(* A flush whose callback came to the queue of a handler that the client   *)
(* owns and has stopped.                                                   *)
Stranded(t) ==
    /\ pc[t] = "flushing"
    /\ ownHandler[me(t)]
    /\ \A i \in DOMAIN dispatched[me(t)] :
          LET cb == dispatched[me(t)][i]
          IN  cb.kind = "" /\ cb.from = <<t, opsDone[t]>> => i > Served(me(t))

(* Every call returns: no thread, and no dispatch thread making a call for *)
(* an ..._async method, is left waiting for an open_close_lock that a      *)
(* close, a restart or a _fire_watches round of another thread holds, and  *)
(* a flush returns once the dispatch thread has come to its callback; only *)
(* a flush on a handler that close() has stopped waits until the client is *)
(* started again.  close() never stops a handler the client was given      *)
(* (_own_handler is False), so a flush on such a client always returns.    *)
CallsReturn ==
    \A t \in Threads : pc[t] # "idle" ~> (pc[t] = "idle" \/ Stranded(t))

(* flush returns: the callback it gave the handler is run in the end.      *)
(* close() stops the handler of the client; a flush that passed verify     *)
(* before it waits on a queue nobody takes from.                           *)
FlushReturns == \A t \in Threads : pc[t] = "flushing" ~> pc[t] = "idle"

=============================================================================
