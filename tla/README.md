# propertytree: a verification development

`propertytree` shares a tree of named, valued nodes between processes.  One
server keeps the tree; clients link a library that sends requests over TCP and
keeps a mirror of the parts they have seen.  This directory holds TLA+ models of
that system, the TLC configurations that check them and the TLAPS proofs about
them.  Paths below are relative to `src/`.

## 1. Inventory

| Part | Code | State | Operations |
|---|---|---|---|
| Protocol handler | `server/src/ProtocolHandler.{hpp,cpp}`, `server/src/Node.hpp` | `mSessions`, `mConnectionToSessionId`, `mTree`, `mTrIdTranslation`, the counters for sessions, uuids and forwarded ids | a handler per message, `onDisconnect` |
| Server | `server/src/Server.cpp`, `main.cpp` | `mConnections`, the reactor | accept, disconnect, run and stop |
| Connection | `server/src/ConnectionSession.cpp` | read buffer and state, socket | `handleRead` (framing), `send` |
| Client: transactions | `client/src/Client.cpp` 550-571, 669-717 | `mTransactions`, `mTransactioIdCtr` | `addTransaction`, `waitTransaction` (500 ms), the match of a message by id |
| Client: remote calls | `client/src/Client.cpp` 228-265, 418-450 | the handlers that programs set on nodes | `call`, `handle(RpcRequest)` |
| Client: framing | `client/src/Client.cpp` 464-548 | read buffer and state, socket | `handleRead`, `decodeMessage`, `send` |
| Client: tree | `client/src/Client.cpp` 77-195, 368-399, 581-667 | `mTree`, each node's children, two mutexes | `create`, `get`, `destroy`, `addNodes`, `removeNodes`; `createOrGet`, `loadChildren` of `Property.hpp` |
| Client: values | `client/src/Client.cpp` 197-226, 267-366, `Property.hpp` | each node's `data` and `dataMutex` | assignment, `commit`, `fetch`, `subscribe`, `handle(UpdateNotification)` |
| Monitor | `monitor/src/main.cpp` | `mToSubscribe` with its mutex and condition variable, `mRunning`, `mAutowatch` | console commands, the handler of new nodes, a worker thread |
| Protocol | `interface/protocol.cum`, generated `protocol.hpp` | none | the messages and their encoding |

**How they interact.**  The server has one thread: a reactor that accepts
connections, reads messages, runs the handler of each and writes what it sends
before it returns.  Handlers therefore never interleave on the server; what
interleaves is the order in which clients' messages reach it, and what sits in
the sockets.  In a client, any number of threads send requests and wait, each
for its transaction, and one reader thread takes every message that arrives, in
order.  A message whose id is that of a pending transaction goes to that
transaction; any other message is handled by the reader itself: notifications
(sent under id 0xFFFF) change the mirror, and a forwarded remote call runs the
program's handler and is answered.  The server forwards a call to the session
that created the node, under an id of its own, and `mTrIdTranslation` leads the
answer back.

**What is hard.**  Disconnects at any point, with sessions, listeners and
forwarded calls left over; requests for nodes that another client has removed;
listings that race with notifications; transaction ids that wrap, overlap or
outlive their timeouts; in the client, threads that share the mirror with the
reader, partly without locks.

**What makes each part correct.**  The server: one consistent tree, uuids that
never come back, sessions that are where handlers expect them.  Towards clients:
notifications that suffice to follow the tree and the subscribed values, and
reach nobody else.  Remote calls: every result belongs to its call, and every
forwarded call comes back.  The client: one object for each node whichever
message brought it, a mirror and values that converge to the server's, waits
that end.  The connection: messages whole and in order, and no standstill.  The
monitor: no new node missed, no thread that waits for itself.

`PROJECT.json` lists the components with their status and the hazards, each at
its line.

## 2. Modules

| Module | Models |
|---|---|
| `Maps` | `std::map` and `std::unordered_map`: `operator[]`, `emplace`, `erase` |
| `ProtocolHandler` | the server: one action per handler, and the connections' life |
| `ServerView` | the same server, with observers of what each client was told |
| `TreeWalk` | on `ServerView`: the walk of a listing as it goes |
| `SharedTree` | the abstract specification: one tree, changed atomically, of which clients are told |
| `ServerTree` | the refinement mapping from `ProtocolHandler` to `SharedTree` |
| `RpcRelay` | remote calls: clients' transaction tables and readers, the wires, and the server's actions |
| `ClientThreads` | what every request of a client goes through: transactions, waits, the match of answers, the wires |
| `ClientValue` | on `ClientThreads`: one node's value in the clients that share it, `dataMutex`, and the server's actions |
| `ClientMirror` | on `ClientThreads`: one client's tree, its threads and its reader, other clients, and the server's actions |
| `Monitor` | on `ClientMirror`: the monitor's console, worker and handler of new nodes |
| `Framing` | one connection byte by byte, with the locks under which messages go in |
| `ProtocolHandlerProof`, `ServerTreeProof`, `ServerViewProof`, `RpcRelayProof`, `ClientThreadsProof`, `ClientValueProof`, `ClientMirrorProof`, `FramingProof` | proofs |
| `MC*` | instances for TLC |

`ProtocolHandler` is at the bottom of all but `Framing` and `SharedTree`: a client module's
`Serve` *is* the server's handler, and `Delivers` puts its `out` on the wires.

### ProtocolHandler

Variables carry the names of the members they model.  `mTree` maps uuids to
nodes; pointers to nodes are uuids, a reset pointer is `None`, and a connection
object is the connection itself.  Each action is a handler (`Create` is
`handle(CreateRequest)`, and so on) with one disjunct per way through it: each
early return, each reject and each silent return is there.  `out` is what the
latest handler wrote to each connection, in the order of its `send`s.  Where the
code dereferences something without a look (`Delete` its node's parent,
`RpcRequest` the session of the creator), the disjunct for the missing case is
`Crash`, and `fault` observes over which node; that it is only ever taken for the
root is a property.

`Ops` says which requests clients send.  `DeleteRoot`, `RpcRoot`, `Resignin` and
`Terminate` are ordinary requests set apart because they end or crash the server,
or because the client library never sends them: that is so of `Resignin` alone
(only the constructor of `Client` signs in), and `Ops_Library` is all but that.
`Client::destroy` and `Client::call` do not look whether they are given the root,
and the monitor's `delete path=/` gives it.  What the protocol allows besides is
covered by the proofs, which hold for any `Ops`.

`SigninAccept` has session id 0 in the model because the code sends it default
constructed.  A `Node` keeps its creator's session for ever.  `Alive(c)` is
`weak_ptr::lock` of a connection object, which lives as long as the server's
table or a session holds it.  `Subtree` states what the traversal of
`fillToAddListFromTree` lists (all that is reachable), not how; `TreeWalk` has
the traversal.

Abstracted: names and contents are model values; `v9` is the content that stops
the server.  `mTrIdCtr` is kept modulo `TrIdMod` (2^16 in the code), which is all
that is ever used of it.  `MaxUuid` and `MaxSession` bound the number of nodes
ever made and of sign-ins; neither counter comes near its 32 bits.  Messages are
whole (`Framing` has their bytes), and a message array is its messages one after
the other.

### ServerView and TreeWalk

Adds `view`, `loaded` and `shadow`, which only observe `out`: the set of nodes a
client would know that applies every listing and notification it is sent, in
order; whether it has listed the whole tree; and the values it would hold of the
nodes it is subscribed to.  This is what the server does for clients,
without the client's own threads.  `ServerView` has nothing but the observers.

`NodeToAddList` of `TreeWalk` is `fillToAddListFromTree` as it goes, with its stack of levels
and iterators: `ListsParentsFirst` shows in every reachable tree that it lists
what `ToAddList` says, each node once and after its parent.  (It is recursive,
so nothing can be proved about it, and it is kept apart from the modules that the
proofs are about.)

### SharedTree and ServerTree

`SharedTree` says what clients may rely on without a word about how: a tree of
named nodes, siblings with different names, ids that are never used twice;
adding a node, removing a leaf and writing a value are one step each, and in
that very step everybody present is told of the first two, and those subscribed
of the third.  There are no sessions, no messages, no children maps and no
listener maps.  `ServerTree` maps `ProtocolHandler` to it: the parent pointers
are the tree (the children maps must agree with them, or a create or delete
would be refused or let through against the promise), an open connection that a
listener leads to is a subscriber, and the notifications in `out` are what is
told.  `KeepsPromise` is checked in `tree` and in `value`, and proved in
`ServerTreeProof`.

### RpcRelay

Extends the server's module with the clients' ends of remote calls.  `Call` is
`addTransaction`, `Finish` and `Expire` the two ways out of `waitTransaction`
(the second leaves the transaction in the table, as the code does), `Read` the
reader thread, `Serve` the server's handling of the next message, `Leave` the
end of a client, `Other` the remaining requests that bear on calls.  `toServer`
and `toClient` are the TCP streams: ordered, lost only with their connection.
Other requests than calls use ids of the same counter, so a call's id may be any
id not yet passed.  The payload of a call is the call, so that a result shows
whose it is.  `Overtake = FALSE` excludes that 2^16 calls are made while one of
them is still in flight, and nothing else; entries that were left behind are
overtaken.  Calls of the root, which crash the server, are left to
`ProtocolHandler`.

### ClientThreads

`Sends` is `addTransaction`; `Returns` and `Throws` are the two ways out of
`waitTransaction`; `ReadsAnswer` is the reader with a message whose id is in
`mTransactions`, `TakesRequest` and `Delivers` are the server's two ends of the
wires.  A thread of a program is a record that says what it is in the middle of.
`mTransactioIdCtr` stops at the last id of `ReqId`: the wrap of the 16 bits is
not modelled here.  All clients have signed in when these models start, which is
`ProtocolHandler`'s part.

### ClientValue

Clients whose threads assign to one node (`Setters`) and fetch it (`Fetchers`).
`Assign` is `operator=` or `set` up to the wait in `commit`: it takes
`dataMutex`, writes the client's copy and sends the request; `AssignEnd` is the
rest.  `Fetch` and `FetchEnd` are the two halves of `fetch`, of which only the
second takes the mutex.  `Expire` is the exception after 500 ms, which releases
what the thread holds and leaves the transaction.  `ReadAnswer` and `ReadUpdate`
are the reader, which takes messages in order and waits, with all that follows,
where an update finds the mutex taken.  `stale` remembers the clients whose last
write was a fetch's answer that an update had overtaken.

### ClientMirror

The tree of the client `Me`: `mirror.nodes` are the `Node` objects, which live as
long as somebody holds a pointer to them, and `mirror.mTree` the table.  Each
critical section of `mTreeMutex` is an action: an entry of `addNodes`, a uuid of
`removeNodes`, the accept of `create`, the lookup at the end of `get`; between
them the other threads and the reader go on.  `Create_`, `Get_`, `LoadChildren`
and `Destroy` go up to the wait; `GetNothing` and `OrCreate` are `createOrGet`'s
second half.  Programs may call them on any `Property` they ever had, those of
removed nodes and the root included.  `ServeOther` is any create or delete of
another client that has an effect, the crash of the server over the root included;
what the client makes of the end of its connection is left out.
The node `Old` was there before the client signed in, so that it first hears of
it in a listing, or as the parent of something announced (a ghost).

Four observers: `loaded` (has the whole tree been listed), `removed`, `revived`
and `displaced`.  The last two name what really goes wrong in this code and what
the properties therefore exempt (see Findings); a thread that `get` leads through
an end iterator is `lost` and does nothing more.  The children of a node are read
and written under `childrenMutex` in most places and without it in `destroy` and
`CreateRejected`: the model has those accesses atomic.

### Monitor

The threads are `Console` (the commands), `Worker` and `Reader`.  Reader and
console add nodes (`ReaderAdds`, `ConsoleAdds`, a critical section of `mTreeMutex`
each), and call the handler after that: `HandlerBegins` takes `mmTreeHandlerMutex`
and looks at `mAutowatch`, `HandlerQueues` has `mToSubscribeMutex` as well, queues
the node, notifies and releases both.  In between, whoever adds the next node, and
the reader that removes one, waits for `mmTreeHandlerMutex`.  A path of the
console may lead to the root, which can be subscribed to, unsubscribed from and
deleted like any node; a crash that follows stops what waits for the server.  The
worker's wait on the condition variable is in steps (`WorkerDozes`,
`WorkerSleeps`), so that a notification can fall between the look and the sleep:
the handler notifies under the mutex and cannot, `Exits` does not take the mutex
and can.  `List` to `ListEnds` are `onCmdList` of the root with its stack of
levels; the action is chosen where the code first looks at it, after the listing,
and an uninitialised one is any action.  Without an action the traversal writes
nothing, and is left out.  The console's commands never time out here, as the
exception would end the monitor.  `AutoWatch`, `Command` and `List` happen when
somebody types them.

### Framing

One connection: a direction is a bounded sequence of bytes (`Capacity`), a
message a header of two bytes and a payload.  `Send` hands over what there is
room for, as a blocking `::send` does, and others may run in between.
`AddTransaction` holds `mTransactionsMutex` until its last byte is handed over;
`Handle` on the client's side needs that mutex to look for a transaction, and
the reader sends its answers to calls without it.  The reactor, which reads for
the server, handles nothing while it sends.  `HandleRead` reads any part of what
it asks for, one byte of a header included, which the code takes for whole:
`halved` observes this, and `mixed` that a message was written into another.  The
header of a message is recognised by its bytes: what comes of bytes that are not
the two of one header is the state `lost`.

## 3. Runs

| Run | Checks | Bounds |
|---|---|---|
| `tree` | `ViewTypeOK`, `TreeConsistent`, `CrashesAtRootOnly`, `MirrorsTree`, `ListsParentsFirst`, `UuidDenotesOneNode`, `KeepsPromise` (refinement) | 2 connections, 2 names, 3 nodes below the root |
| `value` | `SubscriberUpToDate`, `HoldersSignedIn`, `UpdatesOnlyToSubscribers`, `KeepsPromise` | 2 connections, 3 sign-ins, 2 nodes, 2 values |
| `session` | `TypeOK`, `CrashesAtRootOnly`, `OwnersKnown`, `SessionsConsistent`, `ListenersBound`, `ClosedGetsNothing`, `SessionsOnlyFade` | 2 connections, 1 node, 2 values, ids modulo 2 |
| `answers` | `RelayTypeOK`, `ResultsTrue`, `TranslationSound` | 3 connections, 1 node, a call each, ids modulo 2 |
| `calls` | `CallsReturn` (liveness) | 2 connections, 2 nodes, a call each |
| `share` | `ValueTypeOK`, `WaitsOwned`, `Converges`, `OperationsEnd` (liveness) | 2 clients that subscribe and assign, one of them fetches too, 2 values, 2 requests of each client |
| `mirror` | `MirrorTypeOK`, `OneObjectPerNode`, `FollowsTree`, `ChildrenFollow`, `ForgetsRemoved`, `CreateOrGetFinds` | 2 threads with 2 requests between them, another client, 1 name, 3 nodes |
| `monitor` | `MonitorTypeOK`, `CaughtAreHeard`, `ListDeletes`, `CaughtIsWatched` (liveness) | 3 requests of the monitor, another client, 1 name, 2 nodes |
| `framing` | `FramingTypeOK`, `DeliveredAsSent`, `StopsInGridlockOnly` (liveness) | 2 threads with 2 requests each, 3 messages unasked for, 5 bytes in each direction |
| `collision`, `stall`, `stale` | expected violations, see Findings | as small as they can be |

Why the bounds suffice.  Three nodes are enough for a chain of two below a top
node, siblings, and re-creation of a removed name; a connection is used once, so
a client that comes back is another connection, and two of them meet in every
order of sign-in, disconnect and request.  Ids modulo 2 or 3 make the counter
come round with two or three calls, over entries whose owner left or swallowed
the request; `answers` needs three callers for that, and finds it.  In `share`,
two requests of each client are enough for an assignment and a fetch to overlap
with each other and with the other client's assignments, in the same thread or
in two.  In `mirror`, two requests are a create and a listing, two creates of one
name, a destroy and a create that races with it, or one `createOrGet`, against
an announcement of any node and of its deletion in between; one name makes every
create collide with every other.  In `monitor`, three requests are a list and two
subscriptions or deletions, of a chain of two nodes.  In `framing`, a direction
holds a message and a byte, so that every message can be cut anywhere and both
directions can be full at once.

Deadlock is not checked: when all connections are used up and closed, the ids
spent, or the server has stopped, nothing more happens, as it should be; whether
something *stops that should not* is what the liveness properties say.
Connections, names and threads are interchangeable, so some of the safety runs
use symmetry; the runs with fairness do not.  `mirror` and `monitor` have a view
without `out`, which no action but `Delivers` reads, in the step that writes it.
The view of `monitor` also leaves out what nothing there reads: `loaded`; who
listens to the root and has a handler for it (nothing is assigned, and the client
does not look at what an unsubscription is answered); the dismissed nodes that are
gone; and what is observed for a list that deletes, when there is none.  Deletions of the root by
other clients are in `session`, `tree` and `mirror`, those of the monitor itself in
`monitor`.  `tree` has a chain of two nodes below the root, so that a parent could
go before its child, and `session` what only the root is needed for;
`value` has one too, and its invariant does not speak of `out`: its two step
properties do, of the new state of a step only, and TLC checks them on each step
that it generates, those to states it has seen included.

What is broken to test the properties: `PROJECT.json` lists for each property a
faulty variant of a definition (the definitions named `X_variant`, which nothing
uses), under which the run fails.

**Fairness** is weak but for one case, and assumed in four modules of: each client's
reader and the server's handling of each connection, because the readers run in
a loop over `epoll` and the reactor of the server serves every readable socket.
In `ClientValue` also: a thread whose answer is there goes on (it holds no lock
that anybody else would have to release, but for the mutex that a fetch takes
last), and a wait ends after 500 ms (`wait_for`; not in `stall`, which asks what
happens without).  In `Monitor`: the worker, and a command once it was given; and
strongly, that a handler of new nodes that waits for `mToSubscribeMutex` has it in
the end, as the worker, which a condition variable may wake without end and for no
reason, takes and releases it again and again.  In
`Framing`: a `::send` that has room goes on.  Nothing is assumed of threads that
start requests, of users, of disconnects, of spurious wakeups or of the timeouts
of calls.  That a fetch gets the mutex under weak fairness rests on the number of
requests being bounded; `std::mutex` itself promises no order.  `CaughtIsWatched`
says nothing of behaviours that have used up the instance's ids (`Spent`).

## 4. Findings

- **The collision of ids** (`collision`).  The server's ids for forwarded calls
  and a client's own ids both count from 0, and the reader looks for a pending
  transaction before it looks at what the message is (`client/src/Client.cpp`
  555-565).  When a client that owns a node is called while it waits for a
  transaction of its own under the same id, the request is taken for the answer:
  its own request fails with "protocol error!", and the caller gets nothing but
  its timeout.  `CallsReturn` is what remains true.
- **An update in front of an accept** (`stall`).  An assignment holds
  `dataMutex` through its round trip (`client/src/Property.hpp` 28-41).  When two
  clients assign to a node that they have subscribed to, the update by one can
  come before the accept of the other, and the reader waits for the mutex in
  front of the accept.  The assignment ends with "transaction failure" after
  500 ms, although the server has the value.  `OperationsEnd` is what remains
  true: the timeout resolves it.
- **A fetch puts an old value back** (`stale`).  The answer of a fetch is written
  by the thread that waited for it, and may overwrite an update that came later.
  `Converges` is what remains true of all others.

Not findings of a run, but visible in the models:

- `SigninAccept` names session 0, whichever session the sign-in made: it is sent
  before the id is drawn (`ProtocolHandler.cpp` 80-82), though the protocol gives
  it the session's id (`protocol.cum` 66).
- `SetValueRequest` for a node that is not there is not answered
  (`ProtocolHandler.cpp` 264), though the protocol has a `SetValueReject`; the
  same goes for a call whose owner has gone.
- Deleting the root while the tree is empty, and calling the root, crash the server
  (`ProtocolHandler.cpp` 434, 487).  The library lets programs do both
  (`Client.cpp` 368-378, 418-435), and the monitor its user, with `delete path=/`
  (`main.cpp` 338-344, 362-365).  `CrashesAtRootOnly` is what remains true.
- `Rebound`, the code that gives a listener its session's new connection
  (`ProtocolHandler.cpp` 290-304), never changes anything, because a session never
  gets a new connection (`SessionsOnlyFade`, `ListenersBound`).
- A node that is gone can come back in a client: the answer of a `create` or of a
  listing is applied by the thread that waited for it, after the reader may have
  handled the node's deletion (`revived`; `ForgetsRemoved` is what remains true).
- `destroy` takes its node off the parent by name when the answer has come, and
  may take off a younger node of that name; a late listing may put an older one
  in its place (`displaced`; `ChildrenFollow` is what remains true).
- `get` follows the iterator of `mTree.find` without a look: the node may have
  been deleted since its listing was added (`GetEnd`, the state `lost`).
- `list` of the monitor without an action does whatever was in the variable
  (`main.cpp` 207): the model lets it.
- A header of which one byte arrives is taken for whole (both `handleRead`s; `halved`
  in `Framing`), and a `::send` that finds room for one byte is enough for it: the
  end that reads loses step.  `DeliveredAsSent` is what remains true.
- When the server's socket is full, the reader's answer to a call and a thread's
  request are written into each other (`mixed` in `Framing`): only the threads
  send under `mTransactionsMutex`.
- When both directions are full, everybody stops: the reactor waits in `::send`
  for the client to read, whose reader waits for room to answer a call, or for
  the mutex that a sending thread holds (`Gridlock`; `StopsInGridlockOnly` says
  that nothing else stops the exchange while the ends are in step).

## 5. Proofs

All theorems hold for every set of connections, names and values and every bound.
The assumptions on the constants are the named ones of the modules, which TLC
evaluates in each run; a theorem that needs more says so in its `ASSUME`.  TLC has
checked each inductive invariant on an instance before it was proved.

| Module | Theorems | Besides the assumptions on constants |
|---|---|---|
| `ProtocolHandlerProof` | `TypeCorrect`, `TreeAlwaysConsistent`, `SessionsAlwaysConsistent`, `OwnersAlwaysKnown`, `ListenersAlwaysBound`, `HoldersAlwaysSignedIn`, `UuidsDenoteOneNode`, `SessionsAlwaysFade`, `CrashesOnlyAtRoot` | any `Ops` |
| | `ClosedGetNothing` | no `Resignin` in `Ops` |
| `ServerTreeProof` | `Refinement`: the server implements `SharedTree` | any `Ops` |
| `ServerViewProof` | `ViewsTyped`, `TreeAlwaysMirrored`, `SubscribersAlwaysUpToDate`, `UpdatesStayPrivate` | any `Ops` |
| `RpcRelayProof` | `RelayTypeCorrect`, `TranslationAlwaysSound`, `ResultsAlwaysTrue` | `~Overtake` |
| `ClientValueProof` | `ValuesTyped`, `WaitsAlwaysOwned`, `SubscribersConverge` | finitely many connections |
| `ClientMirrorProof` | `MirrorTypeCorrect`, `AlwaysOneObjectPerNode`, `AlwaysFollowsTree`, `AlwaysChildrenFollow`, `AlwaysForgetsRemoved`, `MirrorWaitsOwned` | one client, finitely many connections |
| `FramingProof` | `FramingTypeCorrect`, `AlwaysDeliveredAsSent` | none |

**The server** (`ProtocolHandlerProof`).  The inductive invariant `IInv` is the
conjunction of `TypeOK`, `TreeConsistent`, `SessionsConsistent`, `OwnersKnown`,
`ListenersBound` and `HoldersSignedIn`.  Hardly any part is inductive alone.  That
a created node has a known owner needs that the creator's connection is bound to
a session that exists; that a listener belongs to its session needs that the
bound connection is the session's; that what still leads to an open connection
leads to one that is signed in needs all of these.  `TreeConsistent` needs the
links of the tree in both directions, because a deleted entry is erased from its
parent by name, and every uuid below `mUuidCtr`, or a new node could replace an
old one.  The proof goes by what steps do to each group of variables, not by
handler: `TreeSteps` shows that every step leaves `mTree` alone, adds a node,
removes a leaf, or changes a node's data or listeners, and each part of the
invariant is shown for those four shapes; `SessionSteps` and `RestSteps` do the
same for the sessions and for the rest.  `CrashesOnlyAtRoot` takes from this that the
two unchecked pointers can miss at the root only.  `ClosedGetNothing` adds
`HeldOnce`, that a session which leads to a connection is the one that the
connection is bound to: a second sign-in breaks it, and then the table keeps
what the disconnect does not reset.

**The promise** (`ServerTreeProof`).  Each shape of a step is matched with a step
of `SharedTree`: an added node is `Add`, a removed leaf `Remove`, written data
`Write`, and all others leave the abstract tree alone and tell nobody of it.  What
the handlers write is compared with what the promise says is told: a broadcast
goes to the connections of all sessions, and the promise to all that are present,
which agree because of `HoldersSignedIn`; an update goes along the listeners as
`Rebound` leaves them, which are the subscribers.

**What clients see** (`ServerViewProof`) is proved from the promise and not from
the handlers again: `ShownNext` and `ContentNext` say how the pictures of the tree
and of the values move with each abstract step.  A listing is complete because a
node that it left out, with the least uuid, would have its parent in it.
`ViewIInv` adds to the properties what they need of those who have not listed the
tree: every picture is inside the tree, and empty before the sign-in
(`PicturesTrue`); a shadow has the nodes that its connection is subscribed to
(`ShadowsKept`).

**Remote calls** (`RpcRelayProof`).  `RelayIInv` says that a forwarded id is in one
place: its request or its answer is on one wire, once (`FlyOnce`); that its entry
in `mTrIdTranslation` stays while it is there, and leads to the call that it was
made of (`CallsFiled`); and that a result on its way to a caller is that of the
call under whose id it travels (`ResultsAddressed`).  The
assumption `~Overtake` (not 2^16 calls during one flight) is what makes a new
entry not replace one in use.  Each step of `RelayNext` is one of the server's or
leaves the server alone (`RelaySteps`), so `IInv` carries over unchanged.

**Values** (`ClientValueProof`).  `ClientIInv(c)` says of each client: an id flies
once and in one direction, under a transaction that is there without an answer
and below the counter (`FliesOnce`, `Unanswered`); what a thread waits for is in
the table and nobody else's (`Owned`); a fetch is answered with data
(`FetchesAnswered`).  On these stands the argument for convergence, which follows
the server's value backwards through the wire: the last update on its way to a
subscriber has it, and so has each answer to a fetch that no update is behind
(`NewsCurrent`), each such answer that a thread has yet to write
(`AnswersCurrent`), and the client itself, if neither an update is on its way to
it nor an assignment of its own to the server (`DataCurrent`).  `Converges` is the
case of empty wires.  Of the server it uses `TypeNext` and `TreeNext` as they
are: the first state is not one of `Init` but one in which all have signed in,
which is why `ValueIInvInit` builds the sessions and the tree again.

**The client's tree** (`ClientMirrorProof`, on `ClientThreadsProof`).
`ClientThreadsProof` has what every request goes through, once for all clients
(`Traffic`: an id flies once, in one direction, under a transaction that is there
for the one thread that waits for it), with a lemma for each thing that a thread,
the reader or the server does to it.  `MirrorIInv` adds what makes the client's
tree the server's.  Everything said of a node is true, and stays true: an entry
of a listing, whether it is on the wire, in a transaction or still to be added,
names a node under the name and the parent that it has for as long as it lives
(`TrueEntry`, `TrueMessage`, `TaskKnown`), and only dead nodes are announced as
deleted (`Announcement`); both stand on uuids that never come back.  From it
follows one object for each node (`Sole`), which needs that no object is ahead of
the server's counter (`Earlier`), or an accept for a uuid that an older object
has could make a second.  `ComesToKnow` is the argument for following the tree:
a node younger than the client's sign-in is known rightly or its announcement is
on its way, and the old node is known once the tree has been listed, because the
thread that lists it has the old node before it in each stage (`ListedWhole`:
the request is for the whole tree, the answer has the node, what is still to be
added has it, or it is known).  `Quiet` then leaves nothing on its way.
`ForgetIInv` is the same in the other direction: the client has been told of each
node that is gone or its deletion is on its way, and what the client knows besides
the tree has its deletion on its way or was revived.  It needs the order of the
wire, for an announcement of a node that is gone by now makes the client know it
again: its deletion is behind (`Ordered`), and so is that of its parent, which
`addNodes` may bring in as a ghost.

`ChildIInv` is about the children, where two nodes that have had one name at one
parent compete for a place.  What a message, an answer or a thread has to add, and
what an object of the client bears, is *claimed truly* (`ClaimTrue`): it is a true
entry, and if its node is gone but the client has yet to be told so, then the node
that has its name and parent now is announced behind every deletion of the old one
(`Late`).  The server makes room by deleting before it lets another create have the
name, so this holds of everything it says (`ClaimsServed`), and the reader, which
takes the wire in order, keeps it (`ClaimsTaken`).  So whoever puts a dead node in
the place of a living one, or takes the place away with the dead one, does it while
the announcement of the living one is still to come; what does it when the client
has been told of the deletion is `displaced`.  `InPlace` says the rest: a node that
the client knows as the tree has it is in its place, or is announced, or displaced.
For the accept of a `create` and the answer of a `destroy`, which name only a uuid
or nothing at all, it takes that what a thread is answered fits what it has asked
for (`Fits`), all the way from its request on the wire (`Claims`).  That a node with
a parent is told from one without needs that null is no object, which
`NodeAssumption` says.

The four ways in which the nodes of the client change (`EntryAdded`, `AcceptGrows`,
`UnlistGrows`, `NodeRemoved`) are shown once for any tree of a client, and the
steps only say which one they are.

**Framing** (`FramingProof`).  What a side has been sent and has not handled is in
three places: in `mBuff`, on the wire, and with the one sender that has begun its
message.  `InStep` says so byte by byte: one after the other, these are the bytes
of the messages sent and not handled, of which `Laid` has the places where each
starts (so that nothing has to be computed by recursion over the stream, and no
induction is needed).  It is kept by a `::send` in parts because at most one
sender of a direction is in the middle of a message (`OneAtATime`, until `mixed`)
and what it has left is the end of that message (`Remainders`); that it is at
most one thread follows from `mTransactionsMutex`, which a thread with bytes left
holds (`Exclusive`), and fails only for the reader's answers, which is what
`mixed` observes.  For the same reason the mutex has to keep the threads apart
from the reader and the reactor by name, which `FramingAssumption` asks.
A header that is read in halves breaks `InStep`, as it does the code: the invariant
claims it of an end for as long as `halved` and `mixed` say that neither has
happened to it, and both only ever become true.

**Only model-checked**: `ListsParentsFirst` (`NodeToAddList` is RECURSIVE, and what
a walk computes for every tree is an induction over data); `CreateOrGetFinds` of
`ClientMirror` and what is checked of `Monitor`, which are not proved yet; and all
liveness (`CallsReturn`, `OperationsEnd`, `CaughtIsWatched`,
`StopsInGridlockOnly`), as neither fairness nor ENABLED is within the prover's
reach.

## 6. Not modelled, and the plan

Not modelled: the encoding (generated; a message is what it decodes to) and the
sizes of what has to fit into its buffers; the setting up of sockets and the
failing of system calls; logging; of the monitor, `set` and `get` (which are
`ClientValue`'s operations), paths of several names and the line editor; the
handler of removed nodes, which only logs; data races below the level of critical
sections (children without their mutex, an iterator used after the lock); the
tests, the build and vendored code.

Planned:

1. A proof of `CreateOrGetFinds`: what `ChildIInv` says of announcements has to be
   said of a reject as well, that the node in its way was announced before it.
   Then the invariants of `Monitor`, whose requests have to become a parameter of
   the mirror's invariant.
2. The wrap of the client's own ids over what timeouts left.
