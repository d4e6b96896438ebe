------------------------------- MODULE Monitor -------------------------------
(***************************************************************************)
(* The monitor, monitor/src/main.cpp, on top of the client's tree: a       *)
(* console whose commands run on the main thread, the handler of new       *)
(* nodes, which runs on whichever thread adds them to the tree, and a      *)
(* worker that subscribes to them, since the handler must not wait for the *)
(* reader that it runs on.  Other clients create and delete nodes.         *)
(* Requests do not time out here: the exception would end the monitor.     *)
(***************************************************************************)
EXTENDS ClientMirror

Console == <<Me, "console">>
Worker == <<Me, "worker">>
Reader == <<Me, "reader">>

ASSUME MonitorAssumption ==
    /\ Thread = {Console, Worker}
    /\ Expires = FALSE

VARIABLES
    mRunning, mAutowatch,
    added,              \* of the reader and the console: the node it has added, and
                        \* is to call the handler for
    mmTreeHandlerMutex, \* which of the two holds it while it queues a node, or None
    mToSubscribe,       \* the new nodes for the worker
    mToSubscribeMutex,  \* Worker, while it is about to sleep, or None
    worker,             \* awake, about to sleep, asleep, or at its end
    tosub,              \* what the worker has taken to subscribe to
    updateHandler,      \* the nodes that have one
    walk                \* where the list command is, or NoWalk

\* Observations: the nodes that autowatch caught, those unsubscribed by hand, and
\* during a list, the first uuid that was free when it began, and the nodes that
\* have been given children since.
VARIABLES caught, dismissed, since, grown

handlerVars == <<added, mmTreeHandlerMutex>>
workerVars == <<handlerVars, mToSubscribe, mToSubscribeMutex, worker, tosub>>
consoleVars == <<mRunning, mAutowatch, updateHandler, walk>>
seen == <<caught, dismissed, since, grown>>
monitorVars == <<mirrorVars, workerVars, consoleVars, seen>>

\* The enum in onCmdList, which is not initialised: a list without an action may
\* do any of them.
Action == {"NONE", "DEL", "SUB", "UNSUB"}
NoWalk == [action |-> "NONE", levels |-> <<>>, begun |-> FALSE]

\* A level of the traversal: the children that are to be visited, the one that
\* was visited last, and whether it has been entered.
Level(children) == [rest |-> children, child |-> None, entered |-> TRUE]

MonitorTypeOK ==
    /\ TypeOK
    /\ mRunning \in BOOLEAN /\ mAutowatch \in BOOLEAN
    /\ added \in [{Reader, Console} -> SUBSET DOMAIN mirror.nodes]
    /\ mmTreeHandlerMutex \in {Reader, Console, None}
    /\ mToSubscribe \in Seq(DOMAIN mirror.nodes)
    /\ tosub \in Seq(DOMAIN mirror.nodes)
    /\ mToSubscribeMutex \in {Worker, None}
    /\ worker \in {"awake", "dozing", "asleep", "ended"}
    /\ updateHandler \subseteq DOMAIN mirror.nodes
    /\ walk.action \in Action
    /\ \A i \in DOMAIN walk.levels :
        /\ walk.levels[i].rest \subseteq DOMAIN mirror.nodes
        /\ walk.levels[i].child \in DOMAIN mirror.nodes \cup {None}
    /\ caught \subseteq Uuid /\ dismissed \subseteq Uuid /\ grown \subseteq Uuid

MonitorInit ==
    /\ MirrorInit
    /\ mRunning = TRUE
    /\ mAutowatch = FALSE
    /\ added = [s \in {Reader, Console} |-> {}]
    /\ mmTreeHandlerMutex = None
    /\ mToSubscribe = <<>> /\ tosub = <<>>
    /\ mToSubscribeMutex = None
    /\ worker = "awake"
    /\ updateHandler = {}
    /\ walk = NoWalk
    /\ caught = {} /\ dismissed = {}
    /\ since = 0 /\ grown = {}

-----------------------------------------------------------------------------
(* Faulty variants of definitions below, which nothing uses.               *)

\* The worker keeps its lock while it subscribes.
Unlocked_kept == Worker

\* The handler assigns what it should append.
Pushed_alone(o) == <<o>>

\* list deletes a node only when it had no children to begin with.
Deletable_leaf(o) == FALSE

-----------------------------------------------------------------------------
(* The handler of new nodes.                                               *)

\* notify_one
Notified == IF worker = "asleep" THEN "awake" ELSE worker

Pushed(o) == Append(mToSubscribe, o)

\* addNodes calls the handler for a node that it did not know, and for one that
\* had no parent.
Fresh(e) == ~Known(mirror, e.uuid) \/ Local(e.uuid).parent = None

\* The thread s has added these entries, and released mTreeMutex.
Adds(s, entries) ==
    /\ LET fresh == {e \in entries : Fresh(e)}
       IN  added' = [added EXCEPT ![s] = {mirror'.mTree[e.uuid] : e \in fresh}]
    /\ UNCHANGED <<mmTreeHandlerMutex, mToSubscribe, mToSubscribeMutex, worker, tosub>>

\* The reader handles a notification.  removeNodes calls a handler of its own.
ReaderAdds ==
    /\ added[Reader] = {}
    /\ ReadNotification
    /\ \A u \in Arrived(Me).message.nodeToDelete :
        Known(mirror, u) => mmTreeHandlerMutex = None
    /\ Adds(Reader, Arrived(Me).message.nodeToAddList)
    /\ UNCHANGED <<consoleVars, seen>>

\* The console adds an entry of a listing.
ConsoleAdds ==
    /\ added[Console] = {}
    /\ AddNext(Console)
    /\ Adds(Console, op[Console].todo \ op'[Console].todo)
    /\ UNCHANGED <<consoleVars, seen>>

\* The handler of setTreeAddHandler up to its lock of the queue, or to its return
\* when autowatch is off.
HandlerBegins(s) ==
    /\ added[s] # {}
    /\ mmTreeHandlerMutex = None
    /\ IF mAutowatch
       THEN /\ mmTreeHandlerMutex' = s
            /\ caught' = caught \cup {o[1] : o \in added[s]}
            /\ UNCHANGED added
       ELSE /\ added' = [added EXCEPT ![s] = {}]
            /\ UNCHANGED <<mmTreeHandlerMutex, caught>>
    /\ UNCHANGED <<mirrorVars, mToSubscribe, mToSubscribeMutex, worker, tosub,
                   consoleVars, dismissed, since, grown>>

\* The node is queued, the worker notified, and both mutexes are released.
HandlerQueues(s) ==
    /\ mmTreeHandlerMutex = s
    /\ mToSubscribeMutex = None
    /\ \E o \in added[s] : mToSubscribe' = Pushed(o)
    /\ worker' = Notified
    /\ mmTreeHandlerMutex' = None
    /\ added' = [added EXCEPT ![s] = {}]
    /\ UNCHANGED <<mirrorVars, mToSubscribeMutex, tosub, consoleVars, seen>>

-----------------------------------------------------------------------------
(* The commands.                                                           *)

\* The console waits for a command.
AtPrompt == mRunning /\ op[Console] = Idle /\ walk = NoWalk

\* onCmdAutoWatch
AutoWatch(enabled) ==
    /\ AtPrompt
    /\ mAutowatch # enabled
    /\ mAutowatch' = enabled
    /\ UNCHANGED <<mirrorVars, workerVars, mRunning, updateHandler, walk, seen>>

\* exit, which notifies without the mutex, so that a worker that is about to sleep
\* misses it.  The destructor that is left finds the worker's thread unjoined.
Exits ==
    /\ AtPrompt
    /\ mRunning' = FALSE
    /\ worker' = Notified
    /\ UNCHANGED <<mirrorVars, handlerVars, mToSubscribe, mToSubscribeMutex, tosub,
                   mAutowatch, updateHandler, walk, seen>>

\* Client::subscribe and Client::unsubscribe up to their wait.
Asks(w, does, type, o) ==
    /\ Sends(w, Task(does, o, None), [type |-> type, uuid |-> o[1]])
    /\ UNCHANGED <<vars, toClient, mirror, history>>

AsksSubscribe(w, o) == Asks(w, "subscribe", "SubscribeRequest", o)
AsksUnsubscribe(w, o) ==
    /\ Asks(w, "unsubscribe", "UnsubscribeRequest", o)
    /\ dismissed' = dismissed \cup ({o[1]} \cap caught)

\* The nodes that a path may lead to, of which "/" is the root.
Paths == {mirror.mTree[u] : u \in DOMAIN mirror.mTree}

\* onCmdCreate, onCmdSubscribe, onCmdUnsubscribe and onCmdDelete.
Command ==
    /\ AtPrompt
    /\ \/ /\ \/ \E o \in Paths, n \in Name : Create_(Console, o, n)
             \/ \E o \in Paths : AsksSubscribe(Console, o) \/ Destroy(Console, o)
          /\ UNCHANGED seen
       \/ /\ \E o \in Paths : AsksUnsubscribe(Console, o)
          /\ UNCHANGED <<caught, since, grown>>
    /\ UNCHANGED <<workerVars, consoleVars>>

\* prop.subscribe(), whose result is ignored, then prop.setUpdateHandler.
Subscribed(w) ==
    /\ Got(w, "subscribe", "SubscribeResponse")
    /\ updateHandler' = updateHandler \cup {op[w].at}
    /\ Returns(w, Idle)
    /\ UNCHANGED <<mirror, history, mRunning, mAutowatch, walk, seen>>

\* The console has the answer it waits for.
Continues ==
    \/ /\ Subscribed(Console)
       /\ UNCHANGED workerVars
    \/ /\ \/ CreateAccepted(Console) \/ CreateRejected(Console)
          \/ GetAnswered(Console) \/ (added[Console] = {} /\ GetEnd(Console))
          \/ Destroyed(Console)
          \/ /\ Got(Console, "unsubscribe", "UnsubscribeResponse")
             /\ Returns(Console, Idle)
             /\ UNCHANGED <<mirror, history>>
       /\ UNCHANGED <<workerVars, consoleVars, seen>>

-----------------------------------------------------------------------------
(* onCmdList, of the root.                                                 *)

\* The children that Property::children returns.
Kids(o) == {Children(o)[n] : n \in DOMAIN Children(o)}

Depth == Len(walk.levels)
Top == walk.levels[Depth]

\* The command up to its wait in loadChildren.
List ==
    /\ AtPrompt
    /\ LoadChildren(Console, RootNode, TRUE)
    /\ walk' = [NoWalk EXCEPT !.begun = TRUE]
    /\ since' = mUuidCtr
    /\ grown' = {}
    /\ UNCHANGED <<workerVars, mRunning, mAutowatch, updateHandler, caught, dismissed>>

\* The steps of the traversal, between the requests that it waits for.
Walking == walk.begun /\ op[Console] = Idle

\* The action is looked at from here on.
ListBegins ==
    /\ Walking
    /\ Depth = 0
    /\ \E action \in Action \ {"NONE"} :
        walk' = [walk EXCEPT !.action = action, !.levels = <<Level(Kids(RootNode))>>]
    /\ UNCHANGED <<mirrorVars, workerVars, mRunning, mAutowatch, updateHandler, seen>>

\* The next child of the level is subscribed to, or the opposite; its data, which
\* it is asked for in any case, is left out.
ListVisits ==
    /\ Walking
    /\ Depth > 0 /\ Top.entered
    /\ \E o \in Top.rest :
        /\ walk' = [walk EXCEPT !.levels[Depth] =
                        [rest |-> @.rest \ {o}, child |-> o, entered |-> FALSE]]
        /\ \/ walk.action = "SUB" /\ AsksSubscribe(Console, o) /\ UNCHANGED dismissed
           \/ walk.action = "UNSUB" /\ AsksUnsubscribe(Console, o)
           \/ walk.action = "DEL" /\ UNCHANGED <<mirrorVars, dismissed>>
    /\ UNCHANGED <<workerVars, mRunning, mAutowatch, updateHandler, caught,
                   since, grown>>

\* child.destroy(), under DEL.
MayDestroy(o, deletable) ==
    IF walk.action = "DEL" /\ deletable
    THEN Destroy(Console, o) ELSE UNCHANGED mirrorVars

\* Then the traversal goes down to its children, or the node is deleted.
ListEnters ==
    /\ Walking
    /\ Depth > 0 /\ ~Top.entered
    /\ LET o == Top.child
           entered == [walk.levels EXCEPT ![Depth].entered = TRUE]
       IN  IF Kids(o) # {}
           THEN /\ walk' = [walk EXCEPT !.levels = Append(entered, Level(Kids(o)))]
                /\ UNCHANGED mirrorVars
           ELSE /\ walk' = [walk EXCEPT !.levels = entered]
                /\ MayDestroy(o, TRUE)
    /\ UNCHANGED <<workerVars, mRunning, mAutowatch, updateHandler, seen>>

\* childrenSize() of a node whose children have been visited.
Deletable(o) == Kids(o) = {}

\* A level is done: its node goes if it has no children any more.
ListLeaves ==
    /\ Walking
    /\ Depth > 1 /\ Top.entered /\ Top.rest = {}
    /\ LET o == walk.levels[Depth - 1].child IN MayDestroy(o, Deletable(o))
    /\ walk' = [walk EXCEPT !.levels = SubSeq(@, 1, Depth - 1)]
    /\ UNCHANGED <<workerVars, mRunning, mAutowatch, updateHandler, seen>>

\* A list with none of the actions is over when it has the tree, since its traversal
\* writes nothing.
ListEnds ==
    /\ Walking
    /\ \/ Depth = 1 /\ Top.entered /\ Top.rest = {}
       \/ Depth = 0
    /\ walk' = NoWalk
    /\ since' = 0 /\ grown' = {}
    /\ UNCHANGED <<mirrorVars, workerVars, mRunning, mAutowatch, updateHandler,
                   caught, dismissed>>

-----------------------------------------------------------------------------
(* The worker.                                                             *)

\* The lock of the worker once it has taken the list.
Unlocked == None

\* The loop up to the wait on mToSubscribeCv and past it: the predicate holds.
WorkerTakes ==
    /\ worker = "awake" /\ tosub = <<>>
    /\ mToSubscribeMutex = None
    /\ mToSubscribe # <<>> \/ ~mRunning
    /\ tosub' = mToSubscribe
    /\ mToSubscribe' = <<>>
    /\ mToSubscribeMutex' = Unlocked
    /\ UNCHANGED <<mirrorVars, handlerVars, worker, consoleVars, seen>>

\* The predicate does not hold: the worker sleeps, after another step.
WorkerDozes ==
    /\ worker = "awake" /\ tosub = <<>>
    /\ mToSubscribeMutex = None
    /\ mToSubscribe = <<>> /\ mRunning
    /\ worker' = "dozing"
    /\ mToSubscribeMutex' = Worker
    /\ UNCHANGED <<mirrorVars, handlerVars, mToSubscribe, tosub, consoleVars, seen>>

WorkerSleeps ==
    /\ worker = "dozing"
    /\ worker' = "asleep"
    /\ mToSubscribeMutex' = None
    /\ UNCHANGED <<mirrorVars, handlerVars, mToSubscribe, tosub, consoleVars, seen>>

\* A condition variable may wake without a reason.
WorkerWakes ==
    /\ worker = "asleep"
    /\ worker' = "awake"
    /\ UNCHANGED <<mirrorVars, handlerVars, mToSubscribe, mToSubscribeMutex, tosub,
                   consoleVars, seen>>

\* while(mRunning)
WorkerEnds ==
    /\ worker = "awake" /\ tosub = <<>> /\ op[Worker] = Idle
    /\ ~mRunning
    /\ worker' = "ended"
    /\ UNCHANGED <<mirrorVars, handlerVars, mToSubscribe, mToSubscribeMutex, tosub,
                   consoleVars, seen>>

WorkerSubscribes ==
    /\ tosub # <<>> /\ op[Worker] = Idle
    /\ AsksSubscribe(Worker, Head(tosub))
    /\ UNCHANGED <<workerVars, consoleVars, seen>>

WorkerSubscribed ==
    /\ Subscribed(Worker)
    /\ tosub' = Tail(tosub)
    /\ UNCHANGED <<handlerVars, mToSubscribe, mToSubscribeMutex, worker>>

-----------------------------------------------------------------------------
(* The server.                                                             *)

\* It answers the requests that the client's tree does not know of.
ServeSubscriptions ==
    /\ TakesRequest(Me)
    /\ LET t == Requested(Me).transactionId
           m == Requested(Me).message
       IN  \/ m.type = "SubscribeRequest" /\ Subscribe(Me, t, m.uuid)
           \/ m.type = "UnsubscribeRequest" /\ Unsubscribe(Me, t, m.uuid)
    /\ Delivers
    /\ UNCHANGED <<threadVars, mirror, history>>

Subscription == {"SubscribeRequest", "UnsubscribeRequest"}
IsSubscription == toServer[Me] # <<>> /\ Requested(Me).message.type \in Subscription

\* The parents of the nodes that the server has just made, during a list.
Grows ==
    grown' = IF walk = NoWalk THEN {}
             ELSE grown \cup {mTree'[u].parent : u \in DOMAIN mTree' \ DOMAIN mTree}

ServeMonitor ==
    /\ IF IsSubscription THEN ServeSubscriptions ELSE Serve
    /\ Grows
    /\ UNCHANGED <<workerVars, consoleVars, caught, dismissed, since>>

\* Here only the monitor's own "delete path=/" may crash the server; that of others
\* is in ClientMirror.
ServeOthers ==
    /\ ServeOther
    /\ status' = status
    /\ Grows
    /\ UNCHANGED <<workerVars, consoleVars, caught, dismissed, since>>

ReadAnswers ==
    /\ added[Reader] = {}
    /\ ReadAnswer
    /\ UNCHANGED <<workerVars, consoleVars, seen>>

-----------------------------------------------------------------------------
WorkerNext ==
    \/ WorkerTakes \/ WorkerDozes \/ WorkerSleeps \/ WorkerEnds
    \/ WorkerSubscribes \/ WorkerSubscribed

ConsoleNext ==
    \/ Continues \/ ConsoleAdds \/ HandlerBegins(Console) \/ HandlerQueues(Console)
    \/ ListBegins \/ ListVisits \/ ListEnters \/ ListLeaves \/ ListEnds

ReaderNext ==
    \/ ReadAnswers \/ ReaderAdds \/ HandlerBegins(Reader) \/ HandlerQueues(Reader)

MonitorNext ==
    \/ \E b \in BOOLEAN : AutoWatch(b)
    \/ List \/ Exits \/ Command
    \/ ConsoleNext \/ WorkerNext \/ WorkerWakes \/ ReaderNext
    \/ ServeMonitor \/ ServeOthers

\* The threads go on when they can, and the reactor takes what has come.  A thread
\* that waits for the queue's mutex has it in the end, even against a worker that
\* wakes without a reason and takes it again and again.
MonitorFairness ==
    /\ WF_monitorVars(WorkerNext) /\ WF_monitorVars(ConsoleNext)
    /\ WF_monitorVars(ReaderNext) /\ WF_monitorVars(ServeMonitor)
    /\ SF_monitorVars(HandlerQueues(Reader) \/ HandlerQueues(Console))

MonitorSpec == MonitorInit /\ [][MonitorNext]_monitorVars /\ MonitorFairness

-----------------------------------------------------------------------------
\* The server has the monitor among the listeners of u.
Heard(u) == mConnectionToSessionId[Me] \in DOMAIN mTree[u].listener

\* When all is done, autowatch has missed no node: each one that the handler was
\* called for, lives and was not unsubscribed by hand is subscribed to and has its
\* update handler, whichever thread added it and whatever the worker was doing.
CaughtAreHeard ==
    Quiet /\ walk = NoWalk /\ mmTreeHandlerMutex = None
          /\ mToSubscribe = <<>> /\ tosub = <<>> /\ mRunning =>
        \A u \in (caught \cap DOMAIN mTree) \ dismissed :
            Heard(u) /\ mirror.mTree[u] \in updateHandler

\* A list with deletion goes from the leaves up, and leaves only nodes below which
\* something was created in the meantime: the answer of each deletion comes after
\* the notifications that bear on the parent's children (unless a late accept or
\* listing has confused them).
ListDeletes ==
    [][ListEnds /\ walk.action = "DEL" /\ revived = {} /\ displaced = {} =>
        \A u \in (1 .. since - 1) \cap DOMAIN mTree :
            \E v \in Subtree(u) : v >= since \/ v \in grown]_monitorVars

\* The monitor has had all the requests, or the server all the nodes, that this
\* instance lets them make.
Spent ==
    \/ mTransactioIdCtr[Me] \notin ReqId
    \/ /\ mUuidCtr \notin Uuid
       /\ toServer[Me] # <<>> /\ Requested(Me).message.type = "CreateRequest"

\* Worker, console and reader never wait for each other in a circle: the worker with
\* the queue's lock for an answer, the reader, who has to bring it, in the handler
\* for that lock, or for the console, which is in the handler.  Every node that
\* autowatch caught is subscribed to in the end, unless the monitor is left or the
\* server crashes.
CaughtIsWatched ==
    []<>(\/ ~mRunning \/ status = "crashed" \/ Spent
         \/ \A u \in caught : \E o \in updateHandler : o[1] = u)
=============================================================================
