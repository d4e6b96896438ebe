----------------------------- MODULE ClientValue -----------------------------
(***************************************************************************)
(* The value of one node as the clients that share it see it: assignment   *)
(* and fetch, client/src/Property.hpp and Client.cpp, by any threads of a  *)
(* client, while its reader thread applies the updates.  The node's        *)
(* dataMutex is held through an assignment, its round trip to the server   *)
(* included; the reader, and a fetch that has its answer, take it to       *)
(* write.  All clients have signed in and know the node.                   *)
(***************************************************************************)
EXTENDS ClientThreads

CONSTANTS
    Subscribers,  \* the clients that subscribed to the node
    Setters,      \* the threads that assign to it
    Fetchers      \* the threads that fetch it

ASSUME ShareAssumption ==
    /\ Subscribers \subseteq Client
    /\ Thread = Setters \cup Fetchers
    /\ MaxUuid >= 1

\* The node.
U == 1

VARIABLES
    data,             \* Node::data at each client
    dataMutex,        \* at each client: the thread that holds it, or None
    stale             \* the clients that hold what an update had overtaken

valueVars == <<vars, threadVars, wires, data, dataMutex, stale>>

\* What a thread does; overtaken says that its client has applied an update since
\* the answer was there.
Task(does) == [does |-> does, id |-> None, overtaken |-> FALSE]

ValueTypeOK ==
    /\ TypeOK
    /\ data \in [Client -> Value]
    /\ dataMutex \in [Client -> Thread \cup {None}]
    /\ op \in [Thread -> {Idle} \cup
                [does : {"set", "fetch"}, id : ReqId, overtaken : BOOLEAN]]
    /\ ThreadsTypeOK([type : {"SetValueRequest"}, data : Value]
                     \cup [type : {"GetRequest"}])
    /\ stale \subseteq Client

\* Everybody has signed in, and the first of them has created the node.
ValueInit ==
    /\ SignedInInit
    /\ ThreadsInit
    /\ mUuidCtr = U + 1
    /\ \E n \in Name :
        mTree = Put(Put(EmptyMap, Root, [NewNode(None, None, None) EXCEPT
                                            !.children = Put(EmptyMap, n, U)]),
                    U, [NewNode(n, 0, Root) EXCEPT
                            !.listener = Restrict(mSessions,
                                {x \in DOMAIN mSessions : mSessions[x] \in Subscribers})])
    /\ data = [c \in Client |-> Empty]
    /\ dataMutex = [c \in Client |-> None]
    /\ stale = {}

-----------------------------------------------------------------------------
(* Faulty variants of definitions below, which nothing uses.               *)

\* The mutex stays locked when an assignment throws.
Thrown_locked(w) == dataMutex

-----------------------------------------------------------------------------
(* The threads of a program.                                               *)

\* Property::operator= and Property::set, up to the wait in Client::commit: the
\* mutex, the data, the request.
Assign(w, v) ==
    /\ w \in Setters
    /\ op[w] = Idle
    /\ dataMutex[w[1]] = None
    /\ dataMutex' = [dataMutex EXCEPT ![w[1]] = w]
    /\ data' = [data EXCEPT ![w[1]] = v]
    /\ Sends(w, Task("set"), [type |-> "SetValueRequest", data |-> v])
    /\ UNCHANGED <<vars, toClient, stale>>

\* The way out of an assignment: the lock goes out of scope.
Unlocked(w) == [dataMutex EXCEPT ![w[1]] = None]

AssignEnd(w) ==
    /\ op[w].does = "set"
    /\ Answered(w)
    /\ Returns(w, Idle)
    /\ dataMutex' = Unlocked(w)
    /\ UNCHANGED <<data, stale>>

\* Client::fetch up to its wait.
Fetch(w) ==
    /\ w \in Fetchers
    /\ op[w] = Idle
    /\ Sends(w, Task("fetch"), [type |-> "GetRequest"])
    /\ UNCHANGED <<vars, data, dataMutex, toClient, stale>>

\* Client::fetch with its answer: the mutex, the data.
FetchEnd(w) ==
    LET c == w[1] IN
    /\ op[w].does = "fetch"
    /\ Answered(w)
    /\ dataMutex[c] = None
    /\ data' = [data EXCEPT ![c] = AnswerTo(w).data]
    /\ stale' = IF op[w].overtaken THEN stale \cup {c} ELSE stale \ {c}
    /\ Returns(w, Idle)
    /\ UNCHANGED dataMutex

\* The lock goes out of scope on the way of an exception, too.
Thrown(w) == IF op[w].does = "set" THEN Unlocked(w) ELSE dataMutex

Expire(w) ==
    /\ Throws(w)
    /\ dataMutex' = Thrown(w)
    /\ UNCHANGED <<data, stale>>

-----------------------------------------------------------------------------
(* The reader threads and the server.                                      *)

\* Fetches of c that have their answer and wait for the mutex.
Fetched(c) ==
    {w \in ThreadsOf(c) : op[w].does = "fetch" /\ Answered(w)}

ReadAnswer(c) == ReadsAnswer(c) /\ UNCHANGED <<data, dataMutex, stale>>

\* Client::handle of UpdateNotification: the reader waits for the mutex.
ReadUpdate(c) ==
    /\ Takes(c)
    /\ ~Matches(c, Arrived(c))
    /\ dataMutex[c] = None
    /\ data' = [data EXCEPT ![c] = Arrived(c).message.data]
    /\ op' = [w \in Thread |-> IF w \in Fetched(c) THEN [op[w] EXCEPT !.overtaken = TRUE]
                               ELSE op[w]]
    /\ stale' = stale \ {c}
    /\ UNCHANGED <<vars, dataMutex, mTransactions, mTransactioIdCtr, toServer>>

Read(c) == ReadAnswer(c) \/ ReadUpdate(c)

\* The server handles the next request of c.
Serve(c) ==
    /\ TakesRequest(c)
    /\ LET t == Requested(c).transactionId
           m == Requested(c).message
       IN  IF m.type = "SetValueRequest" THEN SetValue(c, t, U, m.data)
           ELSE Get(c, t, U)
    /\ Delivers
    /\ UNCHANGED <<threadVars, data, dataMutex, stale>>

ValueNext ==
    \/ \E w \in Thread :
        \/ \E v \in Value : Assign(w, v)
        \/ AssignEnd(w) \/ Fetch(w) \/ FetchEnd(w) \/ Expire(w)
    \/ \E c \in Client : Read(c) \/ Serve(c)

\* Waits end after 500 ms, threads go on when they can, readers and the reactor
\* take what has come for them.
Fairness ==
    /\ \A w \in Thread : WF_valueVars(AssignEnd(w)) /\ WF_valueVars(Expire(w))
                         /\ WF_valueVars(FetchEnd(w))
    /\ \A c \in Client : WF_valueVars(Read(c)) /\ WF_valueVars(Serve(c))

ValueSpec == ValueInit /\ [][ValueNext]_valueVars /\ Fairness

-----------------------------------------------------------------------------
\* A subscriber to which everything has come that was sent holds the value that
\* was set last, by whomever, whichever assignments failed or timed out, and
\* although every one writes its value before the server has it: unless the
\* answer of a fetch was written after an update that is younger.
Converges ==
    \A c \in Subscribers :
        Settled(c) /\ c \notin stale => data[c] = mTree[U].data

\* Every assignment and every fetch comes to its end, with its answer or with an
\* exception: no lock is left behind, and no reader waits for one for ever.
OperationsEnd == \A w \in Thread : Waits(w) ~> ~Waits(w)

\* As shouldSubscribeUpdateAndUnsubscribe of E2ETest/BasicTest.cpp expects
\* ("EXPECT_EQ(child1.value<int>(), 43);"), a subscriber ends up with the value
\* that was set last.
SubscriberSeesLast ==
    \A c \in Subscribers : Settled(c) => data[c] = mTree[U].data

\* An assignment whose value the server has accepted returns, and does not wait
\* out its 500 ms for a "transaction failure" (Client.cpp, waitTransaction).
AcceptedReturns ==
    \A w \in Thread :
        (op[w].does = "set" /\ \E i \in DOMAIN toClient[w[1]] :
            toClient[w[1]][i].transactionId = op[w].id) ~> op[w] = Idle
=============================================================================
