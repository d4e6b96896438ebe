---------------------------- MODULE ClientThreads ----------------------------
(***************************************************************************)
(* What every request of a client goes through: client/src/Client.cpp,     *)
(* addTransaction, waitTransaction and the matching of answers, by any     *)
(* threads of a client, over the two directions of its connection.         *)
(***************************************************************************)
EXTENDS ProtocolHandler, Functions

CONSTANTS
    Thread,   \* the threads of the clients, each <<client, which>>
    Expires   \* do 500 ms ever pass without an answer?

Client == {w[1] : w \in Thread}
ThreadsOf(c) == {w \in Thread : w[1] = c}

ASSUME ThreadAssumption ==
    /\ Client \subseteq Conn
    /\ IsFiniteSet(Conn)
    /\ MaxSession >= Cardinality(Conn)
    /\ Expires \in BOOLEAN
    /\ None \notin ReqId \cup Body

VARIABLES
    op,               \* what each thread is doing
    mTransactions,    \* of each client: id -> the answer, or None
    mTransactioIdCtr, \* of each client
    toServer,         \* the requests each client has sent
    toClient          \* what the server has sent to each client

threadVars == <<op, mTransactions, mTransactioIdCtr>>
wires == <<toServer, toClient>>

\* What a thread does is a record: "does" is the operation that it is in, and
\* while it waits for an answer "id" is its transaction, else None.
Idle == [does |-> "nothing", id |-> None]
Waits(w) == op[w].id # None

\* The tables and the wires have their types.
ThreadsTypeOK(Message_) ==
    /\ \A c \in Client : IsMap(mTransactions[c], ReqId, Body \cup {None})
    /\ mTransactioIdCtr \in [Client -> Nat]
    /\ toServer \in [Client -> Seq([transactionId : ReqId, message : Message_])]
    /\ toClient \in [Client -> Seq(Message)]

ThreadsInit ==
    /\ op = [w \in Thread |-> Idle]
    /\ mTransactions = [c \in Client |-> EmptyMap]
    /\ mTransactioIdCtr = [c \in Client |-> 0]
    /\ toServer = [c \in Client |-> <<>>]
    /\ toClient = [c \in Client |-> <<>>]

\* Everybody has connected and signed in; in which order is the same to all that
\* follows.
SignedInInit ==
    /\ status = "running"
    /\ link = [c \in Conn |-> "open"]
    /\ fault = None
    /\ mSessionIdCtr = Cardinality(Conn)
    /\ mConnectionToSessionId =
            CHOOSE b \in Bijection(Conn, 0 .. mSessionIdCtr - 1) : TRUE
    /\ mSessions = AntiFunction(mConnectionToSessionId)
    /\ mTrIdCtr = 0
    /\ mTrIdTranslation = EmptyMap
    /\ out = Silence

-----------------------------------------------------------------------------
(* Faulty variants of definitions below, which nothing uses.               *)

\* The reader keeps the packet instead of its message, or drops the entry.
Satisfied_packet(c, m) == [mTransactions EXCEPT ![c][m.transactionId] = m]
Satisfied_erased(c, m) == [mTransactions EXCEPT ![c] = Erase(@, m.transactionId)]

-----------------------------------------------------------------------------
\* addTransaction for the thread w, which will wait as `task' says: the next id,
\* the entry and the message.
Sends(w, task, message) ==
    LET c == w[1]
        id == mTransactioIdCtr[c]
    IN  /\ id \in ReqId
        /\ mTransactioIdCtr' = [mTransactioIdCtr EXCEPT ![c] = id + 1]
        /\ mTransactions' = [mTransactions EXCEPT ![c] = Emplace(@, id, None)]
        /\ toServer' = [toServer EXCEPT ![c] = Append(@, Packet(id, message))]
        /\ op' = [op EXCEPT ![w] = [task EXCEPT !.id = id]]

\* The message in the transaction of the thread w, None before it is satisfied.
AnswerTo(w) == mTransactions[w[1]][op[w].id]
Answered(w) == Waits(w) /\ AnswerTo(w) # None

\* waitTransaction with the answer: the entry goes, and the thread goes on.
Returns(w, task) ==
    /\ mTransactions' = [mTransactions EXCEPT ![w[1]] = Erase(@, op[w].id)]
    /\ op' = [op EXCEPT ![w] = task]
    /\ UNCHANGED <<vars, mTransactioIdCtr, wires>>

\* waitTransaction throws after 500 ms, and leaves the transaction where it is.
Throws(w) ==
    /\ Expires
    /\ Waits(w)
    /\ ~Answered(w)
    /\ op' = [op EXCEPT ![w] = Idle]
    /\ UNCHANGED <<vars, mTransactions, mTransactioIdCtr, wires>>

\* The next message for c, and the reader's turn to take it.
Arrived(c) == Head(toClient[c])
Takes(c) == toClient[c] # <<>> /\ toClient' = [toClient EXCEPT ![c] = Tail(@)]

\* Client::handle(PropertyTreeMessage): is m the answer of a transaction?
Matches(c, m) == m.transactionId \in DOMAIN mTransactions[c]

\* The transaction under the id of m gets its message.
Satisfied(c, m) == [mTransactions EXCEPT ![c][m.transactionId] = m.message]

ReadsAnswer(c) ==
    /\ Takes(c)
    /\ Matches(c, Arrived(c))
    /\ mTransactions' = Satisfied(c, Arrived(c))
    /\ UNCHANGED <<vars, op, mTransactioIdCtr, toServer>>

\* The next request of c, and the reactor's turn to take it.
Requested(c) == Head(toServer[c])
TakesRequest(c) ==
    toServer[c] # <<>> /\ toServer' = [toServer EXCEPT ![c] = Tail(@)]

\* What the latest handler of the server wrote is on its way.
Delivers == toClient' = [c \in Client |-> toClient[c] \o out'[c]]

\* Nothing is under way between c and the server, and no thread of c is busy.
Settled(c) ==
    /\ toServer[c] = <<>> /\ toClient[c] = <<>>
    /\ \A w \in ThreadsOf(c) : op[w] = Idle

-----------------------------------------------------------------------------
\* waitTransaction follows the iterator that it finds for its id without a look:
\* the entry is there for as long as a thread waits for it, whatever other
\* threads of the client and late answers do to the table, and no two threads
\* of a client wait for the same one.
WaitsOwned ==
    \A w \in Thread :
        Waits(w) =>
            /\ op[w].id \in DOMAIN mTransactions[w[1]]
            /\ \A x \in ThreadsOf(w[1]) \ {w} : Waits(x) => op[x].id # op[w].id
=============================================================================
