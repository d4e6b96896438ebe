------------------------------ MODULE RpcRelay ------------------------------
(***************************************************************************)
(* Remote calls from end to end: the transaction tables of the clients,    *)
(* client/src/Client.cpp, on both sides of the server that relays.  A      *)
(* client's threads make calls and wait for them while its one reader      *)
(* thread takes messages from the socket in their order: it gives each     *)
(* message to the transaction of its id when there is one, whatever the    *)
(* message is, and answers the calls that others make to its nodes.        *)
(*                                                                         *)
(* The payload of a call is the call itself, <<caller, its transaction     *)
(* id>>, and the result repeats it, so that a result shows its call.       *)
(***************************************************************************)
EXTENDS ProtocolHandler

CONSTANTS
    Overtake,  \* may mTrIdCtr come round to an id that is still in flight?
    Expires    \* do 500 ms ever pass without an answer?

ASSUME PayloadAssumption == Param = Conn \X ReqId
ASSUME SwitchAssumption == Overtake \in BOOLEAN /\ Expires \in BOOLEAN

VARIABLES
    mTransactions,    \* of each client: id -> transaction
    mTransactioIdCtr, \* of each client; other requests use up ids in between
    toServer,         \* the requests and answers each client has sent
    toClient          \* what the server has sent of remote calls to each client

clientVars == <<mTransactions, mTransactioIdCtr>>
wires == <<toServer, toClient>>
relayVars == <<vars, clientVars, wires>>

\* struct Transaction; waited is false once its thread gave up, for the entry
\* stays.
Transaction == [waited : BOOLEAN, satisfied : BOOLEAN, message : Body \cup {None}]

FromServer == [transactionId : TrId, message : RpcAnswer
                \cup [type : {"RpcRequest"}, uuid : Uuid, param : Param]]
FromClient == [transactionId : TrId, message : RpcAnswer
                \cup [type : {"RpcRequest"}, uuid : Uuid]]

RelayTypeOK ==
    /\ TypeOK
    /\ \A c \in Conn : IsMap(mTransactions[c], ReqId, Transaction)
    /\ mTransactioIdCtr \in [Conn -> Nat]
    /\ toServer \in [Conn -> Seq(FromClient)]
    /\ toClient \in [Conn -> Seq(FromServer)]

RelayInit ==
    /\ Init
    /\ mTransactions = [c \in Conn |-> EmptyMap]
    /\ mTransactioIdCtr = [c \in Conn |-> 0]
    /\ toServer = [c \in Conn |-> <<>>]
    /\ toClient = [c \in Conn |-> <<>>]

-----------------------------------------------------------------------------
(* The threads of a client.                                                *)

\* Client::call up to its wait: addTransaction.  Calls of the root, over which the
\* server crashes, are left to ProtocolHandler.
Call(c, t, u) ==
    /\ link[c] = "open" /\ SignedIn(c)
    /\ u \in 1 .. mUuidCtr - 1
    /\ t >= mTransactioIdCtr[c]
    /\ mTransactioIdCtr' = [mTransactioIdCtr EXCEPT ![c] = t + 1]
    /\ mTransactions' = [mTransactions EXCEPT ![c] =
            Emplace(@, t, [waited |-> TRUE, satisfied |-> FALSE, message |-> None])]
    /\ toServer' = [toServer EXCEPT ![c] =
            Append(@, Packet(t, [type |-> "RpcRequest", uuid |-> u]))]
    /\ UNCHANGED <<vars, toClient>>

\* waitTransaction returns the message and erases the transaction; what call
\* makes of the message is up to its type.
Finish(c, t) ==
    /\ t \in DOMAIN mTransactions[c]
    /\ mTransactions[c][t].waited /\ mTransactions[c][t].satisfied
    /\ mTransactions' = [mTransactions EXCEPT ![c] = Erase(@, t)]
    /\ UNCHANGED <<vars, mTransactioIdCtr, wires>>

\* waitTransaction throws after 500 ms, and leaves the transaction where it is.
Expire(c, t) ==
    /\ Expires
    /\ t \in DOMAIN mTransactions[c]
    /\ mTransactions[c][t].waited /\ ~mTransactions[c][t].satisfied
    /\ mTransactions' = [mTransactions EXCEPT ![c][t].waited = FALSE]
    /\ UNCHANGED <<vars, mTransactioIdCtr, wires>>

\* The transactions that a message with this id satisfies.
Matched(c, id) == DOMAIN mTransactions[c] \cap {id}

\* The causes for which an owner refuses a call: it has removed the node by now,
\* or has set no handler.
Refusals == {"NOT_FOUND", "NO_HANDLER"}

\* The reader thread: Client::handle of PropertyTreeMessage and of RpcRequest.
Read(c) ==
    /\ toClient[c] # <<>>
    /\ LET m == Head(toClient[c])
           matched == Matched(c, m.transactionId)
       IN  \/ /\ matched # {}
              /\ \E t \in matched :
                    mTransactions' = [mTransactions EXCEPT
                        ![c][t].satisfied = TRUE, ![c][t].message = m.message]
              /\ UNCHANGED toServer
           \/ /\ matched = {} /\ m.message.type = "RpcRequest"
              /\ \E answer \in
                    [type : {"RpcAccept"}, value : {m.message.param}]
                    \cup [type : {"RpcReject"}, cause : Refusals] :
                    toServer' = [toServer EXCEPT ![c] =
                                    Append(@, Packet(m.transactionId, answer))]
              /\ UNCHANGED mTransactions
           \/ /\ matched = {} /\ m.message.type # "RpcRequest"
              /\ UNCHANGED <<mTransactions, toServer>>
    /\ toClient' = [toClient EXCEPT ![c] = Tail(@)]
    /\ UNCHANGED <<vars, mTransactioIdCtr>>

-----------------------------------------------------------------------------
(* The server and the wires.                                               *)

\* The requests on their way to c, or waiting there to be read.
Requests(c) ==
    {toClient[c][i] : i \in
        {j \in DOMAIN toClient[c] : toClient[c][j].message.type = "RpcRequest"}}

\* The answers on their way from c.
Answers(c) ==
    {toServer[c][i] : i \in
        {j \in DOMAIN toServer[c] : toServer[c][j].message.type # "RpcRequest"}}

\* The ids of the calls that their owners have not answered yet.
InFlight == {k.transactionId : k \in UNION {Requests(c) \cup Answers(c) : c \in Conn}}

\* The server handles the next message of c.
Serve(c) ==
    /\ toServer[c] # <<>>
    /\ LET k == Head(toServer[c])
           t == k.transactionId
       IN  IF k.message.type = "RpcRequest"
           THEN /\ Overtake \/ mTrIdCtr \notin InFlight
                /\ RpcRequest(c, t, k.message.uuid, <<c, t>>)
           ELSE RpcReply(c, t, k.message)
    /\ toServer' = [toServer EXCEPT ![c] = Tail(@)]
    /\ toClient' = [d \in Conn |-> toClient[d] \o out'[d]]
    /\ UNCHANGED clientVars

\* A client ends, and what is on its wires is lost.
Leave(c) ==
    /\ Disconnect(c)
    /\ mTransactions' = [mTransactions EXCEPT ![c] = EmptyMap]
    /\ toServer' = [toServer EXCEPT ![c] = <<>>]
    /\ toClient' = [toClient EXCEPT ![c] = <<>>]
    /\ UNCHANGED mTransactioIdCtr

\* Everything else that bears on calls.
Other(c) ==
    /\ \/ Connect(c)
       \/ \E t \in ReqId : ~SignedIn(c) /\ Signin(c, t)
       \/ \E t \in ReqId, p \in Uuid, n \in Name : SignedIn(c) /\ Create(c, t, p, n)
       \/ \E t \in ReqId, u \in Uuid : SignedIn(c) /\ Delete(c, t, u)
    /\ UNCHANGED <<clientVars, wires>>

RelayNext ==
    \E c \in Conn :
        \/ \E t \in ReqId, u \in Uuid : Call(c, t, u)
        \/ \E t \in ReqId : Finish(c, t) \/ Expire(c, t)
        \/ Read(c)
        \/ Serve(c)
        \/ Leave(c)
        \/ Other(c)

\* The reader threads and the reactor take what has come for them.
Fairness ==
    \A c \in Conn : WF_relayVars(Read(c)) /\ WF_relayVars(Serve(c))

RelaySpec == RelayInit /\ [][RelayNext]_relayVars /\ Fairness

-----------------------------------------------------------------------------
\* mTrIdTranslation maps "<DestinationTrId, <SourceSessionId, SourceTrId>>"
\* (ProtocolHandler.hpp): every request that is on its way to an owner has the
\* entry of that very call, whatever was called, answered, lost, deleted or
\* disconnected since.
TranslationSound ==
    \A d \in Conn : \A k \in Requests(d) :
        LET call == k.message.param IN
        /\ k.transactionId \in DOMAIN mTrIdTranslation
        /\ mTrIdTranslation[k.transactionId][2] = call[2]
        /\ mSessions[mTrIdTranslation[k.transactionId][1]] \in {call[1], None}

\* Client::call returns the value of its own call or none: handleRpc brings a
\* result to the connection that made the call, under the id it made it with,
\* and neither a late answer nor one that met a transaction under the same id at
\* another client ever passes for it.
ResultsTrue ==
    \A c \in Conn : \A t \in DOMAIN mTransactions[c] :
        LET m == mTransactions[c][t].message IN
        mTransactions[c][t].satisfied /\ m.type = "RpcAccept" => m.value = <<c, t>>

\* The call t of c waits for its answer.
Waits(c, t) == t \in DOMAIN mTransactions[c] /\ ~mTransactions[c][t].satisfied

\* The request of the call t of c is on its way to d under this id.
Forwarded(c, t, d, id) ==
    \E k \in Requests(d) : k.transactionId = id /\ k.message.param = <<c, t>>

\* A call that the server forwards is answered, unless the caller or the owner
\* leaves first, or the owner has a transaction of its own under the id that the
\* server forwards the call under.
CallsReturn ==
    \A c, d \in Conn : \A t \in ReqId, id \in TrId :
        Forwarded(c, t, d, id) ~>
            (~Waits(c, t) \/ link[d] = "closed" \/ id \in DOMAIN mTransactions[d])

\* As E2ETest/BasicTest.cpp expects of call ("ASSERT_EQ(4u, valueRaw.size());"),
\* every call that is forwarded to an owner that stays is answered, whatever the
\* owner does at the same time.
CallsAlwaysReturn ==
    \A c, d \in Conn : \A t \in ReqId, id \in TrId :
        Forwarded(c, t, d, id) ~> (~Waits(c, t) \/ link[d] = "closed")
=============================================================================
