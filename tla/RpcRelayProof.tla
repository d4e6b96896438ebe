--------------------------- MODULE RpcRelayProof ---------------------------
(***************************************************************************)
(* Theorems about RpcRelay, for any clients, nodes and bounds: a result    *)
(* belongs to its call, as long as mTrIdCtr does not come round to an id   *)
(* that is still in flight.                                                *)
(***************************************************************************)
EXTENDS RpcRelay, ProtocolHandlerProof

\* The i-th message to c is a request under this id of the server's, and the i-th
\* message from c an answer under it.
Requested(c, i, id) ==
    /\ i \in DOMAIN toClient[c]
    /\ toClient[c][i].message.type = "RpcRequest"
    /\ toClient[c][i].transactionId = id

Answering(c, i, id) ==
    /\ i \in DOMAIN toServer[c]
    /\ toServer[c][i].message.type # "RpcRequest"
    /\ toServer[c][i].transactionId = id

\* What RpcRequest files, and what of it outlives the caller.
FiledIn(translation, sessions, id, call) ==
    /\ id \in DOMAIN translation
    /\ translation[id][2] = call[2]
    /\ translation[id][1] \in DOMAIN sessions
    /\ sessions[translation[id][1]] \in {call[1], None}

Filed(id, call) == FiledIn(mTrIdTranslation, mSessions, id, call)
FiledThen(id, call) == FiledIn(mTrIdTranslation', mSessions', id, call)

-----------------------------------------------------------------------------
(* The inductive invariant.                                                *)

\* The tables and the wires; a client's own requests have an id of its own.
WiresTyped ==
    /\ toServer \in [Conn -> Seq(FromClient)]
    /\ toClient \in [Conn -> Seq(FromServer)]
    /\ \A c \in Conn : \A i \in DOMAIN toServer[c] :
        toServer[c][i].message.type = "RpcRequest" =>
            toServer[c][i].transactionId \in ReqId

\* A forwarded call is on one wire only, as a request or as an answer.
FlyOnce ==
    \A c, d \in Conn : \A i, j \in Nat : \A id \in TrId :
        /\ Requested(c, i, id) /\ Requested(d, j, id) => c = d /\ i = j
        /\ Answering(c, i, id) /\ Answering(d, j, id) => c = d /\ i = j
        /\ ~(Requested(c, i, id) /\ Answering(d, j, id))

\* Requests and results on their way are filed as the calls that they belong to.
CallsFiled ==
    \A c \in Conn :
        /\ \A i \in DOMAIN toClient[c] :
            toClient[c][i].message.type = "RpcRequest" =>
                Filed(toClient[c][i].transactionId, toClient[c][i].message.param)
        /\ \A i \in DOMAIN toServer[c] :
            toServer[c][i].message.type = "RpcAccept" =>
                Filed(toServer[c][i].transactionId, toServer[c][i].message.value)

\* A result on its way to c is that of the call of c under its id.
ResultsAddressed ==
    \A c \in Conn : \A i \in DOMAIN toClient[c] :
        toClient[c][i].message.type = "RpcAccept" =>
            toClient[c][i].message.value = <<c, toClient[c][i].transactionId>>

TablesTyped ==
    /\ mTransactions \in [Conn -> Map(ReqId, Transaction)]
    /\ mTransactioIdCtr \in [Conn -> Nat]

-----------------------------------------------------------------------------
(* What each step does to the wires.                                       *)

\* What the server sends in one handler of a call is at most one message.
LEMMA Delivery ==
    ASSUME WiresTyped, toClient' = [d \in Conn |-> toClient[d] \o out'[d]]
    PROVE  /\ out' = Silence => toClient' = toClient
           /\ \A x \in Conn : \A t, b : out' = Reply(x, t, b) =>
                toClient' = [toClient EXCEPT ![x] = Append(@, Packet(t, b))]
<1>1. toClient \in [Conn -> Seq(FromServer)]
  BY DEF WiresTyped
<1>2. ASSUME out' = Silence PROVE toClient' = toClient
  BY <1>1, <1>2 DEF Silence
<1>3. ASSUME NEW x \in Conn, NEW t, NEW b, out' = Reply(x, t, b)
      PROVE  toClient' = [toClient EXCEPT ![x] = Append(@, Packet(t, b))]
  <2>1. out' = [d \in Conn |-> IF d = x THEN <<Packet(t, b)>> ELSE <<>>]
    BY <1>3 DEF Reply, Silence
  <2>2. \A d \in Conn : toClient[d] \o <<>> = toClient[d]
    BY <1>1
  <2>3. toClient[x] \o <<Packet(t, b)>> = Append(toClient[x], Packet(t, b))
    BY <1>1
  <2> QED BY <1>1, <2>1, <2>2, <2>3
<1> QED BY <1>2, <1>3

\* The server passes a request on under an id that no call in flight has.
Forwards(c, d) ==
    /\ SignedIn(c)
    /\ \E t \in ReqId, u \in Uuid :
        /\ mTrIdTranslation' = Translated(c, t)
        /\ toClient' = [toClient EXCEPT ![d] =
                Append(@, Packet(mTrIdCtr,
                                 [type |-> "RpcRequest", uuid |-> u, param |-> <<c, t>>]))]

\* It refuses a request, or drops it.
Declines(c) ==
    /\ UNCHANGED mTrIdTranslation
    /\ \/ UNCHANGED toClient
       \/ \E t \in ReqId : toClient' = [toClient EXCEPT ![c] =
                Append(@, Packet(t, [type |-> "RpcReject", cause |-> "NOT_FOUND"]))]

\* It passes an answer back, or drops it.
Returned(k) ==
    LET id == k.transactionId
        sid == mTrIdTranslation[id][1]
    IN  \/ /\ id \notin DOMAIN mTrIdTranslation
           /\ UNCHANGED <<mTrIdTranslation, toClient>>
        \/ /\ id \in DOMAIN mTrIdTranslation
           /\ mTrIdTranslation' = Erase(mTrIdTranslation, id)
           /\ \/ UNCHANGED toClient
              \/ /\ sid \in DOMAIN mSessions /\ mSessions[sid] # None
                 /\ toClient' = [toClient EXCEPT ![mSessions[sid]] =
                        Append(@, Packet(mTrIdTranslation[id][2], k.message))]

\* Each way through the two handlers, with what becomes of the message.
LEMMA ServeSteps ==
    ASSUME ~Overtake, TypeOK, WiresTyped, NEW c \in Conn, Serve(c)
    PROVE  /\ Next
           /\ toServer[c] # <<>>
           /\ toServer' = [toServer EXCEPT ![c] = Tail(@)]
           /\ UNCHANGED <<clientVars, sessionVars>>
           /\ \/ /\ Head(toServer[c]).message.type = "RpcRequest"
                 /\ mTrIdCtr \notin InFlight
                 /\ Declines(c) \/ \E d \in Conn : Forwards(c, d)
              \/ /\ Head(toServer[c]).message.type # "RpcRequest"
                 /\ Returned(Head(toServer[c]))
<1> DEFINE k == Head(toServer[c])
           t == k.transactionId
<1>1. /\ toServer[c] # <<>> /\ k = toServer[c][1] /\ 1 \in DOMAIN toServer[c]
      /\ k \in FromClient
  BY DEF Serve, WiresTyped
<1>2. /\ toServer' = [toServer EXCEPT ![c] = Tail(@)]
      /\ toClient' = [d \in Conn |-> toClient[d] \o out'[d]]
      /\ UNCHANGED clientVars
  BY DEF Serve
<1>3. ASSUME k.message.type = "RpcRequest"
      PROVE  /\ Next /\ UNCHANGED sessionVars
             /\ mTrIdCtr \notin InFlight
             /\ Declines(c) \/ \E d \in Conn : Forwards(c, d)
  <2>1. /\ t \in ReqId
        /\ k.message.uuid \in Uuid
        /\ <<c, t>> \in Param
    BY <1>1, <1>3, PayloadAssumption DEF WiresTyped, FromClient, RpcAnswer
  <2>2. mTrIdCtr \notin InFlight /\ RpcRequest(c, t, k.message.uuid, <<c, t>>)
    BY <1>3 DEF Serve
  <2>3. Next
    BY <2>1, <2>2 DEF Next, Request
  <2> DEFINE u == k.message.uuid
  <2>4. CASE Answer(c, t, Result("RpcReject", "NOT_FOUND"))
    BY <1>2, <2>1, <2>2, <2>3, <2>4, Delivery
       DEF Answer, Result, Declines, sessionVars, rpcVars
  <2>5. CASE Ignore
    BY <1>2, <2>2, <2>3, <2>5, Delivery DEF Ignore, Declines, sessionVars, rpcVars
  <2>6. CASE Crash(u)
    BY <1>2, <2>2, <2>3, <2>6, Delivery DEF Crash, Declines, sessionVars, rpcVars
  <2>7. ASSUME SignedIn(c), u \in DOMAIN mTree, mTree[u].sessionId \in DOMAIN mSessions,
               mSessions[mTree[u].sessionId] # None,
               Forward(c, t, u, <<c, t>>, mSessions[mTree[u].sessionId])
        PROVE  UNCHANGED sessionVars /\ \E d \in Conn : Forwards(c, d)
    <3> DEFINE d == mSessions[mTree[u].sessionId]
    <3>1. d \in Conn
      BY <2>7 DEF TypeOK
    <3>2. toClient' = [toClient EXCEPT ![d] = Append(@, Packet(mTrIdCtr,
                        [type |-> "RpcRequest", uuid |-> u, param |-> <<c, t>>]))]
      BY <1>2, <2>7, <3>1, Delivery DEF Forward
    <3>3. Forwards(c, d)
      BY <2>1, <2>7, <3>2 DEF Forwards, Forward
    <3> QED BY <2>7, <3>1, <3>3 DEF Forward
  <2> QED BY <2>2, <2>3, <2>4, <2>5, <2>6, <2>7 DEF RpcRequest
<1>4. ASSUME k.message.type # "RpcRequest"
      PROVE  Next /\ UNCHANGED sessionVars /\ Returned(k)
  <2>1. t \in TrId /\ k.message \in RpcAnswer
    BY <1>1, <1>4 DEF FromClient
  <2>2. RpcReply(c, t, k.message)
    BY <1>4 DEF Serve
  <2>3. Next
    BY <2>1, <2>2 DEF Next, RpcReturn
  <2>4. CASE t \notin DOMAIN mTrIdTranslation
    BY <1>2, <2>2, <2>3, <2>4, Delivery
       DEF RpcReply, Ignore, Returned, sessionVars, rpcVars
  <2>5. CASE t \in DOMAIN mTrIdTranslation
    <3> DEFINE sid == mTrIdTranslation[t][1]
               id == mTrIdTranslation[t][2]
    <3>1. /\ mTrIdTranslation' = Erase(mTrIdTranslation, t)
          /\ out' = IF sid \in DOMAIN mSessions /\ mSessions[sid] # None
                    THEN Reply(mSessions[sid], id, k.message)
                    ELSE Silence
          /\ UNCHANGED sessionVars
      BY <2>2, <2>5 DEF RpcReply
    <3>2. sid \in DOMAIN mSessions /\ mSessions[sid] # None => mSessions[sid] \in Conn
      BY DEF TypeOK
    <3>3. \/ UNCHANGED toClient
          \/ /\ sid \in DOMAIN mSessions /\ mSessions[sid] # None
             /\ toClient' = [toClient EXCEPT ![mSessions[sid]] =
                                Append(@, Packet(id, k.message))]
      BY <1>2, <3>1, <3>2, Delivery
    <3> QED BY <2>3, <2>5, <3>1, <3>3 DEF Returned
  <2> QED BY <2>4, <2>5
<1> QED BY <1>1, <1>2, <1>3, <1>4

-----------------------------------------------------------------------------
(* Queues.                                                                 *)

\* Where the message of a wire stood before the first one of c was taken.
Before(c, x, i) == IF x = c THEN i + 1 ELSE i

MovedUp(w, v, c) ==
    \A x \in Conn : \A i \in DOMAIN v[x] :
        /\ i \in Nat \ {0}
        /\ Before(c, x, i) \in DOMAIN w[x]
        /\ v[x][i] = w[x][Before(c, x, i)]

\* The first message of a connection is taken: all others move up.
LEMMA TakenFrom ==
    ASSUME NEW S, NEW w \in [Conn -> Seq(S)], NEW c \in Conn, w[c] # <<>>,
           NEW v, v = [w EXCEPT ![c] = Tail(@)]
    PROVE  /\ v \in [Conn -> Seq(S)]
           /\ MovedUp(w, v, c)
           /\ 1 \in DOMAIN w[c] /\ Head(w[c]) = w[c][1]
<1>1. Tail(w[c]) \in Seq(S)
  OBVIOUS
<1>2. /\ v \in [Conn -> Seq(S)]
      /\ v[c] = Tail(w[c])
      /\ \A x \in Conn : x # c => v[x] = w[x]
  BY <1>1
<1>3. ASSUME NEW i \in DOMAIN Tail(w[c])
      PROVE  i \in Nat \ {0} /\ i + 1 \in DOMAIN w[c] /\ Tail(w[c])[i] = w[c][i + 1]
  BY <1>3
<1>4. ASSUME NEW x \in Conn, NEW i \in DOMAIN w[x] PROVE i \in Nat \ {0}
  BY <1>4
<1> QED BY <1>3, <1>4, <1>2 DEF Before, MovedUp

\* A message is put behind those of a connection.
LEMMA PutBehind ==
    ASSUME NEW S, NEW w \in [Conn -> Seq(S)], NEW c \in Conn, NEW m \in S,
           NEW v, v = [w EXCEPT ![c] = Append(@, m)]
    PROVE  /\ v \in [Conn -> Seq(S)]
           /\ \A x \in Conn : \A i \in DOMAIN v[x] :
                /\ i \in Nat \ {0}
                /\ \/ i \in DOMAIN w[x] /\ v[x][i] = w[x][i]
                   \/ x = c /\ i = Len(w[c]) + 1 /\ v[x][i] = m
           /\ Len(w[c]) + 1 \notin DOMAIN w[c]
<1>1. Append(w[c], m) \in Seq(S)
  OBVIOUS
<1>2. /\ v \in [Conn -> Seq(S)]
      /\ v[c] = Append(w[c], m)
      /\ \A x \in Conn : x # c => v[x] = w[x]
  BY <1>1
<1>3. ASSUME NEW i \in DOMAIN Append(w[c], m)
      PROVE  /\ i \in Nat \ {0}
             /\ \/ i \in DOMAIN w[c] /\ Append(w[c], m)[i] = w[c][i]
                \/ i = Len(w[c]) + 1 /\ Append(w[c], m)[i] = m
  BY <1>3
<1>4. ASSUME NEW x \in Conn, NEW i \in DOMAIN w[x] PROVE i \in Nat \ {0}
  BY <1>4
<1>5. Len(w[c]) + 1 \notin DOMAIN w[c]
  OBVIOUS
<1> QED BY <1>2, <1>3, <1>4, <1>5

\* The ids that Serve must not use again are those of requests and answers.
LEMMA InFlightIs ==
    ASSUME NEW c \in Conn, NEW i, NEW id, Requested(c, i, id) \/ Answering(c, i, id)
    PROVE  id \in InFlight
<1>1. CASE Requested(c, i, id)
  <2>1. toClient[c][i] \in Requests(c)
    BY <1>1 DEF Requested, Requests
  <2> QED BY <1>1, <2>1 DEF Requested, InFlight
<1>2. CASE Answering(c, i, id)
  <2>1. toServer[c][i] \in Answers(c)
    BY <1>2 DEF Answering, Answers
  <2> QED BY <1>2, <2>1 DEF Answering, InFlight
<1> QED BY <1>1, <1>2

-----------------------------------------------------------------------------
(* The steps, one by one.                                                  *)

\* Why a result belongs to its call needs the entry of the call while it is on a
\* wire, and why the entry stays needs that no other call flies under its id.
RelayIInv ==
    /\ TablesTyped
    /\ WiresTyped
    /\ FlyOnce
    /\ CallsFiled
    /\ ResultsAddressed
    /\ ResultsTrue

\* An entry outlives everything but the handlers that write under its id: a
\* disconnected caller leaves its session behind.
LEMMA StaysFiled ==
    ASSUME TypeOK, [Next]_vars, NEW id, NEW call, Filed(id, call),
           id \in DOMAIN mTrIdTranslation', mTrIdTranslation'[id] = mTrIdTranslation[id]
    PROVE  FiledThen(id, call)
<1>1. \A s \in DOMAIN mSessions :
        s \in DOMAIN mSessions' /\ mSessions'[s] \in {mSessions[s], None}
  <2>1. CASE UNCHANGED vars
    BY <2>1 DEF vars, sessionVars
  <2> QED BY <2>1, SessionsFade
<1> QED BY <1>1 DEF Filed, FiledThen, FiledIn

\* Steps that leave the server's tables of calls alone.
LEMMA AllStayFiled ==
    ASSUME TypeOK, [Next]_vars, UNCHANGED mTrIdTranslation,
           NEW id, NEW call, Filed(id, call)
    PROVE  FiledThen(id, call)
  BY StaysFiled DEF Filed, FiledThen, FiledIn

\* The packets on the wires.
LEMMA PacketTypes ==
    /\ \A t \in TrId, a \in RpcAnswer :
        Packet(t, a) \in FromServer /\ Packet(t, a) \in FromClient
    /\ \A t \in TrId, u \in Uuid, p \in Param :
        Packet(t, [type |-> "RpcRequest", uuid |-> u, param |-> p]) \in FromServer
    /\ \A t \in TrId, u \in Uuid :
        Packet(t, [type |-> "RpcRequest", uuid |-> u]) \in FromClient
    /\ \A t, b : Packet(t, b).transactionId = t /\ Packet(t, b).message = b
<1>1. \A t \in TrId, a \in RpcAnswer :
        Packet(t, a) \in FromServer /\ Packet(t, a) \in FromClient
  BY DEF Packet, FromServer, FromClient
<1>2. \A t \in TrId, u \in Uuid, p \in Param :
        Packet(t, [type |-> "RpcRequest", uuid |-> u, param |-> p]) \in FromServer
  BY DEF Packet, FromServer
<1>3. \A t \in TrId, u \in Uuid :
        Packet(t, [type |-> "RpcRequest", uuid |-> u]) \in FromClient
  BY DEF Packet, FromClient
<1> QED BY <1>1, <1>2, <1>3 DEF Packet

\* A transaction that is stored is one.
LEMMA TransactionsType ==
    ASSUME TablesTyped, NEW c \in Conn
    PROVE  /\ DOMAIN mTransactions[c] \subseteq ReqId
           /\ \A t \in DOMAIN mTransactions[c] : mTransactions[c][t] \in Transaction
           /\ \A m : IsMap(m, ReqId, Transaction) =>
                [mTransactions EXCEPT ![c] = m] \in [Conn -> Map(ReqId, Transaction)]
<1>1. mTransactions[c] \in Map(ReqId, Transaction)
  BY DEF TablesTyped
<1>2. IsMap(mTransactions[c], ReqId, Transaction)
  BY <1>1, MapMembership
<1>3. \A m : IsMap(m, ReqId, Transaction) => m \in Map(ReqId, Transaction)
  BY MapMembership
<1> QED BY <1>2, <1>3 DEF IsMap, TablesTyped

\* Client::call: a new request and its transaction.
LEMMA CallKeeps ==
    ASSUME TypeOK, RelayIInv, NEW c \in Conn, NEW t \in ReqId, NEW u \in Uuid,
           Call(c, t, u)
    PROVE  RelayIInv'
<1> DEFINE m == Packet(t, [type |-> "RpcRequest", uuid |-> u])
           new == [waited |-> TRUE, satisfied |-> FALSE, message |-> None]
<1>1. /\ toServer' = [toServer EXCEPT ![c] = Append(@, m)]
      /\ toClient' = toClient
      /\ mTransactions' = [mTransactions EXCEPT ![c] = Emplace(@, t, new)]
      /\ mTransactioIdCtr' = [mTransactioIdCtr EXCEPT ![c] = t + 1]
      /\ UNCHANGED vars
  BY DEF Call
<1>2. m \in FromClient /\ m.message.type = "RpcRequest" /\ m.transactionId = t
  <2>1. t \in TrId
    BY RequestAssumption
  <2> QED BY <2>1, PacketTypes
<1> HIDE DEF m
<1>3. /\ toServer' \in [Conn -> Seq(FromClient)]
      /\ \A x \in Conn : \A i \in DOMAIN toServer'[x] :
            \/ i \in DOMAIN toServer[x] /\ toServer'[x][i] = toServer[x][i]
            \/ x = c /\ toServer'[x][i] = m
  BY <1>1, <1>2, PutBehind DEF RelayIInv, WiresTyped
<1>4. WiresTyped'
  BY <1>1, <1>2, <1>3 DEF RelayIInv, WiresTyped
<1>5. TablesTyped'
  <2>1. new \in Transaction
    BY DEF Transaction
  <2>2. IsMap(mTransactions[c], ReqId, Transaction)
    BY MapMembership DEF RelayIInv, TablesTyped
  <2>3. IsMap(Emplace(mTransactions[c], t, new), ReqId, Transaction)
    BY <2>1, <2>2, EmplaceType
  <2>4. mTransactions' \in [Conn -> Map(ReqId, Transaction)]
    BY <1>1, <2>3, TransactionsType DEF RelayIInv
  <2>5. t + 1 \in Nat
    BY RequestAssumption, BoundsAssumption DEF TrId
  <2> QED BY <1>1, <2>4, <2>5 DEF RelayIInv, TablesTyped
<1>6. FlyOnce'
  <2>1. \A x \in Conn : \A i, id :
          /\ Requested(x, i, id)' => Requested(x, i, id)
          /\ Answering(x, i, id)' => Answering(x, i, id)
    BY <1>1, <1>2, <1>3 DEF Requested, Answering
  <2> QED BY <2>1 DEF RelayIInv, FlyOnce
<1>7. CallsFiled'
  <2>1. \A id, call : Filed(id, call) => FiledThen(id, call)
    BY <1>1 DEF Filed, FiledThen, FiledIn, vars, sessionVars, rpcVars
  <2> QED BY <1>1, <1>2, <1>3, <2>1 DEF RelayIInv, CallsFiled, Filed, FiledThen
<1>8. ResultsAddressed'
  BY <1>1 DEF RelayIInv, ResultsAddressed
<1>9. ResultsTrue'
  <2>1. ASSUME NEW x \in Conn, NEW s \in DOMAIN mTransactions'[x]
        PROVE  \/ s \in DOMAIN mTransactions[x] /\ mTransactions'[x][s] = mTransactions[x][s]
               \/ mTransactions'[x][s] = new
    BY <1>1, <2>1 DEF Emplace, Put, RelayIInv, TablesTyped
  <2> QED BY <2>1 DEF RelayIInv, ResultsTrue
<1> QED BY <1>4, <1>5, <1>6, <1>7, <1>8, <1>9 DEF RelayIInv

\* waitTransaction: the transaction goes, or stays without its thread.
LEMMA WaitEndKeeps ==
    ASSUME TypeOK, RelayIInv, NEW c \in Conn, NEW t \in ReqId, Finish(c, t) \/ Expire(c, t)
    PROVE  RelayIInv'
<1>1. UNCHANGED <<vars, mTransactioIdCtr, wires>> /\ t \in DOMAIN mTransactions[c]
  BY DEF Finish, Expire
<1>2. IsMap(mTransactions[c], ReqId, Transaction)
  BY MapMembership DEF RelayIInv, TablesTyped
<1>3. \E m : /\ mTransactions' = [mTransactions EXCEPT ![c] = m]
             /\ IsMap(m, ReqId, Transaction)
             /\ \A s \in DOMAIN m :
                    /\ s \in DOMAIN mTransactions[c]
                    /\ m[s].satisfied = mTransactions[c][s].satisfied
                    /\ m[s].message = mTransactions[c][s].message
  <2>1. CASE Finish(c, t)
    <3>1. IsMap(Erase(mTransactions[c], t), ReqId, Transaction)
      BY <1>2, EraseType
    <3>2. \A s \in DOMAIN Erase(mTransactions[c], t) :
            s \in DOMAIN mTransactions[c]
            /\ Erase(mTransactions[c], t)[s] = mTransactions[c][s]
      BY DEF Erase
    <3>3. mTransactions' = [mTransactions EXCEPT ![c] = Erase(mTransactions[c], t)]
      BY <2>1 DEF Finish
    <3> QED BY <3>1, <3>2, <3>3
  <2>2. CASE Expire(c, t)
    <3> DEFINE m == [mTransactions[c] EXCEPT ![t].waited = FALSE]
    <3>1. mTransactions[c][t] \in Transaction
      BY <1>1, <1>2 DEF IsMap
    <3>2. [mTransactions[c][t] EXCEPT !.waited = FALSE] \in Transaction
      BY <3>1 DEF Transaction
    <3>3. IsMap(m, ReqId, Transaction)
      BY <1>1, <1>2, <3>2 DEF IsMap
    <3>4. \A s \in DOMAIN m : /\ s \in DOMAIN mTransactions[c]
                              /\ m[s].satisfied = mTransactions[c][s].satisfied
                              /\ m[s].message = mTransactions[c][s].message
      BY <1>1, <1>2, <3>1 DEF IsMap, Transaction
    <3>5. mTransactions' = [mTransactions EXCEPT ![c] = m]
      BY <2>2 DEF Expire
    <3> QED BY <3>3, <3>4, <3>5
  <2> QED BY <2>1, <2>2
<1>4. TablesTyped'
  BY <1>1, <1>3, TransactionsType DEF RelayIInv, TablesTyped
<1>5. WiresTyped' /\ ResultsAddressed'
  BY <1>1 DEF wires, RelayIInv, WiresTyped, ResultsAddressed
<1>6. FlyOnce'
  BY <1>1 DEF wires, RelayIInv, FlyOnce, Requested, Answering
<1>7. CallsFiled'
  BY <1>1 DEF wires, vars, sessionVars, rpcVars, RelayIInv, CallsFiled, Filed, FiledIn
<1>8. ResultsTrue'
  BY <1>3 DEF RelayIInv, TablesTyped, ResultsTrue
<1> QED BY <1>4, <1>5, <1>6, <1>7, <1>8 DEF RelayIInv

\* The reader gives the message to a transaction, answers it or drops it.
LEMMA ReadKeeps ==
    ASSUME TypeOK, RelayIInv, NEW c \in Conn, Read(c)
    PROVE  RelayIInv'
<1> DEFINE k == toClient[c][1]
<1>1. /\ toClient[c] # <<>>
      /\ toClient' = [toClient EXCEPT ![c] = Tail(@)]
      /\ UNCHANGED <<vars, mTransactioIdCtr>>
  BY DEF Read
<1>2. toServer \in [Conn -> Seq(FromClient)] /\ toClient \in [Conn -> Seq(FromServer)]
  BY DEF RelayIInv, WiresTyped
<1>3. /\ toClient' \in [Conn -> Seq(FromServer)]
      /\ 1 \in DOMAIN toClient[c] /\ Head(toClient[c]) = k
      /\ \A x \in Conn : \A i \in DOMAIN toClient'[x] :
            /\ i \in Nat \ {0}
            /\ Before(c, x, i) \in DOMAIN toClient[x]
            /\ toClient'[x][i] = toClient[x][Before(c, x, i)]
  <2>1. toClient \in [Conn -> Seq(FromServer)]
    BY <1>2
  <2> DEFINE v == toClient'
  <2>2. v = [toClient EXCEPT ![c] = Tail(@)] /\ toClient[c] # <<>>
    BY <1>1
  <2> HIDE DEF k, v
  <2>3. /\ v \in [Conn -> Seq(FromServer)]
        /\ MovedUp(toClient, v, c)
        /\ 1 \in DOMAIN toClient[c] /\ Head(toClient[c]) = toClient[c][1]
    BY <2>1, <2>2, TakenFrom
  <2> QED BY <2>3 DEF k, v, MovedUp
<1>4. k \in FromServer
  BY <1>2, <1>3
<1>5. \/ /\ UNCHANGED toServer
         /\ \E t \in DOMAIN mTransactions[c] :
              /\ t = k.transactionId
              /\ mTransactions' = [mTransactions EXCEPT
                    ![c][t].satisfied = TRUE, ![c][t].message = k.message]
      \/ UNCHANGED <<toServer, mTransactions>>
      \/ /\ k.message.type = "RpcRequest"
         /\ \E answer \in RpcAnswer :
              /\ answer.type = "RpcAccept" => answer.value = k.message.param
              /\ toServer' = [toServer EXCEPT ![c] =
                                Append(@, Packet(k.transactionId, answer))]
         /\ UNCHANGED mTransactions
  <2>1. k.message.type = "RpcRequest" => k.message.param \in Param
    BY <1>4 DEF FromServer, RpcAnswer
  <2>2. k.message.type = "RpcRequest" =>
          \A a \in [type : {"RpcAccept"}, value : {k.message.param}]
                   \cup [type : {"RpcReject"}, cause : Refusals] :
            a \in RpcAnswer /\ (a.type = "RpcAccept" => a.value = k.message.param)
    BY <2>1 DEF RpcAnswer, Refusals
  <2> QED BY <1>3, <2>2 DEF Read, Matched
<1>6. /\ toServer' \in [Conn -> Seq(FromClient)]
      /\ \A x \in Conn : \A i \in DOMAIN toServer'[x] :
            /\ i \in Nat \ {0}
            /\ \/ i \in DOMAIN toServer[x] /\ toServer'[x][i] = toServer[x][i]
               \/ /\ x = c /\ i = Len(toServer[c]) + 1
                  /\ k.message.type = "RpcRequest"
                  /\ toServer'[x][i].transactionId = k.transactionId
                  /\ toServer'[x][i].message \in RpcAnswer
                  /\ toServer'[x][i].message.type = "RpcAccept" =>
                        toServer'[x][i].message.value = k.message.param
  <2>1. CASE UNCHANGED toServer
    BY <1>2, <2>1
  <2>2. ASSUME NEW a \in RpcAnswer, k.message.type = "RpcRequest",
               a.type = "RpcAccept" => a.value = k.message.param,
               toServer' = [toServer EXCEPT ![c] = Append(@, Packet(k.transactionId, a))]
        PROVE  <1>6!1 /\ <1>6!2
    <3> DEFINE m == Packet(k.transactionId, a)
    <3>1. m \in FromClient /\ m.transactionId = k.transactionId /\ m.message = a
      <4>1. k.transactionId \in TrId
        BY <1>4 DEF FromServer
      <4> QED BY <4>1, PacketTypes
    <3> HIDE DEF m
    <3>2. toServer' = [toServer EXCEPT ![c] = Append(@, m)]
      BY <2>2 DEF m
    <3> QED BY <1>2, <2>2, <3>1, <3>2, PutBehind
  <2> QED BY <1>5, <2>1, <2>2
<1>7. WiresTyped'
  <2>1. \A a \in RpcAnswer : a.type # "RpcRequest"
    BY DEF RpcAnswer
  <2> QED BY <1>3, <1>6, <2>1 DEF RelayIInv, WiresTyped
<1>8. FlyOnce'
  <2>1. ASSUME NEW x \in Conn, NEW i, NEW id, Requested(x, i, id)'
        PROVE  i \in Nat \ {0} /\ Requested(x, Before(c, x, i), id)
    BY <1>3, <2>1 DEF Requested
  <2>2. ASSUME NEW x \in Conn, NEW i, NEW id, Answering(x, i, id)'
        PROVE  \/ Answering(x, i, id)
               \/ x = c /\ i = Len(toServer[c]) + 1 /\ Requested(c, 1, id)
    BY <1>3, <1>6, <2>2 DEF Answering, Requested
  <2>3. ASSUME NEW x \in Conn, NEW y \in Conn, NEW i \in Nat, NEW j \in Nat,
               NEW id \in TrId, Requested(x, i, id)', Requested(y, j, id)'
        PROVE  x = y /\ i = j
    <3>1. /\ i # 0 /\ Requested(x, Before(c, x, i), id)
          /\ j # 0 /\ Requested(y, Before(c, y, j), id)
          /\ Before(c, x, i) \in Nat /\ Before(c, y, j) \in Nat
      BY <2>1, <2>3 DEF Before
    <3>2. x = y /\ Before(c, x, i) = Before(c, y, j)
      BY <3>1 DEF RelayIInv, FlyOnce
    <3> QED BY <3>2 DEF Before
  <2>4. ASSUME NEW x \in Conn, NEW y \in Conn, NEW i \in Nat, NEW j \in Nat,
               NEW id \in TrId, Answering(x, i, id)', Answering(y, j, id)'
        PROVE  x = y /\ i = j
    <3>1. \A d \in Conn, l \in Nat : ~(Requested(c, 1, id) /\ Answering(d, l, id))
      BY DEF RelayIInv, FlyOnce
    <3>2. Answering(x, i, id) /\ Answering(y, j, id) => x = y /\ i = j
      BY DEF RelayIInv, FlyOnce
    <3> QED BY <2>2, <2>4, <3>1, <3>2
  <2>5. ASSUME NEW x \in Conn, NEW y \in Conn, NEW i \in Nat, NEW j \in Nat,
               NEW id \in TrId, Requested(x, i, id)', Answering(y, j, id)'
        PROVE  FALSE
    <3>1. i # 0 /\ Requested(x, Before(c, x, i), id) /\ Before(c, x, i) \in Nat
      BY <2>1, <2>5 DEF Before
    <3>2. ~Answering(y, j, id)
      BY <3>1 DEF RelayIInv, FlyOnce
    <3>3. Requested(c, 1, id)
      BY <2>2, <2>5, <3>2
    <3>4. x = c /\ Before(c, x, i) = 1
      BY <3>1, <3>3 DEF RelayIInv, FlyOnce
    <3> QED BY <3>1, <3>4 DEF Before
  <2> QED BY <2>3, <2>4, <2>5 DEF FlyOnce
<1>9. CallsFiled'
  <2>1. \A id, call : FiledThen(id, call) <=> Filed(id, call)
    BY <1>1 DEF Filed, FiledThen, FiledIn, vars, sessionVars, rpcVars
  <2>2. ASSUME NEW x \in Conn, NEW i \in DOMAIN toClient'[x],
               toClient'[x][i].message.type = "RpcRequest"
        PROVE  Filed(toClient'[x][i].transactionId, toClient'[x][i].message.param)
    BY <1>3, <2>2 DEF RelayIInv, CallsFiled
  <2>3. ASSUME NEW x \in Conn, NEW i \in DOMAIN toServer'[x],
               toServer'[x][i].message.type = "RpcAccept"
        PROVE  Filed(toServer'[x][i].transactionId, toServer'[x][i].message.value)
    BY <1>3, <1>6, <2>3 DEF RelayIInv, CallsFiled
  <2> QED BY <1>1, <2>2, <2>3, ZenonT(60) DEF CallsFiled, Filed, FiledThen, FiledIn, vars, sessionVars, rpcVars
<1>10. ResultsAddressed'
  BY <1>3 DEF RelayIInv, ResultsAddressed
<1>11. TablesTyped'
  <2>1. CASE UNCHANGED mTransactions
    BY <1>1, <2>1 DEF RelayIInv, TablesTyped
  <2>2. ASSUME NEW t \in DOMAIN mTransactions[c],
               mTransactions' = [mTransactions EXCEPT
                    ![c][t].satisfied = TRUE, ![c][t].message = k.message]
        PROVE  TablesTyped'
    <3> DEFINE tr == [mTransactions[c][t] EXCEPT !.satisfied = TRUE, !.message = k.message]
               m == [mTransactions[c] EXCEPT ![t] = tr]
    <3>1. mTransactions' = [mTransactions EXCEPT ![c] = m]
      BY <2>2 DEF RelayIInv, TablesTyped
    <3>2. k.message \in Body
      BY <1>4 DEF FromServer, Body
    <3>3. tr \in Transaction
      BY <2>2, <3>2, TransactionsType, ZenonT(60) DEF RelayIInv, Transaction
    <3>4. IsMap(mTransactions[c], ReqId, Transaction)
      BY MapMembership DEF RelayIInv, TablesTyped
    <3> HIDE DEF tr
    <3>5. IsMap(m, ReqId, Transaction)
      BY <3>3, <3>4 DEF IsMap
    <3> HIDE DEF m
    <3> QED BY <1>1, <3>1, <3>5, TransactionsType DEF RelayIInv, TablesTyped
  <2> QED BY <1>5, <2>1, <2>2
<1>12. ResultsTrue'
  <2>1. CASE UNCHANGED mTransactions
    BY <2>1 DEF RelayIInv, ResultsTrue
  <2>2. ASSUME NEW t \in DOMAIN mTransactions[c], t = k.transactionId,
               mTransactions' = [mTransactions EXCEPT
                    ![c][t].satisfied = TRUE, ![c][t].message = k.message]
        PROVE  ResultsTrue'
    <3>1. mTransactions[c][t] \in Transaction
      BY TransactionsType DEF RelayIInv
    <3>2. \A x \in Conn : \A s \in DOMAIN mTransactions'[x] :
            /\ s \in DOMAIN mTransactions[x]
            /\ \/ x = c /\ s = t /\ mTransactions'[x][s].message = k.message
               \/ mTransactions'[x][s] = mTransactions[x][s]
      BY <2>2, <3>1 DEF RelayIInv, TablesTyped, Transaction
    <3>3. k.message.type = "RpcAccept" => k.message.value = <<c, t>>
      BY <1>3, <2>2 DEF RelayIInv, ResultsAddressed
    <3> QED BY <3>2, <3>3 DEF RelayIInv, ResultsTrue
  <2> QED BY <1>5, <2>1, <2>2
<1> QED BY <1>7, <1>8, <1>9, <1>10, <1>11, <1>12 DEF RelayIInv

\* The server has sent m to d, or nothing.
SentAtMost(d, m) ==
    \/ toClient' = toClient
    \/ toClient' = [toClient EXCEPT ![d] = Append(@, m)]

\* All that there is on the way to clients was there, but for m to d.
OnlyNew(d, m) ==
    \A x \in Conn : \A i \in DOMAIN toClient'[x] :
        \/ i \in DOMAIN toClient[x] /\ toClient'[x][i] = toClient[x][i]
        \/ x = d /\ toClient'[x][i] = m

\* No entry has changed but those under some ids, under which nothing is in flight
\* but the message of c that the server takes.
OnlyTouched(touched) ==
    \A id : id \in DOMAIN mTrIdTranslation /\ id \notin touched =>
        /\ id \in DOMAIN mTrIdTranslation'
        /\ mTrIdTranslation'[id] = mTrIdTranslation[id]

FreeBut(c, touched) ==
    \A x \in Conn, i \in Nat : \A id \in touched :
        ~Requested(x, i, id) /\ (Answering(x, i, id) => x = c /\ i = 1)

\* The wires when the server has taken a message and maybe sent one.
LEMMA ServeWires ==
    ASSUME WiresTyped, FlyOnce, NEW c \in Conn, toServer[c] # <<>>,
           toServer' = [toServer EXCEPT ![c] = Tail(@)],
           NEW d \in Conn, NEW m \in FromServer, SentAtMost(d, m),
           m.message.type = "RpcRequest" => m.transactionId \notin InFlight
    PROVE  /\ WiresTyped'
           /\ FlyOnce'
           /\ MovedUp(toServer, toServer', c)
           /\ OnlyNew(d, m)
<1>1. toServer \in [Conn -> Seq(FromClient)] /\ toClient \in [Conn -> Seq(FromServer)]
  BY DEF WiresTyped
<1>2. toServer' \in [Conn -> Seq(FromClient)] /\ MovedUp(toServer, toServer', c)
  <2> DEFINE v == toServer'
  <2>1. v = [toServer EXCEPT ![c] = Tail(@)] /\ toServer \in [Conn -> Seq(FromClient)]
    BY <1>1
  <2> HIDE DEF v
  <2>2. v \in [Conn -> Seq(FromClient)] /\ MovedUp(toServer, v, c)
    BY <2>1, TakenFrom
  <2> QED BY <2>2 DEF v
<1>3. /\ toClient' \in [Conn -> Seq(FromServer)]
      /\ \A x \in Conn : \A i \in DOMAIN toClient'[x] :
            /\ i \in Nat \ {0}
            /\ \/ i \in DOMAIN toClient[x] /\ toClient'[x][i] = toClient[x][i]
               \/ x = d /\ i = Len(toClient[d]) + 1 /\ toClient'[x][i] = m
  <2>1. CASE toClient' = toClient
    BY <1>1, <2>1
  <2>2. CASE toClient' = [toClient EXCEPT ![d] = Append(@, m)]
    BY <1>1, <2>2, PutBehind
  <2> QED BY <2>1, <2>2 DEF SentAtMost
<1>4. WiresTyped'
  BY <1>1, <1>2, <1>3 DEF WiresTyped, MovedUp
<1>5. ASSUME NEW x \in Conn, NEW i, NEW id, Answering(x, i, id)'
      PROVE  i \in Nat \ {0} /\ Answering(x, Before(c, x, i), id)
  BY <1>2, <1>5 DEF Answering, MovedUp
<1>6. ASSUME NEW x \in Conn, NEW i, NEW id, Requested(x, i, id)'
      PROVE  \/ Requested(x, i, id)
             \/ x = d /\ i = Len(toClient[d]) + 1 /\ id \notin InFlight
  BY <1>3, <1>6 DEF Requested
<1>7. FlyOnce'
  <2>1. ASSUME NEW x \in Conn, NEW y \in Conn, NEW i \in Nat, NEW j \in Nat,
               NEW id \in TrId, Requested(x, i, id)', Requested(y, j, id)'
        PROVE  x = y /\ i = j
    <3>1. Requested(x, i, id) /\ Requested(y, j, id) => x = y /\ i = j
      BY DEF FlyOnce
    <3>2. Requested(x, i, id) \/ Requested(y, j, id) => id \in InFlight
      BY InFlightIs
    <3> QED BY <1>6, <2>1, <3>1, <3>2
  <2>2. ASSUME NEW x \in Conn, NEW y \in Conn, NEW i \in Nat, NEW j \in Nat,
               NEW id \in TrId, Answering(x, i, id)', Answering(y, j, id)'
        PROVE  x = y /\ i = j
    <3>1. /\ Answering(x, Before(c, x, i), id) /\ Answering(y, Before(c, y, j), id)
          /\ Before(c, x, i) \in Nat /\ Before(c, y, j) \in Nat
      BY <1>5, <2>2 DEF Before
    <3>2. x = y /\ Before(c, x, i) = Before(c, y, j)
      BY <3>1 DEF FlyOnce
    <3> QED BY <3>2 DEF Before
  <2>3. ASSUME NEW x \in Conn, NEW y \in Conn, NEW i \in Nat, NEW j \in Nat,
               NEW id \in TrId, Requested(x, i, id)', Answering(y, j, id)'
        PROVE  FALSE
    <3>1. Answering(y, Before(c, y, j), id) /\ Before(c, y, j) \in Nat
      BY <1>5, <2>3 DEF Before
    <3>2. id \in InFlight
      BY <3>1, InFlightIs
    <3>3. ~Requested(x, i, id)
      BY <3>1 DEF FlyOnce
    <3> QED BY <1>6, <2>3, <3>2, <3>3
  <2> QED BY <2>1, <2>2, <2>3 DEF FlyOnce
<1> QED BY <1>2, <1>3, <1>4, <1>7 DEF OnlyNew

\* What is filed of the calls on the wires after the server has taken the message k
\* of c and changed the entries under `touched' only, which nobody else flies under.
LEMMA ServeFiles ==
    ASSUME TypeOK, [Next]_vars, CallsFiled, NEW c \in Conn, MovedUp(toServer, toServer', c),
           NEW d \in Conn, NEW m, OnlyNew(d, m),
           m.message.type = "RpcRequest" =>
                FiledThen(m.transactionId, m.message.param),
           NEW touched, OnlyTouched(touched), FreeBut(c, touched),
           toClient' \in [Conn -> Seq(FromServer)]
    PROVE  CallsFiled'
<1>1. ASSUME NEW id, NEW call, Filed(id, call), id \notin touched
      PROVE  FiledThen(id, call)
  <2>1. id \in DOMAIN mTrIdTranslation' /\ mTrIdTranslation'[id] = mTrIdTranslation[id]
    BY <1>1 DEF Filed, FiledIn, OnlyTouched
  <2> QED BY <1>1, <2>1, StaysFiled
<1>2. ASSUME NEW x \in Conn, NEW i \in DOMAIN toClient'[x],
             toClient'[x][i].message.type = "RpcRequest"
      PROVE  FiledThen(toClient'[x][i].transactionId, toClient'[x][i].message.param)
  <2> DEFINE id == toClient'[x][i].transactionId
             call == toClient'[x][i].message.param
  <2>1. CASE toClient'[x][i] = m
    BY <1>2, <2>1
  <2>2. CASE i \in DOMAIN toClient[x] /\ toClient'[x][i] = toClient[x][i]
    <3>1. Filed(id, call)
      BY <1>2, <2>2 DEF CallsFiled
    <3>2. i \in Nat /\ Requested(x, i, id)
      BY <1>2, <2>2 DEF Requested
    <3> QED BY <1>1, <3>1, <3>2 DEF FreeBut
  <2> QED BY <2>1, <2>2 DEF OnlyNew
<1>3. ASSUME NEW x \in Conn, NEW i \in DOMAIN toServer'[x],
             toServer'[x][i].message.type = "RpcAccept"
      PROVE  FiledThen(toServer'[x][i].transactionId, toServer'[x][i].message.value)
  <2> DEFINE id == toServer'[x][i].transactionId
             call == toServer'[x][i].message.value
             j == Before(c, x, i)
  <2>1. i \in Nat \ {0} /\ j \in DOMAIN toServer[x] /\ toServer'[x][i] = toServer[x][j]
    BY DEF MovedUp
  <2>2. Filed(id, call)
    BY <1>3, <2>1 DEF CallsFiled
  <2>3. Answering(x, j, id) /\ j \in Nat /\ ~(x = c /\ j = 1)
    BY <1>3, <2>1 DEF Answering, Before
  <2> QED BY <1>1, <2>2, <2>3 DEF FreeBut
<1> QED BY <1>2, <1>3 DEF CallsFiled, Filed, FiledThen

\* The server handles a message: a call is filed before it flies, and an entry goes
\* when its own answer does.
LEMMA ServeKeeps ==
    ASSUME ~Overtake, IInv, RelayIInv, NEW c \in Conn, Serve(c)
    PROVE  RelayIInv'
<1> DEFINE k == Head(toServer[c])
<1>1. TypeOK /\ WiresTyped /\ FlyOnce /\ CallsFiled /\ ResultsAddressed /\ SessionsConsistent
  BY DEF IInv, RelayIInv
<1>2. /\ Next
      /\ toServer[c] # <<>>
      /\ toServer' = [toServer EXCEPT ![c] = Tail(@)]
      /\ UNCHANGED <<clientVars, sessionVars>>
      /\ \/ /\ k.message.type = "RpcRequest"
            /\ mTrIdCtr \notin InFlight
            /\ Declines(c) \/ \E d \in Conn : Forwards(c, d)
         \/ /\ k.message.type # "RpcRequest"
            /\ Returned(k)
  BY <1>1, ServeSteps
<1>3. /\ toServer \in [Conn -> Seq(FromClient)] /\ toClient \in [Conn -> Seq(FromServer)]
      /\ 1 \in DOMAIN toServer[c] /\ k = toServer[c][1] /\ k \in FromClient
  BY <1>1, <1>2 DEF WiresTyped
<1>4. TablesTyped' /\ ResultsTrue'
  BY <1>2 DEF clientVars, RelayIInv, TablesTyped, ResultsTrue
<1>5. \A id : \A x \in Conn, i \in Nat :
        Requested(x, i, id) \/ Answering(x, i, id) => id \in InFlight
  BY InFlightIs
<1> HIDE DEF k
\* One message m for d, or none, and one entry at most that changes.
<1>6. ASSUME NEW d \in Conn, NEW m \in FromServer, SentAtMost(d, m),
             m.message.type = "RpcRequest" =>
                /\ m.transactionId \notin InFlight
                /\ FiledThen(m.transactionId, m.message.param),
             m.message.type = "RpcAccept" /\ toClient' # toClient =>
                m.message.value = <<d, m.transactionId>>,
             NEW touched, OnlyTouched(touched), FreeBut(c, touched)
      PROVE  WiresTyped' /\ FlyOnce' /\ CallsFiled' /\ ResultsAddressed'
  <2>1. WiresTyped' /\ FlyOnce' /\ MovedUp(toServer, toServer', c) /\ OnlyNew(d, m)
    BY <1>1, <1>2, <1>6, ServeWires
  <2>2. toClient' \in [Conn -> Seq(FromServer)] /\ [Next]_vars
    BY <1>2, <2>1 DEF WiresTyped
  <2>3. CallsFiled'
    BY <1>1, <1>6, <2>1, <2>2, ServeFiles
  <2>4. ResultsAddressed'
    <3>1. CASE toClient' = toClient
      BY <1>1, <3>1 DEF ResultsAddressed
    <3>2. CASE toClient' # toClient
      BY <1>1, <1>6, <2>1, <3>2 DEF ResultsAddressed, OnlyNew
    <3> QED BY <3>1, <3>2
  <2> QED BY <2>1, <2>3, <2>4
<1>7. ASSUME Declines(c)
      PROVE  WiresTyped' /\ FlyOnce' /\ CallsFiled' /\ ResultsAddressed'
  <2>1. mTrIdTranslation' = mTrIdTranslation
    BY <1>7 DEF Declines
  <2>2. PICK t \in TrId : \/ toClient' = toClient
                          \/ toClient' = [toClient EXCEPT ![c] = Append(@,
                                Packet(t, [type |-> "RpcReject", cause |-> "NOT_FOUND"]))]
    <3>1. mTrIdCtr \in TrId /\ ReqId \subseteq TrId
      BY <1>1, RequestAssumption DEF TypeOK
    <3> QED BY <1>7, <3>1 DEF Declines
  <2> DEFINE a == [type |-> "RpcReject", cause |-> "NOT_FOUND"]
             m == Packet(t, a)
  <2>3. a \in RpcAnswer /\ a.type = "RpcReject"
    BY DEF RpcAnswer
  <2>4. m \in FromServer /\ m.message.type = "RpcReject"
    BY <2>3, PacketTypes
  <2>5. SentAtMost(c, m)
    BY <2>2 DEF SentAtMost
  <2>6. OnlyTouched({}) /\ FreeBut(c, {})
    BY <2>1 DEF OnlyTouched, FreeBut
  <2> HIDE DEF m
  <2> QED BY <1>6, <2>4, <2>5, <2>6
<1>8. ASSUME mTrIdCtr \notin InFlight, NEW d \in Conn, Forwards(c, d)
      PROVE  WiresTyped' /\ FlyOnce' /\ CallsFiled' /\ ResultsAddressed'
  <2>1. PICK t \in ReqId, u \in Uuid :
          /\ mTrIdTranslation' = Translated(c, t)
          /\ toClient' = [toClient EXCEPT ![d] = Append(@, Packet(mTrIdCtr,
                            [type |-> "RpcRequest", uuid |-> u, param |-> <<c, t>>]))]
    BY <1>8 DEF Forwards
  <2> DEFINE b == [type |-> "RpcRequest", uuid |-> u, param |-> <<c, t>>]
             m == Packet(mTrIdCtr, b)
  <2>2. /\ m \in FromServer /\ m.transactionId = mTrIdCtr
        /\ m.message.type = "RpcRequest" /\ m.message.param = <<c, t>>
    <3>1. mTrIdCtr \in TrId /\ <<c, t>> \in Param
      BY <1>1, PayloadAssumption DEF TypeOK
    <3>2. b.type = "RpcRequest" /\ b.param = <<c, t>>
      OBVIOUS
    <3> QED BY <3>1, <3>2, PacketTypes
  <2>3. FiledThen(mTrIdCtr, <<c, t>>)
    <3>1. /\ mConnectionToSessionId[c] \in DOMAIN mSessions
          /\ mSessions[mConnectionToSessionId[c]] = c
      BY <1>1, <1>8 DEF Forwards, SignedIn, SessionsConsistent
    <3>2. mSessions' = mSessions
      BY <1>2 DEF sessionVars
    <3>3. /\ mTrIdCtr \in DOMAIN mTrIdTranslation'
          /\ mTrIdTranslation'[mTrIdCtr] = <<mConnectionToSessionId[c], t>>
      BY <2>1 DEF Translated, Put
    <3> QED BY <3>1, <3>2, <3>3 DEF FiledThen, FiledIn
  <2>4. OnlyTouched({mTrIdCtr})
    BY <2>1 DEF Translated, Put, OnlyTouched
  <2>5. FreeBut(c, {mTrIdCtr})
    BY <1>5, <1>8 DEF FreeBut
  <2>6. SentAtMost(d, m)
    BY <2>1 DEF SentAtMost
  <2> HIDE DEF m
  <2> QED BY <1>6, <1>8, <2>2, <2>3, <2>4, <2>5, <2>6
<1>9. ASSUME k.message.type # "RpcRequest", Returned(k)
      PROVE  WiresTyped' /\ FlyOnce' /\ CallsFiled' /\ ResultsAddressed'
  <2> DEFINE id == k.transactionId
             sid == mTrIdTranslation[id][1]
             back == mTrIdTranslation[id][2]
             m == Packet(back, k.message)
  <2>1. id \in TrId /\ k.message \in RpcAnswer /\ k.message.type # "RpcRequest"
    BY <1>3, <1>9 DEF FromClient, RpcAnswer
  <2>2. FreeBut(c, {id})
    <3>1. Answering(c, 1, id) /\ 1 \in Nat
      BY <1>3, <1>9 DEF Answering
    <3> QED BY <1>1, <2>1, <3>1 DEF FlyOnce, FreeBut
  <2>3. OnlyTouched({id})
    BY <1>9 DEF Returned, Erase, OnlyTouched
  <2>4. ASSUME toClient' = toClient
        PROVE  WiresTyped' /\ FlyOnce' /\ CallsFiled' /\ ResultsAddressed'
    <3> DEFINE q == Packet(id, k.message)
    <3>1. q \in FromServer /\ q.message.type # "RpcRequest"
      BY <2>1, PacketTypes
    <3>2. SentAtMost(c, q)
      BY <2>4 DEF SentAtMost
    <3> HIDE DEF q, id
    <3> QED BY <1>6, <2>2, <2>3, <2>4, <3>1, <3>2
  <2>5. ASSUME id \in DOMAIN mTrIdTranslation, sid \in DOMAIN mSessions, mSessions[sid] # None,
               toClient' = [toClient EXCEPT ![mSessions[sid]] = Append(@, m)]
        PROVE  WiresTyped' /\ FlyOnce' /\ CallsFiled' /\ ResultsAddressed'
    <3> DEFINE d == mSessions[sid]
    <3>1. d \in Conn
      BY <1>1, <2>5 DEF TypeOK
    <3>2. back \in TrId
      BY <1>1, <2>5, RequestAssumption DEF TypeOK, IsMap
    <3>3. m \in FromServer /\ m.transactionId = back /\ m.message = k.message
      BY <2>1, <3>2, PacketTypes
    <3>4. k.message.type = "RpcAccept" => k.message.value = <<d, back>>
      <4>1. ASSUME k.message.type = "RpcAccept"
            PROVE  k.message.value = <<d, back>>
        <5>1. Filed(id, k.message.value)
          BY <1>1, <1>3, <4>1 DEF CallsFiled
        <5>2. k.message.value \in Conn \X ReqId
          BY <2>1, <4>1, PayloadAssumption DEF RpcAnswer
        <5>3. back = k.message.value[2] /\ d = k.message.value[1]
          BY <2>5, <5>1 DEF Filed, FiledIn
        <5> QED BY <5>2, <5>3
      <4> QED BY <4>1
    <3> HIDE DEF m, id, back, d
    <3>5. SentAtMost(d, m)
      BY <2>5 DEF d, SentAtMost
    <3> QED BY <1>6, <1>9, <2>2, <2>3, <3>1, <3>3, <3>4, <3>5
  <2> QED BY <1>9, <2>4, <2>5 DEF Returned
<1> QED BY <1>2, <1>4, <1>7, <1>8, <1>9 DEF RelayIInv

\* A client ends: its transactions go, and what is on its wires.
LEMMA LeaveKeeps ==
    ASSUME TypeOK, RelayIInv, NEW c \in Conn, Leave(c)
    PROVE  RelayIInv'
<1>1. /\ mTransactions' = [mTransactions EXCEPT ![c] = EmptyMap]
      /\ toServer' = [toServer EXCEPT ![c] = <<>>]
      /\ toClient' = [toClient EXCEPT ![c] = <<>>]
      /\ UNCHANGED <<mTransactioIdCtr, mTrIdTranslation>>
      /\ Next
  BY DEF Leave, Disconnect, rpcVars, Next
<1>2. /\ toServer' \in [Conn -> Seq(FromClient)]
      /\ toClient' \in [Conn -> Seq(FromServer)]
      /\ \A x \in Conn : \A i \in DOMAIN toServer'[x] :
            i \in DOMAIN toServer[x] /\ toServer'[x][i] = toServer[x][i]
      /\ \A x \in Conn : \A i \in DOMAIN toClient'[x] :
            i \in DOMAIN toClient[x] /\ toClient'[x][i] = toClient[x][i]
  BY <1>1 DEF RelayIInv, WiresTyped
<1>3. WiresTyped' /\ ResultsAddressed'
  BY <1>2 DEF RelayIInv, WiresTyped, ResultsAddressed
<1>4. FlyOnce'
  <2>1. \A x \in Conn : \A i, id :
          /\ Requested(x, i, id)' => Requested(x, i, id)
          /\ Answering(x, i, id)' => Answering(x, i, id)
    BY <1>2 DEF Requested, Answering
  <2> QED BY <2>1 DEF RelayIInv, FlyOnce
<1>5. CallsFiled'
  <2>1. \A id, call : Filed(id, call) => FiledThen(id, call)
    BY <1>1, AllStayFiled
  <2> QED BY <1>2, <2>1, ZenonT(60) DEF RelayIInv, CallsFiled, Filed, FiledThen
<1>6. TablesTyped'
  BY <1>1, EmptyMapType, TransactionsType DEF RelayIInv, TablesTyped
<1>7. ResultsTrue'
  <2>1. \A x \in Conn : \A t \in DOMAIN mTransactions'[x] :
          t \in DOMAIN mTransactions[x] /\ mTransactions'[x][t] = mTransactions[x][t]
    BY <1>1 DEF EmptyMap, RelayIInv, TablesTyped
  <2> QED BY <2>1 DEF RelayIInv, ResultsTrue
<1> QED BY <1>3, <1>4, <1>5, <1>6, <1>7 DEF RelayIInv

\* What else bears on calls leaves the entries and the wires alone.
LEMMA OtherKeeps ==
    ASSUME TypeOK, RelayIInv, NEW c \in Conn, Other(c)
    PROVE  RelayIInv'
<1>1. UNCHANGED <<clientVars, wires>> /\ Next
  BY DEF Other, Next, Request
<1>2. mTrIdTranslation' = mTrIdTranslation
  <2>1. Connect(c) \/ (\E t \in ReqId : Signin(c, t)) => UNCHANGED rpcVars
    BY DEF Connect, Signin
  <2>2. (\E t \in ReqId, p \in Uuid, n \in Name : Create(c, t, p, n)) => UNCHANGED rpcVars
    BY DEF Create, AddNode, Answer, Ignore
  <2>3. (\E t \in ReqId, u \in Uuid : Delete(c, t, u)) => UNCHANGED rpcVars
    BY DEF Delete, RemoveNode, Answer, Crash
  <2> QED BY <2>1, <2>2, <2>3 DEF Other, rpcVars
<1>3. CallsFiled'
  <2>1. \A id, call : Filed(id, call) => FiledThen(id, call)
    BY <1>1, <1>2, AllStayFiled
  <2> QED BY <1>1, <2>1 DEF wires, RelayIInv, CallsFiled, Filed, FiledThen
<1>4. WiresTyped' /\ ResultsAddressed'
  BY <1>1 DEF wires, RelayIInv, WiresTyped, ResultsAddressed
<1>5. FlyOnce'
  BY <1>1 DEF wires, RelayIInv, FlyOnce, Requested, Answering
<1>6. TablesTyped' /\ ResultsTrue'
  BY <1>1 DEF clientVars, RelayIInv, TablesTyped, ResultsTrue
<1> QED BY <1>3, <1>4, <1>5, <1>6 DEF RelayIInv

-----------------------------------------------------------------------------
(* The theorems.                                                           *)

\* Whatever the clients' ends of calls do, the server takes steps of its own.
LEMMA RelaySteps ==
    ASSUME ~Overtake, TypeOK, RelayIInv, [RelayNext]_relayVars
    PROVE  [Next]_vars
<1>1. CASE UNCHANGED relayVars
  BY <1>1 DEF relayVars
<1>2. ASSUME NEW c \in Conn, \/ \E t \in ReqId, u \in Uuid : Call(c, t, u)
                             \/ \E t \in ReqId : Finish(c, t) \/ Expire(c, t)
                             \/ Read(c)
      PROVE  UNCHANGED vars
  BY <1>2 DEF Call, Finish, Expire, Read
<1>3. ASSUME NEW c \in Conn, Serve(c)
      PROVE  Next
  BY <1>3, ServeSteps DEF RelayIInv
<1>4. ASSUME NEW c \in Conn, Leave(c) \/ Other(c)
      PROVE  Next
  BY <1>4 DEF Leave, Other, Next, Request
<1> QED BY <1>1, <1>2, <1>3, <1>4 DEF RelayNext

LEMMA RelayIInvInit == RelayInit => RelayIInv
<1> SUFFICES ASSUME RelayInit PROVE RelayIInv
  OBVIOUS
<1>1. TablesTyped
  <2>1. EmptyMap \in Map(ReqId, Transaction)
    BY EmptyMapType, MapMembership
  <2> QED BY <2>1 DEF RelayInit, TablesTyped
<1>2. \A c \in Conn : DOMAIN toServer[c] = {} /\ DOMAIN toClient[c] = {}
  BY DEF RelayInit
<1>3. WiresTyped
  BY DEF RelayInit, WiresTyped
<1>4. FlyOnce /\ CallsFiled /\ ResultsAddressed
  BY <1>2 DEF FlyOnce, Requested, Answering, CallsFiled, ResultsAddressed
<1>5. ResultsTrue
  BY DEF RelayInit, EmptyMap, ResultsTrue
<1> QED BY <1>1, <1>3, <1>4, <1>5 DEF RelayIInv

LEMMA RelayIInvNext ==
    ASSUME ~Overtake, IInv, RelayIInv, [RelayNext]_relayVars
    PROVE  RelayIInv'
<1>1. TypeOK
  BY DEF IInv
<1>2. CASE UNCHANGED relayVars
  <2>1. TablesTyped' /\ ResultsTrue'
    BY <1>2 DEF relayVars, clientVars, RelayIInv, TablesTyped, ResultsTrue
  <2>2. WiresTyped' /\ ResultsAddressed'
    BY <1>2 DEF relayVars, wires, RelayIInv, WiresTyped, ResultsAddressed
  <2>3. FlyOnce'
    BY <1>2 DEF relayVars, wires, RelayIInv, FlyOnce, Requested, Answering
  <2>4. CallsFiled'
    BY <1>2, ZenonT(60) DEF relayVars, wires, vars, sessionVars, rpcVars, RelayIInv, CallsFiled,
                Filed, FiledIn
  <2> QED BY <2>1, <2>2, <2>3, <2>4 DEF RelayIInv
<1>3. CASE RelayNext
  BY <1>1, <1>3, CallKeeps, WaitEndKeeps, ReadKeeps, ServeKeeps, LeaveKeeps, OtherKeeps
     DEF RelayNext
<1> QED BY <1>2, <1>3

\* The server of RpcRelay is that of ProtocolHandler, and no id of a forwarded call
\* is misfiled: both together are inductive.
THEOREM RelayInvariance ==
    ASSUME ~Overtake
    PROVE  RelaySpec => [](IInv /\ RelayIInv)
<1>1. RelayInit => IInv /\ RelayIInv
  BY IInvInit, RelayIInvInit DEF RelayInit
<1>2. IInv /\ RelayIInv /\ [RelayNext]_relayVars => (IInv /\ RelayIInv)'
  <2>1. ASSUME IInv, RelayIInv, [RelayNext]_relayVars
        PROVE  IInv' /\ RelayIInv'
    <3>1. [Next]_vars
      BY <2>1, RelaySteps DEF IInv
    <3> QED BY <2>1, <3>1, IInvNext, RelayIInvNext
  <2> QED BY <2>1
<1> QED BY <1>1, <1>2, PTL DEF RelaySpec

\* The tables of the clients and what is on the wires keep their types.
THEOREM RelayTypeCorrect ==
    ASSUME ~Overtake
    PROVE  RelaySpec => []RelayTypeOK
<1>1. IInv /\ RelayIInv => RelayTypeOK
  BY MapMembership DEF IInv, RelayIInv, TablesTyped, WiresTyped, RelayTypeOK
<1> QED BY <1>1, RelayInvariance, PTL

\* mTrIdTranslation leads every request that is on its way, or waits to be read,
\* back to the call that it was made of, whoever called, answered, gave up or left.
THEOREM TranslationAlwaysSound ==
    ASSUME ~Overtake
    PROVE  RelaySpec => []TranslationSound
<1>1. IInv /\ RelayIInv => TranslationSound
  <2>1. ASSUME RelayIInv, NEW d \in Conn, NEW k \in Requests(d)
        PROVE  Filed(k.transactionId, k.message.param)
    BY <2>1 DEF RelayIInv, CallsFiled, Requests
  <2> QED BY <2>1 DEF TranslationSound, Filed, FiledIn
<1> QED BY <1>1, RelayInvariance, PTL

\* Client::call returns the result of its own call or none, for any number of
\* clients, calls and ids, however late the answers come.
THEOREM ResultsAlwaysTrue ==
    ASSUME ~Overtake
    PROVE  RelaySpec => []ResultsTrue
<1>1. IInv /\ RelayIInv => ResultsTrue
  BY DEF RelayIInv
<1> QED BY <1>1, RelayInvariance, PTL
=============================================================================
