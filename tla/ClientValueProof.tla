-------------------------- MODULE ClientValueProof --------------------------
(***************************************************************************)
(* Theorems about ClientValue, for any clients, threads, values and number *)
(* of requests: each wait has its transaction, and subscribers converge.   *)
(***************************************************************************)
EXTENDS ClientValue, ProtocolHandlerProof

\* What travels: requests, their answers, and updates under 0xFFFF.
FromClient == [transactionId : ReqId,
               message : [type : {"SetValueRequest"}, data : Value]
                         \cup [type : {"GetRequest"}]]
ToAnswer == [type : {"SetValueAccept"}] \cup [type : {"GetAccept"}, data : Value]
ToTell == [type : {"UpdateNotification"}, uuid : {U}, data : Value]
FromServer == [transactionId : ReqId, message : ToAnswer]
              \cup [transactionId : {Notify}, message : ToTell]

Doing == {Idle} \cup [does : {"set", "fetch"}, id : ReqId, overtaken : BOOLEAN]

ValueTyped ==
    /\ data \in [Client -> Value]
    /\ dataMutex \in [Client -> Thread \cup {None}]
    /\ op \in [Thread -> Doing]
    /\ stale \subseteq Client
    /\ mTransactions \in [Client -> Map(ReqId, ToAnswer \cup {None})]
    /\ mTransactioIdCtr \in [Client -> Nat]
    /\ toServer \in [Client -> Seq(FromClient)]
    /\ toClient \in [Client -> Seq(FromServer)]

\* Everybody stays connected, the node stays, and with it its subscribers.
NodeShared ==
    /\ \A c \in Conn : link[c] = "open"
    /\ U \in DOMAIN mTree
    /\ \A c \in Subscribers :
        \E s \in DOMAIN mTree[U].listener : mTree[U].listener[s] = c

\* The i-th message from c asks, or the i-th message to c answers, under this id.
Asks(c, i, id) == i \in DOMAIN toServer[c] /\ toServer[c][i].transactionId = id
Answers(c, i, id) == i \in DOMAIN toClient[c] /\ toClient[c][i].transactionId = id
Flies(c, id) == \E i : Asks(c, i, id) \/ Answers(c, i, id)

\* An id is on its way once, in one direction.
FliesOnce(c) ==
    \A id \in ReqId : \A i, j \in Nat :
        /\ Asks(c, i, id) /\ Asks(c, j, id) => i = j
        /\ Answers(c, i, id) /\ Answers(c, j, id) => i = j
        /\ ~(Asks(c, i, id) /\ Answers(c, j, id))

\* Its transaction is there, without an answer; no id is ahead of the counter.
Unanswered(c) ==
    /\ \A id \in ReqId : Flies(c, id) =>
        id \in DOMAIN mTransactions[c] /\ mTransactions[c][id] = None
    /\ \A id \in DOMAIN mTransactions[c] : id < mTransactioIdCtr[c]

\* WaitsOwned, of the threads of c.
Owned(c) ==
    \A w \in ThreadsOf(c) : Waits(w) =>
        /\ op[w].id \in DOMAIN mTransactions[c]
        /\ \A x \in ThreadsOf(c) \ {w} : Waits(x) => op[x].id # op[w].id

\* A thread that fetches is answered with the data.
FetchesAnswered(c) ==
    \A w \in ThreadsOf(c) : op[w].does = "fetch" =>
        /\ \A i : Asks(c, i, op[w].id) =>
            toServer[c][i].message.type = "GetRequest"
        /\ \A i : Answers(c, i, op[w].id) =>
            toClient[c][i].message.type = "GetAccept"
        /\ Answered(w) => AnswerTo(w).type = "GetAccept"

\* An update is on its way to c at i, or somewhere.
Tells(c, i) == Answers(c, i, Notify)
Told(c) == \E i : Tells(c, i)

\* No update is behind the i-th message to c.
Last(c, i) == \A j : Tells(c, j) => j <= i

\* The last update on its way to a subscriber, and each answer to a fetch with no
\* update behind it, has the value that the server has.
NewsCurrent(c) ==
    \A i \in DOMAIN toClient[c] :
        Last(c, i) /\ toClient[c][i].message.type # "SetValueAccept" =>
            toClient[c][i].message.data = mTree[U].data

\* So has an answer that no update has overtaken, in a thread that has yet to
\* write it.
AnswersCurrent(c) ==
    \A w \in Fetched(c) :
        ~op[w].overtaken /\ ~Told(c) => AnswerTo(w).data = mTree[U].data

\* So has the client, when neither an update is on its way to it nor an assignment
\* of its own to the server.
Assigns(c) ==
    \E i \in DOMAIN toServer[c] : toServer[c][i].message.type # "GetRequest"

DataCurrent(c) ==
    c \notin stale /\ ~Told(c) /\ ~Assigns(c) => data[c] = mTree[U].data

ClientIInv(c) ==
    /\ FliesOnce(c)
    /\ Unanswered(c)
    /\ Owned(c)
    /\ FetchesAnswered(c)
    /\ c \in Subscribers => NewsCurrent(c) /\ AnswersCurrent(c) /\ DataCurrent(c)

ValueIInv ==
    /\ TypeOK /\ TreeConsistent
    /\ ValueTyped
    /\ NodeShared
    /\ \A c \in Client : ClientIInv(c)

-----------------------------------------------------------------------------
(* Sequences.                                                              *)

\* The first item is taken: all others move up.
LEMMA TailItems ==
    ASSUME NEW S, NEW s \in Seq(S), s # <<>>
    PROVE  /\ Tail(s) \in Seq(S)
           /\ 1 \in DOMAIN s /\ Head(s) = s[1] /\ s[1] \in S
           /\ \A i \in DOMAIN Tail(s) :
                i \in Nat \ {0} /\ i + 1 \in DOMAIN s /\ Tail(s)[i] = s[i + 1]
           /\ \A i \in DOMAIN s :
                i \in Nat /\ (i # 1 => i - 1 \in DOMAIN Tail(s) /\ Tail(s)[i - 1] = s[i])
<1>1. Tail(s) \in Seq(S)
  OBVIOUS
<1>2. 1 \in DOMAIN s /\ Head(s) = s[1] /\ s[1] \in S
  OBVIOUS
<1>3. ASSUME NEW i \in DOMAIN Tail(s)
      PROVE  i \in Nat \ {0} /\ i + 1 \in DOMAIN s /\ Tail(s)[i] = s[i + 1]
  BY <1>3
<1>4. ASSUME NEW i \in DOMAIN s
      PROVE  i \in Nat /\ (i # 1 => i - 1 \in DOMAIN Tail(s) /\ Tail(s)[i - 1] = s[i])
  BY <1>4
<1> QED BY <1>1, <1>2, <1>3, <1>4

\* The items of two sequences, one after the other.
LEMMA JoinedItems ==
    ASSUME NEW S, NEW s \in Seq(S), NEW t \in Seq(S), NEW r, r = s \o t
    PROVE  /\ r \in Seq(S)
           /\ Len(s) \in Nat /\ Len(r) = Len(s) + Len(t)
           /\ \A i \in DOMAIN r :
                \/ i \in DOMAIN s /\ r[i] = s[i]
                \/ i - Len(s) \in DOMAIN t /\ r[i] = t[i - Len(s)]
           /\ \A i \in DOMAIN s : i \in DOMAIN r /\ r[i] = s[i] /\ i \in 1 .. Len(s)
           /\ \A j \in DOMAIN t :
                j \in Nat \ {0} /\ Len(s) + j \in DOMAIN r /\ r[Len(s) + j] = t[j]
<1>1. r \in Seq(S) /\ Len(s) \in Nat /\ Len(t) \in Nat /\ Len(r) = Len(s) + Len(t)
  OBVIOUS
<1>2. ASSUME NEW i \in DOMAIN r
      PROVE  \/ i \in DOMAIN s /\ r[i] = s[i]
             \/ i - Len(s) \in DOMAIN t /\ r[i] = t[i - Len(s)]
  BY <1>1, <1>2
<1>3. ASSUME NEW i \in DOMAIN s
      PROVE  i \in DOMAIN r /\ r[i] = s[i] /\ i \in 1 .. Len(s)
  BY <1>1, <1>3
<1>4. ASSUME NEW j \in DOMAIN t
      PROVE  j \in Nat \ {0} /\ Len(s) + j \in DOMAIN r /\ r[Len(s) + j] = t[j]
  BY <1>1, <1>4
<1> QED BY <1>1, <1>2, <1>3, <1>4

\* An item is put behind.
LEMMA AppendedItems ==
    ASSUME NEW S, NEW s \in Seq(S), NEW m \in S, NEW r, r = Append(s, m)
    PROVE  /\ r \in Seq(S)
           /\ Len(s) + 1 \notin DOMAIN s
           /\ \A i \in DOMAIN r :
                /\ i \in Nat
                /\ \/ i \in DOMAIN s /\ r[i] = s[i]
                   \/ i = Len(s) + 1 /\ r[i] = m
           /\ \A i \in DOMAIN s : i \in DOMAIN r /\ r[i] = s[i]
           /\ Len(s) + 1 \in DOMAIN r /\ r[Len(s) + 1] = m
<1>1. r \in Seq(S) /\ Len(s) + 1 \notin DOMAIN s
  OBVIOUS
<1>2. ASSUME NEW i \in DOMAIN r
      PROVE  /\ i \in Nat
             /\ \/ i \in DOMAIN s /\ r[i] = s[i]
                \/ i = Len(s) + 1 /\ r[i] = m
  BY <1>2
<1>3. ASSUME NEW i \in DOMAIN s PROVE i \in DOMAIN r /\ r[i] = s[i]
  BY <1>3
<1>4. Len(s) + 1 \in DOMAIN r /\ r[Len(s) + 1] = m
  OBVIOUS
<1> QED BY <1>1, <1>2, <1>3, <1>4

-----------------------------------------------------------------------------
(* Types.                                                                  *)

\* Nothing that a thread or a packet may be is mistaken for something else.
LEMMA ValueTypes ==
    /\ None \notin ReqId /\ None \notin ToAnswer
    /\ Notify \notin ReqId
    /\ FromServer \subseteq Message
    /\ \A k \in FromServer :
        \/ k.transactionId \in ReqId /\ k.message \in ToAnswer
        \/ k.transactionId = Notify /\ k.message \in ToTell
    /\ \A m \in ToAnswer : \/ m.type = "SetValueAccept"
                           \/ m.type = "GetAccept" /\ m.data \in Value
    /\ \A m \in ToTell : m.type = "UpdateNotification" /\ m.data \in Value
    /\ \A k \in FromClient : k.transactionId \in ReqId
    /\ \A d \in Doing : \/ d = Idle
                        \/ d.id \in ReqId /\ d.does \in {"set", "fetch"}
    /\ Idle.id = None /\ Idle.does = "nothing"
    /\ ReqId \subseteq TrId /\ TrId \subseteq Nat /\ Notify \in TrId
<1>1. ReqId \subseteq TrId /\ TrId \subseteq Nat /\ Notify \in TrId /\ Notify \notin ReqId
  BY RequestAssumption, BoundsAssumption DEF TrId, Notify
<1>2. ToAnswer \subseteq Body
  BY DEF ToAnswer, Body
<1>3. U \in Uuid
  BY BoundsAssumption, ShareAssumption DEF U, Uuid
<1>4. ToTell \subseteq Body
  BY <1>3 DEF ToTell, Body
<1>5. FromServer \subseteq Message
  BY <1>1, <1>2, <1>4 DEF FromServer, Message
<1>6. \A k \in FromServer :
        \/ k.transactionId \in ReqId /\ k.message \in ToAnswer
        \/ k.transactionId = Notify /\ k.message \in ToTell
  BY DEF FromServer
<1>7. /\ \A m \in ToAnswer : \/ m.type = "SetValueAccept"
                             \/ m.type = "GetAccept" /\ m.data \in Value
      /\ \A m \in ToTell : m.type = "UpdateNotification" /\ m.data \in Value
  BY DEF ToAnswer, ToTell
<1>8. \A k \in FromClient : k.transactionId \in ReqId
  BY DEF FromClient
<1>9. /\ \A d \in Doing : \/ d = Idle
                          \/ d.id \in ReqId /\ d.does \in {"set", "fetch"}
      /\ Idle.id = None /\ Idle.does = "nothing"
  BY DEF Doing, Idle
<1> QED BY <1>1, <1>2, <1>5, <1>6, <1>7, <1>8, <1>9, ThreadAssumption

\* What has happened to nobody but others.
Untouched(x) ==
    /\ mTree' = mTree
    /\ toServer'[x] = toServer[x] /\ toClient'[x] = toClient[x]
    /\ mTransactions'[x] = mTransactions[x]
    /\ mTransactioIdCtr'[x] = mTransactioIdCtr[x]
    /\ \A w \in ThreadsOf(x) : op'[w] = op[w]
    /\ data'[x] = data[x]
    /\ x \in stale' <=> x \in stale

LEMMA UntouchedKept ==
    ASSUME NEW x \in Client, Untouched(x), ClientIInv(x)
    PROVE  ClientIInv(x)'
<1> USE DEF Untouched, ClientIInv
<1>1. FliesOnce(x)'
  BY DEF FliesOnce, Asks, Answers
<1>2. Unanswered(x)'
  BY DEF Unanswered, Flies, Asks, Answers
<1>3. Owned(x)'
  BY DEF Owned, Waits, ThreadsOf
<1>4. FetchesAnswered(x)'
  BY DEF FetchesAnswered, Asks, Answers, Answered, AnswerTo, Waits, ThreadsOf
<1>5. Told(x)' <=> Told(x)
  BY DEF Told, Tells, Answers
<1>6. NewsCurrent(x) => NewsCurrent(x)'
  BY DEF NewsCurrent, Last, Tells, Answers
<1>7. AnswersCurrent(x) => AnswersCurrent(x)'
  BY <1>5 DEF AnswersCurrent, Fetched, ThreadsOf, Answered, AnswerTo, Waits
<1>8. DataCurrent(x) => DataCurrent(x)'
  BY <1>5 DEF DataCurrent, Assigns
<1> QED BY <1>1, <1>2, <1>3, <1>4, <1>6, <1>7, <1>8

-----------------------------------------------------------------------------
(* The threads' steps.                                                     *)

\* The entries of c are a map, and so is every map that takes its place.
LEMMA EntriesOf ==
    ASSUME ValueTyped, NEW c \in Client
    PROVE  /\ IsMap(mTransactions[c], ReqId, ToAnswer \cup {None})
           /\ \A m : IsMap(m, ReqId, ToAnswer \cup {None}) =>
                [mTransactions EXCEPT ![c] = m] \in
                    [Client -> Map(ReqId, ToAnswer \cup {None})]
  BY MapMembership DEF ValueTyped

\* A request takes the next id, under which nothing flies.
LEMMA SendsStep ==
    ASSUME ValueTyped, \A x \in Client : ClientIInv(x),
           NEW w \in Thread, NEW c \in Client, c = w[1], op[w] = Idle,
           NEW id, id = mTransactioIdCtr[c], NEW does \in {"set", "fetch"},
           NEW message \in [type : {"SetValueRequest"}, data : Value]
                           \cup [type : {"GetRequest"}],
           does = "fetch" => message.type = "GetRequest",
           Sends(w, Task(does), message),
           UNCHANGED <<vars, toClient, stale>>,
           data' \in [Client -> Value], dataMutex' \in [Client -> Thread \cup {None}],
           \A x \in Client : x # c \/ message.type = "GetRequest" => data'[x] = data[x]
    PROVE  ValueTyped' /\ \A x \in Client : ClientIInv(x)'
<1> DEFINE k == Packet(id, message)
           mine == [Task(does) EXCEPT !.id = id]
<1>1. /\ id \in ReqId /\ id \in Nat
      /\ mTransactioIdCtr' = [mTransactioIdCtr EXCEPT ![c] = id + 1]
      /\ mTransactions' = [mTransactions EXCEPT ![c] = Emplace(@, id, None)]
      /\ toServer' = [toServer EXCEPT ![c] = Append(@, k)]
      /\ op' = [op EXCEPT ![w] = mine]
  BY DEF Sends, ValueTyped
<1>2. k \in FromClient /\ k.transactionId = id /\ k.message = message
  BY <1>1 DEF FromClient, Packet
<1>3. mine \in Doing /\ mine.id = id /\ mine.does = does /\ mine.overtaken = FALSE
  BY <1>1 DEF Doing, Task
<1>4. /\ toServer[c] \in Seq(FromClient) /\ toClient[c] \in Seq(FromServer)
      /\ toServer'[c] = Append(toServer[c], k)
      /\ \A x \in Client : x # c => toServer'[x] = toServer[x]
      /\ toClient' = toClient /\ stale' = stale /\ mTree' = mTree
  BY <1>1 DEF ValueTyped, vars, treeVars
<1> HIDE DEF k, mine
<1>5. /\ toServer'[c] \in Seq(FromClient)
      /\ Len(toServer[c]) + 1 \notin DOMAIN toServer[c]
      /\ \A i \in DOMAIN toServer'[c] :
            /\ i \in Nat
            /\ \/ i \in DOMAIN toServer[c] /\ toServer'[c][i] = toServer[c][i]
               \/ i = Len(toServer[c]) + 1 /\ toServer'[c][i] = k
      /\ \A i \in DOMAIN toServer[c] :
            i \in DOMAIN toServer'[c] /\ toServer'[c][i] = toServer[c][i]
      /\ Len(toServer[c]) + 1 \in DOMAIN toServer'[c]
      /\ toServer'[c][Len(toServer[c]) + 1] = k
  BY <1>2, <1>4, AppendedItems
<1>6. /\ id \notin DOMAIN mTransactions[c]
      /\ mTransactions'[c] = Put(mTransactions[c], id, None)
      /\ DOMAIN mTransactions'[c] = DOMAIN mTransactions[c] \cup {id}
      /\ mTransactions'[c][id] = None
      /\ \A j \in DOMAIN mTransactions[c] : mTransactions'[c][j] = mTransactions[c][j]
      /\ \A x \in Client : x # c => mTransactions'[x] = mTransactions[x]
  <2>1. id \notin DOMAIN mTransactions[c]
    BY <1>1 DEF ClientIInv, Unanswered
  <2>2. mTransactions'[c] = Put(mTransactions[c], id, None)
    BY <1>1, <2>1 DEF Emplace, ValueTyped
  <2> QED BY <1>1, <2>1, <2>2 DEF Put, ValueTyped
<1>7. ValueTyped'
  <2>1. mTransactions' \in [Client -> Map(ReqId, ToAnswer \cup {None})]
    BY <1>1, EntriesOf, EmplaceType
  <2>2. toServer' \in [Client -> Seq(FromClient)] /\ op' \in [Thread -> Doing]
    BY <1>1, <1>3, <1>4, <1>5 DEF ValueTyped
  <2>3. mTransactioIdCtr' \in [Client -> Nat]
    BY <1>1 DEF ValueTyped
  <2> QED BY <1>4, <2>1, <2>2, <2>3 DEF ValueTyped
<1>8. /\ \A j : Flies(c, j) => j # id
      /\ \A j, i : Asks(c, i, j)' => Asks(c, i, j) \/ (i = Len(toServer[c]) + 1 /\ j = id)
      /\ \A j, i : Answers(c, i, j)' => Answers(c, i, j)
      /\ \A i, j : i = Len(toServer[c]) + 1 => ~Asks(c, i, j)
  <2>1. \A j : Flies(c, j) => j # id
    BY <1>1, <1>6 DEF ClientIInv, Unanswered
  <2>2. \A j, i : Asks(c, i, j)' =>
            Asks(c, i, j) \/ (i = Len(toServer[c]) + 1 /\ j = id)
    BY <1>2, <1>5 DEF Asks
  <2>3. \A j, i : Answers(c, i, j)' => Answers(c, i, j)
    BY <1>4 DEF Answers
  <2>4. \A i, j : i = Len(toServer[c]) + 1 => ~Asks(c, i, j)
    BY <1>5 DEF Asks
  <2> QED BY <2>1, <2>2, <2>3, <2>4
<1>9. FliesOnce(c)'
  BY <1>8 DEF FliesOnce, ClientIInv, Flies
<1>10. Unanswered(c)'
  <2>1. \A j \in ReqId : Flies(c, j)' => Flies(c, j) \/ j = id
    BY <1>8 DEF Flies
  <2>2. \A j \in DOMAIN mTransactions'[c] : j < mTransactioIdCtr'[c]
    <3>1. /\ mTransactioIdCtr'[c] = id + 1
          /\ \A j \in DOMAIN mTransactions[c] : j \in Nat /\ j < id
      BY <1>1, EntriesOf, ValueTypes DEF Unanswered, ClientIInv, ValueTyped, IsMap
    <3> QED BY <1>1, <1>6, <3>1
  <2> QED BY <2>1, <2>2, <1>6 DEF Unanswered, ClientIInv
<1>11. /\ op'[w] = mine /\ \A x \in Thread : x # w => op'[x] = op[x]
       /\ \A x \in Thread : Waits(x)' <=> x = w \/ Waits(x)
  <2>1. op'[w] = mine /\ \A x \in Thread : x # w => op'[x] = op[x]
    BY <1>1 DEF ValueTyped
  <2> QED BY <1>1, <1>3, <2>1, ValueTypes DEF Waits
<1>12. Owned(c)'
  BY <1>3, <1>6, <1>11 DEF Owned, ClientIInv, ThreadsOf
<1>13. FetchesAnswered(c)'
  <2>1. ASSUME NEW x \in ThreadsOf(c), x # w, op[x].does = "fetch"
        PROVE  /\ Waits(x) /\ op[x].id \in DOMAIN mTransactions[c] /\ op[x].id # id
               /\ Answered(x)' <=> Answered(x)
               /\ AnswerTo(x)' = AnswerTo(x)
    <3>1. Waits(x)
      BY <2>1, ValueTypes DEF ThreadsOf, Waits, ValueTyped
    <3>2. op[x].id \in DOMAIN mTransactions[c] /\ op[x].id # id
      BY <2>1, <3>1, <1>6 DEF ClientIInv, Owned
    <3> QED BY <2>1, <3>1, <3>2, <1>6, <1>11 DEF Answered, AnswerTo, ThreadsOf
  <2>2. ASSUME NEW x \in ThreadsOf(c), x # w, op'[x].does = "fetch"
        PROVE  /\ \A i : Asks(c, i, op[x].id)' => toServer'[c][i].message.type = "GetRequest"
               /\ \A i : Answers(c, i, op[x].id)' => toClient'[c][i].message.type = "GetAccept"
               /\ Answered(x)' => AnswerTo(x)'.type = "GetAccept"
               /\ op'[x] = op[x]
    <3>1. op'[x] = op[x] /\ op[x].does = "fetch"
      BY <2>2, <1>11 DEF ThreadsOf
    <3> QED BY <1>4, <1>5, <1>8, <3>1, <2>1, <2>2 DEF FetchesAnswered, ClientIInv, Asks
  <2>3. ASSUME does = "fetch"
        PROVE  /\ \A i : Asks(c, i, id)' => toServer'[c][i].message.type = "GetRequest"
               /\ \A i : ~Answers(c, i, id)'
               /\ ~Answered(w)'
    BY <2>3, <1>2, <1>3, <1>5, <1>6, <1>8, <1>11 DEF Flies, Answered, AnswerTo, Waits
  <2>4. op'[w].does = does /\ op'[w].id = id
    BY <1>3, <1>11
  <2> QED BY <2>2, <2>3, <2>4 DEF FetchesAnswered
<1>14. ASSUME c \in Subscribers
       PROVE  NewsCurrent(c)' /\ AnswersCurrent(c)' /\ DataCurrent(c)'
  <2>1. NewsCurrent(c)' /\ (Told(c)' <=> Told(c))
    BY <1>4, <1>14 DEF ClientIInv, NewsCurrent, Last, Tells, Told, Answers
  <2>2. \A x \in Fetched(c)' : x # w /\ x \in Fetched(c) /\ AnswerTo(x)' = AnswerTo(x)
    <3>1. ~Answered(w)'
      BY <1>3, <1>6, <1>11 DEF Answered, AnswerTo, Waits
    <3> QED BY <3>1, <1>6, <1>11 DEF Fetched, Answered, AnswerTo, ThreadsOf, ClientIInv, Owned
  <2>3. AnswersCurrent(c)'
    BY <2>1, <2>2, <1>4, <1>11, <1>14 DEF AnswersCurrent, ClientIInv, Fetched, ThreadsOf
  <2>4. DataCurrent(c)'
    BY <2>1, <1>2, <1>4, <1>5, <1>14 DEF DataCurrent, ClientIInv, Assigns
  <2> QED BY <2>1, <2>3, <2>4
<1>15. ClientIInv(c)'
  BY <1>9, <1>10, <1>12, <1>13, <1>14 DEF ClientIInv
<1>16. ASSUME NEW x \in Client, x # c PROVE ClientIInv(x)'
  <2>1. Untouched(x)
    BY <1>1, <1>4, <1>6, <1>11, <1>16 DEF Untouched, ThreadsOf, ValueTyped
  <2> QED BY <2>1, UntouchedKept
<1> QED BY <1>7, <1>15, <1>16

\* A thread that returns takes its transaction with it, under whose id nothing
\* flies any more.
LEMMA ReturnsStep ==
    ASSUME ValueTyped, \A x \in Client : ClientIInv(x),
           NEW w \in Thread, NEW c \in Client, c = w[1], Answered(w),
           NEW id, id = op[w].id, Returns(w, Idle),
           data' \in [Client -> Value], dataMutex' \in [Client -> Thread \cup {None}],
           stale' \subseteq Client,
           \A x \in Client \ {c} :
                data'[x] = data[x] /\ (x \in stale' <=> x \in stale),
           c \in Subscribers /\ c \notin stale' /\ ~Told(c) /\ ~Assigns(c) =>
                data'[c] = mTree[U].data
    PROVE  ValueTyped' /\ \A x \in Client : ClientIInv(x)'
<1>1. /\ mTransactions' = [mTransactions EXCEPT ![c] = Erase(@, id)]
      /\ op' = [op EXCEPT ![w] = Idle]
      /\ mTransactioIdCtr' = mTransactioIdCtr /\ mTree' = mTree
      /\ toServer' = toServer /\ toClient' = toClient
  BY DEF Returns, wires, vars, treeVars
<1>2. /\ id \in ReqId /\ id \in DOMAIN mTransactions[c]
      /\ mTransactions[c][id] # None
      /\ \A x \in ThreadsOf(c) \ {w} : Waits(x) => op[x].id # id
  <2>1. w \in ThreadsOf(c) /\ Waits(w) /\ mTransactions[c][id] # None
    BY DEF Answered, AnswerTo, ThreadsOf
  <2> QED BY <2>1, ValueTypes DEF ClientIInv, Owned, Waits, ValueTyped
<1>3. /\ DOMAIN mTransactions'[c] = DOMAIN mTransactions[c] \ {id}
      /\ \A j \in DOMAIN mTransactions[c] : j # id =>
            j \in DOMAIN mTransactions'[c] /\ mTransactions'[c][j] = mTransactions[c][j]
      /\ \A x \in Client : x # c => mTransactions'[x] = mTransactions[x]
      /\ mTransactions' \in [Client -> Map(ReqId, ToAnswer \cup {None})]
  <2>1. mTransactions' \in [Client -> Map(ReqId, ToAnswer \cup {None})]
    BY <1>1, EntriesOf, EraseType
  <2>2. /\ mTransactions'[c] = Erase(mTransactions[c], id)
        /\ \A x \in Client : x # c => mTransactions'[x] = mTransactions[x]
    BY <1>1 DEF ValueTyped
  <2> QED BY <2>1, <2>2 DEF Erase
<1>4. /\ op'[w] = Idle /\ \A x \in Thread : x # w => op'[x] = op[x]
      /\ op' \in [Thread -> Doing]
      /\ \A x \in ThreadsOf(c) : Waits(x)' => x # w /\ Waits(x) /\ op[x].id # id
  <2>1. /\ op'[w] = Idle /\ \A x \in Thread : x # w => op'[x] = op[x]
        /\ op' \in [Thread -> Doing]
    BY <1>1 DEF ValueTyped, Doing
  <2> QED BY <2>1, <1>2, ValueTypes DEF Waits, ThreadsOf
<1>5. ValueTyped'
  BY <1>1, <1>3, <1>4 DEF ValueTyped
<1>6. FliesOnce(c)'
  BY <1>1 DEF ClientIInv, FliesOnce, Asks, Answers
<1>7. Unanswered(c)'
  <2>1. \A j : Flies(c, j)' => Flies(c, j)
    BY <1>1 DEF Flies, Asks, Answers
  <2>2. \A j \in ReqId : Flies(c, j) => j # id
    BY <1>2 DEF ClientIInv, Unanswered
  <2> QED BY <2>1, <2>2, <1>1, <1>3 DEF ClientIInv, Unanswered
<1>8. Owned(c)'
  BY <1>3, <1>4 DEF ClientIInv, Owned, ThreadsOf
<1>9. \A x \in ThreadsOf(c) : Answered(x)' => Answered(x) /\ AnswerTo(x)' = AnswerTo(x)
  BY <1>3, <1>4 DEF Answered, AnswerTo, ThreadsOf, ClientIInv, Owned
<1>10. FetchesAnswered(c)'
  <2>1. \A x \in ThreadsOf(c) : op'[x].does = "fetch" => op'[x] = op[x]
    BY <1>4, ValueTypes DEF ThreadsOf
  <2> QED BY <2>1, <1>1, <1>9 DEF ClientIInv, FetchesAnswered, Asks, Answers
<1>11. ASSUME c \in Subscribers
       PROVE  NewsCurrent(c)' /\ AnswersCurrent(c)' /\ DataCurrent(c)'
  <2>1. NewsCurrent(c)' /\ (Told(c)' <=> Told(c)) /\ (Assigns(c)' <=> Assigns(c))
    BY <1>1, <1>11 DEF ClientIInv, NewsCurrent, Last, Tells, Told, Answers, Assigns
  <2>2. \A x \in Fetched(c)' : x \in Fetched(c) /\ op'[x] = op[x] /\ AnswerTo(x)' = AnswerTo(x)
    BY <1>4, <1>9, ValueTypes DEF Fetched, ThreadsOf
  <2>3. AnswersCurrent(c)'
    BY <2>1, <2>2, <1>1, <1>11 DEF AnswersCurrent, ClientIInv
  <2>4. DataCurrent(c)'
    BY <2>1, <1>1, <1>11 DEF DataCurrent
  <2> QED BY <2>1, <2>3, <2>4
<1>12. ClientIInv(c)'
  BY <1>6, <1>7, <1>8, <1>10, <1>11 DEF ClientIInv
<1>13. ASSUME NEW x \in Client, x # c PROVE ClientIInv(x)'
  <2>1. Untouched(x)
    BY <1>1, <1>3, <1>4, <1>13 DEF Untouched, ThreadsOf
  <2> QED BY <2>1, UntouchedKept
<1> QED BY <1>5, <1>12, <1>13

\* A thread that gives up leaves everything but itself.
LEMMA ThrowsStep ==
    ASSUME ValueTyped, \A x \in Client : ClientIInv(x),
           NEW w \in Thread, NEW c \in Client, c = w[1], Throws(w),
           dataMutex' \in [Client -> Thread \cup {None}], UNCHANGED <<data, stale>>
    PROVE  ValueTyped' /\ \A x \in Client : ClientIInv(x)'
<1>1. /\ op' = [op EXCEPT ![w] = Idle]
      /\ mTransactions' = mTransactions
      /\ mTransactioIdCtr' = mTransactioIdCtr /\ mTree' = mTree
      /\ toServer' = toServer /\ toClient' = toClient
  BY DEF Throws, wires, vars, treeVars
<1>2. /\ op'[w] = Idle /\ \A x \in Thread : x # w => op'[x] = op[x]
      /\ op' \in [Thread -> Doing]
  BY <1>1 DEF ValueTyped, Doing
<1>3. \A x \in Thread : /\ Waits(x)' => Waits(x) /\ op'[x] = op[x]
                        /\ op'[x].does = "fetch" => op'[x] = op[x]
                        /\ Answered(x)' => Answered(x) /\ AnswerTo(x)' = AnswerTo(x)
  BY <1>1, <1>2, ValueTypes DEF Waits, Answered, AnswerTo
<1>4. ValueTyped'
  BY <1>1, <1>2 DEF ValueTyped
<1>5. FliesOnce(c)' /\ Unanswered(c)'
  BY <1>1 DEF ClientIInv, FliesOnce, Unanswered, Flies, Asks, Answers
<1>6. Owned(c)'
  BY <1>1, <1>3 DEF ClientIInv, Owned, ThreadsOf
<1>7. FetchesAnswered(c)'
  BY <1>1, <1>3 DEF ClientIInv, FetchesAnswered, Asks, Answers, ThreadsOf
<1>8. ASSUME c \in Subscribers
      PROVE  NewsCurrent(c)' /\ AnswersCurrent(c)' /\ DataCurrent(c)'
  <2>1. NewsCurrent(c)' /\ (Told(c)' <=> Told(c)) /\ (Assigns(c)' <=> Assigns(c))
    BY <1>1, <1>8 DEF ClientIInv, NewsCurrent, Last, Tells, Told, Answers, Assigns
  <2>2. \A x \in Fetched(c)' : x \in Fetched(c) /\ op'[x] = op[x] /\ AnswerTo(x)' = AnswerTo(x)
    BY <1>3 DEF Fetched, ThreadsOf
  <2>3. AnswersCurrent(c)'
    BY <2>1, <2>2, <1>1, <1>8 DEF AnswersCurrent, ClientIInv
  <2>4. DataCurrent(c)'
    BY <2>1, <1>1, <1>8 DEF DataCurrent, ClientIInv
  <2> QED BY <2>1, <2>3, <2>4
<1>9. ASSUME NEW x \in Client, x # c PROVE ClientIInv(x)'
  <2>1. Untouched(x)
    BY <1>1, <1>2, <1>9 DEF Untouched, ThreadsOf
  <2> QED BY <2>1, UntouchedKept
<1> QED BY <1>4, <1>5, <1>6, <1>7, <1>8, <1>9 DEF ClientIInv

-----------------------------------------------------------------------------
(* The readers' steps.                                                     *)

\* What the reader takes from the wire; what is behind it moves up.
LEMMA TakesStep ==
    ASSUME ValueTyped, NEW c \in Client, ClientIInv(c), Takes(c)
    PROVE  /\ toClient' \in [Client -> Seq(FromServer)]
           /\ \A x \in Client : x # c => toClient'[x] = toClient[x]
           /\ Answers(c, 1, Arrived(c).transactionId)
           /\ Arrived(c) = toClient[c][1] /\ Arrived(c) \in FromServer
           /\ \A i \in DOMAIN toClient'[c] :
                i + 1 \in DOMAIN toClient[c] /\ toClient'[c][i] = toClient[c][i + 1]
           /\ \A i, id : Answers(c, i, id)' => i \in Nat \ {0} /\ Answers(c, i + 1, id)
           /\ \A i, id : Answers(c, i, id) =>
                i \in Nat /\ (i # 1 => Answers(c, i - 1, id)')
<1>1. /\ toClient[c] \in Seq(FromServer) /\ toClient[c] # <<>>
      /\ toClient' = [toClient EXCEPT ![c] = Tail(@)]
  BY DEF Takes, ValueTyped
<1>2. /\ toClient'[c] = Tail(toClient[c])
      /\ \A x \in Client : x # c => toClient'[x] = toClient[x]
  BY <1>1 DEF ValueTyped
<1>3. /\ Tail(toClient[c]) \in Seq(FromServer)
      /\ 1 \in DOMAIN toClient[c]
      /\ Head(toClient[c]) = toClient[c][1] /\ toClient[c][1] \in FromServer
      /\ \A i \in DOMAIN Tail(toClient[c]) :
            /\ i \in Nat \ {0} /\ i + 1 \in DOMAIN toClient[c]
            /\ Tail(toClient[c])[i] = toClient[c][i + 1]
      /\ \A i \in DOMAIN toClient[c] : i \in Nat /\
            (i # 1 => /\ i - 1 \in DOMAIN Tail(toClient[c])
                      /\ Tail(toClient[c])[i - 1] = toClient[c][i])
  BY <1>1, TailItems
<1>4. toClient' \in [Client -> Seq(FromServer)]
  BY <1>1, <1>3 DEF ValueTyped
<1> QED BY <1>2, <1>3, <1>4 DEF Answers, Arrived

\* What is behind the first message is last if it was.
LEMMA LastMovesUp ==
    ASSUME ValueTyped, NEW c \in Client, ClientIInv(c), Takes(c)
    PROVE  /\ \A i \in DOMAIN toClient'[c] : Last(c, i)' => Last(c, i + 1)
           /\ ~Told(c)' => Last(c, 1)
<1>1. ASSUME NEW j, Tells(c, j) PROVE j \in Nat /\ (j # 1 => Tells(c, j - 1)')
  <2>1. j \in Nat /\ (j # 1 => Answers(c, j - 1, Notify)')
    BY <1>1, TakesStep DEF Tells
  <2> QED BY <2>1 DEF Tells
<1>2. ASSUME NEW i \in DOMAIN toClient'[c], Last(c, i)', NEW j, Tells(c, j)
      PROVE  j <= i + 1
  <2>1. i \in Nat \ {0}
    <3>1. PICK id : id = toClient'[c][i].transactionId
      OBVIOUS
    <3>2. Answers(c, i, id)'
      BY <1>2, <3>1 DEF Answers
    <3> QED BY <3>2, TakesStep
  <2>2. CASE j = 1
    BY <2>1, <2>2
  <2>3. CASE j # 1
    BY <1>1, <1>2, <2>1, <2>3 DEF Last
  <2> QED BY <2>2, <2>3
<1>3. ASSUME ~Told(c)', NEW j, Tells(c, j) PROVE j <= 1
  BY <1>1, <1>3 DEF Told
<1> QED BY <1>2, <1>3 DEF Last

\* The answer of a transaction is put into it.
LEMMA ReadAnswerStep ==
    ASSUME ValueTyped, \A x \in Client : ClientIInv(x),
           NEW c \in Client, ReadAnswer(c)
    PROVE  ValueTyped' /\ \A x \in Client : ClientIInv(x)'
<1>1. PICK k : k = Arrived(c)
  OBVIOUS
<1>2. PICK id : id = k.transactionId
  OBVIOUS
<1>3. /\ Takes(c) /\ id \in DOMAIN mTransactions[c]
      /\ mTransactions' = [mTransactions EXCEPT ![c][id] = k.message]
      /\ op' = op /\ mTransactioIdCtr' = mTransactioIdCtr /\ mTree' = mTree
      /\ toServer' = toServer
      /\ data' = data /\ dataMutex' = dataMutex /\ stale' = stale
  BY <1>1, <1>2 DEF ReadAnswer, ReadsAnswer, Matches, Satisfied, vars, treeVars
<1>4. /\ id \in ReqId /\ k \in FromServer /\ k.message \in ToAnswer
      /\ Answers(c, 1, id) /\ k = toClient[c][1]
  BY <1>1, <1>2, <1>3, TakesStep, EntriesOf, ValueTypes DEF IsMap
<1>5. /\ mTransactions' \in [Client -> Map(ReqId, ToAnswer \cup {None})]
      /\ DOMAIN mTransactions'[c] = DOMAIN mTransactions[c]
      /\ mTransactions'[c][id] = k.message
      /\ \A j \in DOMAIN mTransactions[c] : j # id =>
            mTransactions'[c][j] = mTransactions[c][j]
      /\ \A x \in Client : x # c => mTransactions'[x] = mTransactions[x]
  <2> DEFINE m == [mTransactions[c] EXCEPT ![id] = k.message]
  <2>1. IsMap(m, ReqId, ToAnswer \cup {None})
    BY <1>4, EntriesOf DEF IsMap
  <2>2. mTransactions' = [mTransactions EXCEPT ![c] = m]
    BY <1>3 DEF ValueTyped
  <2>3. mTransactions'[c] = m /\ \A x \in Client : x # c => mTransactions'[x] = mTransactions[x]
    BY <2>2 DEF ValueTyped
  <2>4. mTransactions' \in [Client -> Map(ReqId, ToAnswer \cup {None})]
    BY <2>1, <2>2, EntriesOf
  <2>5. /\ DOMAIN m = DOMAIN mTransactions[c]
        /\ m[id] = k.message
        /\ \A j \in DOMAIN mTransactions[c] : j # id => m[j] = mTransactions[c][j]
    BY <1>3, EntriesOf DEF IsMap
  <2> QED BY <2>3, <2>4, <2>5
<1>6. /\ \A i, j : Answers(c, i, j)' =>
            i \in Nat \ {0} /\ i + 1 # 1 /\ Answers(c, i + 1, j)
      /\ \A i, j : Asks(c, i, j)' <=> Asks(c, i, j)
  BY <1>3, TakesStep DEF Asks
<1>7. ValueTyped'
  BY <1>3, <1>5, TakesStep DEF ValueTyped
<1>8. FliesOnce(c)'
  <2>1. \A i \in Nat : i + 1 \in Nat
    OBVIOUS
  <2>2. \A i, j \in Nat : i + 1 = j + 1 => i = j
    OBVIOUS
  <2> QED BY <1>6, <2>1, <2>2 DEF ClientIInv, FliesOnce
<1>9. \A j \in ReqId : Flies(c, j)' => Flies(c, j) /\ j # id
  <2>1. ASSUME NEW i, Answers(c, i, id)' PROVE FALSE
    <3>1. i + 1 \in Nat /\ i + 1 # 1 /\ Answers(c, i + 1, id)
      BY <1>6, <2>1
    <3> QED BY <3>1, <1>4 DEF ClientIInv, FliesOnce
  <2>2. ASSUME NEW i, Asks(c, i, id) PROVE FALSE
    <3>1. i \in Nat
      BY <2>2, TailItems DEF Asks, ValueTyped
    <3> QED BY <2>2, <3>1, <1>4 DEF ClientIInv, FliesOnce
  <2> QED BY <2>1, <2>2, <1>6 DEF Flies
<1>10. Unanswered(c)'
  BY <1>3, <1>5, <1>9 DEF ClientIInv, Unanswered
<1>11. Owned(c)'
  BY <1>3, <1>5 DEF ClientIInv, Owned, Waits
<1>12. \A x \in ThreadsOf(c) : Answered(x)' =>
            \/ op[x].id = id /\ AnswerTo(x)' = k.message
            \/ Answered(x) /\ AnswerTo(x)' = AnswerTo(x)
  BY <1>3, <1>5 DEF Answered, AnswerTo, ThreadsOf, ClientIInv, Owned, Waits
<1>13. FetchesAnswered(c)'
  <2>1. ASSUME NEW x \in ThreadsOf(c), op[x].does = "fetch"
        PROVE  /\ \A i : Answers(c, i, op[x].id)' =>
                    toClient'[c][i].message.type = "GetAccept"
               /\ Answered(x)' => AnswerTo(x)'.type = "GetAccept"
    <3>1. /\ \A i : Answers(c, i, op[x].id) => toClient[c][i].message.type = "GetAccept"
          /\ Answered(x) => AnswerTo(x).type = "GetAccept"
      BY <2>1 DEF ClientIInv, FetchesAnswered
    <3>2. ASSUME NEW i, Answers(c, i, op[x].id)'
          PROVE  toClient'[c][i].message.type = "GetAccept"
      <4>1. Answers(c, i + 1, op[x].id) /\ toClient'[c][i] = toClient[c][i + 1]
        BY <1>3, <3>2, TakesStep DEF Answers
      <4> QED BY <3>1, <4>1
    <3> QED BY <3>1, <3>2, <1>4, <1>12
  <2> QED BY <2>1, <1>3, <1>6 DEF ClientIInv, FetchesAnswered
<1>14. ASSUME c \in Subscribers
       PROVE  NewsCurrent(c)' /\ AnswersCurrent(c)' /\ DataCurrent(c)'
  <2>1. NewsCurrent(c)'
    BY <1>3, <1>14, LastMovesUp, TakesStep DEF ClientIInv, NewsCurrent
  <2>2. Told(c) => Told(c)'
    <3>1. ASSUME NEW i, Tells(c, i) PROVE i # 1
      BY <3>1, <1>4, ValueTypes DEF Tells, Answers
    <3> QED BY <3>1, <1>3, TakesStep DEF Told, Tells
  <2>3. AnswersCurrent(c)'
    <3>1. ASSUME NEW x \in ThreadsOf(c), op[x].does = "fetch", Answered(x)',
                 ~op[x].overtaken, ~Told(c)'
          PROVE  AnswerTo(x)'.data = mTree[U].data
      <4>1. CASE op[x].id = id /\ AnswerTo(x)' = k.message
        <5>1. k.message.type = "GetAccept"
          BY <1>4, <3>1, <4>1 DEF ClientIInv, FetchesAnswered
        <5>2. Last(c, 1) /\ 1 \in DOMAIN toClient[c]
          BY <1>3, <1>4, <3>1, LastMovesUp DEF Answers
        <5> QED BY <1>4, <1>14, <4>1, <5>1, <5>2 DEF ClientIInv, NewsCurrent
      <4>2. CASE Answered(x) /\ AnswerTo(x)' = AnswerTo(x)
        BY <1>14, <2>2, <3>1, <4>2 DEF ClientIInv, AnswersCurrent, Fetched
      <4> QED BY <1>12, <3>1, <4>1, <4>2
    <3> QED BY <1>3, <3>1 DEF AnswersCurrent, Fetched
  <2>4. DataCurrent(c)'
    BY <1>3, <1>14, <2>2 DEF ClientIInv, DataCurrent, Assigns
  <2> QED BY <2>1, <2>3, <2>4
<1>15. ASSUME NEW x \in Client, x # c PROVE ClientIInv(x)'
  <2>1. Untouched(x)
    BY <1>3, <1>5, <1>15, TakesStep DEF Untouched
  <2> QED BY <2>1, UntouchedKept
<1> QED BY <1>7, <1>8, <1>10, <1>11, <1>13, <1>14, <1>15 DEF ClientIInv

\* An update is written, and overtakes the answers that wait to be.
LEMMA ReadUpdateStep ==
    ASSUME ValueTyped, \A x \in Client : ClientIInv(x),
           NEW c \in Client, ReadUpdate(c)
    PROVE  ValueTyped' /\ \A x \in Client : ClientIInv(x)'
<1>1. PICK k : k = Arrived(c)
  OBVIOUS
<1>2. /\ Takes(c) /\ k.transactionId \notin DOMAIN mTransactions[c]
      /\ data' = [data EXCEPT ![c] = k.message.data]
      /\ op' = [w \in Thread |-> IF w \in Fetched(c)
                                 THEN [op[w] EXCEPT !.overtaken = TRUE] ELSE op[w]]
      /\ stale' = stale \ {c}
      /\ mTransactions' = mTransactions /\ mTransactioIdCtr' = mTransactioIdCtr
      /\ mTree' = mTree /\ toServer' = toServer /\ dataMutex' = dataMutex
  BY <1>1 DEF ReadUpdate, Matches, vars, treeVars
<1>3. /\ k \in FromServer /\ Answers(c, 1, k.transactionId) /\ k = toClient[c][1]
      /\ k.message \in ToTell
  <2>1. k \in FromServer /\ Answers(c, 1, k.transactionId) /\ k = toClient[c][1]
    BY <1>1, <1>2, TakesStep
  <2>2. k.transactionId \notin ReqId
    BY <1>2, <2>1 DEF ClientIInv, Unanswered, Flies
  <2> QED BY <2>1, <2>2, ValueTypes
<1>4. /\ data' \in [Client -> Value] /\ data'[c] = k.message.data
      /\ \A x \in Client : x # c => data'[x] = data[x]
  BY <1>2, <1>3, ValueTypes DEF ValueTyped
<1>5. /\ op' \in [Thread -> Doing]
      /\ \A w \in Thread : op'[w].id = op[w].id /\ op'[w].does = op[w].does
      /\ \A w \in Thread : w \notin Fetched(c) => op'[w] = op[w]
      /\ \A w \in Fetched(c) : op'[w].overtaken = TRUE
  <2>1. ASSUME NEW w \in Fetched(c)
        PROVE  /\ [op[w] EXCEPT !.overtaken = TRUE] \in Doing
               /\ [op[w] EXCEPT !.overtaken = TRUE].id = op[w].id
               /\ [op[w] EXCEPT !.overtaken = TRUE].does = op[w].does
               /\ [op[w] EXCEPT !.overtaken = TRUE].overtaken = TRUE
    <3>1. op[w] \in [does : {"set", "fetch"}, id : ReqId, overtaken : BOOLEAN]
      BY <2>1 DEF Fetched, ThreadsOf, ValueTyped, Doing, Idle
    <3> QED BY <3>1 DEF Doing
  <2>2. \A w \in Thread : op'[w] = IF w \in Fetched(c)
                                  THEN [op[w] EXCEPT !.overtaken = TRUE] ELSE op[w]
    BY <1>2
  <2>3. \A w \in Thread : op[w] \in Doing
    BY DEF ValueTyped
  <2>4. op' \in [Thread -> Doing]
    BY <1>2, <2>1, <2>3
  <2>5. \A w \in Fetched(c) : w \in Thread
    BY DEF Fetched, ThreadsOf
  <2> QED BY <2>1, <2>2, <2>4, <2>5
<1>6. /\ \A i, j : Answers(c, i, j)' => i \in Nat \ {0} /\ Answers(c, i + 1, j)
      /\ \A i, j : Asks(c, i, j)' <=> Asks(c, i, j)
  BY <1>2, TakesStep DEF Asks
<1>7. ValueTyped'
  BY <1>2, <1>4, <1>5, TakesStep DEF ValueTyped
<1>8. FliesOnce(c)'
  <2>1. \A i \in Nat : i + 1 \in Nat
    OBVIOUS
  <2>2. \A i, j \in Nat : i + 1 = j + 1 => i = j
    OBVIOUS
  <2> QED BY <1>6, <2>1, <2>2 DEF ClientIInv, FliesOnce
<1>9. Unanswered(c)'
  BY <1>2, <1>6 DEF ClientIInv, Unanswered, Flies
<1>10. \A x \in Thread : /\ Waits(x)' <=> Waits(x)
                         /\ Answered(x)' <=> Answered(x)
                         /\ AnswerTo(x)' = AnswerTo(x)
  BY <1>2, <1>5 DEF Waits, Answered, AnswerTo
<1>11. Owned(c)'
  BY <1>2, <1>5, <1>10 DEF ClientIInv, Owned, ThreadsOf
<1>12. FetchesAnswered(c)'
  <2>1. ASSUME NEW x \in ThreadsOf(c), op[x].does = "fetch", NEW i,
               Answers(c, i, op[x].id)'
        PROVE  toClient'[c][i].message.type = "GetAccept"
    <3>1. Answers(c, i + 1, op[x].id) /\ toClient'[c][i] = toClient[c][i + 1]
      <4>1. op'[x].id = op[x].id
        BY <1>5 DEF ThreadsOf
      <4> QED BY <1>2, <1>6, <2>1, <4>1, TakesStep DEF Answers
    <3> QED BY <2>1, <3>1 DEF ClientIInv, FetchesAnswered
  <2>2. \A x \in ThreadsOf(c) : op'[x].id = op[x].id /\ op'[x].does = op[x].does
    BY <1>5 DEF ThreadsOf
  <2>3. \A x \in ThreadsOf(c) : op[x].does = "fetch" =>
            /\ \A i : Asks(c, i, op[x].id)' => toServer'[c][i].message.type = "GetRequest"
            /\ Answered(x)' => AnswerTo(x)'.type = "GetAccept"
    BY <1>2, <1>6, <1>10, <2>2 DEF ClientIInv, FetchesAnswered, ThreadsOf
  <2> QED BY <2>1, <2>2, <2>3 DEF FetchesAnswered
<1>13. ASSUME c \in Subscribers
       PROVE  NewsCurrent(c)' /\ AnswersCurrent(c)' /\ DataCurrent(c)'
  <2>1. NewsCurrent(c)'
    BY <1>2, <1>13, LastMovesUp, TakesStep DEF ClientIInv, NewsCurrent
  <2>2. AnswersCurrent(c)'
    <3>1. \A x \in ThreadsOf(c) : op'[x].does = op[x].does /\ (Answered(x)' <=> Answered(x))
      BY <1>5, <1>10 DEF ThreadsOf
    <3>2. \A x \in Fetched(c)' : x \in Fetched(c)
      BY <3>1 DEF Fetched
    <3> QED BY <3>2, <1>5 DEF AnswersCurrent
  <2>3. DataCurrent(c)'
    <3>1. ASSUME ~Told(c)' PROVE k.message.data = mTree[U].data
      <4>1. Last(c, 1) /\ 1 \in DOMAIN toClient[c] /\ k.message.type # "SetValueAccept"
        BY <1>2, <1>3, <3>1, LastMovesUp, ValueTypes DEF Answers
      <4> QED BY <1>3, <1>13, <4>1 DEF ClientIInv, NewsCurrent
    <3> QED BY <1>2, <1>4, <3>1 DEF DataCurrent
  <2> QED BY <2>1, <2>2, <2>3
<1>14. ASSUME NEW x \in Client, x # c PROVE ClientIInv(x)'
  <2>1. \A w \in ThreadsOf(x) : op'[w] = op[w]
    BY <1>5, <1>14 DEF ThreadsOf, Fetched
  <2>2. Untouched(x)
    BY <1>2, <1>4, <1>14, <2>1, TakesStep, ZenonT(60) DEF Untouched
  <2> QED BY <2>2, UntouchedKept
<1> QED BY <1>7, <1>8, <1>9, <1>11, <1>12, <1>13, <1>14 DEF ClientIInv

-----------------------------------------------------------------------------
(* The server's steps.                                                     *)

\* The messages s to x are the reply q, if x = c, and then notifications p, of which
\* there is one at least if one goes to x.
FansOut(s, c, x, q, p, told) ==
    /\ s \in Seq({q, p})
    /\ \A i \in DOMAIN s : s[i] = p \/ (x = c /\ i = 1 /\ s[i] = q)
    /\ told => Len(s) \in DOMAIN s /\ s[Len(s)] = p

LEMMA FanOutItems ==
    ASSUME NEW c \in Conn, NEW t, NEW b, NEW note, NEW to,
           IsFiniteSet(DOMAIN to), NEW x \in Conn,
           NEW s, s = ReplyAndNotify(c, t, b, note, to)[x]
    PROVE  FansOut(s, c, x, Packet(t, b), Packet(Notify, note),
                   \E k \in DOMAIN to : to[k] = x)
<1> DEFINE keys == {k \in DOMAIN to : to[k] = x}
           n == Cardinality(keys)
           p == Packet(Notify, note)
           q == Packet(t, b)
           S == {q, p}
           reply == IF x = c THEN <<q>> ELSE <<>>
           notes == [i \in 1 .. n |-> p]
<1>1. n \in Nat /\ (n = 0 <=> keys = {})
  <2>1. IsFiniteSet(keys)
    BY FS_Subset
  <2> QED BY <2>1, FS_CardinalityType, FS_EmptySet
<1>2. s = reply \o notes
  BY DEF ReplyAndNotify, Reply, Silence
<1>3. (\E k \in DOMAIN to : to[k] = x) => n # 0
  BY <1>1
<1> HIDE DEF n, p, q
<1>4. p \in S /\ q \in S
  OBVIOUS
<1> HIDE DEF S
<1>5. notes \in Seq(S) /\ Len(notes) = n /\ DOMAIN notes = 1 .. n
  BY <1>1, <1>4
<1>6. /\ reply \in Seq(S) /\ Len(reply) \in Nat
      /\ \A i \in DOMAIN reply : x = c /\ i = 1 /\ reply[i] = q
  BY <1>4
<1> HIDE DEF reply
<1>7. \A i \in DOMAIN notes : notes[i] = p
  OBVIOUS
<1> HIDE DEF notes
<1>8. /\ s \in Seq(S)
      /\ \A i \in DOMAIN s : \/ i \in DOMAIN reply /\ s[i] = reply[i]
                             \/ i - Len(reply) \in DOMAIN notes /\ s[i] = notes[i - Len(reply)]
      /\ \A j \in DOMAIN notes : s[Len(reply) + j] = notes[j]
      /\ Len(s) = Len(reply) + n
  <2>1. reply \in Seq(S) /\ notes \in Seq(S)
    BY <1>5, <1>6
  <2>2. /\ s \in Seq(S)
        /\ \A i \in DOMAIN s : \/ i \in DOMAIN reply /\ s[i] = reply[i]
                               \/ i - Len(reply) \in DOMAIN notes /\ s[i] = notes[i - Len(reply)]
    BY <1>2, <2>1, JoinedItems
  <2>3. \A j \in DOMAIN notes : s[Len(reply) + j] = notes[j]
    BY <1>2, <2>1, JoinedItems
  <2>4. Len(s) = Len(reply) + Len(notes)
    BY <1>2, <2>1
  <2> QED BY <2>2, <2>3, <2>4, <1>5
<1>9. \A i \in DOMAIN s : s[i] = p \/ (x = c /\ i = 1 /\ s[i] = q)
  BY <1>6, <1>7, <1>8
<1>10. n # 0 => Len(s) \in DOMAIN s /\ s[Len(s)] = p
  BY <1>1, <1>5, <1>6, <1>7, <1>8
<1> QED BY <1>3, <1>8, <1>9, <1>10 DEF p, q, S, FansOut

\* What the handler of the request k of c writes to x, where the node has the
\* value v afterwards.
Writes(c, k, x, v, s) ==
    /\ s \in Seq(FromServer)
    /\ \A i \in DOMAIN s :
        \/ s[i].transactionId = Notify
        \/ /\ x = c /\ i = 1
           /\ s[i].transactionId = k.transactionId
           /\ k.message.type = "GetRequest" => s[i].message.type = "GetAccept"
    /\ \A i \in DOMAIN s : s[i].message.type # "SetValueAccept" => s[i].message.data = v
    /\ x \in Subscribers =>
        \/ /\ v = mTree[U].data
           /\ x = c => k.message.type = "GetRequest"
           /\ \A i \in DOMAIN s : s[i].transactionId # Notify
        \/ Len(s) \in DOMAIN s /\ s[Len(s)].transactionId = Notify

\* What the server takes from the wire; what is behind it moves up.
LEMMA TakesRequestStep ==
    ASSUME ValueTyped, NEW c \in Client, TakesRequest(c)
    PROVE  /\ toServer' \in [Client -> Seq(FromClient)]
           /\ \A x \in Client : x # c => toServer'[x] = toServer[x]
           /\ Asks(c, 1, Requested(c).transactionId)
           /\ Requested(c) = toServer[c][1] /\ Requested(c) \in FromClient
           /\ \A i \in DOMAIN toServer'[c] :
                i + 1 \in DOMAIN toServer[c] /\ toServer'[c][i] = toServer[c][i + 1]
           /\ \A i, id : Asks(c, i, id)' => i \in Nat \ {0} /\ Asks(c, i + 1, id)
           /\ \A i \in DOMAIN toServer[c] :
                i # 1 => i - 1 \in DOMAIN toServer'[c] /\ toServer'[c][i - 1] = toServer[c][i]
<1>1. /\ toServer[c] \in Seq(FromClient) /\ toServer[c] # <<>>
      /\ toServer' = [toServer EXCEPT ![c] = Tail(@)]
  BY DEF TakesRequest, ValueTyped
<1>2. /\ toServer'[c] = Tail(toServer[c])
      /\ \A x \in Client : x # c => toServer'[x] = toServer[x]
  BY <1>1 DEF ValueTyped
<1>3. /\ Tail(toServer[c]) \in Seq(FromClient)
      /\ 1 \in DOMAIN toServer[c]
      /\ Head(toServer[c]) = toServer[c][1] /\ toServer[c][1] \in FromClient
      /\ \A i \in DOMAIN Tail(toServer[c]) :
            /\ i \in Nat \ {0} /\ i + 1 \in DOMAIN toServer[c]
            /\ Tail(toServer[c])[i] = toServer[c][i + 1]
      /\ \A i \in DOMAIN toServer[c] : i \in Nat /\
            (i # 1 => /\ i - 1 \in DOMAIN Tail(toServer[c])
                      /\ Tail(toServer[c])[i - 1] = toServer[c][i])
  BY <1>1, TailItems
<1>4. toServer' \in [Client -> Seq(FromClient)]
  BY <1>1, <1>3 DEF ValueTyped
<1> QED BY <1>2, <1>3, <1>4 DEF Asks, Requested

\* SetValueRequest changes no listener while everybody is connected, and reaches
\* each of them.
LEMMA SharedListeners ==
    ASSUME TypeOK, NodeShared
    PROVE  /\ Rebound(U) = mTree[U].listener
           /\ \A x \in Subscribers :
                \E s \in DOMAIN Recipients(U) : Recipients(U)[s] = x
<1>1. /\ IsMap(mTree[U].listener, SessionId, Conn)
      /\ \A s \in DOMAIN mTree[U].listener : Alive(mTree[U].listener[s])
  BY Types, NodeFields DEF NodeShared, Alive, IsMap
<1>2. Rebound(U) = [s \in DOMAIN mTree[U].listener |-> mTree[U].listener[s]]
  BY <1>1 DEF Rebound
<1>3. Rebound(U) = mTree[U].listener
  BY <1>1, <1>2 DEF IsMap
<1>4. /\ DOMAIN Recipients(U) = DOMAIN mTree[U].listener
      /\ \A s \in DOMAIN mTree[U].listener : Recipients(U)[s] = mTree[U].listener[s]
  BY <1>1, <1>3 DEF Recipients
<1> QED BY <1>3, <1>4 DEF NodeShared

\* The handlers of the two requests.
LEMMA ServeWrites ==
    ASSUME TypeOK, TreeConsistent, ValueTyped, NodeShared,
           NEW c \in Client, NEW k, k = Requested(c), Serve(c)
    PROVE  /\ Next /\ NodeShared'
           /\ \A x \in Client : Writes(c, k, x, mTree'[U].data, out'[x])
<1> DEFINE t == k.transactionId
           v == k.message.data
<1>1. /\ c \in Conn /\ U \in Uuid /\ U # Root /\ t \in ReqId /\ k \in FromClient
      /\ mTree[U] \in Node
  <2>1. c \in Conn /\ U \in Uuid /\ U # Root
    BY ThreadAssumption, ShareAssumption, BoundsAssumption DEF U, Root, Uuid
  <2> QED BY <2>1, TakesRequestStep, Types DEF Serve, FromClient, NodeShared
<1>2. ASSUME k.message.type = "SetValueRequest"
      PROVE  /\ Next /\ NodeShared'
             /\ \A x \in Client : Writes(c, k, x, mTree'[U].data, out'[x])
  <2>1. v \in Value
    BY <1>1, <1>2 DEF FromClient
  <2>2. SetValue(c, t, U, v)
    BY <1>2 DEF Serve
  <2>3. Next
    BY <1>1, <2>1, <2>2 DEF Next, Request
  <2>4. /\ mTree' = [mTree EXCEPT ![U].data = v, ![U].listener = Rebound(U)]
        /\ out' = ReplyAndNotify(c, t, [type |-> "SetValueAccept"],
                        [type |-> "UpdateNotification", uuid |-> U, data |-> v],
                        Recipients(U))
        /\ link' = link
    BY <1>1, <2>2 DEF SetValue, NodeShared, netVars
  <2>5. /\ DOMAIN mTree' = DOMAIN mTree
        /\ mTree'[U].data = v /\ mTree'[U].listener = mTree[U].listener
    BY <1>1, <2>4, SharedListeners DEF NodeShared, Node
  <2>6. NodeShared'
    BY <2>4, <2>5 DEF NodeShared
  <2> DEFINE b == [type |-> "SetValueAccept"]
             note == [type |-> "UpdateNotification", uuid |-> U, data |-> v]
  <2>7. /\ Packet(t, b) \in FromServer /\ Packet(Notify, note) \in FromServer
        /\ b.type = "SetValueAccept" /\ note.type = "UpdateNotification" /\ note.data = v
        /\ Packet(t, b).transactionId = t /\ Packet(t, b).message = b
        /\ Packet(Notify, note).transactionId = Notify
        /\ Packet(Notify, note).message = note
    BY <1>1, <2>1 DEF Packet, FromServer, ToAnswer, ToTell
  <2>8. ASSUME NEW x \in Client PROVE Writes(c, k, x, mTree'[U].data, out'[x])
    <3>1. x \in Conn /\ IsFiniteSet(DOMAIN Recipients(U))
      BY ThreadAssumption, FiniteFanOut DEF NodeShared
    <3> HIDE DEF b, note
    <3>2. /\ out'[x] \in Seq(FromServer)
          /\ \A i \in DOMAIN out'[x] :
                \/ out'[x][i] = Packet(Notify, note)
                \/ x = c /\ i = 1 /\ out'[x][i] = Packet(t, b)
          /\ (\E s \in DOMAIN Recipients(U) : Recipients(U)[s] = x) =>
                /\ Len(out'[x]) \in DOMAIN out'[x]
                /\ out'[x][Len(out'[x])] = Packet(Notify, note)
      <4>1. out'[x] = ReplyAndNotify(c, t, b, note, Recipients(U))[x]
        BY <2>4 DEF b, note
      <4>2. FansOut(out'[x], c, x, Packet(t, b), Packet(Notify, note),
                    \E s \in DOMAIN Recipients(U) : Recipients(U)[s] = x)
        BY <1>1, <3>1, <4>1, FanOutItems
      <4>3. out'[x] \in Seq(FromServer)
        BY <2>7, <4>2 DEF FansOut
      <4> QED BY <4>2, <4>3 DEF FansOut
    <3>3. x \in Subscribers => /\ Len(out'[x]) \in DOMAIN out'[x]
                               /\ out'[x][Len(out'[x])].transactionId = Notify
      BY <2>7, <3>2, SharedListeners
    <3> QED BY <1>2, <2>5, <2>7, <3>2, <3>3 DEF Writes
  <2> QED BY <2>3, <2>6, <2>8
<1>3. ASSUME k.message.type # "SetValueRequest"
      PROVE  /\ Next /\ NodeShared'
             /\ \A x \in Client : Writes(c, k, x, mTree'[U].data, out'[x])
  <2>1. Get(c, t, U) /\ k.message.type = "GetRequest"
    BY <1>1, <1>3 DEF Serve, FromClient
  <2>2. Next
    BY <1>1, <2>1 DEF Next, Request
  <2> DEFINE b == [type |-> "GetAccept", data |-> mTree[U].data]
  <2>3. out' = Reply(c, t, b) /\ link' = link /\ mTree' = mTree
    BY <2>1 DEF Get, Answer, NodeShared, netVars, treeVars
  <2>4. NodeShared'
    BY <2>3 DEF NodeShared
  <2>5. /\ Packet(t, b) \in FromServer
        /\ Packet(t, b).transactionId = t /\ Packet(t, b).message = b
        /\ b.type = "GetAccept" /\ b.data = mTree[U].data
    <3>1. mTree[U].data \in Value
      BY <1>1 DEF Node
    <3> QED BY <1>1, <3>1 DEF Packet, FromServer, ToAnswer
  <2>6. ASSUME NEW x \in Client PROVE Writes(c, k, x, mTree'[U].data, out'[x])
    <3> HIDE DEF b
    <3>1. out'[x] = IF x = c THEN <<Packet(t, b)>> ELSE <<>>
      BY <2>3, ThreadAssumption DEF Reply, Silence
    <3>2. /\ out'[x] \in Seq(FromServer)
          /\ \A i \in DOMAIN out'[x] : x = c /\ i = 1 /\ out'[x][i] = Packet(t, b)
      BY <2>5, <3>1
    <3> QED BY <1>1, <2>1, <2>3, <2>5, <3>2, ValueTypes DEF Writes
  <2> QED BY <2>2, <2>4, <2>6
<1> QED BY <1>2, <1>3

\* What is written comes behind what was on the wire.
LEMMA DeliversStep ==
    ASSUME ValueTyped, NEW x \in Client, Delivers, out'[x] \in Seq(FromServer)
    PROVE  /\ toClient'[x] \in Seq(FromServer)
           /\ Len(toClient[x]) \in Nat
           /\ \A i \in DOMAIN toClient'[x] :
                \/ i \in DOMAIN toClient[x] /\ toClient'[x][i] = toClient[x][i]
                \/ /\ i - Len(toClient[x]) \in DOMAIN out'[x]
                   /\ toClient'[x][i] = out'[x][i - Len(toClient[x])]
                   /\ i \in Nat
           /\ \A i \in DOMAIN toClient[x] :
                /\ i \in 1 .. Len(toClient[x])
                /\ i \in DOMAIN toClient'[x] /\ toClient'[x][i] = toClient[x][i]
           /\ \A i \in DOMAIN out'[x] :
                /\ i \in Nat \ {0}
                /\ Len(toClient[x]) + i \in DOMAIN toClient'[x]
                /\ toClient'[x][Len(toClient[x]) + i] = out'[x][i]
<1>1. toClient[x] \in Seq(FromServer) /\ toClient'[x] = toClient[x] \o out'[x]
  BY DEF ValueTyped, Delivers
<1>2. \A i \in DOMAIN toClient'[x] : i \in Nat
  BY <1>1
<1> DEFINE s == toClient[x]
           t == out'[x]
           r == toClient'[x]
<1>3. s \in Seq(FromServer) /\ t \in Seq(FromServer) /\ r = s \o t
  BY <1>1
<1> HIDE DEF s, t, r
<1>4. /\ r \in Seq(FromServer)
      /\ Len(s) \in Nat
      /\ \A i \in DOMAIN r :
            \/ i \in DOMAIN s /\ r[i] = s[i]
            \/ i - Len(s) \in DOMAIN t /\ r[i] = t[i - Len(s)]
      /\ \A i \in DOMAIN s : i \in DOMAIN r /\ r[i] = s[i] /\ i \in 1 .. Len(s)
      /\ \A j \in DOMAIN t :
            j \in Nat \ {0} /\ Len(s) + j \in DOMAIN r /\ r[Len(s) + j] = t[j]
  BY <1>3, JoinedItems
<1> QED BY <1>2, <1>4 DEF r, s, t

\* The server handles a request: its answer, and the updates, come behind what is
\* on its way already.
LEMMA ServeStep ==
    ASSUME TypeOK, TreeConsistent, ValueTyped, NodeShared,
           \A x \in Client : ClientIInv(x), NEW c \in Client, Serve(c)
    PROVE  ValueTyped' /\ \A x \in Client : ClientIInv(x)'
<1>1. PICK k : k = Requested(c)
  OBVIOUS
<1>2. /\ TakesRequest(c) /\ Delivers
      /\ op' = op /\ mTransactions' = mTransactions
      /\ mTransactioIdCtr' = mTransactioIdCtr
      /\ data' = data /\ dataMutex' = dataMutex /\ stale' = stale
  BY DEF Serve, threadVars
<1>3. \A x \in Client : Writes(c, k, x, mTree'[U].data, out'[x])
  BY <1>1, ServeWrites
<1>4. Asks(c, 1, k.transactionId) /\ k = toServer[c][1] /\ k.transactionId \in ReqId
  BY <1>1, <1>2, TakesRequestStep, ValueTypes
<1>5. ValueTyped'
  <2>1. \A x \in Client : toClient'[x] \in Seq(FromServer)
    BY <1>2, <1>3, DeliversStep DEF Writes
  <2>2. toClient' \in [Client -> Seq(FromServer)]
    BY <1>2, <2>1 DEF Delivers
  <2> QED BY <1>2, <2>2, TakesRequestStep DEF ValueTyped
<1>6. ASSUME NEW x \in Client PROVE ClientIInv(x)'
  <2>1. /\ toClient[x] \in Seq(FromServer) /\ out'[x] \in Seq(FromServer)
        /\ Writes(c, k, x, mTree'[U].data, out'[x])
    BY <1>3 DEF Writes, ValueTyped
  \* What is new under a request's id is the answer to k.
  <2>2. \A i : \A id \in ReqId : Answers(x, i, id)' =>
            \/ Answers(x, i, id) /\ toClient'[x][i] = toClient[x][i]
            \/ /\ x = c /\ i = Len(toClient[c]) + 1 /\ id = k.transactionId
               /\ k.message.type = "GetRequest" =>
                    toClient'[c][i].message.type = "GetAccept"
    <3>1. ASSUME NEW i, NEW id \in ReqId, Answers(x, i, id)', ~(i \in DOMAIN toClient[x])
          PROVE  /\ x = c /\ i = Len(toClient[c]) + 1 /\ id = k.transactionId
                 /\ k.message.type = "GetRequest" =>
                        toClient'[c][i].message.type = "GetAccept"
      <4> DEFINE j == i - Len(toClient[x])
      <4>1. /\ j \in DOMAIN out'[x] /\ toClient'[x][i] = out'[x][j]
            /\ i \in Nat /\ Len(toClient[x]) \in Nat
            /\ toClient'[x][i].transactionId = id
        BY <1>2, <2>1, <3>1, DeliversStep DEF Answers
      <4>2. out'[x][j].transactionId # Notify
        BY <4>1, ValueTypes
      <4>3. /\ x = c /\ j = 1 /\ id = k.transactionId
            /\ k.message.type = "GetRequest" => out'[x][j].message.type = "GetAccept"
        BY <2>1, <4>1, <4>2 DEF Writes
      <4> QED BY <4>1, <4>3
    <3>2. ASSUME NEW i, NEW id \in ReqId, Answers(x, i, id)', i \in DOMAIN toClient[x]
          PROVE  Answers(x, i, id) /\ toClient'[x][i] = toClient[x][i]
      BY <1>2, <2>1, <3>2, DeliversStep DEF Answers
    <3> QED BY <3>1, <3>2
  \* Every request stood on the wire before, behind k if it is from c.
  <2>3. \A i, id : Asks(x, i, id)' =>
            \/ x = c /\ i \in Nat \ {0} /\ Asks(x, i + 1, id)
               /\ toServer'[x][i] = toServer[x][i + 1]
            \/ x # c /\ Asks(x, i, id) /\ toServer'[x][i] = toServer[x][i]
    BY <1>2, TakesRequestStep DEF Asks
  <2>4. \A i, id : Asks(x, i, id) \/ Answers(x, i, id) => i \in Nat
    BY DEF Asks, Answers, ValueTyped
  <2>5. \A i, id : Asks(x, i, id)' => i \in Nat
    BY <2>3, <2>4
  <2>6. FliesOnce(x)'
    <3>1. ASSUME NEW id \in ReqId, NEW i \in Nat, NEW j \in Nat, Asks(x, i, id)', Asks(x, j, id)'
          PROVE  i = j
      <4>1. CASE x # c
        BY <2>3, <3>1, <4>1 DEF ClientIInv, FliesOnce
      <4>2. CASE x = c
        <5>1. i + 1 \in Nat /\ j + 1 \in Nat /\ Asks(x, i + 1, id) /\ Asks(x, j + 1, id)
          BY <2>3, <3>1, <4>2
        <5>2. i + 1 = j + 1
          BY <5>1 DEF ClientIInv, FliesOnce
        <5> QED BY <5>2
      <4> QED BY <4>1, <4>2
    <3>2. ASSUME NEW id \in ReqId, NEW i \in Nat, NEW j \in Nat,
                 Answers(x, i, id)', Answers(x, j, id)'
          PROVE  i = j
      <4>1. ASSUME NEW m \in Nat, Answers(c, m, k.transactionId) PROVE FALSE
        BY <1>4, <4>1 DEF ClientIInv, FliesOnce
      <4> QED BY <2>2, <3>2, <4>1 DEF ClientIInv, FliesOnce
    <3>3. ASSUME NEW id \in ReqId, NEW i \in Nat, NEW j \in Nat,
                 Asks(x, i, id)', Answers(x, j, id)'
          PROVE  FALSE
      <4>1. PICK h \in Nat : Asks(x, h, id) /\ (x = c => h # 1)
        <5>1. CASE x = c
          <6>1. i + 1 \in Nat /\ i + 1 # 1 /\ Asks(x, i + 1, id)
            BY <2>3, <3>3, <5>1
          <6> QED BY <6>1
        <5>2. CASE x # c
          BY <2>3, <3>3, <5>2
        <5> QED BY <5>1, <5>2
      <4> QED BY <1>4, <2>2, <3>3, <4>1 DEF ClientIInv, FliesOnce
    <3> QED BY <3>1, <3>2, <3>3 DEF FliesOnce
  <2>7. Unanswered(x)'
    <3>1. \A id \in ReqId : Flies(x, id)' => Flies(x, id)
      BY <1>4, <2>2, <2>3 DEF Flies
    <3> QED BY <1>2, <3>1 DEF ClientIInv, Unanswered
  <2>8. Owned(x)'
    BY <1>2 DEF ClientIInv, Owned, Waits
  <2>9. FetchesAnswered(x)'
    <3>1. ASSUME NEW w \in ThreadsOf(x), op[w].does = "fetch"
          PROVE  /\ op[w].id \in ReqId
                 /\ \A i : Asks(x, i, op[w].id) =>
                        toServer[x][i].message.type = "GetRequest"
                 /\ \A i : Answers(x, i, op[w].id) =>
                        toClient[x][i].message.type = "GetAccept"
                 /\ Answered(w) => AnswerTo(w).type = "GetAccept"
      BY <3>1, ValueTypes DEF ClientIInv, FetchesAnswered, ThreadsOf, ValueTyped
    <3>2. ASSUME NEW w \in ThreadsOf(x), op[w].does = "fetch", NEW i, Asks(x, i, op[w].id)'
          PROVE  toServer'[x][i].message.type = "GetRequest"
      BY <1>2, <2>3, <3>1, <3>2
    <3>3. ASSUME NEW w \in ThreadsOf(x), op[w].does = "fetch", NEW i, Answers(x, i, op[w].id)'
          PROVE  toClient'[x][i].message.type = "GetAccept"
      <4>1. \/ Answers(x, i, op[w].id) /\ toClient'[x][i] = toClient[x][i]
            \/ /\ x = c /\ op[w].id = k.transactionId
               /\ k.message.type = "GetRequest" =>
                    toClient'[c][i].message.type = "GetAccept"
        BY <1>2, <2>2, <3>1, <3>3
      <4> QED BY <1>4, <3>1, <3>3, <4>1
    <3> QED BY <1>2, <3>1, <3>2, <3>3 DEF FetchesAnswered, Answered, AnswerTo, Waits
  <2>10. ASSUME x \in Subscribers
         PROVE  NewsCurrent(x)' /\ AnswersCurrent(x)' /\ DataCurrent(x)'
    \* Either the value is the same and nobody is told, or x is.
    <3>1. \/ /\ mTree'[U].data = mTree[U].data
             /\ x = c => k.message.type = "GetRequest"
             /\ \A i \in DOMAIN out'[x] : out'[x][i].transactionId # Notify
          \/ \E i \in Nat : i > Len(toClient[x]) /\ Tells(x, i)'
      <4>1. CASE Len(out'[x]) \in DOMAIN out'[x]
                 /\ out'[x][Len(out'[x])].transactionId = Notify
        <5> DEFINE i == Len(toClient[x]) + Len(out'[x])
        <5>1. /\ Len(toClient[x]) \in Nat /\ Len(out'[x]) \in Nat \ {0}
              /\ i \in DOMAIN toClient'[x] /\ toClient'[x][i] = out'[x][Len(out'[x])]
          BY <1>2, <2>1, <4>1, DeliversStep
        <5>2. PICK j \in Nat : j = i /\ j > Len(toClient[x])
          <6> DEFINE m == Len(toClient[x])
                     n == Len(out'[x])
          <6>1. m \in Nat /\ n \in Nat \ {0}
            BY <5>1
          <6> HIDE DEF m, n
          <6>2. m + n \in Nat /\ m + n > m
            BY <6>1
          <6> QED BY <6>2 DEF m, n
        <5>3. Tells(x, j)'
          BY <4>1, <5>1, <5>2 DEF Tells, Answers
        <5> QED BY <5>2, <5>3
      <4> QED BY <2>1, <2>10, <4>1 DEF Writes
    <3>2. \A i : Tells(x, i) => Tells(x, i)'
      BY <1>2, <2>1, DeliversStep DEF Tells, Answers
    <3>3. NewsCurrent(x)'
      <4>1. ASSUME NEW i \in DOMAIN toClient'[x], Last(x, i)',
                   toClient'[x][i].message.type # "SetValueAccept"
            PROVE  toClient'[x][i].message.data = mTree'[U].data
        <5>1. CASE i \in DOMAIN toClient[x]
          <6>1. /\ i \in 1 .. Len(toClient[x]) /\ Len(toClient[x]) \in Nat
                /\ toClient'[x][i] = toClient[x][i]
            BY <1>2, <2>1, <5>1, DeliversStep
          <6>2. mTree'[U].data = mTree[U].data
            BY <3>1, <4>1, <6>1 DEF Last
          <6>3. Last(x, i)
            BY <3>2, <4>1 DEF Last
          <6> QED BY <2>10, <4>1, <5>1, <6>1, <6>2, <6>3 DEF ClientIInv, NewsCurrent
        <5>2. CASE i \notin DOMAIN toClient[x]
          <6>1. /\ i - Len(toClient[x]) \in DOMAIN out'[x]
                /\ toClient'[x][i] = out'[x][i - Len(toClient[x])]
            BY <1>2, <2>1, <4>1, <5>2, DeliversStep
          <6> QED BY <2>1, <4>1, <6>1 DEF Writes
        <5> QED BY <5>1, <5>2
      <4> QED BY <4>1 DEF NewsCurrent
    <3>4. ASSUME ~Told(x)'
          PROVE  /\ ~Told(x) /\ mTree'[U].data = mTree[U].data
                 /\ x = c => k.message.type = "GetRequest"
      BY <3>1, <3>2, <3>4 DEF Told
    <3>5. AnswersCurrent(x)'
      BY <1>2, <2>10, <3>4
         DEF ClientIInv, AnswersCurrent, Fetched, Answered, AnswerTo, Waits
    <3>6. DataCurrent(x)'
      <4>1. ASSUME ~Told(x)', ~Assigns(x)' PROVE ~Assigns(x)
        <5>1. ASSUME NEW i \in DOMAIN toServer[x], toServer[x][i].message.type # "GetRequest"
              PROVE  FALSE
          <6>1. CASE x # c
            BY <1>2, <4>1, <5>1, <6>1, TakesRequestStep DEF Assigns
          <6>2. CASE x = c
            <7>1. i # 1
              BY <1>4, <3>4, <4>1, <5>1, <6>2
            <7>2. i - 1 \in DOMAIN toServer'[x] /\ toServer'[x][i - 1] = toServer[x][i]
              BY <1>2, <5>1, <6>2, <7>1, TakesRequestStep
            <7> QED BY <4>1, <5>1, <7>2 DEF Assigns
          <6> QED BY <6>1, <6>2
        <5> QED BY <5>1 DEF Assigns
      <4> QED BY <1>2, <2>10, <3>4, <4>1 DEF ClientIInv, DataCurrent
    <3> QED BY <3>3, <3>5, <3>6
  <2> QED BY <2>6, <2>7, <2>8, <2>9, <2>10 DEF ClientIInv
<1> QED BY <1>5, <1>6

-----------------------------------------------------------------------------
(* The beginning.                                                          *)

\* The sessions can be numbered.
LEMMA Numbering ==
    LET n == Cardinality(Conn) IN
    n \in Nat /\ \E b \in Bijection(Conn, 0 .. n - 1) : TRUE
<1> DEFINE n == Cardinality(Conn)
<1>1. n \in Nat /\ ExistsBijection(1 .. n, Conn)
  BY ThreadAssumption, FS_CardinalityType
<1> HIDE DEF n
<1>2. PICK f : f \in Bijection(1 .. n, Conn)
  BY <1>1 DEF ExistsBijection
<1>3. /\ f \in [1 .. n -> Conn]
      /\ \A i, j \in 1 .. n : f[i] = f[j] => i = j
      /\ \A c \in Conn : \E i \in 1 .. n : f[i] = c
  BY <1>2 DEF Bijection, Injection, Surjection, IsInjective
<1> DEFINE at(c) == CHOOSE i \in 1 .. n : f[i] = c
           b == [c \in Conn |-> at(c) - 1]
<1>4. \A c \in Conn : at(c) \in 1 .. n /\ f[at(c)] = c
  BY <1>3
<1>5. \A i \in 1 .. n : at(f[i]) = i
  BY <1>3, <1>4
<1> HIDE DEF at
<1>6. b \in [Conn -> 0 .. n - 1]
  BY <1>1, <1>4
<1>7. ASSUME NEW c \in Conn, NEW d \in Conn, b[c] = b[d] PROVE c = d
  BY <1>1, <1>4, <1>7
<1>8. ASSUME NEW j \in 0 .. n - 1 PROVE \E c \in Conn : b[c] = j
  <2>1. j + 1 \in 1 .. n /\ (j + 1) - 1 = j
    BY <1>1, <1>8
  <2>2. f[j + 1] \in Conn /\ at(f[j + 1]) = j + 1
    BY <1>3, <1>5, <2>1
  <2> QED BY <2>1, <2>2
<1>9. DOMAIN b = Conn
  OBVIOUS
<1>10. b \in Bijection(Conn, 0 .. n - 1)
  <2> HIDE DEF b
  <2> QED BY <1>6, <1>7, <1>8, <1>9 DEF Bijection, Injection, Surjection, IsInjective
<1> QED BY <1>1, <1>10 DEF n

\* Each session is that of its connection.
LEMMA SessionsAtFirst ==
    ASSUME SignedInInit
    PROVE  /\ mSessionIdCtr \in 0 .. MaxSession
           /\ mSessions \in [0 .. mSessionIdCtr - 1 -> Conn]
           /\ 0 .. mSessionIdCtr - 1 \subseteq SessionId
           /\ mConnectionToSessionId \in [Conn -> 0 .. mSessionIdCtr - 1]
           /\ \A c \in Conn : mSessions[mConnectionToSessionId[c]] = c
<1> DEFINE n == Cardinality(Conn)
           b == mConnectionToSessionId
<1>1. n \in Nat /\ n <= MaxSession /\ mSessionIdCtr = n
  BY Numbering, ThreadAssumption DEF SignedInInit
<1>2. b \in Bijection(Conn, 0 .. n - 1)
  BY Numbering DEF SignedInInit
<1>3. mSessions = AntiFunction(b)
  BY DEF SignedInInit
<1> HIDE DEF n, b
<1>4. /\ b \in [Conn -> 0 .. n - 1]
      /\ \A c, d \in Conn : b[c] = b[d] => c = d
      /\ \A j \in 0 .. n - 1 : \E c \in Conn : b[c] = j
  BY <1>2 DEF Bijection, Injection, Surjection, IsInjective
<1>5. Range(b) = 0 .. n - 1 /\ DOMAIN b = Conn
  BY <1>4 DEF Range
<1>6. mSessions = [j \in 0 .. n - 1 |-> CHOOSE c \in Conn : j \in 0 .. n - 1 => b[c] = j]
  BY <1>3, <1>5 DEF AntiFunction, Inverse
<1>7. \A j \in 0 .. n - 1 : mSessions[j] \in Conn /\ b[mSessions[j]] = j
  BY <1>4, <1>6
<1>8. mSessions \in [0 .. n - 1 -> Conn]
  BY <1>6, <1>7
<1>9. \A c \in Conn : mSessions[b[c]] = c
  BY <1>4, <1>7
<1>10. mSessionIdCtr \in 0 .. MaxSession /\ 0 .. n - 1 \subseteq SessionId
  BY <1>1, BoundsAssumption DEF SessionId
<1> QED BY <1>1, <1>4, <1>8, <1>9, <1>10 DEF b

LEMMA ValueIInvInit == ValueInit => ValueIInv
<1> SUFFICES ASSUME ValueInit PROVE ValueIInv
  OBVIOUS
<1>1. SignedInInit /\ ThreadsInit /\ mUuidCtr = U + 1
  BY DEF ValueInit
<1>2. PICK n \in Name :
        mTree = Put(Put(EmptyMap, Root, [NewNode(None, None, None) EXCEPT
                                            !.children = Put(EmptyMap, n, U)]),
                    U, [NewNode(n, 0, Root) EXCEPT
                            !.listener = Restrict(mSessions,
                                {x \in DOMAIN mSessions : mSessions[x] \in Subscribers})])
  BY DEF ValueInit
<1> DEFINE top == [NewNode(None, None, None) EXCEPT !.children = Put(EmptyMap, n, U)]
           heard == Restrict(mSessions,
                        {x \in DOMAIN mSessions : mSessions[x] \in Subscribers})
           node == [NewNode(n, 0, Root) EXCEPT !.listener = heard]
<1>3. /\ Root \in Uuid /\ U \in Uuid /\ Root # U /\ Root < U /\ 0 \in SessionId
      /\ Root < U + 1 /\ U < U + 1 /\ U + 1 \in 1 .. MaxUuid + 1
  BY BoundsAssumption, ShareAssumption DEF Root, U, Uuid, SessionId
<1>4. /\ IsMap(heard, SessionId, Conn)
      /\ \A x \in DOMAIN mSessions : mSessions[x] \in Subscribers =>
            x \in DOMAIN heard /\ heard[x] = mSessions[x]
  BY <1>1, SessionsAtFirst DEF Restrict, IsMap
<1>5. top \in Node /\ node \in Node
  <2>1. NewNode(None, None, None) \in Node /\ NewNode(n, 0, Root) \in Node
    BY <1>3, NewNodeType
  <2>2. Put(EmptyMap, n, U) \in Map(Name, Uuid)
    BY <1>3, EmptyMapType, PutType, MapMembership
  <2>3. heard \in Map(SessionId, Conn)
    BY <1>4, MapMembership
  <2> HIDE DEF heard
  <2> QED BY <2>1, <2>2, <2>3 DEF Node
<1>6. /\ top.parent = None /\ top.children = Put(EmptyMap, n, U)
      /\ node.parent = Root /\ node.name = n /\ node.children = EmptyMap
      /\ node.listener = heard
  BY DEF NewNode
<1> HIDE DEF top, node, heard
<1>7. mTree = Put(Put(EmptyMap, Root, top), U, node)
  BY <1>2 DEF top, node, heard
<1>8. /\ IsMap(mTree, Uuid, Node) /\ DOMAIN mTree = {Root, U}
      /\ mTree[Root] = top /\ mTree[U] = node
  <2>1. IsMap(Put(EmptyMap, Root, top), Uuid, Node)
    BY <1>3, <1>5, EmptyMapType, PutType
  <2>2. IsMap(mTree, Uuid, Node)
    BY <2>1, <1>3, <1>5, <1>7, PutType
  <2> QED BY <2>2, <1>3, <1>7, EmptyMapType DEF Put
<1>9. TypeOK
  <2>1. /\ status = "running" /\ link = [c \in Conn |-> "open"] /\ fault = None
        /\ mTrIdCtr = 0 /\ mTrIdTranslation = EmptyMap /\ out = Silence
    BY <1>1 DEF SignedInInit
  <2>2. /\ mSessionIdCtr \in 0 .. MaxSession
        /\ mSessions \in [0 .. mSessionIdCtr - 1 -> Conn \cup {None}]
        /\ IsMap(mConnectionToSessionId, Conn, SessionId)
    BY <1>1, SessionsAtFirst DEF IsMap
  <2>3. mTrIdCtr \in TrId /\ IsMap(mTrIdTranslation, TrId, SessionId \X ReqId)
    BY <2>1, BoundsAssumption, EmptyMapType DEF TrId
  <2>4. out \in [Conn -> Seq(Message)] /\ mUuidCtr \in 1 .. MaxUuid + 1
    BY <1>1, <1>3, <2>1, SilenceType
  <2> QED BY <1>8, <2>1, <2>2, <2>3, <2>4 DEF TypeOK
<1>10. TreeConsistent
  <2>1. /\ DOMAIN mTree[Root].children = {n} /\ mTree[Root].children[n] = U
        /\ DOMAIN mTree[U].children = {}
    BY <1>6, <1>8, EmptyMapType DEF Put
  <2> QED BY <2>1, <1>1, <1>3, <1>6, <1>8 DEF TreeConsistent, ParentLinks, ChildLinks
<1>11. NodeShared
  <2>1. \A c \in Conn : link[c] = "open"
    BY <1>1 DEF SignedInInit
  <2>2. ASSUME NEW c \in Subscribers
        PROVE  \E s \in DOMAIN mTree[U].listener : mTree[U].listener[s] = c
    <3> DEFINE s == mConnectionToSessionId[c]
    <3>1. c \in Conn
      BY ThreadAssumption, ShareAssumption
    <3>2. s \in DOMAIN mSessions /\ mSessions[s] = c
      BY <1>1, <3>1, SessionsAtFirst
    <3> QED BY <1>4, <1>6, <1>8, <3>2
  <2> QED BY <1>8, <2>1, <2>2 DEF NodeShared
<1>12. /\ data = [c \in Client |-> Empty]
       /\ dataMutex = [c \in Client |-> None] /\ stale = {}
       /\ op = [w \in Thread |-> Idle]
       /\ mTransactions = [c \in Client |-> EmptyMap]
       /\ mTransactioIdCtr = [c \in Client |-> 0]
       /\ toServer = [c \in Client |-> <<>>] /\ toClient = [c \in Client |-> <<>>]
  BY <1>1 DEF ValueInit, ThreadsInit
<1>13. ValueTyped
  <2>1. EmptyMap \in Map(ReqId, ToAnswer \cup {None})
    BY EmptyMapType, MapMembership
  <2> QED BY <1>12, <2>1, DataAssumption DEF ValueTyped, Doing
<1>14. ASSUME NEW c \in Client PROVE ClientIInv(c)
  <2>1. \A i, id : ~Asks(c, i, id) /\ ~Answers(c, i, id)
    BY <1>12 DEF Asks, Answers
  <2>2. \A w \in ThreadsOf(c) : ~Waits(w) /\ op[w].does = "nothing"
    BY <1>12, ValueTypes DEF ThreadsOf, Waits
  <2>3. FliesOnce(c) /\ Owned(c) /\ FetchesAnswered(c)
    BY <2>1, <2>2 DEF FliesOnce, Owned, FetchesAnswered
  <2>4. Unanswered(c)
    BY <2>1, <1>12, EmptyMapType DEF Unanswered, Flies
  <2>5. NewsCurrent(c) /\ AnswersCurrent(c)
    BY <2>2, <1>12 DEF NewsCurrent, AnswersCurrent, Fetched
  <2>6. DataCurrent(c)
    <3>1. mTree[U].data = Empty
      BY <1>8 DEF node, NewNode
    <3> QED BY <3>1, <1>12 DEF DataCurrent
  <2> QED BY <2>3, <2>4, <2>5, <2>6 DEF ClientIInv
<1> QED BY <1>9, <1>10, <1>11, <1>13, <1>14 DEF ValueIInv

\* A step that leaves the server alone keeps what is known of it.
LEMMA ServerKept ==
    ASSUME TypeOK, TreeConsistent, NodeShared, UNCHANGED vars
    PROVE  TypeOK' /\ TreeConsistent' /\ NodeShared'
<1>1. TypeOK'
  BY DEF TypeOK, IsMap, vars, netVars, sessionVars, treeVars, rpcVars
<1>2. TreeConsistent'
  BY DEF TreeConsistent, ParentLinks, ChildLinks, vars, treeVars
<1>3. NodeShared'
  BY DEF NodeShared, vars, netVars, treeVars
<1> QED BY <1>1, <1>2, <1>3

\* A thread belongs to a client.
LEMMA OwnClient == \A w \in Thread : w[1] \in Client /\ w \in ThreadsOf(w[1])
  BY DEF Client, ThreadsOf

LEMMA AssignKeeps ==
    ASSUME ValueIInv, NEW w \in Thread, NEW v \in Value, Assign(w, v)
    PROVE  ValueIInv'
<1> DEFINE message == [type |-> "SetValueRequest", data |-> v]
<1>1. PICK c \in Client : c = w[1]
  BY OwnClient
<1>2. PICK id : id = mTransactioIdCtr[c]
  OBVIOUS
<1>3. /\ op[w] = Idle /\ Sends(w, Task("set"), message)
      /\ UNCHANGED <<vars, toClient, stale>>
      /\ data' = [data EXCEPT ![c] = v] /\ dataMutex' = [dataMutex EXCEPT ![c] = w]
  BY <1>1 DEF Assign
<1>4. /\ data' \in [Client -> Value] /\ dataMutex' \in [Client -> Thread \cup {None}]
      /\ \A x \in Client : x # c => data'[x] = data[x]
  BY <1>1, <1>3 DEF ValueIInv, ValueTyped
<1>5. /\ message \in [type : {"SetValueRequest"}, data : Value] \cup [type : {"GetRequest"}]
      /\ message.type = "SetValueRequest"
  OBVIOUS
<1> HIDE DEF message
<1>6. ValueTyped' /\ \A x \in Client : ClientIInv(x)'
  BY <1>1, <1>2, <1>3, <1>4, <1>5, SendsStep DEF ValueIInv
<1> QED BY <1>3, <1>6, ServerKept DEF ValueIInv

LEMMA FetchKeeps ==
    ASSUME ValueIInv, NEW w \in Thread, Fetch(w)
    PROVE  ValueIInv'
<1> DEFINE message == [type |-> "GetRequest"]
<1>1. PICK c \in Client : c = w[1]
  BY OwnClient
<1>2. PICK id : id = mTransactioIdCtr[c]
  OBVIOUS
<1>3. /\ op[w] = Idle /\ Sends(w, Task("fetch"), message)
      /\ UNCHANGED <<vars, toClient, stale>> /\ UNCHANGED <<data, dataMutex>>
  BY DEF Fetch
<1>4. message \in [type : {"SetValueRequest"}, data : Value] \cup [type : {"GetRequest"}]
  OBVIOUS
<1>5. message.type = "GetRequest"
  OBVIOUS
<1> HIDE DEF message
<1>6. data' \in [Client -> Value] /\ dataMutex' \in [Client -> Thread \cup {None}]
  BY <1>3 DEF ValueIInv, ValueTyped
<1>7. ValueTyped' /\ \A x \in Client : ClientIInv(x)'
  BY <1>1, <1>2, <1>3, <1>4, <1>5, <1>6, SendsStep DEF ValueIInv
<1> QED BY <1>3, <1>7, ServerKept DEF ValueIInv

LEMMA AssignEndKeeps ==
    ASSUME ValueIInv, NEW w \in Thread, AssignEnd(w)
    PROVE  ValueIInv'
<1>1. PICK c \in Client : c = w[1]
  BY OwnClient
<1>2. PICK id : id = op[w].id
  OBVIOUS
<1>3. /\ Answered(w) /\ Returns(w, Idle) /\ UNCHANGED <<data, stale>>
      /\ dataMutex' = [dataMutex EXCEPT ![c] = None]
  BY <1>1 DEF AssignEnd, Unlocked
<1>4. /\ data' \in [Client -> Value] /\ dataMutex' \in [Client -> Thread \cup {None}]
      /\ stale' \subseteq Client
      /\ \A x \in Client \ {c} : data'[x] = data[x] /\ (x \in stale' <=> x \in stale)
  BY <1>3 DEF ValueIInv, ValueTyped
<1>5. c \in Subscribers /\ c \notin stale' /\ ~Told(c) /\ ~Assigns(c) =>
            data'[c] = mTree[U].data
  BY <1>3 DEF ValueIInv, ClientIInv, DataCurrent
<1>6. ValueTyped' /\ \A x \in Client : ClientIInv(x)'
  BY <1>1, <1>2, <1>3, <1>4, <1>5, ReturnsStep DEF ValueIInv
<1> QED BY <1>3, <1>6, ServerKept DEF ValueIInv, Returns

\* What a fetch writes is a value, and the server's unless an update has overtaken it.
LEMMA FetchEndKeeps ==
    ASSUME ValueIInv, NEW w \in Thread, FetchEnd(w)
    PROVE  ValueIInv'
<1>1. PICK c \in Client : c = w[1]
  BY OwnClient
<1>2. PICK id : id = op[w].id
  OBVIOUS
<1>3. /\ op[w].does = "fetch" /\ Answered(w) /\ Returns(w, Idle)
      /\ data' = [data EXCEPT ![c] = AnswerTo(w).data] /\ dataMutex' = dataMutex
      /\ stale' = IF op[w].overtaken THEN stale \cup {c} ELSE stale \ {c}
  BY <1>1 DEF FetchEnd
<1>4. w \in ThreadsOf(c) /\ w \in Fetched(c)
  BY <1>1, <1>3 DEF ThreadsOf, Fetched
<1>5. AnswerTo(w).data \in Value
  <2>1. AnswerTo(w).type = "GetAccept"
    BY <1>3, <1>4 DEF ValueIInv, ClientIInv, FetchesAnswered
  <2>2. id \in DOMAIN mTransactions[c]
    BY <1>2, <1>3, <1>4 DEF ValueIInv, ClientIInv, Owned, Answered
  <2>3. AnswerTo(w) = mTransactions[c][id] /\ AnswerTo(w) # None
    BY <1>1, <1>2, <1>3 DEF AnswerTo, Answered
  <2>4. mTransactions[c][id] \in ToAnswer \cup {None}
    BY <2>2, EntriesOf DEF ValueIInv, IsMap
  <2>5. AnswerTo(w) \in ToAnswer
    BY <2>3, <2>4
  <2> QED BY <2>1, <2>5, ValueTypes
<1>6. /\ data' \in [Client -> Value] /\ dataMutex' \in [Client -> Thread \cup {None}]
      /\ stale' \subseteq Client
      /\ \A x \in Client \ {c} : data'[x] = data[x] /\ (x \in stale' <=> x \in stale)
      /\ data'[c] = AnswerTo(w).data
  BY <1>3, <1>5 DEF ValueIInv, ValueTyped
<1>7. c \in Subscribers /\ c \notin stale' /\ ~Told(c) /\ ~Assigns(c) =>
            data'[c] = mTree[U].data
  <2>1. c \notin stale' => ~op[w].overtaken
    BY <1>3
  <2> QED BY <1>4, <1>6, <2>1 DEF ValueIInv, ClientIInv, AnswersCurrent
<1>8. ValueTyped' /\ \A x \in Client : ClientIInv(x)'
  BY <1>1, <1>2, <1>3, <1>6, <1>7, ReturnsStep DEF ValueIInv
<1> QED BY <1>3, <1>8, ServerKept DEF ValueIInv, Returns

LEMMA ExpireKeeps ==
    ASSUME ValueIInv, NEW w \in Thread, Expire(w)
    PROVE  ValueIInv'
<1>1. PICK c \in Client : c = w[1]
  BY OwnClient
<1>2. /\ Throws(w) /\ UNCHANGED <<data, stale>>
      /\ dataMutex' \in [Client -> Thread \cup {None}]
  BY DEF Expire, Thrown, Unlocked, ValueIInv, ValueTyped
<1>3. ValueTyped' /\ \A x \in Client : ClientIInv(x)'
  BY <1>1, <1>2, ThrowsStep DEF ValueIInv
<1> QED BY <1>2, <1>3, ServerKept DEF ValueIInv, Throws

LEMMA ReadKeeps ==
    ASSUME ValueIInv, NEW c \in Client, Read(c)
    PROVE  ValueIInv'
<1>1. UNCHANGED vars
  BY DEF Read, ReadAnswer, ReadsAnswer, ReadUpdate
<1>2. ValueTyped' /\ \A x \in Client : ClientIInv(x)'
  BY ReadAnswerStep, ReadUpdateStep DEF ValueIInv, Read
<1> QED BY <1>1, <1>2, ServerKept DEF ValueIInv

LEMMA ServeKeeps ==
    ASSUME ValueIInv, NEW c \in Client, Serve(c)
    PROVE  ValueIInv'
<1>1. PICK k : k = Requested(c)
  OBVIOUS
<1>2. Next /\ NodeShared'
  BY <1>1, ServeWrites DEF ValueIInv
<1>3. TypeOK' /\ TreeConsistent'
  BY <1>2, TypeNext, TreeNext DEF ValueIInv
<1>4. ValueTyped' /\ \A x \in Client : ClientIInv(x)'
  BY ServeStep DEF ValueIInv
<1> QED BY <1>2, <1>3, <1>4 DEF ValueIInv

LEMMA ValueIInvNext == ValueIInv /\ [ValueNext]_valueVars => ValueIInv'
<1>1. ASSUME ValueIInv, ValueNext PROVE ValueIInv'
  BY <1>1, AssignKeeps, AssignEndKeeps, FetchKeeps, FetchEndKeeps, ExpireKeeps,
     ReadKeeps, ServeKeeps DEF ValueNext
<1>2. ASSUME ValueIInv, UNCHANGED valueVars PROVE ValueIInv'
  <2>1. UNCHANGED vars /\ UNCHANGED <<threadVars, wires, data, dataMutex, stale>>
    BY <1>2 DEF valueVars
  <2>2. ValueTyped'
    BY <1>2, <2>1 DEF ValueIInv, ValueTyped, threadVars, wires
  <2>3. ASSUME NEW c \in Client PROVE ClientIInv(c)'
    <3>1. Untouched(c)
      BY <2>1 DEF Untouched, vars, treeVars, threadVars, wires
    <3> QED BY <1>2, <3>1, UntouchedKept DEF ValueIInv
  <2> QED BY <1>2, <2>1, <2>2, <2>3, ServerKept DEF ValueIInv
<1> QED BY <1>1, <1>2

-----------------------------------------------------------------------------
\* The strengthening of the three below: where ids and values are, on the way too.
THEOREM ValueInvariance == ValueSpec => []ValueIInv
  BY ValueIInvInit, ValueIInvNext, PTL DEF ValueSpec

\* The clients, their threads, the wires and the server keep their types: above all,
\* nothing that is not an answer gets into a transaction.
THEOREM ValuesTyped == ValueSpec => []ValueTypeOK
<1>1. ASSUME ValueIInv PROVE ValueTypeOK
  <2>1. TypeOK /\ ValueTyped
    BY <1>1 DEF ValueIInv
  <2>2. \A c \in Client : IsMap(mTransactions[c], ReqId, Body \cup {None})
    <3>1. ToAnswer \subseteq Body
      BY DEF ToAnswer, Body
    <3> QED BY <2>1, <3>1, EntriesOf DEF IsMap
  <2>3. toClient \in [Client -> Seq(Message)]
    BY <2>1, ValueTypes DEF ValueTyped
  <2>4. op \in [Thread -> {Idle} \cup
                [does : {"set", "fetch"}, id : ReqId, overtaken : BOOLEAN]]
    BY <2>1 DEF ValueTyped, Doing
  <2>5. ThreadsTypeOK([type : {"SetValueRequest"}, data : Value]
                      \cup [type : {"GetRequest"}])
    BY <2>1, <2>2, <2>3 DEF ThreadsTypeOK, ValueTyped, FromClient
  <2> QED BY <2>1, <2>4, <2>5 DEF ValueTypeOK, ValueTyped
<1> QED BY <1>1, ValueInvariance, PTL

\* waitTransaction finds its transaction whenever it looks, and no other thread waits
\* for the same one: for any number of threads, late answers and 500 ms.
THEOREM WaitsAlwaysOwned == ValueSpec => []WaitsOwned
<1>1. ASSUME ValueIInv PROVE WaitsOwned
  <2>1. ASSUME NEW w \in Thread, Waits(w)
        PROVE  /\ op[w].id \in DOMAIN mTransactions[w[1]]
               /\ \A x \in ThreadsOf(w[1]) \ {w} : Waits(x) => op[x].id # op[w].id
    BY <1>1, <2>1, OwnClient DEF ValueIInv, ClientIInv, Owned
  <2> QED BY <2>1 DEF WaitsOwned
<1> QED BY <1>1, ValueInvariance, PTL

\* A subscriber that has heard all that was sent holds the value that was set last,
\* for any number of setters, values and failed assignments, unless a fetch wrote
\* an answer that an update had overtaken.
THEOREM SubscribersConverge == ValueSpec => []Converges
<1>1. ASSUME ValueIInv PROVE Converges
  <2>1. ASSUME NEW c \in Subscribers, Settled(c), c \notin stale
        PROVE  data[c] = mTree[U].data
    <3>1. c \in Client
      BY ShareAssumption
    <3>2. ~Told(c) /\ ~Assigns(c)
      BY <2>1 DEF Settled, Told, Tells, Answers, Assigns
    <3> QED BY <1>1, <2>1, <3>1, <3>2 DEF ValueIInv, ClientIInv, DataCurrent
  <2> QED BY <2>1 DEF Converges
<1> QED BY <1>1, ValueInvariance, PTL
=============================================================================
