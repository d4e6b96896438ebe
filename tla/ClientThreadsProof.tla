------------------------- MODULE ClientThreadsProof -------------------------
(***************************************************************************)
(* What holds of every client's transactions, whatever its threads ask and *)
(* the server answers: an id is on its way once, in one direction, and its *)
(* transaction is there for the thread that waits for it.                  *)
(***************************************************************************)
EXTENDS ClientThreads, ProtocolHandlerProof

\* What is on its way from c and to c.
Asked(c) == Range(toServer[c])
Told(c) == Range(toClient[c])

\* The tables, the threads and the wires, for requests in M.
Threaded(M) ==
    /\ ThreadsTypeOK(M)
    /\ DOMAIN mTransactions = Client
    /\ DOMAIN op = Thread
    /\ \A w \in Thread : op[w].id \in ReqId \cup {None}

\* No two of these packets have one id, but for notifications.
Once(s) ==
    \A i, j \in DOMAIN s :
        s[i].transactionId = s[j].transactionId /\ s[i].transactionId # Notify => i = j

\* No id of the packets s is one of t.
Apart(S, T) ==
    \A k \in S, m \in T :
        k.transactionId = m.transactionId => k.transactionId = Notify

\* An id is on its way once, in one direction.
FliesOnce(c) == Once(toServer[c]) /\ Once(toClient[c]) /\ Apart(Asked(c), Told(c))

\* Its transaction is there, without an answer; no id is ahead of the counter.
Unanswered(c) ==
    /\ \A k \in Asked(c) \cup Told(c) : k.transactionId # Notify =>
        /\ k.transactionId \in DOMAIN mTransactions[c]
        /\ mTransactions[c][k.transactionId] = None
    /\ \A id \in DOMAIN mTransactions[c] : id < mTransactioIdCtr[c]

\* WaitsOwned, of the threads of c.
Owned(c) ==
    \A w \in ThreadsOf(c) : Waits(w) =>
        /\ op[w].id \in DOMAIN mTransactions[c]
        /\ \A x \in ThreadsOf(c) \ {w} : Waits(x) => op[x].id # op[w].id

Traffic(c) == FliesOnce(c) /\ Unanswered(c) /\ Owned(c)

-----------------------------------------------------------------------------
(* Sequences of packets.                                                   *)

\* The first packet is taken.
LEMMA TakenPackets ==
    ASSUME NEW S, NEW s \in Seq(S), s # <<>>
    PROVE  /\ Tail(s) \in Seq(S) /\ Head(s) \in S
           /\ Range(s) = {Head(s)} \cup Range(Tail(s))
           /\ Once(s) =>
                Once(Tail(s)) /\ Apart({Head(s)}, Range(Tail(s)))
<1>1. Tail(s) \in Seq(S) /\ 1 \in DOMAIN s /\ Head(s) = s[1] /\ s[1] \in S
  OBVIOUS
<1>2. \A i \in DOMAIN Tail(s) :
        i \in Nat \ {0} /\ i + 1 \in DOMAIN s /\ Tail(s)[i] = s[i + 1]
  OBVIOUS
<1>3. \A i \in DOMAIN s :
        i \in Nat /\ (i # 1 => i - 1 \in DOMAIN Tail(s) /\ Tail(s)[i - 1] = s[i])
  OBVIOUS
<1>4. Range(s) = {Head(s)} \cup Range(Tail(s))
  <2>1. ASSUME NEW k \in Range(s) PROVE k = Head(s) \/ k \in Range(Tail(s))
    BY <1>1, <1>3, <2>1 DEF Range
  <2>2. ASSUME NEW k \in Range(Tail(s)) PROVE k \in Range(s)
    BY <1>2, <2>2 DEF Range
  <2> QED BY <1>1, <2>1, <2>2 DEF Range
<1>5. ASSUME Once(s) PROVE Once(Tail(s)) /\ Apart({Head(s)}, Range(Tail(s)))
  <2>1. \A i, j \in Nat : i + 1 = j + 1 => i = j
    OBVIOUS
  <2>2. Once(Tail(s))
    BY <1>2, <1>5, <2>1 DEF Once
  <2>3. \A i \in DOMAIN Tail(s) : i + 1 # 1
    BY <1>2
  <2>4. Apart({Head(s)}, Range(Tail(s)))
    BY <1>1, <1>2, <1>5, <2>3 DEF Once, Apart, Range
  <2> QED BY <2>2, <2>4
<1> QED BY <1>1, <1>4, <1>5

\* Packets come behind others.
Joins(s, t, r) == r = s \o t

LEMMA JoinedPackets ==
    ASSUME NEW S, NEW s \in Seq(S), NEW t \in Seq(S), NEW r, Joins(s, t, r)
    PROVE  /\ r \in Seq(S)
           /\ Range(r) = Range(s) \cup Range(t)
           /\ Once(s) /\ Once(t) /\ Apart(Range(s), Range(t)) => Once(r)
<1>1. /\ r \in Seq(S) /\ Len(s) \in Nat /\ DOMAIN s = 1 .. Len(s)
      /\ Len(t) \in Nat /\ DOMAIN t = 1 .. Len(t)
      /\ DOMAIN r = 1 .. Len(s) + Len(t)
  BY DEF Joins
<1> DEFINE n == Len(s)
<1>2. /\ \A i \in DOMAIN s : i \in DOMAIN r /\ r[i] = s[i]
      /\ \A i \in DOMAIN t : n + i \in DOMAIN r /\ r[n + i] = t[i]
      /\ \A i \in DOMAIN r : i \in DOMAIN s \/ i - n \in DOMAIN t
      /\ \A i \in DOMAIN r : i \notin DOMAIN s => r[i] = t[i - n]
  BY <1>1 DEF Joins
<1>3. \A i, j \in DOMAIN r : i - n = j - n => i = j
  BY <1>1
<1> HIDE DEF n
<1>4. Range(r) = Range(s) \cup Range(t)
  <2>1. ASSUME NEW k \in Range(r) PROVE k \in Range(s) \cup Range(t)
    BY <1>2, <2>1 DEF Range
  <2>2. ASSUME NEW k \in Range(s) PROVE k \in Range(r)
    BY <1>2, <2>2 DEF Range
  <2>3. ASSUME NEW k \in Range(t) PROVE k \in Range(r)
    <3>1. PICK j \in DOMAIN t : k = t[j]
      BY <2>3 DEF Range
    <3>2. n + j \in DOMAIN r /\ r[n + j] = k
      BY <1>2, <3>1
    <3> QED BY <3>2 DEF Range
  <2> QED BY <2>1, <2>2, <2>3
<1>5. ASSUME Once(s), Once(t), Apart(Range(s), Range(t)),
             NEW i \in DOMAIN r, NEW j \in DOMAIN r,
             r[i].transactionId = r[j].transactionId, r[i].transactionId # Notify
      PROVE  i = j
  <2>1. CASE i \in DOMAIN s /\ j \in DOMAIN s
    BY <1>2, <1>5, <2>1 DEF Once
  <2>2. CASE i \notin DOMAIN s /\ j \notin DOMAIN s
    BY <1>2, <1>3, <1>5, <2>2 DEF Once
  <2>3. CASE i \in DOMAIN s /\ j \notin DOMAIN s
    <3>1. r[i] \in Range(s) /\ r[j] \in Range(t)
      <4>1. r[i] = s[i] /\ j - n \in DOMAIN t /\ r[j] = t[j - n]
        BY <1>2, <2>3
      <4> QED BY <4>1, <2>3 DEF Range
    <3> QED BY <1>5, <3>1 DEF Apart
  <2>4. CASE i \notin DOMAIN s /\ j \in DOMAIN s
    <3>1. r[j] \in Range(s) /\ r[i] \in Range(t)
      <4>1. r[j] = s[j] /\ i - n \in DOMAIN t /\ r[i] = t[i - n]
        BY <1>2, <2>4
      <4> QED BY <4>1, <2>4 DEF Range
    <3> QED BY <1>5, <3>1 DEF Apart
  <2> QED BY <2>1, <2>2, <2>3, <2>4
<1> QED BY <1>1, <1>4, <1>5 DEF Once

\* One packet comes behind others.
LEMMA AppendedPacket ==
    ASSUME NEW S, NEW s \in Seq(S), NEW m \in S, NEW r, r = Append(s, m)
    PROVE  /\ r \in Seq(S)
           /\ Range(r) = Range(s) \cup {m}
           /\ Once(s) /\ Apart(Range(s), {m}) => Once(r)
<1> DEFINE t == <<m>>
<1>1. Joins(s, t, r) /\ t \in Seq(S)
  BY DEF Joins
<1>2. Range(t) = {m}
  BY DEF Range
<1>3. Once(t)
  BY DEF Once
<1> HIDE DEF t
<1>4. /\ r \in Seq(S)
      /\ Range(r) = Range(s) \cup Range(t)
      /\ Once(s) /\ Once(t) /\ Apart(Range(s), Range(t)) => Once(r)
  BY <1>1, JoinedPackets
<1> QED BY <1>2, <1>3, <1>4

-----------------------------------------------------------------------------
(* The steps of the threads and of the readers.                            *)

AllTraffic == \A x \in Client : Traffic(x)

\* A thread goes on with what it does, and with its answer if there is one.
Stays(w) == op'[w] = op[w] /\ (Waits(w) => AnswerTo(w)' = AnswerTo(w))

LEMMA ClientOf == \A w \in Thread : w[1] \in Client /\ w \in ThreadsOf(w[1])
  BY DEF Client, ThreadsOf

LEMMA IdTypes ==
    /\ None \notin ReqId /\ None \notin Body /\ Notify \notin ReqId
    /\ ReqId \subseteq TrId /\ TrId \subseteq Nat /\ Notify \in TrId
  BY ThreadAssumption, RequestAssumption, BoundsAssumption DEF TrId, Notify

\* What has happened to nobody but others.
Untouched(x) ==
    /\ toServer'[x] = toServer[x] /\ toClient'[x] = toClient[x]
    /\ mTransactions'[x] = mTransactions[x]
    /\ mTransactioIdCtr'[x] = mTransactioIdCtr[x]
    /\ \A w \in ThreadsOf(x) : op'[w] = op[w]

LEMMA UntouchedTraffic ==
    ASSUME NEW x \in Client, Untouched(x), Traffic(x)
    PROVE  Traffic(x)'
<1> USE DEF Untouched, Traffic
<1>1. Asked(x)' = Asked(x) /\ Told(x)' = Told(x)
  BY DEF Asked, Told
<1>2. FliesOnce(x)'
  BY <1>1 DEF FliesOnce
<1>3. Unanswered(x)'
  BY <1>1 DEF Unanswered
<1>4. Owned(x)'
  BY DEF Owned, Waits, ThreadsOf
<1> QED BY <1>2, <1>3, <1>4

\* The request of w is on its way under an id of its own.
Sent(w, c, id, message) ==
    /\ id \in ReqId
    /\ \A k \in Asked(c) \cup Told(c) : k.transactionId # id
    /\ Asked(c)' = Asked(c) \cup {Packet(id, message)}
    /\ \A x \in Client : Told(x)' = Told(x) /\ (x # c => Asked(x)' = Asked(x))
    /\ op'[w].id = id /\ ~Answered(w)'
    /\ \A x \in Thread \ {w} : Stays(x)

LEMMA Sending ==
    ASSUME NEW M, Threaded(M), AllTraffic, NEW w \in Thread, ~Waits(w),
           NEW c \in Client, c = w[1], NEW id, id = mTransactioIdCtr[c],
           NEW task, "id" \in DOMAIN task, NEW message \in M,
           Sends(w, task, message), toClient' = toClient
    PROVE  Threaded(M)' /\ AllTraffic' /\ Sent(w, c, id, message)
<1> DEFINE k == Packet(id, message)
           mine == [task EXCEPT !.id = id]
           R == [transactionId : ReqId, message : M]
<1>1. /\ id \in ReqId /\ id \in Nat
      /\ mTransactioIdCtr' = [mTransactioIdCtr EXCEPT ![c] = id + 1]
      /\ mTransactions' = [mTransactions EXCEPT ![c] = Emplace(@, id, None)]
      /\ toServer' = [toServer EXCEPT ![c] = Append(@, k)]
      /\ op' = [op EXCEPT ![w] = mine]
  BY DEF Sends, Threaded, ThreadsTypeOK
<1>2. k \in R /\ k.transactionId = id /\ k.message = message
  BY <1>1 DEF Packet
<1>3. mine.id = id
  OBVIOUS
<1>4. /\ op'[w] = mine /\ DOMAIN op' = Thread
      /\ \A x \in Thread : x # w => op'[x] = op[x]
  BY <1>1 DEF Threaded
<1> HIDE DEF k, mine
<1>5. /\ toServer[c] \in Seq(R) /\ toServer'[c] = Append(toServer[c], k)
      /\ \A x \in Client : x # c => toServer'[x] = toServer[x]
      /\ toServer \in [Client -> Seq(R)]
  BY <1>1 DEF Threaded, ThreadsTypeOK
<1> HIDE DEF R
<1>6. /\ toServer'[c] \in Seq(R)
      /\ Range(toServer'[c]) = Range(toServer[c]) \cup {k}
      /\ Once(toServer[c]) /\ Apart(Range(toServer[c]), {k}) => Once(toServer'[c])
  BY <1>2, <1>5, AppendedPacket
<1>7. Asked(c)' = Asked(c) \cup {k} /\ \A x \in Client : x # c => Asked(x)' = Asked(x)
  BY <1>5, <1>6 DEF Asked
<1>8. \A x \in Client : Told(x)' = Told(x)
  BY DEF Told
<1>9. /\ id \notin DOMAIN mTransactions[c]
      /\ mTransactions'[c] = Put(mTransactions[c], id, None)
      /\ DOMAIN mTransactions' = Client
      /\ \A x \in Client : x # c => mTransactions'[x] = mTransactions[x]
  <2>1. id \notin DOMAIN mTransactions[c]
    BY <1>1 DEF AllTraffic, Traffic, Unanswered
  <2> QED BY <1>1, <2>1 DEF Emplace, Threaded
<1>10. /\ DOMAIN mTransactions'[c] = DOMAIN mTransactions[c] \cup {id}
       /\ mTransactions'[c][id] = None
       /\ \A j \in DOMAIN mTransactions[c] : mTransactions'[c][j] = mTransactions[c][j]
       /\ IsMap(mTransactions'[c], ReqId, Body \cup {None})
  <2>1. IsMap(mTransactions[c], ReqId, Body \cup {None})
    BY DEF Threaded, ThreadsTypeOK
  <2>2. IsMap(mTransactions'[c], ReqId, Body \cup {None})
    BY <1>1, <1>9, <2>1, PutType
  <2> QED BY <1>9, <2>2 DEF Put
<1>11. Threaded(M)'
  <2>1. toServer' \in [Client -> Seq(R)]
    BY <1>1, <1>5, <1>6
  <2>2. mTransactioIdCtr' \in [Client -> Nat]
    BY <1>1 DEF Threaded, ThreadsTypeOK
  <2>3. \A x \in Client : IsMap(mTransactions'[x], ReqId, Body \cup {None})
    BY <1>9, <1>10 DEF Threaded, ThreadsTypeOK
  <2>4. \A x \in Thread : op'[x].id \in ReqId \cup {None}
    BY <1>1, <1>3, <1>4 DEF Threaded
  <2>5. toClient' \in [Client -> Seq(Message)]
    BY DEF Threaded, ThreadsTypeOK
  <2> QED BY <1>4, <1>9, <2>1, <2>2, <2>3, <2>4, <2>5 DEF Threaded, ThreadsTypeOK, R
<1>12. \A m \in Asked(c) \cup Told(c) : m.transactionId # id
  <2>1. id # Notify
    BY <1>1, IdTypes
  <2> QED BY <2>1, <1>9 DEF AllTraffic, Traffic, Unanswered
<1>13. /\ \A x \in Thread : Waits(x)' <=> x = w \/ Waits(x)
       /\ \A x \in ThreadsOf(c) : x # w /\ Waits(x) =>
            op[x].id \in DOMAIN mTransactions[c] /\ op[x].id # id
  <2>1. \A x \in Thread : Waits(x)' <=> x = w \/ Waits(x)
    BY <1>1, <1>3, <1>4, IdTypes DEF Waits
  <2>2. \A x \in ThreadsOf(c) : x # w /\ Waits(x) =>
            op[x].id \in DOMAIN mTransactions[c] /\ op[x].id # id
    BY <1>9 DEF AllTraffic, Traffic, Owned
  <2> QED BY <2>1, <2>2
<1>14. Traffic(c)'
  <2>1. FliesOnce(c)'
    <3>1. Apart(Asked(c), {k}) /\ Apart({k}, Told(c))
      BY <1>2, <1>12 DEF Apart
    <3>2. FliesOnce(c)
      BY DEF AllTraffic, Traffic
    <3>3. Once(toServer'[c]) /\ Once(toClient'[c])
      BY <1>6, <3>1, <3>2 DEF FliesOnce, Asked
    <3>4. Apart(Asked(c)', Told(c)')
      BY <1>7, <1>8, <3>1, <3>2 DEF FliesOnce, Apart
    <3> QED BY <3>3, <3>4 DEF FliesOnce
  <2>2. Unanswered(c)'
    <3>1. Unanswered(c)
      BY DEF AllTraffic, Traffic
    <3>2. \A j \in DOMAIN mTransactions'[c] : j < mTransactioIdCtr'[c]
      <4>1. /\ mTransactioIdCtr'[c] = id + 1
            /\ \A j \in DOMAIN mTransactions[c] : j \in Nat /\ j < id
        BY <1>1, <3>1, IdTypes DEF Unanswered, Threaded, ThreadsTypeOK, IsMap
      <4> QED BY <1>1, <1>10, <4>1
    <3>3. ASSUME NEW m \in Asked(c)' \cup Told(c)', m.transactionId # Notify
          PROVE  /\ m.transactionId \in DOMAIN mTransactions'[c]
                 /\ mTransactions'[c][m.transactionId] = None
      <4>1. CASE m = k
        BY <1>2, <1>10, <4>1
      <4>2. CASE m \in Asked(c) \cup Told(c)
        BY <1>10, <3>1, <3>3, <4>2 DEF Unanswered
      <4> QED BY <1>7, <1>8, <3>3, <4>1, <4>2
    <3> QED BY <3>2, <3>3 DEF Unanswered
  <2>3. Owned(c)'
    <3>1. ASSUME NEW x \in ThreadsOf(c), Waits(x)'
          PROVE  /\ op'[x].id \in DOMAIN mTransactions'[c]
                 /\ \A y \in ThreadsOf(c) \ {x} : Waits(y)' => op'[y].id # op'[x].id
      <4>1. \A y \in ThreadsOf(c) : y \in Thread
        BY DEF ThreadsOf
      <4>2. CASE x = w
        BY <1>3, <1>4, <1>10, <1>13, <4>1, <4>2
      <4>3. CASE x # w
        BY <1>3, <1>4, <1>10, <1>13, <3>1, <4>1, <4>3 DEF AllTraffic, Traffic, Owned
      <4> QED BY <4>2, <4>3
    <3> QED BY <3>1 DEF Owned, ThreadsOf
  <2> QED BY <2>1, <2>2, <2>3 DEF Traffic
<1>15. ASSUME NEW x \in Client, x # c PROVE Traffic(x)'
  <2>1. Untouched(x)
    <3>1. mTransactioIdCtr'[x] = mTransactioIdCtr[x]
      BY <1>1, <1>15 DEF Threaded, ThreadsTypeOK
    <3>2. \A v \in ThreadsOf(x) : op'[v] = op[v]
      BY <1>4, <1>15 DEF ThreadsOf
    <3> QED BY <1>5, <1>9, <1>15, <3>1, <3>2 DEF Untouched
  <2>2. Traffic(x)
    BY DEF AllTraffic
  <2> QED BY <2>1, <2>2, UntouchedTraffic
<1>16. Sent(w, c, id, message)
  <2>1. op'[w].id = id /\ ~Answered(w)'
    BY <1>3, <1>4, <1>10 DEF Answered, AnswerTo
  <2>2. ASSUME NEW x \in Thread \ {w} PROVE Stays(x)
    <3>1. CASE x[1] = c
      BY <1>4, <1>10, <1>13, <2>2, <3>1 DEF Stays, AnswerTo, ThreadsOf
    <3>2. CASE x[1] # c
      BY <1>4, <1>9, <2>2, <3>2, ClientOf DEF Stays, AnswerTo
    <3> QED BY <3>1, <3>2
  <2> QED BY <1>1, <1>7, <1>8, <1>12, <2>1, <2>2 DEF Sent, k
<1> QED BY <1>11, <1>14, <1>15, <1>16 DEF AllTraffic

\* The thread w does something else, and waits no longer.
Left(w, task) ==
    /\ op'[w] = task
    /\ \A x \in Thread \ {w} : Stays(x)
    /\ \A c \in Client : Asked(c)' = Asked(c) /\ Told(c)' = Told(c)

\* A thread that returns takes its transaction with it, under whose id nothing
\* is on its way any more.
LEMMA Returning ==
    ASSUME NEW M, Threaded(M), AllTraffic, NEW w \in Thread, Answered(w),
           NEW task, task.id = None, Returns(w, task)
    PROVE  Threaded(M)' /\ AllTraffic' /\ Left(w, task)
<1>1. PICK c \in Client : c = w[1] /\ w \in ThreadsOf(c)
  BY ClientOf
<1>2. PICK id : id = op[w].id
  OBVIOUS
<1>3. /\ mTransactions' = [mTransactions EXCEPT ![c] = Erase(@, id)]
      /\ op' = [op EXCEPT ![w] = task]
      /\ mTransactioIdCtr' = mTransactioIdCtr
      /\ toServer' = toServer /\ toClient' = toClient
  BY <1>1, <1>2 DEF Returns, wires
<1>4. /\ op'[w] = task /\ DOMAIN op' = Thread
      /\ \A x \in Thread : x # w => op'[x] = op[x]
  BY <1>3 DEF Threaded
<1>5. /\ id \in DOMAIN mTransactions[c] /\ mTransactions[c][id] # None
      /\ \A x \in ThreadsOf(c) \ {w} : Waits(x) => op[x].id # id
  BY <1>1, <1>2 DEF Answered, AnswerTo, AllTraffic, Traffic, Owned
<1>6. /\ DOMAIN mTransactions' = Client
      /\ \A x \in Client : x # c => mTransactions'[x] = mTransactions[x]
      /\ mTransactions'[c] = Erase(mTransactions[c], id)
  BY <1>3 DEF Threaded
<1>7. /\ DOMAIN mTransactions'[c] = DOMAIN mTransactions[c] \ {id}
      /\ \A j \in DOMAIN mTransactions[c] : j # id =>
            mTransactions'[c][j] = mTransactions[c][j]
      /\ IsMap(mTransactions'[c], ReqId, Body \cup {None})
  <2>1. IsMap(mTransactions[c], ReqId, Body \cup {None})
    BY DEF Threaded, ThreadsTypeOK
  <2>2. IsMap(mTransactions'[c], ReqId, Body \cup {None})
    BY <1>6, <2>1, EraseType
  <2> QED BY <1>6, <2>2 DEF Erase
<1>8. \A x \in Client : Asked(x)' = Asked(x) /\ Told(x)' = Told(x)
  BY <1>3 DEF Asked, Told
<1>9. Threaded(M)'
  <2>1. \A x \in Client : IsMap(mTransactions'[x], ReqId, Body \cup {None})
    BY <1>6, <1>7 DEF Threaded, ThreadsTypeOK
  <2>2. \A x \in Thread : op'[x].id \in ReqId \cup {None}
    BY <1>4 DEF Threaded
  <2> QED BY <1>3, <1>4, <1>6, <2>1, <2>2 DEF Threaded, ThreadsTypeOK
<1>10. Traffic(c)'
  <2>1. FliesOnce(c)'
    BY <1>3, <1>8 DEF AllTraffic, Traffic, FliesOnce
  <2>2. Unanswered(c)'
    <3>1. Unanswered(c)
      BY DEF AllTraffic, Traffic
    <3>2. \A k \in Asked(c) \cup Told(c) : k.transactionId # Notify => k.transactionId # id
      BY <1>5, <3>1 DEF Unanswered
    <3> QED BY <1>3, <1>7, <1>8, <3>1, <3>2 DEF Unanswered
  <2>3. Owned(c)'
    <3>1. Owned(c)
      BY DEF AllTraffic, Traffic
    <3>2. \A x \in ThreadsOf(c) : Waits(x)' => x # w /\ Waits(x) /\ op'[x] = op[x]
      BY <1>4 DEF Waits, ThreadsOf
    <3> QED BY <1>5, <1>7, <3>1, <3>2 DEF Owned, ThreadsOf
  <2> QED BY <2>1, <2>2, <2>3 DEF Traffic
<1>11. ASSUME NEW x \in Client, x # c PROVE Traffic(x)'
  <2>1. Untouched(x)
    BY <1>1, <1>3, <1>4, <1>6, <1>11 DEF Untouched, ThreadsOf
  <2>2. Traffic(x)
    BY DEF AllTraffic
  <2> QED BY <2>1, <2>2, UntouchedTraffic
<1>12. ASSUME NEW x \in Thread \ {w} PROVE Stays(x)
  <2>1. CASE x[1] = c
    <3>1. Waits(x) => op[x].id \in DOMAIN mTransactions[c] /\ op[x].id # id
      BY <1>5, <1>12, <2>1 DEF ThreadsOf, AllTraffic, Traffic, Owned
    <3> QED BY <1>4, <1>7, <1>12, <2>1, <3>1 DEF Stays, AnswerTo
  <2>2. CASE x[1] # c
    BY <1>4, <1>6, <1>12, <2>2, ClientOf DEF Stays, AnswerTo
  <2> QED BY <2>1, <2>2
<1> QED BY <1>4, <1>8, <1>9, <1>10, <1>11, <1>12 DEF AllTraffic, Left

\* A thread that gives up leaves its transaction behind.
LEMMA Throwing ==
    ASSUME NEW M, Threaded(M), AllTraffic, NEW w \in Thread, Throws(w)
    PROVE  Threaded(M)' /\ AllTraffic' /\ Left(w, Idle)
<1>1. /\ op' = [op EXCEPT ![w] = Idle] /\ mTransactions' = mTransactions
      /\ mTransactioIdCtr' = mTransactioIdCtr
      /\ toServer' = toServer /\ toClient' = toClient
  BY DEF Throws, wires
<1>2. /\ op'[w] = Idle /\ DOMAIN op' = Thread /\ Idle.id = None
      /\ \A x \in Thread : x # w => op'[x] = op[x]
  BY <1>1 DEF Threaded, Idle
<1>3. Threaded(M)'
  BY <1>1, <1>2 DEF Threaded, ThreadsTypeOK
<1>4. \A x \in Client : Asked(x)' = Asked(x) /\ Told(x)' = Told(x)
  BY <1>1 DEF Asked, Told
<1>5. ASSUME NEW c \in Client PROVE Traffic(c)'
  <2>1. Traffic(c)
    BY DEF AllTraffic
  <2>2. \A x \in ThreadsOf(c) : Waits(x)' => x # w /\ Waits(x) /\ op'[x] = op[x]
    BY <1>2 DEF Waits, ThreadsOf
  <2>3. FliesOnce(c)' /\ Unanswered(c)'
    BY <1>1, <1>4, <2>1 DEF Traffic, FliesOnce, Unanswered
  <2>4. Owned(c)'
    BY <1>1, <2>1, <2>2 DEF Traffic, Owned, ThreadsOf
  <2> QED BY <2>3, <2>4 DEF Traffic
<1>6. \A x \in Thread \ {w} : Stays(x)
  BY <1>1, <1>2 DEF Stays, AnswerTo
<1> QED BY <1>2, <1>3, <1>4, <1>5, <1>6 DEF AllTraffic, Left

\* A thread that waits for nothing goes on with something else.
LEMMA GoingOn ==
    ASSUME NEW M, Threaded(M), AllTraffic, NEW w \in Thread, ~Waits(w),
           NEW task, task.id = None, op' = [op EXCEPT ![w] = task],
           UNCHANGED <<mTransactions, mTransactioIdCtr, wires>>
    PROVE  Threaded(M)' /\ AllTraffic' /\ Left(w, task)
<1>1. toServer' = toServer /\ toClient' = toClient
  BY DEF wires
<1>2. /\ op'[w] = task /\ DOMAIN op' = Thread
      /\ \A x \in Thread : x # w => op'[x] = op[x]
  BY DEF Threaded
<1>3. Threaded(M)'
  BY <1>1, <1>2 DEF Threaded, ThreadsTypeOK
<1>4. \A x \in Client : Asked(x)' = Asked(x) /\ Told(x)' = Told(x)
  BY <1>1 DEF Asked, Told
<1>5. ASSUME NEW c \in Client PROVE Traffic(c)'
  <2>1. Traffic(c)
    BY DEF AllTraffic
  <2>2. \A x \in ThreadsOf(c) : Waits(x)' => x # w /\ Waits(x) /\ op'[x] = op[x]
    BY <1>2 DEF Waits, ThreadsOf
  <2>3. FliesOnce(c)' /\ Unanswered(c)'
    BY <1>1, <1>4, <2>1 DEF Traffic, FliesOnce, Unanswered
  <2>4. Owned(c)'
    BY <1>1, <2>1, <2>2 DEF Traffic, Owned, ThreadsOf
  <2> QED BY <2>3, <2>4 DEF Traffic
<1>6. \A x \in Thread \ {w} : Stays(x)
  BY <1>2 DEF Stays, AnswerTo
<1> QED BY <1>2, <1>3, <1>4, <1>5, <1>6 DEF AllTraffic, Left

\* The reader of c has taken k off the wire.
Taken(c, k) ==
    /\ Told(c) = {k} \cup Told(c)'
    /\ \A x \in Client : Asked(x)' = Asked(x) /\ (x # c => Told(x)' = Told(x))

LEMMA Taking ==
    ASSUME NEW M, Threaded(M), NEW c \in Client, Traffic(c), Takes(c),
           NEW k, k = Arrived(c), toServer' = toServer
    PROVE  /\ Taken(c, k) /\ k \in Message
           /\ toClient' \in [Client -> Seq(Message)]
           /\ \A x \in Client : x # c => toClient'[x] = toClient[x]
           /\ Once(toClient'[c]) /\ Apart({k}, Told(c)') /\ Apart(Asked(c)', Told(c)')
<1>1. /\ toClient[c] \in Seq(Message) /\ toClient[c] # <<>>
      /\ toClient' = [toClient EXCEPT ![c] = Tail(@)]
      /\ toClient \in [Client -> Seq(Message)]
  BY DEF Takes, Threaded, ThreadsTypeOK
<1>2. PICK s \in Seq(Message) : s = toClient[c] /\ s # <<>>
  BY <1>1
<1>3. /\ Tail(s) \in Seq(Message) /\ Head(s) \in Message
      /\ Range(s) = {Head(s)} \cup Range(Tail(s))
      /\ Once(s) => Once(Tail(s)) /\ Apart({Head(s)}, Range(Tail(s)))
  BY <1>2, TakenPackets
<1>4. /\ toClient'[c] = Tail(s) /\ k = Head(s)
      /\ \A x \in Client : x # c => toClient'[x] = toClient[x]
      /\ toClient' \in [Client -> Seq(Message)]
  BY <1>1, <1>2, <1>3 DEF Arrived
<1>5. Told(c) = {k} \cup Told(c)' /\ Told(c)' = Range(Tail(s))
  BY <1>2, <1>3, <1>4 DEF Told
<1>6. \A x \in Client : Asked(x)' = Asked(x) /\ (x # c => Told(x)' = Told(x))
  BY <1>4 DEF Asked, Told
<1>7. Once(toClient'[c]) /\ Apart({k}, Told(c)') /\ Apart(Asked(c)', Told(c)')
  <2>1. Once(s) /\ Apart(Asked(c), Told(c))
    BY <1>2 DEF Traffic, FliesOnce
  <2>2. Apart(Asked(c)', Told(c)')
    BY <1>5, <1>6, <2>1 DEF Apart
  <2> QED BY <1>3, <1>4, <1>5, <2>1, <2>2
<1> QED BY <1>3, <1>4, <1>5, <1>6, <1>7 DEF Taken

\* The answer k is in its transaction.
Filed(c, k) ==
    /\ Taken(c, k)
    /\ k \in Message /\ k.transactionId # Notify
    /\ op' = op
    /\ \A w \in Thread : Waits(w) =>
        \/ w[1] = c /\ op[w].id = k.transactionId /\ AnswerTo(w)' = k.message
        \/ AnswerTo(w)' = AnswerTo(w)

\* The reader puts an answer into its transaction.
LEMMA Filing ==
    ASSUME NEW M, Threaded(M), AllTraffic, NEW c \in Client,
           NEW k, k = Arrived(c), ReadsAnswer(c)
    PROVE  Threaded(M)' /\ AllTraffic' /\ Filed(c, k)
<1>1. PICK id : id = k.transactionId
  OBVIOUS
<1>2. /\ Takes(c) /\ id \in DOMAIN mTransactions[c]
      /\ mTransactions' = [mTransactions EXCEPT ![c][id] = k.message]
      /\ op' = op /\ mTransactioIdCtr' = mTransactioIdCtr /\ toServer' = toServer
  BY <1>1 DEF ReadsAnswer, Matches, Satisfied
<1>3. Traffic(c)
  BY DEF AllTraffic
<1>4. /\ Taken(c, k) /\ k \in Message
      /\ toClient' \in [Client -> Seq(Message)]
      /\ \A x \in Client : x # c => toClient'[x] = toClient[x]
      /\ Once(toClient'[c]) /\ Apart({k}, Told(c)') /\ Apart(Asked(c)', Told(c)')
  BY <1>2, <1>3, Taking
<1>5. IsMap(mTransactions[c], ReqId, Body \cup {None}) /\ DOMAIN mTransactions = Client
  BY DEF Threaded, ThreadsTypeOK
<1>6. id \in ReqId /\ id # Notify /\ k.message \in Body
  BY <1>2, <1>4, <1>5, IdTypes DEF IsMap, Message
<1> DEFINE m == [mTransactions[c] EXCEPT ![id] = k.message]
<1>7. /\ DOMAIN mTransactions' = Client /\ mTransactions'[c] = m
      /\ \A x \in Client : x # c => mTransactions'[x] = mTransactions[x]
  BY <1>2, <1>5
<1>8. /\ DOMAIN m = DOMAIN mTransactions[c] /\ m[id] = k.message
      /\ \A j \in DOMAIN mTransactions[c] : j # id => m[j] = mTransactions[c][j]
      /\ IsMap(m, ReqId, Body \cup {None})
  BY <1>2, <1>5, <1>6 DEF IsMap
<1> HIDE DEF m
<1>9. Threaded(M)'
  <2>1. \A x \in Client : IsMap(mTransactions'[x], ReqId, Body \cup {None})
    BY <1>7, <1>8 DEF Threaded, ThreadsTypeOK
  <2> QED BY <1>2, <1>4, <1>7, <2>1 DEF Threaded, ThreadsTypeOK
<1>10. Traffic(c)'
  <2>1. FliesOnce(c)'
    BY <1>2, <1>3, <1>4 DEF Traffic, FliesOnce
  <2>2. Unanswered(c)'
    <3>1. Unanswered(c) /\ Asked(c)' = Asked(c) /\ Told(c) = {k} \cup Told(c)'
      BY <1>3, <1>4 DEF Traffic, Taken
    <3>2. Apart(Asked(c), Told(c))
      BY <1>3 DEF Traffic, FliesOnce
    <3>3. \A p \in Asked(c)' \cup Told(c)' : p.transactionId # id
      BY <1>1, <1>4, <1>6, <3>1, <3>2 DEF Apart
    <3> QED BY <1>2, <1>7, <1>8, <3>1, <3>3 DEF Unanswered
  <2>3. Owned(c)'
    BY <1>2, <1>3, <1>7, <1>8 DEF Traffic, Owned, Waits
  <2> QED BY <2>1, <2>2, <2>3 DEF Traffic
<1>11. ASSUME NEW x \in Client, x # c PROVE Traffic(x)'
  <2>1. Untouched(x)
    BY <1>2, <1>4, <1>7, <1>11 DEF Untouched
  <2>2. Traffic(x)
    BY DEF AllTraffic
  <2> QED BY <2>1, <2>2, UntouchedTraffic
<1>12. ASSUME NEW w \in Thread, Waits(w)
       PROVE  \/ w[1] = c /\ op[w].id = id /\ AnswerTo(w)' = k.message
              \/ AnswerTo(w)' = AnswerTo(w)
  <2>1. CASE w[1] = c
    <3>1. op[w].id \in DOMAIN mTransactions[c]
      BY <1>3, <1>12, <2>1 DEF Traffic, Owned, ThreadsOf
    <3> QED BY <1>2, <1>7, <1>8, <2>1, <3>1 DEF AnswerTo
  <2>2. CASE w[1] # c
    BY <1>2, <1>7, <2>2, ClientOf DEF AnswerTo
  <2> QED BY <2>1, <2>2
<1> QED BY <1>1, <1>2, <1>4, <1>6, <1>9, <1>10, <1>11, <1>12 DEF AllTraffic, Filed

\* The reader takes a notification.
LEMMA Hearing ==
    ASSUME NEW M, Threaded(M), AllTraffic, NEW c \in Client, Takes(c),
           NEW k, k = Arrived(c), ~Matches(c, k), UNCHANGED <<threadVars, toServer>>
    PROVE  /\ Threaded(M)' /\ AllTraffic' /\ Taken(c, k)
           /\ k \in Message /\ k.transactionId = Notify
           /\ \A w \in Thread : Stays(w)
<1>1. Traffic(c)
  BY DEF AllTraffic
<1>2. /\ Taken(c, k) /\ k \in Message
      /\ toClient' \in [Client -> Seq(Message)]
      /\ \A x \in Client : x # c => toClient'[x] = toClient[x]
      /\ Once(toClient'[c]) /\ Apart({k}, Told(c)') /\ Apart(Asked(c)', Told(c)')
  BY <1>1, Taking
<1>3. op' = op /\ mTransactions' = mTransactions /\ mTransactioIdCtr' = mTransactioIdCtr
  BY DEF threadVars
<1>4. Threaded(M)'
  BY <1>2, <1>3 DEF Threaded, ThreadsTypeOK
<1>5. Traffic(c)'
  <2>1. FliesOnce(c)'
    BY <1>1, <1>2 DEF Traffic, FliesOnce
  <2>2. Unanswered(c)'
    BY <1>1, <1>2, <1>3 DEF Traffic, Unanswered, Taken
  <2>3. Owned(c)'
    BY <1>1, <1>3 DEF Traffic, Owned, Waits
  <2> QED BY <2>1, <2>2, <2>3 DEF Traffic
<1>6. ASSUME NEW x \in Client, x # c PROVE Traffic(x)'
  <2>1. Untouched(x)
    BY <1>2, <1>3, <1>6 DEF Untouched
  <2>2. Traffic(x)
    BY DEF AllTraffic
  <2> QED BY <2>1, <2>2, UntouchedTraffic
<1>7. k.transactionId = Notify
  BY <1>1, <1>2 DEF Traffic, Unanswered, Taken, Matches
<1>8. \A w \in Thread : Stays(w)
  BY <1>3 DEF Stays, AnswerTo
<1> QED BY <1>2, <1>4, <1>5, <1>6, <1>7, <1>8 DEF AllTraffic

-----------------------------------------------------------------------------
(* The server's end of the wires.                                          *)

\* What the server writes to x are notifications, and an answer to one of the ids.
Says(x, ids) ==
    /\ out'[x] \in Seq(Message)
    /\ Once(out'[x])
    /\ \A m \in Range(out'[x]) : m.transactionId \in ids \cup {Notify}

\* What is for the caller c only, seen by x.
ForCaller(c, x, q) == {k \in {q} : x = c}

\* The packets of a handler that replies to c and notifies those of `to'.
SentTo(c, x, q, note, to) ==
    ForCaller(c, x, q) \cup {k \in {Packet(Notify, note)} : \E i \in DOMAIN to : to[i] = x}

LEMMA FanOutPackets ==
    ASSUME NEW c \in Conn, NEW t \in ReqId, NEW b \in Body, NEW note \in Body,
           NEW to, IsFiniteSet(DOMAIN to), NEW x \in Conn,
           out' = ReplyAndNotify(c, t, b, note, to)
    PROVE  /\ Range(out'[x]) = SentTo(c, x, Packet(t, b), note, to)
           /\ Says(x, ForCaller(c, x, t))
<1> DEFINE keys == {i \in DOMAIN to : to[i] = x}
           n == Cardinality(keys)
           q == Packet(t, b)
           p == Packet(Notify, note)
           mine == Reply(c, t, b)[x]
           notes == [i \in 1 .. n |-> p]
<1>1. n \in Nat /\ (n = 0 <=> keys = {})
  <2>1. IsFiniteSet(keys)
    BY FS_Subset
  <2> QED BY <2>1, FS_CardinalityType, FS_EmptySet
<1>2. /\ p \in Message /\ q \in Message /\ p.transactionId = Notify
      /\ q.transactionId = t /\ t # Notify
  BY IdTypes DEF Packet, Message
<1>3. mine = IF x = c THEN <<q>> ELSE <<>>
  BY DEF Reply, Silence
<1>4. out'[x] = mine \o notes
  BY DEF ReplyAndNotify
<1>5. keys # {} <=> \E i \in DOMAIN to : to[i] = x
  OBVIOUS
<1> HIDE DEF n, q, p, mine, keys
<1>6. /\ mine \in Seq(Message) /\ Once(mine) /\ Range(mine) = ForCaller(c, x, q)
  <2>1. CASE x = c
    <3>1. mine = <<q>>
      BY <1>3, <2>1
    <3> QED BY <1>2, <2>1, <3>1 DEF Once, Range, ForCaller
  <2>2. CASE x # c
    <3>1. mine = <<>>
      BY <1>3, <2>2
    <3> QED BY <2>2, <3>1 DEF Once, Range, ForCaller
  <2> QED BY <2>1, <2>2
<1>7. /\ notes \in Seq(Message) /\ Range(notes) = {k \in {p} : n # 0} /\ Once(notes)
  <2>1. notes \in Seq(Message)
    BY <1>1, <1>2
  <2>2. DOMAIN notes = 1 .. n /\ \A i \in 1 .. n : notes[i] = p
    OBVIOUS
  <2>3. n # 0 => 1 \in 1 .. n
    BY <1>1
  <2>4. n = 0 => 1 .. n = {}
    BY <1>1
  <2> HIDE DEF notes
  <2>5. Range(notes) = {k \in {p} : n # 0}
    BY <2>2, <2>3, <2>4 DEF Range
  <2>6. Once(notes)
    BY <1>2, <2>2 DEF Once
  <2> QED BY <2>1, <2>5, <2>6
<1> HIDE DEF notes
<1>8. PICK r : Joins(mine, notes, r)
  BY DEF Joins
<1>9. /\ r \in Seq(Message) /\ Range(r) = Range(mine) \cup Range(notes)
      /\ Once(mine) /\ Once(notes) /\ Apart(Range(mine), Range(notes)) => Once(r)
  <2>1. mine \in Seq(Message) /\ notes \in Seq(Message)
    BY <1>6, <1>7
  <2>2. PICK u \in Seq(Message), v \in Seq(Message) : u = mine /\ v = notes
    BY <2>1
  <2>3. Joins(u, v, r)
    BY <1>8, <2>2
  <2>4. /\ r \in Seq(Message) /\ Range(r) = Range(u) \cup Range(v)
        /\ Once(u) /\ Once(v) /\ Apart(Range(u), Range(v)) => Once(r)
    BY <2>3, JoinedPackets
  <2> QED BY <2>2, <2>4
<1>10. out'[x] = r
  BY <1>4, <1>8 DEF Joins
<1>11. Apart(Range(mine), Range(notes))
  BY <1>2, <1>6, <1>7 DEF Apart, ForCaller
<1>12. Range(r) = SentTo(c, x, q, note, to)
  BY <1>1, <1>5, <1>6, <1>7, <1>9 DEF SentTo, p
<1>13. Says(x, ForCaller(c, x, t))
  BY <1>2, <1>6, <1>7, <1>9, <1>10, <1>11 DEF Says, ForCaller
<1> QED BY <1>10, <1>12, <1>13 DEF q

\* The packet of a handler that only replies.
LEMMA ReplyPackets ==
    ASSUME NEW c \in Conn, NEW t \in ReqId, NEW b \in Body, NEW x \in Conn,
           out' = Reply(c, t, b)
    PROVE  /\ Range(out'[x]) = ForCaller(c, x, Packet(t, b))
           /\ Says(x, ForCaller(c, x, t))
<1> DEFINE q == Packet(t, b)
<1>1. q \in Message /\ q.transactionId = t
  BY IdTypes DEF Packet, Message
<1>2. out'[x] = IF x = c THEN <<q>> ELSE <<>>
  BY DEF Reply, Silence
<1> HIDE DEF q
<1>3. CASE x = c
  <2>1. out'[x] = <<q>>
    BY <1>2, <1>3
  <2> QED BY <1>1, <1>3, <2>1 DEF Range, Says, Once, ForCaller, q
<1>4. CASE x # c
  <2>1. out'[x] = <<>>
    BY <1>2, <1>4
  <2> QED BY <1>4, <2>1 DEF Range, Says, Once, ForCaller
<1> QED BY <1>3, <1>4

\* It comes behind what is on the wire to x.  What was asked under these ids is not
\* on the wire from x any more.
LEMMA Delivering ==
    ASSUME NEW M, Threaded(M), NEW x \in Client, Traffic(x),
           NEW ids, ids \subseteq ReqId, Says(x, ids),
           Delivers, UNCHANGED threadVars,
           Asked(x)' \subseteq Asked(x), Once(toServer'[x]),
           \A id \in ids : /\ \E k \in Asked(x) : k.transactionId = id
                           /\ \A k \in Asked(x)' : k.transactionId # id
    PROVE  /\ Traffic(x)'
           /\ toClient'[x] \in Seq(Message)
           /\ Told(x)' = Told(x) \cup Range(out'[x])
<1>1. op' = op /\ mTransactions' = mTransactions /\ mTransactioIdCtr' = mTransactioIdCtr
  BY DEF threadVars
<1>2. PICK s \in Seq(Message) : s = toClient[x]
  BY DEF Threaded, ThreadsTypeOK
<1>3. PICK t \in Seq(Message) : t = out'[x]
  BY DEF Says
<1>4. PICK r : Joins(s, t, r)
  BY DEF Joins
<1>5. toClient'[x] = r
  BY <1>2, <1>3, <1>4 DEF Delivers, Joins
<1>6. /\ r \in Seq(Message)
      /\ Range(r) = Range(s) \cup Range(t)
      /\ Once(s) /\ Once(t) /\ Apart(Range(s), Range(t)) => Once(r)
  BY <1>4, JoinedPackets
<1>7. Told(x)' = Told(x) \cup Range(t) /\ Told(x) = Range(s)
  BY <1>2, <1>5, <1>6 DEF Told
<1>8. \A m \in Range(t) : m.transactionId \in ids \/ m.transactionId = Notify
  BY <1>3 DEF Says
<1>9. FliesOnce(x)'
  <2>1. FliesOnce(x)
    BY DEF Traffic
  <2>2. \A k \in Told(x) : k.transactionId # Notify => k.transactionId \notin ids
    BY <2>1 DEF FliesOnce, Apart
  <2>3. Apart(Range(s), Range(t)) /\ Apart(Asked(x)', Range(t))
    BY <1>7, <1>8, <2>2 DEF Apart
  <2>4. Once(toClient'[x])
    BY <1>2, <1>3, <1>5, <1>6, <2>1, <2>3 DEF FliesOnce, Says
  <2>5. Apart(Asked(x)', Told(x)')
    BY <1>7, <2>1, <2>3 DEF FliesOnce, Apart
  <2> QED BY <2>4, <2>5 DEF FliesOnce
<1>10. Unanswered(x)'
  <2>1. Unanswered(x)
    BY DEF Traffic
  <2>2. ASSUME NEW k \in Asked(x)' \cup Told(x)', k.transactionId # Notify
        PROVE  \E m \in Asked(x) \cup Told(x) : m.transactionId = k.transactionId
    BY <1>7, <1>8, <2>2
  <2> QED BY <1>1, <2>1, <2>2 DEF Unanswered
<1>11. Owned(x)'
  BY <1>1 DEF Traffic, Owned, Waits
<1> QED BY <1>3, <1>5, <1>6, <1>7, <1>9, <1>10, <1>11 DEF Traffic

\* What the server wrote is on its way, and the threads have not moved.
Delivered ==
    /\ \A x \in Client : Told(x)' = Told(x) \cup Range(out'[x])
    /\ \A w \in Thread : Stays(w)

\* The server handles a request of c.
LEMMA Serving ==
    ASSUME NEW M, Threaded(M), AllTraffic, NEW c \in Client, TakesRequest(c),
           NEW k, k = Requested(c), Delivers, UNCHANGED threadVars,
           \A x \in Client : Says(x, IF x = c THEN {k.transactionId} ELSE {})
    PROVE  /\ Threaded(M)' /\ AllTraffic' /\ Delivered
           /\ Asked(c) = {k} \cup Asked(c)'
           /\ \A x \in Client : x # c => Asked(x)' = Asked(x)
<1> DEFINE R == [transactionId : ReqId, message : M]
<1>1. /\ toServer[c] \in Seq(R) /\ toServer[c] # <<>>
      /\ toServer' = [toServer EXCEPT ![c] = Tail(@)]
      /\ toServer \in [Client -> Seq(R)]
  BY DEF TakesRequest, Threaded, ThreadsTypeOK
<1>2. k = Head(toServer[c]) /\ \A p \in R : p.transactionId \in ReqId
  BY DEF Requested
<1> HIDE DEF R
<1>3. PICK s \in Seq(R) : s = toServer[c] /\ s # <<>>
  BY <1>1
<1>4. /\ Tail(s) \in Seq(R) /\ Head(s) \in R
      /\ Range(s) = {Head(s)} \cup Range(Tail(s))
      /\ Once(s) => Once(Tail(s)) /\ Apart({Head(s)}, Range(Tail(s)))
  BY <1>3, TakenPackets
<1>5. /\ toServer'[c] = Tail(s) /\ k = Head(s) /\ k.transactionId \in ReqId
      /\ \A x \in Client : x # c => toServer'[x] = toServer[x]
      /\ toServer' \in [Client -> Seq(R)]
  BY <1>1, <1>2, <1>3, <1>4
<1>6. /\ Asked(c) = {k} \cup Asked(c)' /\ Asked(c)' = Range(Tail(s))
      /\ \A x \in Client : x # c => Asked(x)' = Asked(x)
  BY <1>3, <1>4, <1>5 DEF Asked
<1>7. ASSUME NEW x \in Client
      PROVE  /\ Traffic(x)' /\ toClient'[x] \in Seq(Message)
             /\ Told(x)' = Told(x) \cup Range(out'[x])
  <2>1. PICK ids : ids = IF x = c THEN {k.transactionId} ELSE {}
    OBVIOUS
  <2>2. ids \subseteq ReqId /\ Says(x, ids)
    BY <1>5, <2>1
  <2>3. Traffic(x)
    BY DEF AllTraffic
  <2>4. Once(toServer[x])
    BY <2>3 DEF Traffic, FliesOnce
  <2>5. Once(toServer'[x]) /\ Asked(x)' \subseteq Asked(x)
    BY <1>3, <1>4, <1>5, <1>6, <2>4
  <2>6. \A id \in ids : /\ \E p \in Asked(x) : p.transactionId = id
                        /\ \A p \in Asked(x)' : p.transactionId # id
    <3>1. x = c => Apart({k}, Asked(c)')
      BY <1>3, <1>4, <1>5, <1>6, <2>4
    <3> QED BY <1>5, <1>6, <2>1, <3>1, IdTypes DEF Apart
  <2> QED BY <2>2, <2>3, <2>5, <2>6, Delivering
<1>8. Threaded(M)'
  <2>1. toClient' \in [Client -> Seq(Message)]
    BY <1>7 DEF Delivers
  <2> QED BY <1>5, <2>1 DEF Threaded, ThreadsTypeOK, threadVars, R
<1>9. \A w \in Thread : Stays(w)
  BY DEF Stays, AnswerTo, threadVars
<1> QED BY <1>6, <1>7, <1>8, <1>9 DEF AllTraffic, Delivered

\* The server handles a request of somebody else.
LEMMA Announcing ==
    ASSUME NEW M, Threaded(M), AllTraffic, Delivers, UNCHANGED <<threadVars, toServer>>,
           \A x \in Client : Says(x, {})
    PROVE  /\ Threaded(M)' /\ AllTraffic' /\ Delivered
           /\ \A x \in Client : Asked(x)' = Asked(x)
<1>1. \A x \in Client : Asked(x)' = Asked(x)
  BY DEF Asked
<1>2. ASSUME NEW x \in Client
      PROVE  /\ Traffic(x)' /\ toClient'[x] \in Seq(Message)
             /\ Told(x)' = Told(x) \cup Range(out'[x])
  <2>1. Traffic(x) /\ Once(toServer'[x])
    BY DEF AllTraffic, Traffic, FliesOnce
  <2>2. PICK ids : ids = {}
    OBVIOUS
  <2>3. ids \subseteq ReqId /\ Says(x, ids)
    BY <2>2
  <2>4. Asked(x)' \subseteq Asked(x)
    BY <1>1
  <2>5. \A id \in ids : /\ \E p \in Asked(x) : p.transactionId = id
                        /\ \A p \in Asked(x)' : p.transactionId # id
    BY <2>2
  <2> QED BY <2>1, <2>3, <2>4, <2>5, Delivering
<1>3. Threaded(M)'
  <2>1. toClient' \in [Client -> Seq(Message)]
    BY <1>2 DEF Delivers
  <2> QED BY <2>1 DEF Threaded, ThreadsTypeOK, threadVars
<1>4. \A w \in Thread : Stays(w)
  BY DEF Stays, AnswerTo, threadVars
<1> QED BY <1>1, <1>2, <1>3, <1>4 DEF AllTraffic, Delivered

-----------------------------------------------------------------------------
(* The beginning.                                                          *)

LEMMA TrafficAtFirst ==
    ASSUME NEW M, ThreadsInit
    PROVE  Threaded(M) /\ AllTraffic
<1>1. /\ op = [w \in Thread |-> Idle] /\ mTransactions = [c \in Client |-> EmptyMap]
      /\ mTransactioIdCtr = [c \in Client |-> 0]
      /\ toServer = [c \in Client |-> <<>>] /\ toClient = [c \in Client |-> <<>>]
      /\ Idle.id = None
  BY DEF ThreadsInit, Idle
<1>2. \A c \in Client : Asked(c) = {} /\ Told(c) = {}
  BY <1>1 DEF Asked, Told, Range
<1>3. Threaded(M)
  <2>1. IsMap(EmptyMap, ReqId, Body \cup {None})
    BY EmptyMapType
  <2> QED BY <1>1, <2>1 DEF Threaded, ThreadsTypeOK
<1>4. ASSUME NEW c \in Client PROVE Traffic(c)
  <2>1. FliesOnce(c)
    BY <1>1, <1>2 DEF FliesOnce, Once, Apart
  <2>2. Unanswered(c)
    BY <1>1, <1>2, EmptyMapType DEF Unanswered
  <2>3. Owned(c)
    BY <1>1 DEF Owned, Waits, ThreadsOf
  <2> QED BY <2>1, <2>2, <2>3 DEF Traffic
<1> QED BY <1>3, <1>4 DEF AllTraffic

\* With the traffic in order, each wait has its transaction.
LEMMA TrafficOwned == AllTraffic => WaitsOwned
<1>1. SUFFICES ASSUME AllTraffic, NEW w \in Thread, Waits(w)
      PROVE  /\ op[w].id \in DOMAIN mTransactions[w[1]]
             /\ \A x \in ThreadsOf(w[1]) \ {w} : Waits(x) => op[x].id # op[w].id
  BY DEF WaitsOwned
<1>2. w[1] \in Client /\ w \in ThreadsOf(w[1])
  BY ClientOf
<1> QED BY <1>1, <1>2 DEF AllTraffic, Traffic, Owned

\* The sessions can be numbered.
LEMMA Numbering ==
    LET n == Cardinality(Conn) IN
    n \in Nat /\ \E b \in Bijection(Conn, 0 .. n - 1) : TRUE
<1> DEFINE n == Cardinality(Conn)
<1>1. n \in Nat /\ ExistsBijection(1 .. n, Conn)
  BY ThreadAssumption, FS_CardinalityType
<1> HIDE DEF n
<1>2. PICK f : f \in Bijection(1 .. n, Conn)
  BY <1>1 DEF ExistsBijection
<1>3. /\ f \in [1 .. n -> Conn]
      /\ \A i, j \in 1 .. n : f[i] = f[j] => i = j
      /\ \A c \in Conn : \E i \in 1 .. n : f[i] = c
  BY <1>2 DEF Bijection, Injection, Surjection, IsInjective
<1> DEFINE at(c) == CHOOSE i \in 1 .. n : f[i] = c
           b == [c \in Conn |-> at(c) - 1]
<1>4. \A c \in Conn : at(c) \in 1 .. n /\ f[at(c)] = c
  BY <1>3
<1>5. \A i \in 1 .. n : at(f[i]) = i
  BY <1>3, <1>4
<1> HIDE DEF at
<1>6. b \in [Conn -> 0 .. n - 1]
  BY <1>1, <1>4
<1>7. ASSUME NEW c \in Conn, NEW d \in Conn, b[c] = b[d] PROVE c = d
  BY <1>1, <1>4, <1>7
<1>8. ASSUME NEW j \in 0 .. n - 1 PROVE \E c \in Conn : b[c] = j
  <2>1. j + 1 \in 1 .. n /\ (j + 1) - 1 = j
    BY <1>1, <1>8
  <2>2. f[j + 1] \in Conn /\ at(f[j + 1]) = j + 1
    BY <1>3, <1>5, <2>1
  <2> QED BY <2>1, <2>2
<1>9. DOMAIN b = Conn
  OBVIOUS
<1>10. b \in Bijection(Conn, 0 .. n - 1)
  <2> HIDE DEF b
  <2> QED BY <1>6, <1>7, <1>8, <1>9 DEF Bijection, Injection, Surjection, IsInjective
<1> QED BY <1>1, <1>10 DEF n

\* Each session is that of its connection.
LEMMA SessionsAtFirst ==
    ASSUME SignedInInit
    PROVE  /\ mSessionIdCtr \in 0 .. MaxSession
           /\ mSessions \in [0 .. mSessionIdCtr - 1 -> Conn]
           /\ 0 .. mSessionIdCtr - 1 \subseteq SessionId
           /\ mConnectionToSessionId \in [Conn -> 0 .. mSessionIdCtr - 1]
           /\ \A c \in Conn : mSessions[mConnectionToSessionId[c]] = c
<1> DEFINE n == Cardinality(Conn)
           b == mConnectionToSessionId
<1>1. n \in Nat /\ n <= MaxSession /\ mSessionIdCtr = n
  BY Numbering, ThreadAssumption DEF SignedInInit
<1>2. b \in Bijection(Conn, 0 .. n - 1)
  BY Numbering DEF SignedInInit
<1>3. mSessions = AntiFunction(b)
  BY DEF SignedInInit
<1> HIDE DEF n, b
<1>4. /\ b \in [Conn -> 0 .. n - 1]
      /\ \A c, d \in Conn : b[c] = b[d] => c = d
      /\ \A j \in 0 .. n - 1 : \E c \in Conn : b[c] = j
  BY <1>2 DEF Bijection, Injection, Surjection, IsInjective
<1>5. Range(b) = 0 .. n - 1 /\ DOMAIN b = Conn
  BY <1>4 DEF Range
<1>6. mSessions = [j \in 0 .. n - 1 |-> CHOOSE c \in Conn : j \in 0 .. n - 1 => b[c] = j]
  BY <1>3, <1>5 DEF AntiFunction, Inverse
<1>7. \A j \in 0 .. n - 1 : mSessions[j] \in Conn /\ b[mSessions[j]] = j
  BY <1>4, <1>6
<1>8. mSessions \in [0 .. n - 1 -> Conn]
  BY <1>6, <1>7
<1>9. \A c \in Conn : mSessions[b[c]] = c
  BY <1>4, <1>7
<1>10. mSessionIdCtr \in 0 .. MaxSession /\ 0 .. n - 1 \subseteq SessionId
  BY <1>1, BoundsAssumption DEF SessionId
<1> QED BY <1>1, <1>4, <1>8, <1>9, <1>10 DEF b

=============================================================================
