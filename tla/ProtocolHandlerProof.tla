------------------------ MODULE ProtocolHandlerProof ------------------------
(***************************************************************************)
(* Proofs about the server of ProtocolHandler, for any number of           *)
(* connections, sessions, names, nodes and transaction ids.                *)
(***************************************************************************)
EXTENDS ProtocolHandler, FiniteSetTheorems, SequenceTheorems, TLAPS

-----------------------------------------------------------------------------
(* What the operators of Maps return and preserve.                         *)

\* Membership in Map, without the set of all maps (the typing of the containers).
LEMMA MapMembership ==
    ASSUME NEW S, NEW T, NEW m
    PROVE  m \in Map(S, T) <=> IsMap(m, S, T)
  BY DEF Map, IsMap

\* The empty container is a map of every type.
LEMMA EmptyMapType ==
    ASSUME NEW S, NEW T
    PROVE  IsMap(EmptyMap, S, T) /\ DOMAIN EmptyMap = {}
  BY DEF EmptyMap, IsMap

\* An insertion of a key and a value of the type keeps the type.
LEMMA PutType ==
    ASSUME NEW S, NEW T, NEW m, IsMap(m, S, T), NEW k \in S, NEW v \in T
    PROVE  IsMap(Put(m, k, v), S, T)
  BY DEF Put, IsMap

\* An erasure keeps the type, whatever the key.
LEMMA EraseType ==
    ASSUME NEW S, NEW T, NEW m, IsMap(m, S, T), NEW k
    PROVE  IsMap(Erase(m, k), S, T)
  BY DEF Erase, IsMap

\* So does emplace, whether it inserts or not.
LEMMA EmplaceType ==
    ASSUME NEW S, NEW T, NEW m, IsMap(m, S, T), NEW k \in S, NEW v \in T
    PROVE  IsMap(Emplace(m, k, v), S, T)
  BY PutType DEF Emplace

-----------------------------------------------------------------------------
(* Types.                                                                  *)

\* The containers of a node are maps (struct Node).
LEMMA NodeFields ==
    ASSUME NEW r \in Node
    PROVE  /\ IsMap(r.children, Name, Uuid)
           /\ IsMap(r.listener, SessionId, Conn)
<1>1. /\ r.children \in Map(Name, Uuid)
      /\ r.listener \in Map(SessionId, Conn)
  BY DEF Node
<1> QED BY <1>1, MapMembership

\* The node that CreateRequest makes is one.
LEMMA NewNodeType ==
    ASSUME NEW n \in Name \cup {None}, NEW s \in SessionId \cup {None},
           NEW p \in Uuid \cup {None}
    PROVE  NewNode(n, s, p) \in Node
<1>1. EmptyMap \in Map(Name, Uuid) /\ EmptyMap \in Map(SessionId, Conn)
  BY EmptyMapType, MapMembership
<1> QED BY <1>1, DataAssumption DEF NewNode, Node

-----------------------------------------------------------------------------
(* What each way of changing the tree does to its nodes.                   *)

\* What TypeOK says of the variables that the handlers index.
LEMMA Types ==
    ASSUME TypeOK
    PROVE  /\ DOMAIN mTree \subseteq Uuid
           /\ \A u \in DOMAIN mTree : mTree[u] \in Node
           /\ DOMAIN mConnectionToSessionId \subseteq Conn
           /\ \A c \in DOMAIN mConnectionToSessionId :
                mConnectionToSessionId[c] \in SessionId
           /\ mUuidCtr \in Nat
           /\ DOMAIN mSessions \subseteq SessionId
  BY BoundsAssumption DEF TypeOK, IsMap, SessionId, Uuid

\* The node keeps what identifies it.
SameIdentity(u) ==
    /\ mTree'[u].name = mTree[u].name
    /\ mTree'[u].parent = mTree[u].parent
    /\ mTree'[u].sessionId = mTree[u].sessionId

\* CreateRequest: one new leaf, listed by its parent, and nothing else.
LEMMA AddNodeShape ==
    ASSUME TypeOK, NEW c \in Conn, SignedIn(c), NEW t \in ReqId,
           NEW p \in DOMAIN mTree, NEW n \in Name, AddNode(c, t, p, n)
    PROVE  /\ mUuidCtr \in Uuid
           /\ mUuidCtr' = mUuidCtr + 1
           /\ DOMAIN mTree' = DOMAIN mTree \cup {mUuidCtr}
           /\ mTree'[mUuidCtr] = NewNode(n, mConnectionToSessionId[c], p)
           /\ \A u \in DOMAIN mTree : u # mUuidCtr =>
                /\ SameIdentity(u)
                /\ mTree'[u].data = mTree[u].data
                /\ mTree'[u].listener = mTree[u].listener
                /\ mTree'[u].children = IF u = p
                                        THEN Put(mTree[p].children, n, mUuidCtr)
                                        ELSE mTree[u].children
           /\ \A u \in DOMAIN mTree' : mTree'[u] \in Node
<1> DEFINE ch == Put(mTree[p].children, n, mUuidCtr)
           tree == [mTree EXCEPT ![p].children = ch]
           new == NewNode(n, mConnectionToSessionId[c], p)
<1>1. mUuidCtr \in Uuid /\ mUuidCtr' = mUuidCtr + 1 /\ mTree' = Put(tree, mUuidCtr, new)
  BY DEF AddNode, FreshUuid
<1>2. /\ DOMAIN tree = DOMAIN mTree
      /\ tree[p] = [mTree[p] EXCEPT !.children = ch]
      /\ \A u \in DOMAIN mTree : u # p => tree[u] = mTree[u]
  OBVIOUS
<1>3. /\ DOMAIN mTree' = DOMAIN mTree \cup {mUuidCtr}
      /\ mTree'[mUuidCtr] = new
      /\ \A u \in DOMAIN mTree : u # mUuidCtr => mTree'[u] = tree[u]
  <2> HIDE DEF tree, new
  <2> QED BY <1>1, <1>2 DEF Put
<1>4. \A u \in DOMAIN mTree : mTree[u] \in Node
  BY Types
<1>5. /\ mTree[p] \in Node
      /\ IsMap(ch, Name, Uuid)
  <2>1. IsMap(mTree[p].children, Name, Uuid)
    BY <1>4, NodeFields
  <2> QED BY <2>1, <1>1, <1>4, PutType
<1>6. /\ tree[p].children = ch
      /\ tree[p].name = mTree[p].name
      /\ tree[p].parent = mTree[p].parent
      /\ tree[p].sessionId = mTree[p].sessionId
      /\ tree[p].data = mTree[p].data
      /\ tree[p].listener = mTree[p].listener
      /\ tree[p] \in Node
  <2> HIDE DEF ch, tree
  <2>1. ch \in Map(Name, Uuid)
    BY <1>5, MapMembership
  <2> QED BY <2>1, <1>2, <1>5 DEF Node
<1>7. new \in Node
  BY NewNodeType, Types DEF SignedIn
<1>8. ASSUME NEW u \in DOMAIN mTree, u # mUuidCtr
      PROVE  /\ SameIdentity(u)
             /\ mTree'[u].data = mTree[u].data
             /\ mTree'[u].listener = mTree[u].listener
             /\ mTree'[u].children = IF u = p THEN ch ELSE mTree[u].children
             /\ mTree'[u] \in Node
  <2> HIDE DEF ch, tree, new
  <2>1. CASE u = p
    BY <2>1, <1>3, <1>6, <1>8 DEF SameIdentity
  <2>2. CASE u # p
    <3>1. mTree'[u] = mTree[u]
      BY <2>2, <1>2, <1>3, <1>8
    <3> QED BY <3>1, <2>2, <1>4 DEF SameIdentity
  <2> QED BY <2>1, <2>2
<1>9. \A u \in DOMAIN mTree' : mTree'[u] \in Node
  <2> HIDE DEF ch, tree, new
  <2> QED BY <1>3, <1>7, <1>8
<1> HIDE DEF tree
<1> QED BY <1>1, <1>3, <1>8, <1>9

\* DeleteRequest: one leaf less, dropped by its parent, and nothing else.
LEMMA RemoveNodeShape ==
    ASSUME TypeOK, NEW c, NEW t, NEW u \in DOMAIN mTree,
           mTree[u].parent \in DOMAIN mTree, RemoveNode(c, t, u)
    PROVE  /\ mUuidCtr' = mUuidCtr
           /\ DOMAIN mTree' = DOMAIN mTree \ {u}
           /\ \A v \in DOMAIN mTree' :
                /\ SameIdentity(v)
                /\ mTree'[v].data = mTree[v].data
                /\ mTree'[v].listener = mTree[v].listener
                /\ mTree'[v].children = IF v = mTree[u].parent
                                        THEN Erase(mTree[v].children, mTree[u].name)
                                        ELSE mTree[v].children
                /\ mTree'[v] \in Node
<1> DEFINE p == mTree[u].parent
           ch == Erase(mTree[p].children, mTree[u].name)
           tree == [mTree EXCEPT ![p].children = ch]
<1>1. mUuidCtr' = mUuidCtr /\ mTree' = Erase(tree, u)
  BY DEF RemoveNode, WithoutNode
<1>2. /\ DOMAIN tree = DOMAIN mTree
      /\ tree[p] = [mTree[p] EXCEPT !.children = ch]
      /\ \A v \in DOMAIN mTree : v # p => tree[v] = mTree[v]
  OBVIOUS
<1>3. /\ DOMAIN mTree' = DOMAIN mTree \ {u}
      /\ \A v \in DOMAIN mTree : v # u => mTree'[v] = tree[v]
  <2> HIDE DEF tree
  <2> QED BY <1>1, <1>2 DEF Erase
<1>4. \A v \in DOMAIN mTree : mTree[v] \in Node
  BY Types
<1>5. ch \in Map(Name, Uuid)
  <2>1. IsMap(mTree[p].children, Name, Uuid)
    BY <1>4, NodeFields
  <2> QED BY <2>1, EraseType, MapMembership
<1>6. /\ tree[p].children = ch
      /\ tree[p].name = mTree[p].name
      /\ tree[p].parent = mTree[p].parent
      /\ tree[p].sessionId = mTree[p].sessionId
      /\ tree[p].data = mTree[p].data
      /\ tree[p].listener = mTree[p].listener
      /\ tree[p] \in Node
  <2>1. mTree[p] \in Node
    BY <1>4
  <2> HIDE DEF ch, tree
  <2> QED BY <2>1, <1>2, <1>5 DEF Node
<1>7. ASSUME NEW v \in DOMAIN mTree, v # u
      PROVE  /\ SameIdentity(v)
             /\ mTree'[v].data = mTree[v].data
             /\ mTree'[v].listener = mTree[v].listener
             /\ mTree'[v].children = IF v = p THEN ch ELSE mTree[v].children
             /\ mTree'[v] \in Node
  <2> HIDE DEF p, ch, tree
  <2>1. CASE v = p
    BY <2>1, <1>3, <1>6, <1>7 DEF SameIdentity
  <2>2. CASE v # p
    <3>1. mTree'[v] = mTree[v]
      BY <2>2, <1>2, <1>3, <1>7
    <3> QED BY <3>1, <2>2, <1>4 DEF SameIdentity
  <2> QED BY <2>1, <2>2
<1> QED BY <1>1, <1>3, <1>7

\* The listeners that SetValueRequest leaves are connections of sessions.
LEMMA ReboundType ==
    ASSUME TypeOK, NEW u \in DOMAIN mTree
    PROVE  /\ IsMap(Rebound(u), SessionId, Conn)
           /\ DOMAIN Rebound(u) = DOMAIN mTree[u].listener
<1>1. IsMap(mTree[u].listener, SessionId, Conn)
  BY Types, NodeFields
<1>2. \A s \in DOMAIN mSessions : mSessions[s] # None => mSessions[s] \in Conn
  BY DEF TypeOK
<1> QED BY <1>1, <1>2 DEF Rebound, IsMap

\* The tree keeps its nodes and their places.
TreeKept ==
    /\ mUuidCtr' = mUuidCtr
    /\ DOMAIN mTree' = DOMAIN mTree
    /\ \A u \in DOMAIN mTree :
        SameIdentity(u) /\ mTree'[u].children = mTree[u].children

\* Replacing the data and the listeners of a node is such a step.
LEMMA ContentShape ==
    ASSUME TypeOK, NEW u \in DOMAIN mTree, NEW v \in Value, NEW li,
           IsMap(li, SessionId, Conn), mUuidCtr' = mUuidCtr,
           \/ mTree' = [mTree EXCEPT ![u].data = v, ![u].listener = li]
           \/ mTree' = [mTree EXCEPT ![u].listener = li]
    PROVE  /\ TreeKept
           /\ mTree'[u].listener = li
           /\ \A w \in DOMAIN mTree : w # u => mTree'[w] = mTree[w]
           /\ IsMap(mTree', Uuid, Node)
<1>1. \A w \in DOMAIN mTree : mTree[w] \in Node
  BY Types
<1>2. li \in Map(SessionId, Conn)
  BY MapMembership
<1>3. /\ DOMAIN mTree' = DOMAIN mTree
      /\ \/ mTree'[u] = [mTree[u] EXCEPT !.data = v, !.listener = li]
         \/ mTree'[u] = [mTree[u] EXCEPT !.listener = li]
      /\ \A w \in DOMAIN mTree : w # u => mTree'[w] = mTree[w]
  OBVIOUS
<1>4. /\ mTree'[u].listener = li
      /\ mTree'[u].children = mTree[u].children
      /\ SameIdentity(u)
      /\ mTree'[u] \in Node
  BY <1>1, <1>2, <1>3 DEF Node, SameIdentity
<1>5. \A w \in DOMAIN mTree : SameIdentity(w) /\ mTree'[w].children = mTree[w].children
  BY <1>3, <1>4 DEF SameIdentity
<1>6. IsMap(mTree', Uuid, Node)
  <2>1. mTree' = [w \in DOMAIN mTree' |-> mTree'[w]]
    OBVIOUS
  <2>2. \A w \in DOMAIN mTree' : mTree'[w] \in Node
    BY <1>1, <1>3, <1>4
  <2> QED BY <2>1, <2>2, <1>3, Types DEF IsMap
<1> QED BY <1>3, <1>4, <1>5, <1>6 DEF TreeKept

CreatesNode ==
    \E c \in Conn, t \in ReqId, p \in DOMAIN mTree, n \in Name :
        /\ SignedIn(c)
        /\ n \notin DOMAIN mTree[p].children
        /\ AddNode(c, t, p, n)

DeletesNode ==
    \E c \in Conn, t \in ReqId, u \in DOMAIN mTree :
        /\ DOMAIN mTree[u].children = {}
        /\ mTree[u].parent \in DOMAIN mTree
        /\ RemoveNode(c, t, u)

\* The requests that put a value or a listener into a node.
WritesNode ==
    \E u \in DOMAIN mTree :
        /\ \/ mTree'[u].listener = Rebound(u)
           \/ \E c \in DOMAIN mConnectionToSessionId :
                mTree'[u].listener = Put(mTree[u].listener, mConnectionToSessionId[c], c)
           \/ \E s : mTree'[u].listener = Erase(mTree[u].listener, s)
        /\ \A w \in DOMAIN mTree : w # u => mTree'[w] = mTree[w]
        /\ IsMap(mTree', Uuid, Node)
        /\ TreeKept
        /\ UNCHANGED <<link, sessionVars>>

\* An unchanged tree is kept.
LEMMA UnchangedTree ==
    ASSUME UNCHANGED treeVars
    PROVE  TreeKept
  BY DEF treeVars, TreeKept, SameIdentity

\* Every step of the server adds a node, removes one, writes into one or leaves
\* the tree alone.
LEMMA TreeSteps ==
    ASSUME TypeOK, Next
    PROVE  CreatesNode \/ DeletesNode \/ WritesNode \/ UNCHANGED treeVars
<1> USE DEF Answer, Ignore, Crash
<1>1. ASSUME NEW c \in Conn, Connect(c) \/ Disconnect(c) \/ RpcReturn(c)
      PROVE  UNCHANGED treeVars
  BY <1>1 DEF Connect, Disconnect, RpcReturn, RpcReply
<1>2. ASSUME NEW c \in Conn, NEW t \in ReqId, Signin(c, t) \/ Heartbeat(c, t)
      PROVE  UNCHANGED treeVars
  BY <1>2 DEF Signin, Heartbeat
<1>3. ASSUME NEW c \in Conn, NEW t \in ReqId, NEW p \in Uuid, NEW n \in Name,
             Create(c, t, p, n)
      PROVE  CreatesNode \/ UNCHANGED treeVars
  BY <1>3 DEF Create, CreatesNode
<1>4. ASSUME NEW c \in Conn, NEW t \in ReqId, NEW p \in Uuid,
             NEW n \in Name \cup {Dot}, NEW r \in BOOLEAN, TreeInfo(c, t, p, n, r)
      PROVE  UNCHANGED treeVars
  BY <1>4 DEF TreeInfo
<1>5. ASSUME NEW c \in Conn, NEW t \in ReqId, NEW u \in Uuid, Delete(c, t, u)
      PROVE  DeletesNode \/ UNCHANGED treeVars
  BY <1>5 DEF Delete, DeletesNode, IsLeaf
<1>6. ASSUME NEW c \in Conn, NEW t \in ReqId, NEW u \in Uuid, Get(c, t, u)
      PROVE  UNCHANGED treeVars
  BY <1>6 DEF Get
<1>7. ASSUME NEW c \in Conn, NEW t \in ReqId, NEW u \in Uuid, Subscribe(c, t, u)
      PROVE  WritesNode \/ UNCHANGED treeVars
  <2>1. SUFFICES ASSUME ~UNCHANGED treeVars
                 PROVE  WritesNode
    OBVIOUS
  <2>2. /\ u \in DOMAIN mTree
        /\ c \in DOMAIN mConnectionToSessionId
        /\ mTree' = [mTree EXCEPT ![u].listener =
                        Put(mTree[u].listener, mConnectionToSessionId[c], c)]
        /\ UNCHANGED <<netVars, sessionVars, mUuidCtr>>
    BY <1>7, <2>1 DEF Subscribe, Listening, SignedIn
  <2>3. IsMap(Put(mTree[u].listener, mConnectionToSessionId[c], c), SessionId, Conn)
    BY <2>2, Types, NodeFields, PutType
  <2> QED BY <2>2, <2>3, DataAssumption, ContentShape, ZenonT(60) DEF WritesNode, netVars
<1>8. ASSUME NEW c \in Conn, NEW t \in ReqId, NEW u \in Uuid, Unsubscribe(c, t, u)
      PROVE  WritesNode \/ UNCHANGED treeVars
  <2>1. SUFFICES ASSUME ~UNCHANGED treeVars
                 PROVE  WritesNode
    OBVIOUS
  <2>2. /\ u \in DOMAIN mTree
        /\ mTree' = [mTree EXCEPT ![u].listener =
                        Erase(mTree[u].listener, mConnectionToSessionId[c])]
        /\ UNCHANGED <<netVars, sessionVars, mUuidCtr>>
    BY <1>8, <2>1 DEF Unsubscribe, SignedIn
  <2>3. IsMap(Erase(mTree[u].listener, mConnectionToSessionId[c]), SessionId, Conn)
    BY <2>2, Types, NodeFields, EraseType
  <2> QED BY <2>2, <2>3, DataAssumption, ContentShape DEF WritesNode, netVars
<1>9. ASSUME NEW c \in Conn, NEW t \in ReqId, NEW u \in Uuid, NEW v \in Value,
             SetValue(c, t, u, v)
      PROVE  WritesNode \/ UNCHANGED treeVars
  <2>1. SUFFICES ASSUME ~UNCHANGED treeVars
                 PROVE  WritesNode
    OBVIOUS
  <2>2. /\ u \in DOMAIN mTree
        /\ mTree' = [mTree EXCEPT ![u].data = v, ![u].listener = Rebound(u)]
        /\ UNCHANGED <<netVars, sessionVars, mUuidCtr>>
    BY <1>9, <2>1 DEF SetValue
  <2>3. IsMap(Rebound(u), SessionId, Conn)
    BY <2>2, ReboundType
  <2> QED BY <2>2, <2>3, ContentShape, ZenonT(60) DEF WritesNode, netVars
<1>10. ASSUME NEW c \in Conn, NEW t \in ReqId, NEW u \in Uuid, NEW p \in Param,
              RpcRequest(c, t, u, p)
       PROVE  UNCHANGED treeVars
  BY <1>10 DEF RpcRequest, Forward
<1>11. ASSUME Exit PROVE UNCHANGED treeVars
  BY <1>11 DEF Exit
<1> QED BY <1>1, <1>2, <1>3, <1>4, <1>5, <1>6, <1>7, <1>8, <1>9, <1>10, <1>11
        DEF Next, Request

-----------------------------------------------------------------------------
(* Types.                                                                  *)

\* What handlers leave in `out' when they send nothing.
LEMMA SilenceType == Silence \in [Conn -> Seq(Message)]
  BY DEF Silence

\* A reply to one connection is one message in that connection's sequence.
LEMMA ReplyType ==
    ASSUME NEW c \in Conn, NEW t \in TrId, NEW b \in Body
    PROVE  Reply(c, t, b) \in [Conn -> Seq(Message)]
<1>1. Packet(t, b) \in Message
  BY DEF Packet, Message
<1>2. <<Packet(t, b)>> \in Seq(Message)
  BY <1>1
<1> QED BY <1>2, SilenceType DEF Reply

\* A reply and the notifications of finitely many sessions.
LEMMA ReplyAndNotifyType ==
    ASSUME NEW c \in Conn, NEW t \in TrId, NEW b \in Body, NEW note \in Body,
           NEW to, IsFiniteSet(DOMAIN to)
    PROVE  ReplyAndNotify(c, t, b, note, to) \in [Conn -> Seq(Message)]
<1>1. Reply(c, t, b) \in [Conn -> Seq(Message)]
  BY ReplyType
<1>2. Packet(Notify, note) \in Message
  BY BoundsAssumption DEF Packet, Message, Notify, TrId
<1>3. ASSUME NEW x \in Conn
      PROVE  Reply(c, t, b)[x] \o
             [i \in 1 .. Cardinality({k \in DOMAIN to : to[k] = x}) |->
                Packet(Notify, note)] \in Seq(Message)
  <2> DEFINE n == Cardinality({k \in DOMAIN to : to[k] = x})
             notes == [i \in 1 .. n |-> Packet(Notify, note)]
  <2>1. n \in Nat
    <3>1. IsFiniteSet({k \in DOMAIN to : to[k] = x})
      BY FS_Subset
    <3> QED BY <3>1, FS_CardinalityType
  <2>2. notes \in Seq(Message)
    <3> HIDE DEF n
    <3> QED BY <2>1, <1>2
  <2>3. Reply(c, t, b)[x] \in Seq(Message)
    BY <1>1
  <2>4. Reply(c, t, b)[x] \o notes \in Seq(Message)
    <3> HIDE DEF n, notes
    <3> QED BY <2>2, <2>3
  <2> QED BY <2>4
<1> QED BY <1>3 DEF ReplyAndNotify

\* A sequence that is two in a row, position by position.
Row(s, a, b) ==
    /\ Len(s) = Len(a) + Len(b)
    /\ \A i \in 1 .. Len(s) : s[i] = IF i <= Len(a) THEN a[i] ELSE b[i - Len(a)]

LEMMA InARow ==
    ASSUME NEW S, NEW a \in Seq(S), NEW b \in Seq(S), NEW s, s = a \o b
    PROVE  s \in Seq(S) /\ Row(s, a, b)
BY DEF Row

\* What each connection finds in the messages of a handler that replies and
\* notifies.
LEMMA FanOut ==
    ASSUME NEW c \in Conn, NEW t, NEW b, NEW note, NEW to,
           IsFiniteSet(DOMAIN to), NEW x \in Conn,
           NEW s, s = ReplyAndNotify(c, t, b, note, to)[x]
    PROVE  /\ {s[i].message : i \in DOMAIN s} =
                    (IF x = c THEN {b} ELSE {})
                    \cup (IF \E k \in DOMAIN to : to[k] = x THEN {note} ELSE {})
           /\ s # <<>> => x = c \/ \E k \in DOMAIN to : to[k] = x
<1> DEFINE keys == {k \in DOMAIN to : to[k] = x}
           n == Cardinality(keys)
           reply == Reply(c, t, b)[x]
           notes == [i \in 1 .. n |-> Packet(Notify, note)]
           M == {Packet(t, b), Packet(Notify, note)}
<1>1. n \in Nat /\ (n = 0 <=> keys = {})
  <2>1. IsFiniteSet(keys)
    BY FS_Subset
  <2> QED BY <2>1, FS_CardinalityType, FS_EmptySet
<1>2. reply = IF x = c THEN <<Packet(t, b)>> ELSE <<>>
  BY DEF Reply, Silence
<1>3. s = reply \o notes
  BY DEF ReplyAndNotify
<1> HIDE DEF n, reply
<1>4. notes \in Seq(M) /\ Len(notes) = n /\ \A i \in 1 .. n : notes[i] = Packet(Notify, note)
  BY <1>1
<1>5. reply \in Seq(M) /\ Len(reply) = IF x = c THEN 1 ELSE 0
  <2>1. Packet(t, b) \in M
    OBVIOUS
  <2> HIDE DEF M, notes
  <2>2. <<Packet(t, b)>> \in Seq(M) /\ Len(<<Packet(t, b)>>) = 1
    BY <2>1
  <2>3. <<>> \in Seq(M) /\ Len(<<>>) = 0
    OBVIOUS
  <2> QED BY <1>2, <2>2, <2>3
<1> HIDE DEF notes, M, keys
<1>6. /\ s \in Seq(M) /\ Len(s) = Len(reply) + n
      /\ \A i \in 1 .. Len(s) : s[i] = IF i <= Len(reply) THEN reply[i]
                                                        ELSE notes[i - Len(reply)]
  <2>1. reply \in Seq(M) /\ notes \in Seq(M)
    BY <1>4, <1>5
  <2>2. PICK a, d : a = reply /\ d = notes
    OBVIOUS
  <2>3. a \in Seq(M) /\ d \in Seq(M) /\ s = a \o d
    BY <1>3, <2>1, <2>2
  <2>4. s \in Seq(M) /\ Row(s, a, d)
    BY <2>3, InARow
  <2> QED BY <1>4, <2>2, <2>4 DEF Row
<1>7. DOMAIN s = 1 .. Len(s)
  BY <1>6
<1>8. Packet(t, b).message = b /\ Packet(Notify, note).message = note
  BY DEF Packet
<1>9. keys # {} <=> \E k \in DOMAIN to : to[k] = x
  BY DEF keys
<1>10. s # <<>> => Len(s) # 0
  BY <1>6
<1>11. CASE x = c
  <2>1. \A i \in 1 .. Len(s) : s[i] = IF i = 1 THEN Packet(t, b) ELSE Packet(Notify, note)
    BY <1>1, <1>2, <1>4, <1>5, <1>6, <1>11
  <2>2. Len(s) = n + 1
    BY <1>1, <1>5, <1>6, <1>11
  <2>3. \A i \in DOMAIN s : s[i].message = IF i = 1 THEN b ELSE note
    BY <2>1, <1>7, <1>8
  <2>4. 1 \in DOMAIN s /\ (n # 0 => 2 \in DOMAIN s) /\ (n = 0 => DOMAIN s = {1})
    BY <2>2, <1>1, <1>7
  <2>5. {s[i].message : i \in DOMAIN s} = {b} \cup (IF n # 0 THEN {note} ELSE {})
    <3>1. CASE n = 0
      BY <2>3, <2>4, <3>1
    <3>2. CASE n # 0
      <4>1. \A i \in DOMAIN s : s[i].message \in {b, note}
        BY <2>3
      <4>2. s[1].message = b /\ s[2].message = note
        BY <2>3, <2>4, <3>2
      <4> QED BY <2>4, <3>2, <4>1, <4>2
    <3> QED BY <3>1, <3>2
  <2> QED BY <2>5, <1>1, <1>9, <1>11
<1>12. CASE x # c
  <2>1. /\ Len(s) = n
        /\ \A i \in DOMAIN s : s[i].message = note
    BY <1>1, <1>4, <1>5, <1>6, <1>7, <1>8, <1>12
  <2>2. (n # 0 => 1 \in DOMAIN s) /\ (n = 0 => DOMAIN s = {})
    BY <2>1, <1>1, <1>7
  <2>3. {s[i].message : i \in DOMAIN s} = IF n # 0 THEN {note} ELSE {}
    <3>1. CASE n = 0
      BY <2>2, <3>1
    <3>2. CASE n # 0
      BY <2>1, <2>2, <3>2
    <3> QED BY <3>1, <3>2
  <2> QED BY <2>1, <2>3, <1>1, <1>9, <1>10, <1>12
<1> QED BY <1>11, <1>12

\* Sessions and subscribers are finitely many, so Cardinality counts them.
LEMMA FiniteFanOut ==
    ASSUME TypeOK
    PROVE  /\ IsFiniteSet(DOMAIN mSessions)
           /\ \A u \in DOMAIN mTree : IsFiniteSet(DOMAIN Recipients(u))
<1>1. IsFiniteSet(SessionId)
  BY FS_Interval, BoundsAssumption DEF SessionId
<1>2. DOMAIN mSessions \subseteq SessionId
  BY Types
<1>3. ASSUME NEW u \in DOMAIN mTree
      PROVE  DOMAIN Recipients(u) \subseteq SessionId
  BY ReboundType DEF Recipients, IsMap
<1> QED BY <1>1, <1>2, <1>3, FS_Subset

\* The initial state is well typed.
LEMMA TypeInit == Init => TypeOK
<1> SUFFICES ASSUME Init PROVE TypeOK
  OBVIOUS
<1>1. NewNode(None, None, None) \in Node
  BY NewNodeType
<1>2. IsMap(mTree, Uuid, Node)
  <2>1. Root \in Uuid
    BY BoundsAssumption DEF Root, Uuid
  <2>2. IsMap(EmptyMap, Uuid, Node)
    BY EmptyMapType
  <2> QED BY <1>1, <2>1, <2>2, PutType DEF Init
<1>3. /\ IsMap(mConnectionToSessionId, Conn, SessionId)
      /\ IsMap(mTrIdTranslation, TrId, SessionId \X ReqId)
      /\ mSessions \in [0 .. mSessionIdCtr - 1 -> Conn \cup {None}]
  BY BoundsAssumption, EmptyMapType DEF Init, EmptyMap, IsMap
<1>4. out \in [Conn -> Seq(Message)]
  BY SilenceType DEF Init
<1> QED BY <1>2, <1>3, <1>4, BoundsAssumption DEF Init, TypeOK, TrId

\* The tables of the tree stay well typed.
LEMMA TreeTypes ==
    ASSUME TypeOK, Next
    PROVE  IsMap(mTree', Uuid, Node) /\ mUuidCtr' \in 1 .. MaxUuid + 1
<1>1. IsMap(mTree, Uuid, Node) /\ mUuidCtr \in 1 .. MaxUuid + 1
  BY DEF TypeOK
<1>2. CASE CreatesNode
  <2>1. PICK c \in Conn, t \in ReqId, p \in DOMAIN mTree, n \in Name :
            SignedIn(c) /\ AddNode(c, t, p, n)
    BY <1>2 DEF CreatesNode
  <2>2. /\ mUuidCtr \in Uuid /\ mUuidCtr' = mUuidCtr + 1
        /\ DOMAIN mTree' = DOMAIN mTree \cup {mUuidCtr}
        /\ \A u \in DOMAIN mTree' : mTree'[u] \in Node
    BY <2>1, AddNodeShape
  <2>3. mTree' = [u \in DOMAIN mTree' |-> mTree'[u]]
    BY <2>1 DEF AddNode, FreshUuid, Put
  <2> QED BY <1>1, <2>2, <2>3, BoundsAssumption DEF IsMap, Uuid
<1>3. CASE DeletesNode
  <2>1. PICK c \in Conn, t \in ReqId, u \in DOMAIN mTree :
            mTree[u].parent \in DOMAIN mTree /\ RemoveNode(c, t, u)
    BY <1>3 DEF DeletesNode
  <2>2. /\ mUuidCtr' = mUuidCtr
        /\ DOMAIN mTree' = DOMAIN mTree \ {u}
        /\ \A v \in DOMAIN mTree' : mTree'[v] \in Node
    BY <2>1, RemoveNodeShape
  <2>3. mTree' = [v \in DOMAIN mTree' |-> mTree'[v]]
    BY <2>1 DEF RemoveNode, WithoutNode, Erase
  <2> QED BY <1>1, <2>2, <2>3 DEF IsMap
<1>4. CASE WritesNode
  BY <1>1, <1>4 DEF WritesNode, TreeKept
<1>5. CASE UNCHANGED treeVars
  BY <1>1, <1>5 DEF treeVars, IsMap
<1> QED BY <1>2, <1>3, <1>4, <1>5, TreeSteps

\* What a step does to sessions and connections.
SessionStep ==
    \/ \E c \in Conn, t \in ReqId : Signin(c, t)
    \/ \E c \in Conn : Disconnect(c)
    \/ \E c \in Conn : Connect(c)
    \/ UNCHANGED <<link, sessionVars>>

\* Only signing in, connecting and disconnecting touch them.
LEMMA SessionSteps ==
    ASSUME Next
    PROVE  SessionStep
<1> USE DEF Answer, Ignore, Crash, SessionStep, netVars
<1>1. ASSUME NEW c \in Conn, NEW t \in ReqId, NEW u \in Uuid, Delete(c, t, u)
      PROVE  SessionStep
  BY <1>1 DEF Delete, RemoveNode
<1>2. ASSUME NEW c \in Conn, NEW t \in ReqId, NEW p \in Uuid, NEW n \in Name,
             Create(c, t, p, n)
      PROVE  SessionStep
  BY <1>2 DEF Create, AddNode
<1>3. ASSUME NEW c \in Conn, NEW t \in ReqId, NEW p \in Uuid,
             NEW n \in Name \cup {Dot}, NEW r \in BOOLEAN, TreeInfo(c, t, p, n, r)
      PROVE  SessionStep
  BY <1>3 DEF TreeInfo
<1>4. ASSUME NEW c \in Conn, NEW t \in ReqId, NEW u \in Uuid,
             Get(c, t, u) \/ Subscribe(c, t, u) \/ Unsubscribe(c, t, u)
      PROVE  SessionStep
  BY <1>4 DEF Get, Subscribe, Unsubscribe
<1>5. ASSUME NEW c \in Conn, NEW t \in ReqId, NEW u \in Uuid, NEW v \in Value,
             SetValue(c, t, u, v)
      PROVE  SessionStep
  BY <1>5 DEF SetValue
<1>6. ASSUME NEW c \in Conn, NEW t \in ReqId, NEW u \in Uuid, NEW p \in Param,
             RpcRequest(c, t, u, p)
      PROVE  SessionStep
  BY <1>6 DEF RpcRequest, Forward
<1>7. ASSUME NEW c \in Conn, RpcReturn(c)
      PROVE  SessionStep
  BY <1>7 DEF RpcReturn, RpcReply
<1>8. ASSUME NEW c \in Conn, NEW t \in ReqId, Heartbeat(c, t)
      PROVE  SessionStep
  BY <1>8 DEF Heartbeat
<1>9. ASSUME Exit PROVE SessionStep
  BY <1>9 DEF Exit
<1> QED BY <1>1, <1>2, <1>3, <1>4, <1>5, <1>6, <1>7, <1>8, <1>9 DEF Next, Request

\* The tables of the sessions stay well typed.
LEMMA SessionTypes ==
    ASSUME TypeOK, Next
    PROVE  /\ link' \in [Conn -> {"new", "open", "closed"}]
           /\ mSessionIdCtr' \in 0 .. MaxSession
           /\ mSessions' \in [0 .. mSessionIdCtr' - 1 -> Conn \cup {None}]
           /\ IsMap(mConnectionToSessionId', Conn, SessionId)
<1> USE DEF TypeOK
<1>1. ASSUME NEW c \in Conn, NEW t \in ReqId, Signin(c, t)
      PROVE  /\ mSessionIdCtr' \in 0 .. MaxSession
             /\ mSessions' \in [0 .. mSessionIdCtr' - 1 -> Conn \cup {None}]
             /\ IsMap(mConnectionToSessionId', Conn, SessionId)
             /\ link' = link
  <2>1. mSessionIdCtr \in SessionId /\ mSessionIdCtr' = mSessionIdCtr + 1
    BY <1>1, BoundsAssumption DEF Signin, SessionId
  <2>2. mSessions' \in [0 .. mSessionIdCtr' - 1 -> Conn \cup {None}]
    BY <1>1, <2>1 DEF Signin, Emplace, Put, SessionId
  <2>3. IsMap(mConnectionToSessionId', Conn, SessionId)
    BY <1>1, <2>1, EmplaceType DEF Signin
  <2> QED BY <1>1, <2>1, <2>2, <2>3, BoundsAssumption DEF Signin, netVars, SessionId
<1>2. ASSUME NEW c \in Conn, Disconnect(c)
      PROVE  /\ mSessionIdCtr' = mSessionIdCtr
             /\ mSessions' \in [0 .. mSessionIdCtr - 1 -> Conn \cup {None}]
             /\ IsMap(mConnectionToSessionId', Conn, SessionId)
             /\ link' \in [Conn -> {"new", "open", "closed"}]
  <2>1. link' \in [Conn -> {"new", "open", "closed"}]
    BY <1>2 DEF Disconnect
  <2>2. /\ mSessionIdCtr' = mSessionIdCtr
        /\ mSessions' = mSessions \/ mSessions' = Abandoned(mConnectionToSessionId[c])
    BY <1>2 DEF Disconnect, sessionVars
  <2>3. mSessions' \in [0 .. mSessionIdCtr - 1 -> Conn \cup {None}]
    BY <2>2 DEF Abandoned
  <2>4. IsMap(mConnectionToSessionId', Conn, SessionId)
    BY <1>2, EraseType DEF Disconnect, Released, sessionVars
  <2> QED BY <2>1, <2>2, <2>3, <2>4
<1>3. ASSUME NEW c \in Conn, Connect(c)
      PROVE  /\ link' \in [Conn -> {"new", "open", "closed"}]
             /\ UNCHANGED sessionVars
  BY <1>3 DEF Connect
<1>4. ASSUME UNCHANGED sessionVars
      PROVE  /\ mSessionIdCtr' \in 0 .. MaxSession
             /\ mSessions' \in [0 .. mSessionIdCtr' - 1 -> Conn \cup {None}]
             /\ IsMap(mConnectionToSessionId', Conn, SessionId)
  BY <1>4 DEF sessionVars, IsMap
<1>5. CASE UNCHANGED <<link, sessionVars>>
  BY <1>4, <1>5
<1> QED BY <1>1, <1>2, <1>3, <1>4, <1>5, SessionSteps DEF SessionStep

\* The rpc tables, what is written and the status after a reply or none.
Rest ==
    /\ status \in {"running", "stopping", "terminated", "crashed"}
    /\ fault \in Uuid \cup {None}
    /\ mTrIdCtr \in TrId
    /\ IsMap(mTrIdTranslation, TrId, SessionId \X ReqId)
    /\ out \in [Conn -> Seq(Message)]

\* A step keeps the rest when it leaves the rpc tables alone and writes messages.
LEMMA QuietRest ==
    ASSUME TypeOK, UNCHANGED rpcVars,
           status' \in {status, "stopping", "terminated", "crashed"},
           fault' \in {fault} \cup Uuid,
           out' \in [Conn -> Seq(Message)]
    PROVE  Rest'
  BY DEF TypeOK, rpcVars, Rest, IsMap

\* Handlers that reply, or do not, and change nothing else of this.
LEMMA AnswerRest ==
    ASSUME TypeOK, NEW c \in Conn, NEW t \in ReqId, NEW b \in Body,
           Answer(c, t, b) \/ Ignore \/ \E u \in Uuid : Crash(u)
    PROVE  Rest'
<1>1. Reply(c, t, b) \in [Conn -> Seq(Message)]
  BY ReplyType, RequestAssumption
<1>2. out' \in [Conn -> Seq(Message)]
  BY <1>1, SilenceType DEF Answer, Ignore, Crash
<1> QED BY <1>2, QuietRest DEF Answer, Ignore, Crash, netVars

\* The bodies of the replies.
LEMMA BodyTypes ==
    /\ [type |-> "SigninAccept", sessionId |-> 0] \in Body
    /\ [type |-> "HearbeatResponse"] \in Body
    /\ [type |-> "SetValueAccept"] \in Body
    /\ \A u \in Uuid : [type |-> "CreateAccept", uuid |-> u] \in Body
    /\ \A v \in Value : [type |-> "GetAccept", data |-> v] \in Body
    /\ \A u \in Uuid, v \in Value :
        [type |-> "UpdateNotification", uuid |-> u, data |-> v] \in Body
    /\ \A u \in Uuid, p \in Param :
        [type |-> "RpcRequest", uuid |-> u, param |-> p] \in Body
    /\ \A l \in SUBSET NamedNode :
        [type |-> "TreeInfoResponse", nodeToAddList |-> l] \in Body
    /\ \A u \in Uuid : NodeDeleted(u) \in Body
    /\ \A n \in Name, u, p \in Uuid : NodeAdded(n, u, p) \in Body
    /\ RpcAnswer \subseteq Body
<1>1. 0 \in SessionId
  BY BoundsAssumption DEF SessionId
<1>2. ASSUME NEW n \in Name, NEW u \in Uuid, NEW p \in Uuid
      PROVE  NodeAdded(n, u, p) \in Body
  <2>1. {[name |-> n, uuid |-> u, parentUuid |-> p]} \in SUBSET NamedNode
    BY DEF NamedNode
  <2> QED BY <2>1 DEF NodeAdded, Body
<1>3. \A u \in Uuid : NodeDeleted(u) \in Body
  BY DEF NodeDeleted, Body
<1> QED BY <1>1, <1>2, <1>3 DEF Body

\* The replies that carry a cause.
LEMMA ResultTypes ==
    ASSUME NEW type \in {"CreateReject", "GetReject", "TreeInfoErrorResponse",
                         "SubscribeResponse", "UnsubscribeResponse",
                         "DeleteResponse"},
           NEW cause \in Cause
    PROVE  Result(type, cause) \in Body
  BY DEF Result, Body

\* Entries of children maps are NamedNodes.
LEMMA EntriesType ==
    ASSUME TypeOK, NEW u \in DOMAIN mTree
    PROVE  /\ Entries(u) \in SUBSET NamedNode
           /\ \A e \in Entries(u) : e.parentUuid = u
<1>1. u \in Uuid /\ IsMap(mTree[u].children, Name, Uuid)
  BY Types, NodeFields
<1> QED BY <1>1 DEF Entries, NamedNode, IsMap

\* The lists of TreeInfoResponse are lists of NamedNodes.
LEMMA ToAddListType ==
    ASSUME TypeOK, NEW u \in DOMAIN mTree, NEW r \in BOOLEAN
    PROVE  ToAddList(u, r) \in SUBSET NamedNode
<1>1. Subtree(u) \subseteq DOMAIN mTree
  BY DEF Subtree
<1>2. \A v \in Subtree(u) : Entries(v) \in SUBSET NamedNode
  BY <1>1, EntriesType
<1>3. Entries(u) \in SUBSET NamedNode
  BY EntriesType
<1> QED BY <1>2, <1>3 DEF ToAddList

\* Every handler keeps the types of the rpc tables and of what it writes.
LEMMA RestSteps ==
    ASSUME TypeOK, TreeConsistent, Next
    PROVE  Rest'
<1> USE BodyTypes, ResultTypes, RequestAssumption DEF Cause
<1>1. ASSUME NEW c \in Conn, NEW t \in ReqId, NEW p \in Uuid, NEW n \in Name,
             Create(c, t, p, n)
      PROVE  Rest'
  <2>1. CASE AddNode(c, t, p, n) /\ p \in DOMAIN mTree
    <3>1. out' \in [Conn -> Seq(Message)]
      BY <2>1, FiniteFanOut, ReplyAndNotifyType DEF AddNode, FreshUuid
    <3> QED BY <2>1, <3>1, QuietRest DEF AddNode, netVars
  <2>2. CASE Ignore
    BY <2>2, AnswerRest
  <2> QED BY <1>1, <2>1, <2>2, AnswerRest DEF Create
<1>2. ASSUME NEW c \in Conn, NEW t \in ReqId, NEW u \in Uuid, Delete(c, t, u)
      PROVE  Rest'
  <2>1. CASE RemoveNode(c, t, u)
    <3>1. out' \in [Conn -> Seq(Message)]
      BY <2>1, FiniteFanOut, ReplyAndNotifyType DEF RemoveNode
    <3> QED BY <2>1, <3>1, QuietRest DEF RemoveNode, netVars
  <2>2. CASE Crash(u)
    BY <2>2, AnswerRest
  <2> QED BY <1>2, <2>1, <2>2, AnswerRest DEF Delete
<1>3. ASSUME NEW c \in Conn, NEW t \in ReqId, NEW p \in Uuid,
             NEW n \in Name \cup {Dot}, NEW r \in BOOLEAN, TreeInfo(c, t, p, n, r)
      PROVE  Rest'
  <2>1. CASE p \in DOMAIN mTree /\ n = Dot
    <3>1. ToAddList(p, r) \in SUBSET NamedNode
      BY <2>1, ToAddListType
    <3> QED BY <1>3, <2>1, <3>1, AnswerRest DEF TreeInfo
  <2>2. CASE p \in DOMAIN mTree /\ n # Dot /\ n \in DOMAIN mTree[p].children
    <3> DEFINE u == mTree[p].children[n]
    <3>1. u \in Uuid /\ n \in Name
      BY <2>2, Types, NodeFields DEF IsMap
    <3>2. {[name |-> n, uuid |-> u, parentUuid |-> p]} \in SUBSET NamedNode
      BY <3>1 DEF NamedNode
    <3>3. u \in DOMAIN mTree
      BY <2>2 DEF TreeConsistent, ChildLinks
    <3>4. ToAddList(u, r) \in SUBSET NamedNode
      BY <3>3, ToAddListType
    <3> QED BY <1>3, <2>2, <3>2, <3>4, AnswerRest DEF TreeInfo
  <2> QED BY <1>3, <2>1, <2>2, AnswerRest DEF TreeInfo
<1>4. ASSUME NEW c \in Conn, NEW t \in ReqId, NEW u \in Uuid, Get(c, t, u)
      PROVE  Rest'
  <2>1. CASE u \in DOMAIN mTree
    <3>1. mTree[u].data \in Value
      BY <2>1, Types DEF Node
    <3> QED BY <1>4, <2>1, <3>1, AnswerRest DEF Get
  <2> QED BY <1>4, <2>1, AnswerRest DEF Get
<1>5. ASSUME NEW c \in Conn, NEW t \in ReqId, NEW u \in Uuid,
             Subscribe(c, t, u) \/ Unsubscribe(c, t, u)
      PROVE  Rest'
  <2>1. CASE Ignore
    BY <2>1, AnswerRest
  <2>2. ASSUME NEW type \in {"SubscribeResponse", "UnsubscribeResponse"},
               out' = Reply(c, t, Result(type, "OK")),
               UNCHANGED <<netVars, sessionVars, mUuidCtr, rpcVars>>
        PROVE  Rest'
    <3>1. out' \in [Conn -> Seq(Message)]
      BY <2>2, ReplyType
    <3> QED BY <2>2, <3>1, QuietRest DEF netVars
  <2> QED BY <1>5, <2>1, <2>2, AnswerRest DEF Subscribe, Unsubscribe
<1>6. ASSUME NEW c \in Conn, NEW t \in ReqId, NEW u \in Uuid, NEW v \in Value,
             SetValue(c, t, u, v)
      PROVE  Rest'
  <2>1. CASE u = Root /\ v = Terminate
    BY <1>6, <2>1, SilenceType, QuietRest DEF SetValue
  <2>2. CASE ~(u = Root /\ v = Terminate) /\ u \notin DOMAIN mTree
    BY <1>6, <2>2, AnswerRest DEF SetValue
  <2>3. CASE ~(u = Root /\ v = Terminate) /\ u \in DOMAIN mTree
    <3>1. out' \in [Conn -> Seq(Message)]
      <4> DEFINE note == [type |-> "UpdateNotification", uuid |-> u, data |-> v]
      <4>1. out' = ReplyAndNotify(c, t, [type |-> "SetValueAccept"], note,
                                  Recipients(u))
        BY <1>6, <2>3 DEF SetValue
      <4>2. note \in Body /\ [type |-> "SetValueAccept"] \in Body
        OBVIOUS
      <4>3. t \in TrId
        OBVIOUS
      <4> HIDE DEF note
      <4> QED BY <2>3, <4>1, <4>2, <4>3, FiniteFanOut, ReplyAndNotifyType
    <3> QED BY <1>6, <2>3, <3>1, QuietRest DEF SetValue, netVars
  <2> QED BY <2>1, <2>2, <2>3
<1>7. ASSUME NEW c \in Conn, NEW t \in ReqId, NEW u \in Uuid, NEW p \in Param,
             RpcRequest(c, t, u, p)
      PROVE  Rest'
  <2>1. CASE Ignore \/ Crash(u)
    BY <2>1, AnswerRest
  <2>2. ASSUME NEW owner \in Conn, SignedIn(c), Forward(c, t, u, p, owner)
        PROVE  Rest'
    <3>1. mTrIdCtr \in TrId /\ mTrIdCtr' \in TrId
      BY <2>2, BoundsAssumption DEF TypeOK, Forward, NextTrId, TrId
    <3>2. <<mConnectionToSessionId[c], t>> \in SessionId \X ReqId
      BY <2>2, Types DEF SignedIn
    <3>3. IsMap(mTrIdTranslation', TrId, SessionId \X ReqId)
      BY <2>2, <3>1, <3>2, PutType DEF TypeOK, Forward, Translated
    <3>4. out' \in [Conn -> Seq(Message)]
      BY <2>2, <3>1, ReplyType DEF Forward
    <3> QED BY <2>2, <3>1, <3>3, <3>4 DEF Forward, netVars, Rest, TypeOK
  <2>3. \A s \in DOMAIN mSessions : mSessions[s] = None \/ mSessions[s] \in Conn
    BY DEF TypeOK
  <2>4. Result("RpcReject", "NOT_FOUND") \in Body
    BY DEF Result, Body, RpcAnswer
  <2> QED BY <1>7, <2>1, <2>2, <2>3, <2>4, AnswerRest DEF RpcRequest
<1>8. ASSUME NEW c \in Conn, NEW t \in TrId, NEW a \in RpcAnswer, RpcReply(c, t, a)
      PROVE  Rest'
  <2>1. CASE Ignore
    BY <2>1, SilenceType, QuietRest DEF Ignore, netVars
  <2>2. CASE t \in DOMAIN mTrIdTranslation
    <3> DEFINE sid == mTrIdTranslation[t][1]
               id == mTrIdTranslation[t][2]
    <3>1. mTrIdTranslation[t] \in SessionId \X ReqId
      BY <2>2 DEF TypeOK, IsMap
    <3>2. id \in TrId
      BY <3>1
    <3>3. sid \in DOMAIN mSessions => mSessions[sid] \in Conn \cup {None}
      BY DEF TypeOK
    <3>4. out' \in [Conn -> Seq(Message)]
      <4>1. out' = IF sid \in DOMAIN mSessions /\ mSessions[sid] # None
                   THEN Reply(mSessions[sid], id, a) ELSE Silence
        BY <1>8, <2>2 DEF RpcReply, Ignore
      <4>2. a \in Body
        OBVIOUS
      <4> HIDE DEF sid, id
      <4>3. sid \in DOMAIN mSessions /\ mSessions[sid] # None =>
                Reply(mSessions[sid], id, a) \in [Conn -> Seq(Message)]
        BY <3>2, <3>3, <4>2, ReplyType
      <4> QED BY <4>1, <4>3, SilenceType
    <3>5. IsMap(mTrIdTranslation', TrId, SessionId \X ReqId)
      BY <1>8, <2>2, EraseType DEF RpcReply, TypeOK
    <3> QED BY <1>8, <2>2, <3>4, <3>5 DEF RpcReply, netVars, Rest, TypeOK
  <2> QED BY <1>8, <2>1, <2>2 DEF RpcReply
<1>9. ASSUME NEW c \in Conn, NEW t \in ReqId, Signin(c, t) \/ Heartbeat(c, t)
      PROVE  Rest'
  <2>1. CASE Signin(c, t)
    <3>1. out' \in [Conn -> Seq(Message)]
      BY <2>1, ReplyType DEF Signin
    <3> QED BY <2>1, <3>1, QuietRest DEF Signin, netVars
  <2> QED BY <1>9, <2>1, AnswerRest DEF Heartbeat
<1>10. ASSUME NEW c \in Conn, Connect(c) \/ Disconnect(c)
       PROVE  Rest'
  BY <1>10, SilenceType, QuietRest DEF Connect, Disconnect
<1>11. ASSUME Exit PROVE Rest'
  BY <1>11, SilenceType, QuietRest DEF Exit
<1> QED BY <1>1, <1>2, <1>3, <1>4, <1>5, <1>6, <1>7, <1>8, <1>9, <1>10, <1>11
        DEF Next, Request, RpcReturn

-----------------------------------------------------------------------------
(* The tree.                                                               *)

\* The constructor's tree is consistent.
LEMMA TreeInit == Init => TreeConsistent
<1> SUFFICES ASSUME Init PROVE TreeConsistent
  OBVIOUS
<1>1. /\ DOMAIN mTree = {Root}
      /\ mTree[Root] = NewNode(None, None, None)
      /\ mUuidCtr = 1
  BY EmptyMapType DEF Init, Put, EmptyMap
<1>2. DOMAIN mTree[Root].children = {}
  BY <1>1 DEF NewNode, EmptyMap
<1> QED BY <1>1, <1>2 DEF TreeConsistent, ParentLinks, ChildLinks, NewNode, Root

\* CreateRequest hangs the new leaf where it says, and disturbs no other link.
LEMMA AddedConsistent ==
    ASSUME TypeOK, TreeConsistent, CreatesNode
    PROVE  TreeConsistent'
<1>1. PICK c \in Conn, t \in ReqId, p \in DOMAIN mTree, n \in Name :
        /\ SignedIn(c)
        /\ n \notin DOMAIN mTree[p].children
        /\ AddNode(c, t, p, n)
  BY DEF CreatesNode
<1> DEFINE new == mUuidCtr
<1>2. new \notin DOMAIN mTree /\ new # Root /\ p \in Nat /\ new \in Nat
  BY Types DEF TreeConsistent, TypeOK, Uuid, Root
<1>3. /\ mUuidCtr' = new + 1
      /\ DOMAIN mTree' = DOMAIN mTree \cup {new}
      /\ mTree'[new].parent = p
      /\ mTree'[new].name = n
      /\ DOMAIN mTree'[new].children = {}
  <2>1. /\ mUuidCtr' = new + 1
        /\ DOMAIN mTree' = DOMAIN mTree \cup {new}
        /\ mTree'[new] = NewNode(n, mConnectionToSessionId[c], p)
    BY <1>1, AddNodeShape, ZenonT(60)
  <2>2. DOMAIN EmptyMap = {}
    BY DEF EmptyMap
  <2> QED BY <2>1, <2>2 DEF NewNode
<1>4. \A u \in DOMAIN mTree :
        /\ mTree'[u].parent = mTree[u].parent
        /\ mTree'[u].name = mTree[u].name
        /\ u # p => mTree'[u].children = mTree[u].children
  BY <1>1, <1>2, AddNodeShape DEF SameIdentity
<1>5. /\ DOMAIN mTree'[p].children = DOMAIN mTree[p].children \cup {n}
      /\ mTree'[p].children[n] = new
      /\ \A m \in DOMAIN mTree[p].children :
            m # n => mTree'[p].children[m] = mTree[p].children[m]
  <2>1. mTree'[p].children = Put(mTree[p].children, n, new)
    BY <1>1, <1>2, AddNodeShape
  <2> HIDE DEF new
  <2> QED BY <2>1 DEF Put
<1> HIDE DEF new
<1>6. /\ Root \in DOMAIN mTree'
      /\ mTree'[Root].parent = None
      /\ \A u \in DOMAIN mTree' : u < mUuidCtr'
  BY <1>2, <1>3, <1>4, Types DEF TreeConsistent, new, Uuid
<1>7. ParentLinks'
  <2>1. ASSUME NEW u \in DOMAIN mTree' \ {Root}
        PROVE  LET q == mTree'[u].parent IN
               /\ q \in DOMAIN mTree'
               /\ q < u
               /\ mTree'[u].name \in DOMAIN mTree'[q].children
               /\ mTree'[q].children[mTree'[u].name] = u
    <3>1. CASE u = new
      BY <3>1, <1>2, <1>3, <1>5 DEF TreeConsistent, new
    <3>2. CASE u # new
      <4> DEFINE q == mTree[u].parent
      <4>1. /\ u \in DOMAIN mTree \ {Root}
            /\ q \in DOMAIN mTree /\ q < u
            /\ mTree[u].name \in DOMAIN mTree[q].children
            /\ mTree[q].children[mTree[u].name] = u
        BY <3>2, <1>3 DEF TreeConsistent, ParentLinks
      <4>2. mTree'[u].parent = q /\ mTree'[u].name = mTree[u].name
        BY <4>1, <1>4
      <4>3. CASE q = p
        BY <4>1, <4>2, <4>3, <1>1, <1>3, <1>5
      <4>4. CASE q # p
        BY <4>1, <4>2, <4>4, <1>3, <1>4
      <4> QED BY <4>3, <4>4
    <3> QED BY <3>1, <3>2
  <2> QED BY <2>1 DEF ParentLinks
<1>8. ChildLinks'
  <2>1. ASSUME NEW q \in DOMAIN mTree', NEW m \in DOMAIN mTree'[q].children
        PROVE  LET u == mTree'[q].children[m] IN
               /\ u \in DOMAIN mTree' \ {Root}
               /\ mTree'[u].parent = q
               /\ mTree'[u].name = m
    <3>1. q \in DOMAIN mTree
      BY <1>3
    <3>2. CASE q = p /\ m = n
      BY <3>2, <1>2, <1>3, <1>5
    <3>3. CASE ~(q = p /\ m = n)
      <4>1. /\ m \in DOMAIN mTree[q].children
            /\ mTree'[q].children[m] = mTree[q].children[m]
        BY <3>1, <3>3, <1>4, <1>5
      <4>2. LET u == mTree[q].children[m] IN
            u \in DOMAIN mTree \ {Root} /\ mTree[u].parent = q /\ mTree[u].name = m
        BY <3>1, <4>1 DEF TreeConsistent, ChildLinks
      <4> QED BY <4>1, <4>2, <1>3, <1>4
    <3> QED BY <3>2, <3>3
  <2> QED BY <2>1 DEF ChildLinks
<1> QED BY <1>6, <1>7, <1>8 DEF TreeConsistent

\* DeleteRequest takes a leaf that is not the root, and its entry with it.
LEMMA RemovedConsistent ==
    ASSUME TypeOK, TreeConsistent, DeletesNode
    PROVE  TreeConsistent'
<1>1. PICK c \in Conn, t \in ReqId, u \in DOMAIN mTree :
        /\ DOMAIN mTree[u].children = {}
        /\ mTree[u].parent \in DOMAIN mTree
        /\ RemoveNode(c, t, u)
  BY DEF DeletesNode
<1> DEFINE p == mTree[u].parent
           n == mTree[u].name
<1>2. u # Root
  BY <1>1, Types, NoneAssumption DEF TreeConsistent
<1>3. /\ p \in DOMAIN mTree
      /\ n \in DOMAIN mTree[p].children
      /\ mTree[p].children[n] = u
  BY <1>1, <1>2 DEF TreeConsistent, ParentLinks
<1>4. /\ mUuidCtr' = mUuidCtr
      /\ DOMAIN mTree' = DOMAIN mTree \ {u}
      /\ \A v \in DOMAIN mTree' :
            /\ mTree'[v].parent = mTree[v].parent
            /\ mTree'[v].name = mTree[v].name
            /\ v # p => mTree'[v].children = mTree[v].children
            /\ v = p => mTree'[v].children = Erase(mTree[p].children, n)
  <2>1. /\ mUuidCtr' = mUuidCtr
        /\ DOMAIN mTree' = DOMAIN mTree \ {u}
        /\ \A v \in DOMAIN mTree' :
            /\ SameIdentity(v)
            /\ mTree'[v].children = IF v = p THEN Erase(mTree[v].children, n)
                                    ELSE mTree[v].children
    BY <1>1, RemoveNodeShape
  <2> HIDE DEF p, n
  <2> QED BY <2>1 DEF SameIdentity
<1> HIDE DEF p, n
<1>5. ASSUME p # u
      PROVE  /\ DOMAIN mTree'[p].children = DOMAIN mTree[p].children \ {n}
             /\ \A m \in DOMAIN mTree[p].children :
                    m # n => mTree'[p].children[m] = mTree[p].children[m]
  BY <1>3, <1>4, <1>5 DEF Erase
<1>6. /\ Root \in DOMAIN mTree'
      /\ mTree'[Root].parent = None
      /\ \A v \in DOMAIN mTree' : v < mUuidCtr'
  BY <1>2, <1>4 DEF TreeConsistent
<1>7. ParentLinks'
  <2>1. ASSUME NEW v \in DOMAIN mTree' \ {Root}
        PROVE  LET q == mTree'[v].parent IN
               /\ q \in DOMAIN mTree'
               /\ q < v
               /\ mTree'[v].name \in DOMAIN mTree'[q].children
               /\ mTree'[q].children[mTree'[v].name] = v
    <3> DEFINE q == mTree[v].parent
    <3>1. /\ v # u
          /\ q \in DOMAIN mTree /\ q < v
          /\ mTree[v].name \in DOMAIN mTree[q].children
          /\ mTree[q].children[mTree[v].name] = v
      BY <1>4 DEF TreeConsistent, ParentLinks
    <3>2. mTree'[v].parent = q /\ mTree'[v].name = mTree[v].name
      BY <1>4
    <3> HIDE DEF q
    <3>3. q # u
      BY <1>1, <3>1
    <3>4. CASE q = p
      BY <3>1, <3>2, <3>3, <3>4, <1>3, <1>4, <1>5
    <3>5. CASE q # p
      BY <3>1, <3>2, <3>3, <3>5, <1>4
    <3> QED BY <3>4, <3>5
  <2> QED BY <2>1 DEF ParentLinks
<1>8. ChildLinks'
  <2>1. ASSUME NEW q \in DOMAIN mTree', NEW m \in DOMAIN mTree'[q].children
        PROVE  LET v == mTree'[q].children[m] IN
               /\ v \in DOMAIN mTree' \ {Root}
               /\ mTree'[v].parent = q
               /\ mTree'[v].name = m
    <3> DEFINE v == mTree[q].children[m]
    <3>1. /\ q \in DOMAIN mTree /\ q # u
          /\ m \in DOMAIN mTree[q].children
          /\ mTree'[q].children[m] = v
          /\ ~(q = p /\ m = n)
      BY <1>4, <1>5
    <3>2. v \in DOMAIN mTree \ {Root} /\ mTree[v].parent = q /\ mTree[v].name = m
      BY <3>1 DEF TreeConsistent, ChildLinks
    <3>3. v # u
      BY <3>1, <3>2 DEF p, n
    <3> QED BY <3>1, <3>2, <3>3, <1>4
  <2> QED BY <2>1 DEF ChildLinks
<1> QED BY <1>6, <1>7, <1>8 DEF TreeConsistent

\* A step that keeps the tree keeps it consistent.
LEMMA KeptConsistent ==
    ASSUME TreeConsistent, TreeKept
    PROVE  TreeConsistent'
<1>1. /\ Root \in DOMAIN mTree'
      /\ mTree'[Root].parent = None
      /\ \A u \in DOMAIN mTree' : u < mUuidCtr'
  BY DEF TreeConsistent, TreeKept, SameIdentity
<1>2. ParentLinks'
  BY DEF TreeConsistent, ParentLinks, TreeKept, SameIdentity
<1>3. ChildLinks'
  BY DEF TreeConsistent, ChildLinks, TreeKept, SameIdentity
<1> QED BY <1>1, <1>2, <1>3 DEF TreeConsistent

\* Every step of the server keeps the tree consistent.
LEMMA TreeNext ==
    ASSUME TypeOK, TreeConsistent, Next
    PROVE  TreeConsistent'
  BY TreeSteps, AddedConsistent, RemovedConsistent, KeptConsistent, UnchangedTree
     DEF WritesNode

-----------------------------------------------------------------------------
(* Sessions.                                                               *)

\* No step forgets a session or moves it to another connection.
LEMMA SessionsFade ==
    ASSUME TypeOK, Next
    PROVE  \A s \in DOMAIN mSessions :
             s \in DOMAIN mSessions' /\ mSessions'[s] \in {mSessions[s], None}
<1>1. ASSUME NEW c \in Conn, NEW t \in ReqId, Signin(c, t)
      PROVE  \A s \in DOMAIN mSessions :
               s \in DOMAIN mSessions' /\ mSessions'[s] = mSessions[s]
  BY <1>1 DEF Signin, Emplace, Put
<1>2. ASSUME NEW c \in Conn, Disconnect(c)
      PROVE  \A s \in DOMAIN mSessions :
               s \in DOMAIN mSessions' /\ mSessions'[s] \in {mSessions[s], None}
  BY <1>2 DEF Disconnect, Abandoned, sessionVars, TypeOK
<1>3. ASSUME UNCHANGED sessionVars
      PROVE  mSessions' = mSessions
  BY <1>3 DEF sessionVars
<1>4. ASSUME NEW c \in Conn, Connect(c)
      PROVE  mSessions' = mSessions
  BY <1>4 DEF Connect, sessionVars
<1> QED BY <1>1, <1>2, <1>3, <1>4, SessionSteps DEF SessionStep

\* Signing in binds the connection to a new session that holds it, and leaving
\* takes the binding and the session's connection together.
LEMMA SessionsNext ==
    ASSUME TypeOK, SessionsConsistent, Next
    PROVE  SessionsConsistent'
<1>1. ASSUME NEW c \in Conn, NEW t \in ReqId, Signin(c, t)
      PROVE  SessionsConsistent'
  <2>1. /\ link' = link /\ link[c] = "open"
        /\ mSessionIdCtr \notin DOMAIN mSessions
        /\ mSessions' = Emplace(mSessions, mSessionIdCtr, c)
        /\ mConnectionToSessionId' = Emplace(mConnectionToSessionId, c, mSessionIdCtr)
    BY <1>1 DEF Signin, Receives, netVars, TypeOK
  <2> QED BY <2>1 DEF SessionsConsistent, Emplace, Put
<1>2. ASSUME NEW c \in Conn, Disconnect(c)
      PROVE  SessionsConsistent'
  <2>1. \A d \in Conn : d # c => link'[d] = link[d]
    BY <1>2 DEF Disconnect, TypeOK
  <2>2. CASE ~SignedIn(c)
    BY <1>2, <2>1, <2>2, Types DEF Disconnect, SignedIn, sessionVars, SessionsConsistent
  <2>3. CASE SignedIn(c)
    <3>1. /\ mSessions' = [mSessions EXCEPT ![mConnectionToSessionId[c]] = None]
          /\ mConnectionToSessionId' = Erase(mConnectionToSessionId, c)
      BY <1>2, <2>3 DEF Disconnect, Abandoned, Released
    <3>2. /\ DOMAIN mConnectionToSessionId' = DOMAIN mConnectionToSessionId \ {c}
          /\ \A d \in DOMAIN mConnectionToSessionId' :
                mConnectionToSessionId'[d] = mConnectionToSessionId[d]
      BY <3>1 DEF Erase
    <3>3. \A d \in DOMAIN mConnectionToSessionId' :
            mConnectionToSessionId[d] # mConnectionToSessionId[c]
      BY <2>3, <3>2 DEF SessionsConsistent, SignedIn
    <3> QED BY <2>1, <3>1, <3>2, <3>3, Types DEF SessionsConsistent
  <2> QED BY <2>2, <2>3
<1>3. ASSUME NEW c \in Conn, Connect(c)
      PROVE  SessionsConsistent'
  BY <1>3, Types DEF Connect, sessionVars, SessionsConsistent, TypeOK
<1>4. ASSUME UNCHANGED <<link, sessionVars>>
      PROVE  SessionsConsistent'
  BY <1>4 DEF sessionVars, SessionsConsistent
<1> QED BY <1>1, <1>2, <1>3, <1>4, SessionSteps DEF SessionStep

\* A node's owner signed in before it created the node.
LEMMA OwnersNext ==
    ASSUME TypeOK, TreeConsistent, SessionsConsistent, OwnersKnown, Next
    PROVE  OwnersKnown'
<1>1. DOMAIN mSessions \subseteq DOMAIN mSessions'
  BY SessionsFade
<1>2. CASE CreatesNode
  <2>1. PICK c \in Conn, t \in ReqId, p \in DOMAIN mTree, n \in Name :
            SignedIn(c) /\ AddNode(c, t, p, n)
    BY <1>2 DEF CreatesNode
  <2>2. /\ DOMAIN mTree' = DOMAIN mTree \cup {mUuidCtr}
        /\ mTree'[mUuidCtr].sessionId = mConnectionToSessionId[c]
        /\ \A u \in DOMAIN mTree : u # mUuidCtr =>
                mTree'[u].sessionId = mTree[u].sessionId
    <3>1. /\ DOMAIN mTree' = DOMAIN mTree \cup {mUuidCtr}
          /\ mTree'[mUuidCtr] = NewNode(n, mConnectionToSessionId[c], p)
          /\ \A u \in DOMAIN mTree : u # mUuidCtr => SameIdentity(u)
      BY <2>1, AddNodeShape
    <3> QED BY <3>1 DEF NewNode, SameIdentity
  <2>3. mConnectionToSessionId[c] \in DOMAIN mSessions
    BY <2>1 DEF SignedIn, SessionsConsistent
  <2> QED BY <1>1, <2>2, <2>3 DEF OwnersKnown
<1>3. CASE DeletesNode
  BY <1>1, <1>3, RemoveNodeShape, ZenonT(60) DEF DeletesNode, OwnersKnown, SameIdentity
<1>4. CASE TreeKept
  BY <1>1, <1>4 DEF OwnersKnown, TreeKept, SameIdentity
<1> QED BY <1>2, <1>3, <1>4, TreeSteps, UnchangedTree DEF WritesNode

\* Rebinding follows the session, subscribing binds the caller's own session,
\* and everything else drops listeners or leaves them: none leads astray.
LEMMA ListenersNext ==
    ASSUME TypeOK, TreeConsistent, SessionsConsistent, ListenersBound, Next
    PROVE  ListenersBound'
<1>1. \A s \in DOMAIN mSessions :
        s \in DOMAIN mSessions' /\ mSessions'[s] \in {mSessions[s], None}
  BY SessionsFade
<1>2. CASE CreatesNode
  <2>1. PICK c \in Conn, t \in ReqId, p \in DOMAIN mTree, n \in Name :
            SignedIn(c) /\ AddNode(c, t, p, n)
    BY <1>2 DEF CreatesNode
  <2>2. mUuidCtr \notin DOMAIN mTree
    BY Types DEF TreeConsistent
  <2>3. /\ DOMAIN mTree' = DOMAIN mTree \cup {mUuidCtr}
        /\ DOMAIN mTree'[mUuidCtr].listener = {}
        /\ \A u \in DOMAIN mTree : mTree'[u].listener = mTree[u].listener
    <3>1. /\ DOMAIN mTree' = DOMAIN mTree \cup {mUuidCtr}
          /\ mTree'[mUuidCtr] = NewNode(n, mConnectionToSessionId[c], p)
          /\ \A u \in DOMAIN mTree : u # mUuidCtr =>
                mTree'[u].listener = mTree[u].listener
      BY <2>1, AddNodeShape
    <3>2. DOMAIN EmptyMap = {}
      BY DEF EmptyMap
    <3> QED BY <2>2, <3>1, <3>2 DEF NewNode
  <2> QED BY <1>1, <2>3 DEF ListenersBound
<1>3. CASE DeletesNode
  <2>1. PICK c \in Conn, t \in ReqId, u \in DOMAIN mTree :
            mTree[u].parent \in DOMAIN mTree /\ RemoveNode(c, t, u)
    BY <1>3 DEF DeletesNode
  <2>2. /\ DOMAIN mTree' = DOMAIN mTree \ {u}
        /\ \A v \in DOMAIN mTree' : mTree'[v].listener = mTree[v].listener
    BY <2>1, RemoveNodeShape
  <2> QED BY <1>1, <2>2 DEF ListenersBound
<1>4. CASE WritesNode
  <2>1. PICK u \in DOMAIN mTree :
        /\ \/ mTree'[u].listener = Rebound(u)
           \/ \E c \in DOMAIN mConnectionToSessionId :
                mTree'[u].listener = Put(mTree[u].listener, mConnectionToSessionId[c], c)
           \/ \E s : mTree'[u].listener = Erase(mTree[u].listener, s)
        /\ \A w \in DOMAIN mTree : w # u => mTree'[w] = mTree[w]
        /\ TreeKept
        /\ UNCHANGED <<link, sessionVars>>
    BY <1>4 DEF WritesNode
  <2>2. DOMAIN mTree' = DOMAIN mTree /\ mSessions' = mSessions
    BY <2>1 DEF TreeKept, sessionVars
  <2>3. \A s \in DOMAIN mTree'[u].listener :
            /\ s \in DOMAIN mSessions
            /\ mSessions[s] \in {mTree'[u].listener[s], None}
    <3>1. CASE mTree'[u].listener = Rebound(u)
      BY <3>1 DEF Rebound, ListenersBound
    <3>2. ASSUME NEW c \in DOMAIN mConnectionToSessionId,
                 mTree'[u].listener = Put(mTree[u].listener, mConnectionToSessionId[c], c)
          PROVE  \A s \in DOMAIN mTree'[u].listener :
                    /\ s \in DOMAIN mSessions
                    /\ mSessions[s] \in {mTree'[u].listener[s], None}
      BY <3>2 DEF Put, ListenersBound, SessionsConsistent
    <3>3. ASSUME NEW k, mTree'[u].listener = Erase(mTree[u].listener, k)
          PROVE  \A s \in DOMAIN mTree'[u].listener :
                    /\ s \in DOMAIN mSessions
                    /\ mSessions[s] \in {mTree'[u].listener[s], None}
      BY <3>3 DEF Erase, ListenersBound
    <3> QED BY <2>1, <3>1, <3>2, <3>3
  <2> QED BY <2>1, <2>2, <2>3 DEF ListenersBound
<1>5. CASE UNCHANGED treeVars
  BY <1>1, <1>5 DEF treeVars, ListenersBound
<1> QED BY <1>2, <1>3, <1>4, <1>5, TreeSteps

\* The handlers that sign in or out, connect or close keep what leads to a
\* connection in step with what the connection is bound to.
LEMMA HoldersSessions ==
    ASSUME TypeOK, SessionsConsistent, HoldersSignedIn, NEW c \in Conn,
           Connect(c) \/ Disconnect(c) \/ \E t \in ReqId : Signin(c, t)
    PROVE  HoldersSignedIn'
<1>1. /\ mTree' = mTree
      /\ \A s \in DOMAIN mSessions : mSessions[s] # None => mSessions[s] \in Conn
      /\ \A u \in DOMAIN mTree : \A s \in DOMAIN mTree[u].listener :
            mTree[u].listener[s] \in Conn
  <2>1. mTree' = mTree
    BY DEF Connect, Disconnect, Signin, treeVars
  <2> QED BY <2>1, Types, NodeFields DEF IsMap, TypeOK
<1>2. CASE Connect(c)
  <2>1. /\ link[c] = "new"
        /\ \A d \in Conn : d # c => link'[d] = link[d]
        /\ UNCHANGED sessionVars
    BY <1>2 DEF Connect, TypeOK
  <2>2. ~SignedIn(c)
    BY <2>1 DEF SignedIn, SessionsConsistent
  <2> QED BY <1>1, <2>1, <2>2 DEF HoldersSignedIn, SignedIn, sessionVars
<1>3. CASE Disconnect(c)
  <2>1. /\ link'[c] = "closed"
        /\ \A d \in Conn : d # c => link'[d] = link[d]
    BY <1>3 DEF Disconnect, TypeOK
  <2>2. \A d \in Conn : d # c /\ SignedIn(d) =>
            SignedIn(d)' /\ mConnectionToSessionId'[d] = mConnectionToSessionId[d]
    BY <1>3 DEF Disconnect, Released, Erase, SignedIn, sessionVars
  <2>3. /\ DOMAIN mSessions' = DOMAIN mSessions
        /\ \A s \in DOMAIN mSessions : mSessions'[s] \in {mSessions[s], None}
    BY <1>3 DEF Disconnect, Abandoned, sessionVars, TypeOK
  <2> QED BY <1>1, <2>1, <2>2, <2>3 DEF HoldersSignedIn
<1>4. ASSUME NEW t \in ReqId, Signin(c, t)
      PROVE  HoldersSignedIn'
  <2>1. /\ link' = link
        /\ mSessionIdCtr \notin DOMAIN mSessions
        /\ DOMAIN mSessions' = DOMAIN mSessions \cup {mSessionIdCtr}
        /\ mSessions'[mSessionIdCtr] = c
        /\ \A s \in DOMAIN mSessions : mSessions'[s] = mSessions[s]
    BY <1>4 DEF Signin, Emplace, Put, netVars, TypeOK
  <2>2. /\ SignedIn(c)'
        /\ \A d \in Conn : SignedIn(d) =>
            SignedIn(d)' /\ mConnectionToSessionId'[d] = mConnectionToSessionId[d]
    BY <1>4 DEF Signin, Emplace, Put, SignedIn
  <2> QED BY <1>1, <2>1, <2>2 DEF HoldersSignedIn
<1> QED BY <1>2, <1>3, <1>4

\* Subscribing files the listener under the session of the caller, and all other
\* changes of the tree drop listeners or leave them.
LEMMA HoldersTree ==
    ASSUME TypeOK, TreeConsistent, SessionsConsistent, ListenersBound,
           HoldersSignedIn, Next, UNCHANGED <<link, sessionVars>>
    PROVE  HoldersSignedIn'
<1> DEFINE Current(l) == \A s \in DOMAIN l :
                link[l[s]] # "closed" =>
                    l[s] \in DOMAIN mConnectionToSessionId
                    /\ mConnectionToSessionId[l[s]] = s
<1>1. \A u \in DOMAIN mTree : Current(mTree[u].listener)
  BY DEF HoldersSignedIn, SignedIn
<1>2. SUFFICES \A u \in DOMAIN mTree' : Current(mTree'[u].listener)
  BY DEF HoldersSignedIn, SignedIn, sessionVars
<1>3. CASE CreatesNode
  <2>1. PICK c \in Conn, t \in ReqId, p \in DOMAIN mTree, n \in Name :
            SignedIn(c) /\ AddNode(c, t, p, n)
    BY <1>3 DEF CreatesNode
  <2>2. mUuidCtr \notin DOMAIN mTree
    BY Types DEF TreeConsistent
  <2>3. /\ DOMAIN mTree' = DOMAIN mTree \cup {mUuidCtr}
        /\ mTree'[mUuidCtr] = NewNode(n, mConnectionToSessionId[c], p)
        /\ \A u \in DOMAIN mTree : u # mUuidCtr =>
                mTree'[u].listener = mTree[u].listener
    BY <2>1, AddNodeShape
  <2>4. DOMAIN mTree'[mUuidCtr].listener = {}
    BY <2>3 DEF NewNode, EmptyMap
  <2> HIDE DEF Current
  <2>5. Current(mTree'[mUuidCtr].listener)
    BY <2>4 DEF Current
  <2> QED BY <1>1, <2>2, <2>3, <2>5
<1>4. CASE DeletesNode
  <2>1. PICK c \in Conn, t \in ReqId, u \in DOMAIN mTree :
            mTree[u].parent \in DOMAIN mTree /\ RemoveNode(c, t, u)
    BY <1>4 DEF DeletesNode
  <2>2. /\ DOMAIN mTree' = DOMAIN mTree \ {u}
        /\ \A v \in DOMAIN mTree' : mTree'[v].listener = mTree[v].listener
    BY <2>1, RemoveNodeShape
  <2> HIDE DEF Current
  <2> QED BY <1>1, <2>2
<1>5. CASE WritesNode
  <2>1. PICK u \in DOMAIN mTree :
        /\ \/ mTree'[u].listener = Rebound(u)
           \/ \E c \in DOMAIN mConnectionToSessionId :
                mTree'[u].listener = Put(mTree[u].listener, mConnectionToSessionId[c], c)
           \/ \E s : mTree'[u].listener = Erase(mTree[u].listener, s)
        /\ \A w \in DOMAIN mTree : w # u => mTree'[w] = mTree[w]
        /\ DOMAIN mTree' = DOMAIN mTree
    BY <1>5 DEF WritesNode, TreeKept
  <2>2. Current(mTree[u].listener)
    BY <1>1
  <2>3. ASSUME mTree'[u].listener = Rebound(u)
        PROVE  Current(mTree'[u].listener)
    BY <2>2, <2>3 DEF Rebound, ListenersBound
  <2>4. ASSUME NEW c \in DOMAIN mConnectionToSessionId,
               mTree'[u].listener = Put(mTree[u].listener, mConnectionToSessionId[c], c)
        PROVE  Current(mTree'[u].listener)
    BY <2>2, <2>4 DEF Put
  <2>5. ASSUME NEW s, mTree'[u].listener = Erase(mTree[u].listener, s)
        PROVE  Current(mTree'[u].listener)
    BY <2>2, <2>5 DEF Erase
  <2>6. Current(mTree'[u].listener)
    BY <2>1, <2>3, <2>4, <2>5
  <2> HIDE DEF Current
  <2> QED BY <1>1, <2>1, <2>6
<1>6. CASE UNCHANGED treeVars
  BY <1>1, <1>6 DEF treeVars
<1> HIDE DEF Current
<1> QED BY <1>3, <1>4, <1>5, <1>6, TreeSteps

\* Every step keeps it.
LEMMA HoldersNext ==
    ASSUME TypeOK, TreeConsistent, SessionsConsistent, ListenersBound,
           HoldersSignedIn, Next
    PROVE  HoldersSignedIn'
  BY HoldersSessions, HoldersTree, SessionSteps DEF SessionStep

-----------------------------------------------------------------------------
(* Null pointers.                                                          *)

\* The handlers that follow a pointer unchecked find it good, unless the request is
\* for the root.
LEMMA CrashNext ==
    ASSUME TreeConsistent, OwnersKnown, CrashesAtRootOnly, Next
    PROVE  CrashesAtRootOnly'
<1> USE DEF CrashesAtRootOnly, Answer, Ignore, Crash, netVars
<1>1. ASSUME NEW c \in Conn, NEW t \in ReqId, NEW u \in Uuid, Delete(c, t, u)
      PROVE  CrashesAtRootOnly'
  <2>1. u # Root /\ u \in DOMAIN mTree => mTree[u].parent \in DOMAIN mTree
    BY DEF TreeConsistent, ParentLinks
  <2> QED BY <1>1, <2>1 DEF Delete, RemoveNode
<1>2. ASSUME NEW c \in Conn, NEW t \in ReqId, NEW u \in Uuid, NEW p \in Param,
             RpcRequest(c, t, u, p)
      PROVE  CrashesAtRootOnly'
  <2>1. u # Root /\ u \in DOMAIN mTree => mTree[u].sessionId \in DOMAIN mSessions
    BY DEF OwnersKnown
  <2> QED BY <1>2, <2>1 DEF RpcRequest, Forward
<1>3. ASSUME NEW c \in Conn, NEW t \in ReqId, NEW p \in Uuid, NEW n \in Name,
             Create(c, t, p, n)
      PROVE  CrashesAtRootOnly'
  BY <1>3 DEF Create, AddNode
<1>4. ASSUME NEW c \in Conn, NEW t \in ReqId, NEW p \in Uuid,
             NEW n \in Name \cup {Dot}, NEW r \in BOOLEAN, TreeInfo(c, t, p, n, r)
      PROVE  CrashesAtRootOnly'
  BY <1>4 DEF TreeInfo
<1>5. ASSUME NEW c \in Conn, NEW t \in ReqId, NEW u \in Uuid,
             Get(c, t, u) \/ Subscribe(c, t, u) \/ Unsubscribe(c, t, u)
      PROVE  CrashesAtRootOnly'
  BY <1>5 DEF Get, Subscribe, Unsubscribe
<1>6. ASSUME NEW c \in Conn, NEW t \in ReqId, NEW u \in Uuid, NEW v \in Value,
             SetValue(c, t, u, v)
      PROVE  CrashesAtRootOnly'
  BY <1>6 DEF SetValue, Receives
<1>7. ASSUME NEW c \in Conn, NEW t \in ReqId, Signin(c, t) \/ Heartbeat(c, t)
      PROVE  CrashesAtRootOnly'
  BY <1>7 DEF Signin, Heartbeat
<1>8. ASSUME NEW c \in Conn, Connect(c) \/ Disconnect(c) \/ RpcReturn(c)
      PROVE  CrashesAtRootOnly'
  BY <1>8 DEF Connect, Disconnect, RpcReturn, RpcReply
<1>9. ASSUME Exit PROVE CrashesAtRootOnly'
  BY <1>9 DEF Exit
<1> QED BY <1>1, <1>2, <1>3, <1>4, <1>5, <1>6, <1>7, <1>8, <1>9 DEF Next, Request

-----------------------------------------------------------------------------
(* The inductive invariant and what follows from it.                       *)

\* A handler can rely on all of this together: a list of nodes has the right
\* type because the links of the tree lead to nodes, the owner of a new node is
\* known because the sender's session is, and a listener is its session's
\* connection because the sender is the one its session holds.
IInv ==
    /\ TypeOK
    /\ TreeConsistent
    /\ SessionsConsistent
    /\ OwnersKnown
    /\ ListenersBound
    /\ HoldersSignedIn

\* What the constructor leaves.
LEMMA IInvInit == Init => IInv
<1> SUFFICES ASSUME Init PROVE IInv
  OBVIOUS
<1>1. TypeOK /\ TreeConsistent
  BY TypeInit, TreeInit
<1>2. SessionsConsistent
  BY DEF Init, EmptyMap, SessionsConsistent
<1>3. /\ DOMAIN mTree = {Root}
      /\ mTree[Root] = NewNode(None, None, None)
  BY EmptyMapType DEF Init, Put, EmptyMap
<1>4. OwnersKnown
  BY <1>3 DEF OwnersKnown
<1>5. DOMAIN mTree[Root].listener = {}
  BY <1>3 DEF NewNode, EmptyMap
<1>6. ListenersBound
  BY <1>3, <1>5 DEF ListenersBound
<1>7. HoldersSignedIn
  BY <1>3, <1>5 DEF HoldersSignedIn, Init, EmptyMap
<1> QED BY <1>1, <1>2, <1>4, <1>6, <1>7 DEF IInv

\* Every handler keeps the types of all the server's tables.
LEMMA TypeNext ==
    ASSUME TypeOK, TreeConsistent, Next
    PROVE  TypeOK'
<1>1. IsMap(mTree', Uuid, Node) /\ mUuidCtr' \in 1 .. MaxUuid + 1
  BY TreeTypes
<1>2. /\ link' \in [Conn -> {"new", "open", "closed"}]
      /\ mSessionIdCtr' \in 0 .. MaxSession
      /\ mSessions' \in [0 .. mSessionIdCtr' - 1 -> Conn \cup {None}]
      /\ IsMap(mConnectionToSessionId', Conn, SessionId)
  BY SessionTypes
<1>3. Rest'
  BY RestSteps
<1> QED BY <1>1, <1>2, <1>3 DEF TypeOK, Rest

\* What every handler leaves.
LEMMA IInvNext == IInv /\ [Next]_vars => IInv'
<1>1. ASSUME IInv, Next PROVE IInv'
  BY <1>1, TypeNext, TreeNext, SessionsNext, OwnersNext, ListenersNext,
         HoldersNext DEF IInv
<1>2. ASSUME IInv, UNCHANGED vars PROVE IInv'
  BY <1>2 DEF IInv, TypeOK, TreeConsistent, ParentLinks, ChildLinks,
              SessionsConsistent, OwnersKnown, ListenersBound, HoldersSignedIn,
              SignedIn, IsMap, vars, netVars, sessionVars, treeVars, rpcVars
<1> QED BY <1>1, <1>2

-----------------------------------------------------------------------------
(* What is written to whom.                                                *)

\* A handler that writes changes no connection, and it writes to connections that
\* are open or that a session still holds, never to one that is gone.
LEMMA Addressees ==
    ASSUME IInv, Next, NEW x \in Conn, out'[x] # <<>>
    PROVE  link' = link /\ Alive(x)
<1> USE DEF Answer, netVars
<1>1. ASSUME NEW c \in Conn, link[c] = "open", NEW t, NEW b, out' = Reply(c, t, b)
      PROVE  Alive(x)
  BY <1>1 DEF Reply, Silence, Alive
<1>2. ~(out' = Silence)
  BY DEF Silence
<1>3. ASSUME NEW c \in Conn, link[c] = "open", NEW t, NEW b, NEW note,
             NEW to, IsFiniteSet(DOMAIN to),
             \A k \in DOMAIN to : to[k] = x => Alive(x),
             out' = ReplyAndNotify(c, t, b, note, to)
      PROVE  Alive(x)
  BY <1>3, FanOut DEF Alive
<1>4. TypeOK /\ OwnersKnown
  BY DEF IInv
<1>5. \A s \in DOMAIN mSessions : mSessions[s] = x => Alive(x)
  BY DEF Alive
<1>6. ASSUME NEW c \in Conn, NEW t \in ReqId, NEW u \in Uuid, Delete(c, t, u)
      PROVE  link' = link /\ Alive(x)
  BY <1>1, <1>2, <1>3, <1>4, <1>5, <1>6, FiniteFanOut
     DEF Delete, Receives, RemoveNode, Crash
<1>7. ASSUME NEW c \in Conn, NEW t \in ReqId, NEW p \in Uuid, NEW n \in Name,
             Create(c, t, p, n)
      PROVE  link' = link /\ Alive(x)
  BY <1>1, <1>2, <1>3, <1>4, <1>5, <1>7, FiniteFanOut
     DEF Create, Receives, AddNode, Ignore
<1>8. ASSUME NEW c \in Conn, NEW t \in ReqId, NEW p \in Uuid,
             NEW n \in Name \cup {Dot}, NEW r \in BOOLEAN, TreeInfo(c, t, p, n, r)
      PROVE  link' = link /\ Alive(x)
  BY <1>1, <1>8 DEF TreeInfo, Receives
<1>9. ASSUME NEW c \in Conn, NEW t \in ReqId, NEW u \in Uuid,
             Get(c, t, u) \/ Subscribe(c, t, u) \/ Unsubscribe(c, t, u)
      PROVE  link' = link /\ Alive(x)
  BY <1>1, <1>2, <1>9 DEF Get, Subscribe, Unsubscribe, Receives, Ignore
<1>10. ASSUME NEW c \in Conn, NEW t \in ReqId, NEW u \in Uuid, NEW v \in Value,
              SetValue(c, t, u, v)
       PROVE  link' = link /\ Alive(x)
  <2>1. link[c] = "open"
    BY <1>10 DEF SetValue, Receives
  <2>2. u \in DOMAIN mTree =>
            \A k \in DOMAIN Recipients(u) : Recipients(u)[k] = x => Alive(x)
    BY DEF Recipients
  <2> QED BY <1>2, <1>3, <1>4, <1>10, <2>1, <2>2, FiniteFanOut DEF SetValue, Ignore
<1>11. ASSUME NEW c \in Conn, NEW t \in ReqId, NEW u \in Uuid, NEW p \in Param,
              RpcRequest(c, t, u, p)
       PROVE  link' = link /\ Alive(x)
  <2>1. ASSUME NEW s \in DOMAIN mSessions, Forward(c, t, u, p, mSessions[s])
        PROVE  link' = link /\ Alive(x)
    BY <2>1, <1>5 DEF Forward, Reply, Silence
  <2> QED BY <1>1, <1>2, <1>11, <2>1 DEF RpcRequest, Receives, Ignore, Crash
<1>12. ASSUME NEW c \in Conn, NEW t \in TrId, NEW a \in RpcAnswer, RpcReply(c, t, a)
       PROVE  link' = link /\ Alive(x)
  <2>1. ASSUME NEW s \in DOMAIN mSessions, NEW id, out' = Reply(mSessions[s], id, a)
        PROVE  Alive(x)
    BY <2>1, <1>5 DEF Reply, Silence
  <2> QED BY <1>2, <1>12, <2>1 DEF RpcReply, Ignore
<1>13. ASSUME NEW c \in Conn, NEW t \in ReqId, Signin(c, t) \/ Heartbeat(c, t)
       PROVE  link' = link /\ Alive(x)
  BY <1>1, <1>13 DEF Signin, Heartbeat, Receives
<1>14. ~Exit /\ \A c \in Conn : ~Connect(c) /\ ~Disconnect(c)
  BY <1>2 DEF Exit, Connect, Disconnect
<1> QED BY <1>6, <1>7, <1>8, <1>9, <1>10, <1>11, <1>12, <1>13, <1>14
        DEF Next, Request, RpcReturn

\* A connection that signs in once is held by the session that it is bound to.
HeldOnce ==
    \A s \in DOMAIN mSessions : mSessions[s] # None =>
        /\ SignedIn(mSessions[s])
        /\ mConnectionToSessionId[mSessions[s]] = s

\* Without a second sign-in no handler makes a session that the disconnect of its
\* connection would miss.
LEMMA HeldOnceNext ==
    ASSUME "Resignin" \notin Ops, TypeOK, SessionsConsistent, HeldOnce, Next
    PROVE  HeldOnce'
<1>1. \A s \in DOMAIN mSessions : mSessions[s] # None => mSessions[s] \in Conn
  BY DEF TypeOK
<1>2. ASSUME NEW c \in Conn, NEW t \in ReqId, Signin(c, t)
      PROVE  HeldOnce'
  <2>1. ~SignedIn(c)
    BY <1>2 DEF Signin, Receives
  <2>2. /\ mSessionIdCtr \notin DOMAIN mSessions
        /\ DOMAIN mSessions' = DOMAIN mSessions \cup {mSessionIdCtr}
        /\ mSessions'[mSessionIdCtr] = c
        /\ \A s \in DOMAIN mSessions : mSessions'[s] = mSessions[s]
    BY <1>2 DEF Signin, Emplace, Put, TypeOK
  <2>3. /\ SignedIn(c)'
        /\ mConnectionToSessionId'[c] = mSessionIdCtr
        /\ \A d \in Conn : SignedIn(d) =>
            SignedIn(d)' /\ mConnectionToSessionId'[d] = mConnectionToSessionId[d]
    BY <1>2, <2>1 DEF Signin, Emplace, Put, SignedIn
  <2> QED BY <1>1, <2>2, <2>3 DEF HeldOnce
<1>3. ASSUME NEW c \in Conn, Disconnect(c)
      PROVE  HeldOnce'
  <2>1. CASE ~SignedIn(c)
    BY <1>3, <2>1 DEF Disconnect, HeldOnce, SignedIn, sessionVars
  <2>2. CASE SignedIn(c)
    <3>1. \A d \in Conn : d # c /\ SignedIn(d) =>
            SignedIn(d)' /\ mConnectionToSessionId'[d] = mConnectionToSessionId[d]
      BY <1>3, <2>2 DEF Disconnect, Released, Erase, SignedIn
    <3>2. /\ DOMAIN mSessions' = DOMAIN mSessions
          /\ \A s \in DOMAIN mSessions : mSessions'[s] =
                IF s = mConnectionToSessionId[c] THEN None ELSE mSessions[s]
      BY <1>3, <2>2 DEF Disconnect, Abandoned, TypeOK
    <3> QED BY <1>1, <3>1, <3>2 DEF HeldOnce
  <2> QED BY <2>1, <2>2
<1>4. ASSUME UNCHANGED sessionVars PROVE HeldOnce'
  BY <1>4 DEF sessionVars, HeldOnce, SignedIn
<1>5. ASSUME NEW c \in Conn, Connect(c) PROVE HeldOnce'
  BY <1>4, <1>5 DEF Connect
<1> QED BY <1>2, <1>3, <1>4, <1>5, SessionSteps DEF SessionStep

-----------------------------------------------------------------------------
\* The server never leaves the states of IInv.
THEOREM Invariance == Spec => []IInv
  BY IInvInit, IInvNext, PTL DEF Spec

\* Every table of ProtocolHandler keeps its type, whatever clients send.
THEOREM TypeCorrect == Spec => []TypeOK
<1>1. IInv => TypeOK
  BY DEF IInv
<1> QED BY <1>1, Invariance, PTL

\* CreateRequest and DeleteRequest never make the registry mTree and the
\* children maps disagree.
THEOREM TreeAlwaysConsistent == Spec => []TreeConsistent
<1>1. IInv => TreeConsistent
  BY DEF IInv
<1> QED BY <1>1, Invariance, PTL

\* Every bound connection is open and the one of its session, through any number
\* of sign-ins and disconnects.
THEOREM SessionsAlwaysConsistent == Spec => []SessionsConsistent
<1>1. IInv => SessionsConsistent
  BY DEF IInv
<1> QED BY <1>1, Invariance, PTL

\* The session of a node's creator can always be looked up by RpcRequest.
THEOREM OwnersAlwaysKnown == Spec => []OwnersKnown
<1>1. IInv => OwnersKnown
  BY DEF IInv
<1> QED BY <1>1, Invariance, PTL

\* Subscribing, unsubscribing, and the rebinding of SetValueRequest never leave
\* a listener bound to the connection of another session.
THEOREM ListenersAlwaysBound == Spec => []ListenersBound
<1>1. IInv => ListenersBound
  BY DEF IInv
<1> QED BY <1>1, Invariance, PTL

\* Whatever leads to a connection that is not closed leads to one that is signed
\* in, and UnsubscribeRequest finds every subscription of its sender.
THEOREM HoldersAlwaysSignedIn == Spec => []HoldersSignedIn
<1>1. IInv => HoldersSignedIn
  BY DEF IInv
<1> QED BY <1>1, Invariance, PTL

\* The unchecked pointers of DeleteRequest and RpcRequest are good for every node but
\* the root: if the server has crashed, a client has deleted the root when the tree
\* was empty, or called it.  No assumption is made on what clients send.
THEOREM CrashesOnlyAtRoot == Spec => []CrashesAtRootOnly
<1>1. Init => CrashesAtRootOnly
  BY DEF Init, CrashesAtRootOnly
<1>2. IInv /\ CrashesAtRootOnly /\ [Next]_vars => CrashesAtRootOnly'
  <2>1. ASSUME UNCHANGED vars, CrashesAtRootOnly PROVE CrashesAtRootOnly'
    BY <2>1 DEF vars, netVars, CrashesAtRootOnly
  <2> QED BY <2>1, CrashNext DEF IInv
<1> QED BY <1>1, <1>2, Invariance, PTL DEF Spec

\* When clients sign in once per connection, nothing the server writes, a broadcast,
\* an update, a forwarded call or an answer, is addressed to a closed connection.
THEOREM ClosedGetNothing ==
    ASSUME "Resignin" \notin Ops
    PROVE  Spec => []ClosedGetsNothing
<1>1. Init => HeldOnce /\ ClosedGetsNothing
  BY DEF Init, EmptyMap, HeldOnce, Silence, ClosedGetsNothing
<1>2. IInv /\ HeldOnce /\ ClosedGetsNothing /\ [Next]_vars =>
            HeldOnce' /\ ClosedGetsNothing'
  <2>1. ASSUME IInv, HeldOnce, Next
        PROVE  HeldOnce' /\ ClosedGetsNothing'
    <3>1. HeldOnce'
      BY <2>1, HeldOnceNext DEF IInv
    <3>2. ASSUME NEW x \in Conn, out'[x] # <<>>
          PROVE  link'[x] = "open"
      <4>1. link' = link /\ Alive(x)
        BY <2>1, <3>2, Addressees
      <4>2. ASSUME NEW s \in DOMAIN mSessions, mSessions[s] = x
            PROVE  link[x] = "open"
        BY <2>1, <4>2, NoneAssumption DEF HeldOnce, SignedIn, IInv, SessionsConsistent
      <4> QED BY <4>1, <4>2 DEF Alive
    <3> QED BY <3>1, <3>2 DEF ClosedGetsNothing
  <2>2. ASSUME HeldOnce, ClosedGetsNothing, UNCHANGED vars
        PROVE  HeldOnce' /\ ClosedGetsNothing'
    BY <2>2 DEF vars, netVars, sessionVars, HeldOnce, SignedIn, ClosedGetsNothing
  <2> QED BY <2>1, <2>2
<1> QED BY <1>1, <1>2, Invariance, PTL DEF Spec

\* No step of the server gives a uuid to a second node, or renames, moves or
\* reassigns a node.
THEOREM UuidsDenoteOneNode == Spec => UuidDenotesOneNode
<1> DEFINE Kept == \A u \in 0 .. mUuidCtr - 1 :
                      u \in DOMAIN mTree' => u \in DOMAIN mTree /\ SameIdentity(u)
<1>1. ASSUME IInv, Next PROVE Kept
  <2>1. TypeOK /\ TreeConsistent /\ mUuidCtr \in Nat
    BY <1>1, Types DEF IInv
  <2>2. CASE CreatesNode
    <3>1. PICK c \in Conn, t \in ReqId, p \in DOMAIN mTree, n \in Name :
              SignedIn(c) /\ AddNode(c, t, p, n)
      BY <2>2 DEF CreatesNode
    <3>2. /\ DOMAIN mTree' = DOMAIN mTree \cup {mUuidCtr}
          /\ \A u \in DOMAIN mTree : u # mUuidCtr => SameIdentity(u)
      BY <2>1, <3>1, AddNodeShape
    <3> QED BY <2>1, <3>2
  <2>3. CASE DeletesNode
    <3>1. PICK c \in Conn, t \in ReqId, u \in DOMAIN mTree :
              mTree[u].parent \in DOMAIN mTree /\ RemoveNode(c, t, u)
      BY <2>3 DEF DeletesNode
    <3>2. /\ DOMAIN mTree' = DOMAIN mTree \ {u}
          /\ \A v \in DOMAIN mTree' : SameIdentity(v)
      BY <2>1, <3>1, RemoveNodeShape
    <3> QED BY <3>2
  <2>4. CASE TreeKept
    BY <2>4 DEF TreeKept
  <2> QED BY <1>1, <2>1, <2>2, <2>3, <2>4, TreeSteps, UnchangedTree DEF WritesNode
<1>2. ASSUME UNCHANGED vars PROVE Kept
  BY <1>2 DEF vars, treeVars, SameIdentity
<1>3. IInv /\ [Next]_vars => [\A u \in 0 .. mUuidCtr - 1 :
        u \in DOMAIN mTree' =>
            /\ u \in DOMAIN mTree
            /\ mTree'[u].name = mTree[u].name
            /\ mTree'[u].parent = mTree[u].parent
            /\ mTree'[u].sessionId = mTree[u].sessionId]_vars
  BY <1>1, <1>2 DEF SameIdentity
<1> QED BY <1>3, Invariance, PTL DEF Spec, UuidDenotesOneNode

\* No step of the server forgets a session or hands it to another connection.
THEOREM SessionsAlwaysFade == Spec => SessionsOnlyFade
<1>1. IInv /\ [Next]_vars => [\A s \in DOMAIN mSessions :
        /\ s \in DOMAIN mSessions'
        /\ mSessions'[s] \in {mSessions[s], None}]_vars
  BY SessionsFade DEF IInv
<1> QED BY <1>1, Invariance, PTL DEF Spec, SessionsOnlyFade
=============================================================================
