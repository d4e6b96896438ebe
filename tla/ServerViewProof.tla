-------------------------- MODULE ServerViewProof --------------------------
(***************************************************************************)
(* Proofs about ServerView.  That the pictures are true follows from the   *)
(* promise of SharedTree, which says what each handler does to the tree    *)
(* and what everyone hears of it: the handlers themselves are opened once  *)
(* more only for the listings and for the updates.                         *)
(***************************************************************************)
EXTENDS ServerView, ServerTreeProof, WellFoundedInduction

-----------------------------------------------------------------------------
(* The listing of the whole tree.                                          *)

\* A set of uuids that is not empty has a least one.
LEMMA LeastUuid ==
    ASSUME NEW T, T \subseteq Nat, T # {}
    PROVE  \E m \in T : \A v \in T : ~(v < m)
<1>1. \E m \in T : \A v \in T : ~(<<v, m>> \in OpToRel(<, Nat))
  BY NatLessThanWellFounded, WFMin, Zenon
<1> QED BY <1>1, Zenon DEF OpToRel

\* All nodes are below the root: the parent of the least one that was not would be
\* smaller, so below the root, and it lists that node.
LEMMA AllBelowRoot ==
    ASSUME TypeOK, TreeConsistent
    PROVE  Subtree(Root) = DOMAIN mTree
<1> DEFINE Closed(S) == \A v \in S : \A e \in Entries(v) : e.uuid \in S
<1>1. ASSUME NEW S \in SUBSET DOMAIN mTree, Root \in S, Closed(S),
             NEW u \in DOMAIN mTree, u \notin S
      PROVE  FALSE
  <2> DEFINE Missed == DOMAIN mTree \ S
  <2>1. Missed \subseteq Nat /\ u \in Missed
    BY <1>1, Types DEF Uuid
  <2>2. PICK m \in Missed : \A v \in Missed : ~(v < m)
    BY <2>1, LeastUuid
  <2>3. /\ mTree[m].parent \in S
        /\ mTree[m].name \in DOMAIN mTree[mTree[m].parent].children
        /\ mTree[mTree[m].parent].children[mTree[m].name] = m
    BY <1>1, <2>2 DEF TreeConsistent, ParentLinks
  <2>4. \E e \in Entries(mTree[m].parent) : e.uuid = m
    <3> DEFINE p == mTree[m].parent
               e == [name |-> mTree[m].name, uuid |-> mTree[p].children[mTree[m].name],
                     parentUuid |-> p]
    <3>1. e \in Entries(p)
      BY <2>3 DEF Entries
    <3>2. e.uuid = m
      BY <2>3
    <3> QED BY <3>1, <3>2
  <2> QED BY <1>1, <2>2, <2>3, <2>4
<1> QED BY <1>1 DEF Subtree

\* What TreeInfoRequest lists for the root is the tree, every node of it under its
\* name and its parent.
LEMMA WholeListing ==
    ASSUME TypeOK, TreeConsistent
    PROVE  ToAddList(Root, TRUE) = TreeNodes
<1>1. ToAddList(Root, TRUE) = UNION {Entries(p) : p \in DOMAIN mTree}
  BY AllBelowRoot DEF ToAddList
<1>2. ASSUME NEW p \in DOMAIN mTree, NEW e \in Entries(p)
      PROVE  e \in TreeNodes
  <2>1. PICK n \in DOMAIN mTree[p].children :
            e = [name |-> n, uuid |-> mTree[p].children[n], parentUuid |-> p]
    BY DEF Entries
  <2> DEFINE u == mTree[p].children[n]
  <2>2. u \in DOMAIN mTree \ {Root} /\ mTree[u].parent = p /\ mTree[u].name = n
    BY DEF TreeConsistent, ChildLinks
  <2> QED BY <2>1, <2>2 DEF TreeNodes
<1>3. ASSUME NEW u \in DOMAIN mTree \ {Root}
      PROVE  \E p \in DOMAIN mTree :
                [name |-> mTree[u].name, uuid |-> u, parentUuid |-> mTree[u].parent]
                    \in Entries(p)
  <2> DEFINE p == mTree[u].parent
             n == mTree[u].name
             e == [name |-> n, uuid |-> mTree[p].children[n], parentUuid |-> p]
  <2>1. p \in DOMAIN mTree /\ n \in DOMAIN mTree[p].children
        /\ mTree[p].children[n] = u
    BY DEF TreeConsistent, ParentLinks
  <2>2. e \in Entries(p)
    BY <2>1 DEF Entries
  <2>3. e = [name |-> mTree[u].name, uuid |-> u, parentUuid |-> mTree[u].parent]
    BY <2>1
  <2> HIDE DEF e
  <2> QED BY <2>1, <2>2, <2>3, Zenon
<1>4. ToAddList(Root, TRUE) \subseteq TreeNodes
  BY <1>1, <1>2
<1>5. TreeNodes \subseteq UNION {Entries(p) : p \in DOMAIN mTree}
  BY <1>3 DEF TreeNodes
<1> QED BY <1>1, <1>4, <1>5

\* What it lists for any node is part of the tree.
LEMMA ListingsArePart ==
    ASSUME TypeOK, TreeConsistent, NEW p \in DOMAIN mTree
    PROVE  /\ Entries(p) \subseteq TreeNodes
           /\ \A r \in BOOLEAN : ToAddList(p, r) \subseteq TreeNodes
<1>1. \A q \in DOMAIN mTree : Entries(q) \subseteq TreeNodes
  BY WholeListing, AllBelowRoot DEF ToAddList
<1>2. Subtree(p) \subseteq DOMAIN mTree
  BY DEF Subtree
<1> QED BY <1>1, <1>2 DEF ToAddList

-----------------------------------------------------------------------------
(* What the messages of a handler say, change by change.                   *)

Addition(e) ==
    [does |-> "add", uuid |-> e.uuid, name |-> e.name, parent |-> e.parentUuid]
Removal(u) == [does |-> "remove", uuid |-> u]
Writing(u, v) == [does |-> "write", uuid |-> u, data |-> v]

\* The messages that stand behind what is heard.
LEMMA ChangesAre ==
    ASSUME NEW B
    PROVE  /\ \A e : Addition(e) \in ChangesIn(B) <=>
                \E m \in B : /\ m.type = "TreeUpdateNotification"
                             /\ \E x \in m.nodeToAddList : Addition(x) = Addition(e)
           /\ \A u : Removal(u) \in ChangesIn(B) <=>
                \E m \in B : /\ m.type = "TreeUpdateNotification"
                             /\ u \in m.nodeToDelete
           /\ \A u, v : Writing(u, v) \in ChangesIn(B) <=>
                \E m \in B : /\ m.type = "UpdateNotification"
                             /\ m.uuid = u /\ m.data = v
<1>1. \A d : d \in ChangesIn(B) <=>
        \/ \E m \in B : m.type = "TreeUpdateNotification" /\ d \in TreeChanges(m)
        \/ \E m \in B : m.type = "UpdateNotification" /\ d = ValueChange(m)
  BY DEF ChangesIn
<1>2. \A m, d : d \in TreeChanges(m) <=>
        \/ \E x \in m.nodeToAddList : d = Addition(x)
        \/ \E u \in m.nodeToDelete : d = Removal(u)
  BY DEF TreeChanges, Addition, Removal
<1>3. \A m, u, v : Writing(u, v) = ValueChange(m) <=> m.uuid = u /\ m.data = v
  BY DEF Writing, ValueChange
<1>4. \A e, u, m : Addition(e) # Removal(u) /\ Addition(e) # ValueChange(m)
  BY DEF Addition, Removal, ValueChange
<1>5. \A e, u, v : Addition(e) # Writing(u, v) /\ \A w : Removal(w) # Writing(u, v)
  BY DEF Addition, Removal, Writing
<1>6. \A u, m : Removal(u) # ValueChange(m)
  BY DEF Removal, ValueChange
<1>7. \A u, v : Removal(u) = Removal(v) <=> u = v
  BY DEF Removal
<1>8. ASSUME NEW e
      PROVE  Addition(e) \in ChangesIn(B) <=>
                \E m \in B : /\ m.type = "TreeUpdateNotification"
                             /\ \E x \in m.nodeToAddList : Addition(x) = Addition(e)
  BY <1>1, <1>2, <1>4
<1>9. ASSUME NEW u
      PROVE  Removal(u) \in ChangesIn(B) <=>
                \E m \in B : /\ m.type = "TreeUpdateNotification"
                             /\ u \in m.nodeToDelete
  BY <1>1, <1>2, <1>4, <1>6, <1>7
<1>10. ASSUME NEW u, NEW v
       PROVE  Writing(u, v) \in ChangesIn(B) <=>
                \E m \in B : /\ m.type = "UpdateNotification"
                             /\ m.uuid = u /\ m.data = v
  BY <1>1, <1>2, <1>3, <1>5
<1> QED BY <1>8, <1>9, <1>10

\* A node is what its entry says.
LEMMA SameEntry ==
    ASSUME NEW e \in NamedNode, NEW x \in NamedNode, Addition(x) = Addition(e)
    PROVE  x = e
<1>1. x.name = e.name /\ x.uuid = e.uuid /\ x.parentUuid = e.parentUuid
  BY DEF Addition
<1> QED BY <1>1 DEF NamedNode

\* The next picture, from the changes heard and the listings.
LEMMA ToldIs ==
    ASSUME NEW nodes, NEW bodies, bodies \subseteq Body, NEW e \in NamedNode
    PROVE  e \in Told(nodes, bodies) <=>
            /\ \/ e \in nodes
               \/ Addition(e) \in ChangesIn(bodies)
               \/ \E m \in bodies : m.type = "TreeInfoResponse" /\ e \in m.nodeToAddList
            /\ Removal(e.uuid) \notin ChangesIn(bodies)
<1>1. \A m \in bodies : m.type = "TreeUpdateNotification" =>
        m.nodeToAddList \subseteq NamedNode
  BY DEF Body, RpcAnswer
<1>2. Addition(e) \in ChangesIn(bodies) <=>
        \E m \in bodies : m.type = "TreeUpdateNotification" /\ e \in m.nodeToAddList
  BY <1>1, ChangesAre, SameEntry
<1>3. Removal(e.uuid) \in ChangesIn(bodies) <=>
        \E m \in bodies : m.type = "TreeUpdateNotification" /\ e.uuid \in m.nodeToDelete
  BY ChangesAre
<1> QED BY <1>2, <1>3 DEF Told

\* A picture is one of named nodes.
LEMMA ToldType ==
    ASSUME NEW nodes, nodes \subseteq NamedNode, NEW bodies, bodies \subseteq Body
    PROVE  Told(nodes, bodies) \subseteq NamedNode
<1>1. \A m \in bodies : m.type \in {"TreeUpdateNotification", "TreeInfoResponse"} =>
        m.nodeToAddList \subseteq NamedNode
  BY DEF Body, RpcAnswer
<1> QED BY <1>1 DEF Told

-----------------------------------------------------------------------------
(* Who lists and who updates.                                              *)

\* The messages to x are no listing and no update.
Plain(x) ==
    \A b \in Bodies(x)' : b.type \notin {"TreeInfoResponse", "UpdateNotification"}

\* Silence is plain, and so are a reply and a notification of the other types.
LEMMA PlainMessages ==
    ASSUME NEW x \in Conn, NEW c \in Conn, NEW t, NEW b,
           b.type \notin {"TreeInfoResponse", "UpdateNotification"},
           \/ out' = Silence
           \/ out' = Reply(c, t, b)
           \/ \E note, to : /\ note.type = "TreeUpdateNotification"
                            /\ IsFiniteSet(DOMAIN to)
                            /\ out' = ReplyAndNotify(c, t, b, note, to)
    PROVE  Plain(x)
<1>1. CASE out' = Silence
  BY <1>1 DEF Plain, Bodies, Silence
<1>2. CASE out' = Reply(c, t, b)
  BY <1>2, ReplyBodies DEF Plain
<1>3. ASSUME NEW note, NEW to, note.type = "TreeUpdateNotification",
             IsFiniteSet(DOMAIN to), out' = ReplyAndNotify(c, t, b, note, to)
      PROVE  Plain(x)
  BY <1>3, NotificationBodies DEF Plain
<1> QED BY <1>1, <1>2, <1>3

\* TreeInfoRequest alone answers with a listing, which is part of a tree that it
\* leaves alone, and SetValueRequest alone sends updates, each to a listener.
ListsOrUpdates(x) ==
    \A b \in Bodies(x)' :
        /\ b.type = "TreeInfoResponse" =>
            b.nodeToAddList \subseteq TreeNodes /\ UNCHANGED treeVars
        /\ b.type = "UpdateNotification" => b.uuid \in Subscribed(x)

LEMMA WhoSends ==
    ASSUME IInv, Next, NEW x \in Conn
    PROVE  ListsOrUpdates(x)
<1>1. ASSUME Plain(x) PROVE ListsOrUpdates(x)
  BY <1>1 DEF Plain, ListsOrUpdates
<1> USE DEF Answer, Ignore, Crash
<1>2. TypeOK /\ TreeConsistent /\ IsFiniteSet(DOMAIN mSessions)
  BY FiniteFanOut DEF IInv
<1>3. \A s \in DOMAIN mSessions : mSessions[s] # None => mSessions[s] \in Conn
  BY <1>2 DEF TypeOK
<1>4. ASSUME NEW c \in Conn, Connect(c) \/ Disconnect(c) PROVE Plain(x)
  BY <1>4 DEF Connect, Disconnect, Plain, Bodies, Silence
<1>5. ASSUME NEW c \in Conn, NEW t \in ReqId, Signin(c, t) \/ Heartbeat(c, t)
      PROVE  Plain(x)
  BY <1>5, PlainMessages DEF Signin, Heartbeat
<1>6. ASSUME NEW c \in Conn, NEW t, NEW type, NEW cause,
             type \notin {"TreeInfoResponse", "UpdateNotification"},
             \/ out' = Silence
             \/ out' = Reply(c, t, Result(type, cause))
      PROVE  Plain(x)
  <2>1. Result(type, cause).type = type
    BY DEF Result
  <2> QED BY <1>6, <2>1, PlainMessages
<1>7. ASSUME NEW c \in Conn, NEW t \in ReqId, NEW p \in Uuid, NEW n \in Name,
             Create(c, t, p, n)
      PROVE  Plain(x)
  <2>1. CASE AddNode(c, t, p, n)
    <3> DEFINE b == [type |-> "CreateAccept", uuid |-> FreshUuid]
               note == NodeAdded(n, FreshUuid, p)
    <3>1. /\ b.type = "CreateAccept"
          /\ note.type = "TreeUpdateNotification"
          /\ out' = ReplyAndNotify(c, t, b, note, mSessions)
      BY <2>1 DEF AddNode, NodeAdded
    <3> HIDE DEF b, note
    <3> QED BY <1>2, <3>1, PlainMessages
  <2> QED BY <1>6, <1>7, <2>1 DEF Create
<1>8. ASSUME NEW c \in Conn, NEW t \in ReqId, NEW u \in Uuid, Delete(c, t, u)
      PROVE  Plain(x)
  <2>1. CASE RemoveNode(c, t, u)
    <3>1. /\ NodeDeleted(u).type = "TreeUpdateNotification"
          /\ Result("DeleteResponse", "OK").type = "DeleteResponse"
      BY DEF NodeDeleted, Result
    <3> QED BY <1>2, <2>1, <3>1, PlainMessages DEF RemoveNode
  <2> QED BY <1>6, <1>8, <2>1 DEF Delete
<1>9. ASSUME NEW c \in Conn, NEW t \in ReqId, NEW u \in Uuid,
             Get(c, t, u) \/ Subscribe(c, t, u) \/ Unsubscribe(c, t, u)
      PROVE  Plain(x)
  <2>1. ASSUME out' = Reply(c, t, [type |-> "GetAccept", data |-> mTree[u].data])
        PROVE  Plain(x)
    BY <2>1, PlainMessages
  <2> QED BY <1>6, <1>9, <2>1 DEF Get, Subscribe, Unsubscribe
<1>10. ASSUME NEW c \in Conn, NEW t \in ReqId, NEW p \in Uuid,
              NEW n \in Name \cup {Dot}, NEW r \in BOOLEAN, TreeInfo(c, t, p, n, r)
       PROVE  ListsOrUpdates(x)
  <2>1. ASSUME NEW l, l \subseteq TreeNodes, UNCHANGED treeVars,
               out' = Reply(c, t, [type |-> "TreeInfoResponse", nodeToAddList |-> l])
        PROVE  ListsOrUpdates(x)
    <3>1. \A b \in Bodies(x)' : b = [type |-> "TreeInfoResponse", nodeToAddList |-> l]
      BY <2>1, ReplyBodies
    <3> QED BY <2>1, <3>1 DEF ListsOrUpdates
  <2>2. ASSUME p \in DOMAIN mTree, n \in DOMAIN mTree[p].children
        PROVE  LET u == mTree[p].children[n] IN
               {[name |-> n, uuid |-> u, parentUuid |-> p]} \cup ToAddList(u, r)
                    \subseteq TreeNodes
    <3> DEFINE u == mTree[p].children[n]
               e == [name |-> n, uuid |-> u, parentUuid |-> p]
    <3>1. u \in DOMAIN mTree
      BY <1>2, <2>2 DEF TreeConsistent, ChildLinks
    <3>2. e \in Entries(p)
      BY <2>2 DEF Entries
    <3> HIDE DEF u, e
    <3>3. {e} \cup ToAddList(u, r) \subseteq TreeNodes
      BY <1>2, <2>2, <3>1, <3>2, ListingsArePart
    <3> QED BY <3>3 DEF u, e
  <2>3. p \in DOMAIN mTree => ToAddList(p, r) \subseteq TreeNodes
    BY <1>2, ListingsArePart
  <2> QED BY <1>1, <1>6, <1>10, <2>1, <2>2, <2>3 DEF TreeInfo
<1>11. ASSUME NEW c \in Conn, NEW t \in ReqId, NEW u \in Uuid, NEW v \in Value,
              SetValue(c, t, u, v)
       PROVE  ListsOrUpdates(x)
  <2>1. CASE out' = Silence
    BY <1>1, <2>1 DEF Plain, Bodies, Silence
  <2>2. CASE out' # Silence
    <3> DEFINE note == [type |-> "UpdateNotification", uuid |-> u, data |-> v]
    <3>1. /\ u \in DOMAIN mTree
          /\ out' = ReplyAndNotify(c, t, [type |-> "SetValueAccept"], note,
                                   Recipients(u))
      BY <1>11, <2>2 DEF SetValue
    <3>2. ASSUME NEW k \in DOMAIN Recipients(u), Recipients(u)[k] = x
          PROVE  u \in Subscribed(x)
      <4>1. k \in DOMAIN Rebound(u) /\ Rebound(u)[k] = x
        BY <3>2 DEF Recipients
      <4> QED BY <3>1, <4>1, ReboundNothing DEF Subscribed
    <3>3. Bodies(x)' \subseteq {[type |-> "SetValueAccept"]}
                              \cup (IF u \in Subscribed(x) THEN {note} ELSE {})
      BY <1>2, <3>1, <3>2, FiniteFanOut, NotificationBodies
    <3> QED BY <3>3 DEF ListsOrUpdates
  <2> QED BY <2>1, <2>2
<1>12. ASSUME NEW c \in Conn, NEW t \in ReqId, NEW u \in Uuid, NEW p \in Param,
              RpcRequest(c, t, u, p)
       PROVE  Plain(x)
  <2>1. ASSUME NEW owner \in Conn, Forward(c, t, u, p, owner) PROVE Plain(x)
    BY <2>1, PlainMessages DEF Forward
  <2> QED BY <1>3, <1>6, <1>12, <2>1 DEF RpcRequest
<1>13. ASSUME NEW c \in Conn, NEW t \in TrId, NEW a \in RpcAnswer, RpcReply(c, t, a)
       PROVE  Plain(x)
  <2>1. a.type \notin {"TreeInfoResponse", "UpdateNotification"}
    BY DEF RpcAnswer
  <2>2. \/ out' = Silence
        \/ \E d \in Conn : \E id : out' = Reply(d, id, a)
    BY <1>3, <1>13 DEF RpcReply
  <2> QED BY <1>13, <2>1, <2>2, PlainMessages
<1>14. ASSUME Exit PROVE Plain(x)
  BY <1>14 DEF Exit, Plain, Bodies, Silence
<1> QED BY <1>1, <1>4, <1>5, <1>7, <1>8, <1>9, <1>10, <1>11, <1>12, <1>13, <1>14
        DEF Next, Request, RpcReturn

-----------------------------------------------------------------------------
(* The tree that is shown, step by step of the promise.                    *)

\* The entries of the nodes that clients are told of, from the shared tree alone.
Shown ==
    {e \in NamedNode :
        /\ e.uuid \in DOMAIN TreeOf \ {Root}
        /\ TreeOf[e.uuid].name = e.name
        /\ TreeOf[e.uuid].parent = e.parentUuid}

LEMMA TreeNodesShown == TypeOK /\ TreeConsistent => TreeNodes = Shown
<1> SUFFICES ASSUME TypeOK, TreeConsistent PROVE TreeNodes = Shown
  OBVIOUS
<1>1. Root \in DOMAIN mTree
  BY DEF TreeConsistent
<1>2. TreeNodes \subseteq NamedNode
  BY <1>1, WholeListing, ToAddListType
<1>3. ASSUME NEW e \in TreeNodes PROVE e \in Shown
  <2>1. PICK u \in DOMAIN mTree \ {Root} :
          e = [name |-> mTree[u].name, uuid |-> u, parentUuid |-> mTree[u].parent]
    BY DEF TreeNodes
  <2>2. e.uuid = u /\ e.name = mTree[u].name /\ e.parentUuid = mTree[u].parent
    BY <2>1
  <2> QED BY <1>2, <2>2 DEF Shown, TreeOf
<1>4. ASSUME NEW e \in Shown PROVE e \in TreeNodes
  <2>1. /\ e \in NamedNode /\ e.uuid \in DOMAIN mTree \ {Root}
        /\ e.name = mTree[e.uuid].name /\ e.parentUuid = mTree[e.uuid].parent
    BY DEF Shown, TreeOf
  <2>2. e = [name |-> e.name, uuid |-> e.uuid, parentUuid |-> e.parentUuid]
    BY <2>1 DEF NamedNode
  <2> QED BY <2>1, <2>2 DEF TreeNodes
<1> QED BY <1>3, <1>4

\* What the next handler shows, from the changes that anyone present heard of.
LEMMA ShownNext ==
    ASSUME IInv, Promise!SharedNext, NEW c \in Conn, c \in Here', NEW e \in NamedNode
    PROVE  e \in Shown' <=> /\ e \in Shown \/ Addition(e) \in Heard'[c]
                            /\ Removal(e.uuid) \notin Heard'[c]
<1> DEFINE Goal == e \in Shown' <=> /\ e \in Shown \/ Addition(e) \in Heard'[c]
                                    /\ Removal(e.uuid) \notin Heard'[c]
<1>1. \A x, w, u, v : /\ Addition(x) # Removal(w)
                       /\ Addition(x) # Writing(u, v)
                       /\ Removal(w) # Writing(u, v)
  BY DEF Addition, Removal, Writing
<1>2. ASSUME Heard' = Promise!Nobody, TreeOf' = TreeOf PROVE Goal
  BY <1>2 DEF Promise!Nobody, Shown
<1>3. CASE Promise!Look
  BY <1>2, <1>3 DEF Promise!Look
<1>4. ASSUME NEW d \in Conn, Promise!Enter(d) \/ Promise!Leave(d) PROVE Goal
  BY <1>2, <1>4 DEF Promise!Enter, Promise!Leave
<1>5. ASSUME NEW d \in Conn, NEW u \in Uuid, Promise!Join(d, u) \/ Promise!Quit(d, u)
      PROVE  Goal
  BY <1>2, <1>5 DEF Promise!Join, Promise!Quit
<1>6. ASSUME NEW u \in Uuid, Promise!Remove(u) PROVE Goal
  <2>1. /\ u # Root
        /\ DOMAIN TreeOf' = DOMAIN TreeOf \ {u}
        /\ \A w \in DOMAIN TreeOf' : TreeOf'[w] = TreeOf[w]
        /\ Heard'[c] = {Removal(u)}
    BY <1>6 DEF Promise!Remove, Promise!ToAll, Removal
  <2>2. Removal(e.uuid) \in Heard'[c] <=> e.uuid = u
    BY <2>1 DEF Removal
  <2> QED BY <1>1, <2>1, <2>2 DEF Shown
<1>7. ASSUME NEW u \in Uuid, NEW p \in Uuid, NEW n \in Name, Promise!Add(u, p, n)
      PROVE  Goal
  <2>1. u \notin DOMAIN TreeOf /\ u # Root
    <3>1. u \notin UuidsUsed
      BY <1>7 DEF Promise!Add
    <3>2. DOMAIN mTree \subseteq UuidsUsed /\ Root \in DOMAIN mTree
      BY Types DEF IInv, TreeConsistent, UuidsUsed, Uuid
    <3> QED BY <3>1, <3>2 DEF TreeOf
  <2> DEFINE new == [name |-> n, uuid |-> u, parentUuid |-> p]
  <2>2. /\ DOMAIN TreeOf' = DOMAIN TreeOf \cup {u}
        /\ TreeOf'[u].name = n /\ TreeOf'[u].parent = p
        /\ \A w \in DOMAIN TreeOf : TreeOf'[w] = TreeOf[w]
        /\ Heard'[c] = {Addition(new)}
    BY <1>7, <2>1 DEF Promise!Add, Promise!ToAll, Addition
  <2>3. Addition(e) \in Heard'[c] <=> e.uuid = u /\ e.name = n /\ e.parentUuid = p
    BY <2>2 DEF Addition
  <2> HIDE DEF new
  <2> QED BY <1>1, <2>1, <2>2, <2>3 DEF Shown
<1>8. ASSUME NEW u \in Uuid, NEW v \in Value, Promise!Write(u, v)
      PROVE  Goal
  <2>1. \A w \in DOMAIN TreeOf :
          TreeOf[w] = [name |-> mTree[w].name, parent |-> mTree[w].parent,
                       data |-> mTree[w].data]
    BY DEF TreeOf
  <2>2. /\ DOMAIN TreeOf' = DOMAIN TreeOf
        /\ \A w \in DOMAIN TreeOf :
            TreeOf'[w].name = TreeOf[w].name /\ TreeOf'[w].parent = TreeOf[w].parent
    BY <1>8, <2>1 DEF Promise!Write
  <2>3. Heard'[c] \subseteq {Writing(u, v)}
    BY <1>8 DEF Promise!Write, Promise!ToSubscribers, Writing
  <2>4. Addition(e) \notin Heard'[c] /\ Removal(e.uuid) \notin Heard'[c]
    BY <1>1, <2>3
  <2> QED BY <2>2, <2>4 DEF Shown
<1> QED BY <1>3, <1>4, <1>5, <1>6, <1>7, <1>8 DEF Promise!SharedNext

-----------------------------------------------------------------------------
(* The pictures.                                                           *)

\* A picture is inside the tree even while the connection is not signed in, when it
\* is empty, and a connection that has listed the tree is signed in: so that the
\* broadcast of every change finds each picture it could make untrue.
PicturesTrue ==
    \A c \in Conn :
        /\ view[c] \subseteq TreeNodes
        /\ c \in loaded => view[c] = TreeNodes /\ SignedIn(c)
        /\ ~SignedIn(c) => view[c] = {}

\* What every connection of the next state was sent.
LEMMA BodiesType == TypeOK => \A c \in Conn : Bodies(c) \subseteq Body
<1> SUFFICES ASSUME TypeOK, NEW c \in Conn PROVE Bodies(c) \subseteq Body
  OBVIOUS
<1>1. out[c] \in Seq(Message)
  BY DEF TypeOK
<1>2. \A i \in DOMAIN out[c] : out[c][i] \in Message
  BY <1>1
<1> QED BY <1>2 DEF Bodies, Message

\* What the types say of a state, and so of the next one.
WellTyped ==
    /\ TreeNodes = Shown
    /\ TreeNodes \subseteq NamedNode
    /\ \A c \in Conn : Bodies(c) \subseteq Body

LEMMA NextState == IInv' => WellTyped'
<1>1. IInv => WellTyped
  BY TreeNodesShown, BodiesType DEF IInv, Shown, WellTyped
<1> QED BY <1>1, PTL

\* A listing of the whole tree is answered with the tree.
LEMMA WholeAnswer ==
    ASSUME IInv, NEW c \in Conn, NEW t \in ReqId, TreeInfo(c, t, Root, Dot, TRUE)
    PROVE  \E b \in Bodies(c)' :
                b.type = "TreeInfoResponse" /\ b.nodeToAddList = TreeNodes
<1>1. Root \in DOMAIN mTree /\ ToAddList(Root, TRUE) = TreeNodes
  BY WholeListing DEF IInv, TreeConsistent
<1> DEFINE b == [type |-> "TreeInfoResponse", nodeToAddList |-> TreeNodes]
<1>2. out' = Reply(c, t, b)
  BY <1>1 DEF TreeInfo, Answer
<1>3. b.type = "TreeInfoResponse" /\ b.nodeToAddList = TreeNodes
  OBVIOUS
<1> HIDE DEF b
<1> QED BY <1>2, <1>3, ReplyBodies

\* No handler, and no client that joins late, makes a picture untrue.
LEMMA PicturesNext ==
    ASSUME IInv, IInv', view \in [Conn -> SUBSET NamedNode], PicturesTrue, ViewNext
    PROVE  PicturesTrue'
<1>1. ASSUME NEW c \in Conn, c \in Here', NEW e \in NamedNode
      PROVE  e \in view'[c] <=>
                /\ \/ e \in view[c] \/ Addition(e) \in Heard'[c]
                   \/ \E m \in Bodies(c)' :
                        m.type = "TreeInfoResponse" /\ e \in m.nodeToAddList
                /\ Removal(e.uuid) \notin Heard'[c]
  <2>1. view'[c] = Told(view[c], Bodies(c)')
    BY <1>1 DEF ViewNext, Observe, SignedIn, Here
  <2>2. link'[c] = "open"
    BY <1>1 DEF IInv, SessionsConsistent, Here
  <2>3. Heard'[c] = ChangesIn(Bodies(c)')
    BY <2>2 DEF Heard
  <2> DEFINE B == Bodies(c)'
  <2>4. B \subseteq Body
    BY NextState DEF WellTyped
  <2> HIDE DEF B
  <2> QED BY <2>1, <2>3, <2>4, ToldIs DEF B
<1>2. ASSUME NEW c \in Conn, c \in Here', NEW e \in NamedNode
      PROVE  e \in TreeNodes' <=> /\ e \in TreeNodes \/ Addition(e) \in Heard'[c]
                                  /\ Removal(e.uuid) \notin Heard'[c]
  <2>1. TreeNodes = Shown /\ TreeNodes' = Shown'
    BY TreeNodesShown, NextState DEF IInv, WellTyped
  <2>2. Promise!SharedNext
    BY RefinementNext DEF ViewNext
  <2> QED BY <1>2, <2>1, <2>2, ShownNext
<1>3. ASSUME NEW c \in Conn, c \in Here'
      PROVE  view'[c] \subseteq TreeNodes'
  <2>1. view'[c] \subseteq NamedNode
    BY ToldType, NextState, <1>3 DEF WellTyped, ViewNext, Observe, SignedIn, Here
  <2>2. ASSUME NEW e \in NamedNode, NEW m \in Bodies(c)',
               m.type = "TreeInfoResponse", e \in m.nodeToAddList
        PROVE  e \in TreeNodes
    BY <2>2, WhoSends DEF ViewNext, ListsOrUpdates
  <2>3. view[c] \subseteq TreeNodes
    BY DEF PicturesTrue
  <2> QED BY <1>1, <1>2, <1>3, <2>1, <2>2, <2>3
<1>4. ASSUME NEW c \in Conn, c \in loaded'
      PROVE  c \in Here' /\ TreeNodes' \subseteq view'[c]
  <2>1. /\ c \in Here'
        /\ c \in loaded \/ \E t \in ReqId : TreeInfo(c, t, Root, Dot, TRUE)
    BY <1>4 DEF ViewNext, Observe, SignedIn, Here
  <2>2. \A e \in TreeNodes : \/ e \in view[c]
                             \/ \E m \in Bodies(c)' : /\ m.type = "TreeInfoResponse"
                                                      /\ e \in m.nodeToAddList
    BY <2>1, WholeAnswer DEF PicturesTrue
  <2>3. TreeNodes' \subseteq NamedNode
    BY NextState DEF WellTyped
  <2> QED BY <1>1, <1>2, <2>1, <2>2, <2>3
<1>5. ASSUME NEW c \in Conn, c \notin Here'
      PROVE  view'[c] = {}
  BY <1>5 DEF ViewNext, Observe, SignedIn, Here
<1>6. ASSUME NEW c \in Conn
      PROVE  /\ view'[c] \subseteq TreeNodes'
             /\ c \in loaded' => view'[c] = TreeNodes' /\ c \in Here'
             /\ c \notin Here' => view'[c] = {}
  BY <1>3, <1>4, <1>5
<1> QED BY <1>6 DEF PicturesTrue, SignedIn, Here

-----------------------------------------------------------------------------
(* The shadows.                                                            *)

\* A shadow has the nodes that its connection is subscribed to.
ShadowsKept == \A c \in Conn : DOMAIN shadow[c] = Subscribed(c)

\* The data that a handler told c of u are those of the changes c heard of.
LEMMA UpdatesAre ==
    ASSUME NEW c \in Conn, NEW u
    PROVE  \A v : v \in Updates(c, u)' <=> Writing(u, v) \in ChangesIn(Bodies(c)')
<1> DEFINE B == Bodies(c)'
<1>1. \A v : v \in Updates(c, u)' <=>
        \E m \in B : m.type = "UpdateNotification" /\ m.uuid = u /\ m.data = v
  BY DEF Updates
<1> HIDE DEF B
<1>2. \A v : Writing(u, v) \in ChangesIn(B) <=>
        \E m \in B : m.type = "UpdateNotification" /\ m.uuid = u /\ m.data = v
  BY ChangesAre
<1> QED BY <1>1, <1>2 DEF B

\* An open connection is subscribed as the promise has it.
LEMMA SubscribedIs ==
    ASSUME NEW c \in Conn
    PROVE  /\ link[c] = "open" =>
                \A u : u \in Subscribed(c) <=> <<c, u>> \in Subscriptions
           /\ link'[c] = "open" =>
                \A u : u \in Subscribed(c)' <=> <<c, u>> \in Subscriptions'
  BY SubscriptionsAre DEF Hears, Subscribed

\* What a subscriber hears of a node is its new content, and if it hears nothing the
\* content stays.
LEMMA ContentNext ==
    ASSUME IInv, Promise!SharedNext,
           NEW c \in Conn, NEW u, <<c, u>> \in Subscriptions'
    PROVE  /\ \A v : Writing(u, v) \in Heard'[c] => TreeOf'[u].data = v
           /\ <<c, u>> \in Subscriptions /\ (\A v : Writing(u, v) \notin Heard'[c]) =>
                TreeOf'[u] = TreeOf[u]
<1> DEFINE Goal ==
        /\ \A v : Writing(u, v) \in Heard'[c] => TreeOf'[u].data = v
        /\ <<c, u>> \in Subscriptions /\ (\A v : Writing(u, v) \notin Heard'[c]) =>
                TreeOf'[u] = TreeOf[u]
<1>1. \A s \in Subscriptions : s[2] \in DOMAIN TreeOf
  BY DEF Subscriptions, TreeOf
<1>2. <<c, u>> \in Subscriptions => u \in DOMAIN TreeOf
  BY <1>1
<1>3. ASSUME Heard' = Promise!Nobody, TreeOf' = TreeOf PROVE Goal
  BY <1>3 DEF Promise!Nobody
<1>4. CASE Promise!Look
  BY <1>3, <1>4 DEF Promise!Look
<1>5. ASSUME NEW d \in Conn, Promise!Enter(d) \/ Promise!Leave(d) PROVE Goal
  BY <1>3, <1>5 DEF Promise!Enter, Promise!Leave
<1>6. ASSUME NEW d \in Conn, NEW w \in Uuid, Promise!Join(d, w) \/ Promise!Quit(d, w)
      PROVE  Goal
  BY <1>3, <1>6 DEF Promise!Join, Promise!Quit
<1>7. ASSUME NEW w \in Uuid, Promise!Remove(w) PROVE Goal
  <2>1. Heard'[c] \subseteq {Removal(w)} /\ \A v : Writing(u, v) # Removal(w)
    BY <1>7 DEF Promise!Remove, Promise!ToAll, Removal, Writing
  <2>2. u # w
    BY <1>7 DEF Promise!Remove
  <2>3. <<c, u>> \in Subscriptions => TreeOf'[u] = TreeOf[u]
    BY <1>2, <1>7, <2>2 DEF Promise!Remove
  <2> QED BY <2>1, <2>3
<1>8. ASSUME NEW w \in Uuid, NEW p \in Uuid, NEW n \in Name, Promise!Add(w, p, n)
      PROVE  Goal
  <2> DEFINE e == [name |-> n, uuid |-> w, parentUuid |-> p]
  <2>1. Heard'[c] \subseteq {Addition(e)} /\ \A v : Writing(u, v) # Addition(e)
    BY <1>8 DEF Promise!Add, Promise!ToAll, Addition, Writing
  <2>2. <<c, u>> \in Subscriptions /\ u # w => TreeOf'[u] = TreeOf[u]
    BY <1>2, <1>8 DEF Promise!Add
  <2>3. u # w
    <3>1. u \in DOMAIN mTree /\ w \notin UuidsUsed
      BY <1>2, <1>8 DEF Promise!Add, TreeOf
    <3>2. DOMAIN mTree \subseteq UuidsUsed
      BY Types DEF IInv, TreeConsistent, UuidsUsed, Uuid
    <3> QED BY <3>1, <3>2
  <2> QED BY <2>1, <2>2, <2>3
<1>9. ASSUME NEW w \in Uuid, NEW d \in Value, Promise!Write(w, d)
      PROVE  Goal
  <2>1. \A v : Writing(u, v) = Writing(w, d) <=> u = w /\ v = d
    BY DEF Writing
  <2>2. /\ Heard'[c] = IF <<c, w>> \in Subscriptions THEN {Writing(w, d)} ELSE {}
        /\ Subscriptions' = Subscriptions
    BY <1>9 DEF Promise!Write, Promise!ToSubscribers, Writing
  <2>3. TreeOf'[w].data = d
    BY <1>9 DEF Promise!Write, TreeOf
  <2>4. u # w => TreeOf'[u] = TreeOf[u]
    BY <1>2, <1>9, <2>2 DEF Promise!Write
  <2> QED BY <2>1, <2>2, <2>3, <2>4
<1> QED BY <1>4, <1>5, <1>6, <1>7, <1>8, <1>9 DEF Promise!SharedNext

\* A connection is subscribed to nothing before it is open, and never open again
\* after it was closed.
LEMMA SubscribersOpen ==
    ASSUME IInv, Next, NEW c \in Conn, link'[c] = "open", NEW u \in Subscribed(c)
    PROVE  link[c] = "open"
<1>1. link[c] \in {"new", "open", "closed"}
  BY DEF IInv, TypeOK
<1>2. link[c] # "closed"
  BY SessionSteps DEF SessionStep, Signin, Connect, Disconnect, netVars, IInv, TypeOK
<1>3. link[c] # "closed" => SignedIn(c)
  BY DEF Subscribed, IInv, HoldersSignedIn
<1> QED BY <1>1, <1>2, <1>3 DEF SignedIn, IInv, SessionsConsistent

\* No handler makes a shadow differ from the node, and a shadow of a new subscription
\* starts right.
LEMMA ShadowsNext ==
    ASSUME IInv, ShadowsKept, SubscriberUpToDate, ViewNext
    PROVE  ShadowsKept' /\ SubscriberUpToDate'
<1>1. ASSUME NEW c \in Conn
      PROVE  /\ DOMAIN shadow'[c] = Subscribed(c)'
             /\ \A u \in Subscribed(c)' : shadow'[c][u] =
                    IF Updates(c, u)' # {} THEN CHOOSE v \in Updates(c, u)' : TRUE
                    ELSE IF u \in DOMAIN shadow[c] THEN shadow[c][u]
                    ELSE mTree'[u].data
  BY DEF ViewNext, Observe
<1>2. ASSUME NEW c \in Conn, NEW u \in Subscribed(c)', link'[c] = "open"
      PROVE  shadow'[c][u] = mTree'[u].data
  <2>1. Next /\ Promise!SharedNext
    BY RefinementNext DEF ViewNext
  <2>2. <<c, u>> \in Subscriptions' /\ TreeOf'[u].data = mTree'[u].data
    BY <1>2, SubscribedIs DEF TreeOf, Subscribed
  <2>3. \A v : v \in Updates(c, u)' <=> Writing(u, v) \in Heard'[c]
    BY <1>2, UpdatesAre DEF Heard
  <2>4. CASE Updates(c, u)' # {}
    <3> DEFINE v == CHOOSE w \in Updates(c, u)' : TRUE
    <3>1. v \in Updates(c, u)' /\ shadow'[c][u] = v
      BY <1>1, <1>2, <2>4
    <3> HIDE DEF v
    <3> QED BY <2>1, <2>2, <2>3, <3>1, ContentNext
  <2>5. CASE Updates(c, u)' = {} /\ u \in Subscribed(c)
    <3>1. link[c] = "open"
      BY <1>2, <2>1, <2>5, SubscribersOpen
    <3>2. <<c, u>> \in Subscriptions /\ shadow[c][u] = mTree[u].data
      BY <2>5, <3>1, SubscribedIs DEF SubscriberUpToDate
    <3>3. TreeOf'[u] = TreeOf[u]
      BY <2>1, <2>2, <2>3, <2>5, <3>2, ContentNext
    <3>4. TreeOf[u].data = mTree[u].data
      BY <2>5 DEF Subscribed, TreeOf
    <3>5. shadow'[c][u] = shadow[c][u]
      BY <1>1, <1>2, <2>5 DEF ShadowsKept
    <3> QED BY <2>2, <3>2, <3>3, <3>4, <3>5
  <2>6. CASE Updates(c, u)' = {} /\ u \notin Subscribed(c)
    BY <1>1, <1>2, <2>6 DEF ShadowsKept
  <2> QED BY <2>4, <2>5, <2>6
<1> QED BY <1>1, <1>2 DEF ShadowsKept, SubscriberUpToDate

\* The pictures and shadows of every step have their types.
LEMMA ViewTypes ==
    ASSUME IInv, IInv', ViewTypeOK, ShadowsKept, ViewNext
    PROVE  ViewTypeOK'
<1>1. TypeOK'
  BY DEF IInv
<1>2. ASSUME NEW c \in Conn PROVE Bodies(c)' \subseteq Body
  BY NextState DEF WellTyped
<1>3. view' \in [Conn -> SUBSET NamedNode]
  <2>1. ASSUME NEW c \in Conn
        PROVE  Told(view[c], Bodies(c)') \subseteq NamedNode
    <3>1. view[c] \subseteq NamedNode
      BY DEF ViewTypeOK
    <3> QED BY <1>2, <3>1, ToldType
  <2> QED BY <2>1 DEF ViewNext, Observe
<1>4. loaded' \subseteq Conn
  BY DEF ViewNext, Observe
<1>5. ASSUME NEW c \in Conn PROVE IsMap(shadow'[c], Uuid, Value)
  <2>1. DOMAIN mTree' \subseteq Uuid /\ \A u \in DOMAIN mTree' : mTree'[u].data \in Value
    BY <1>1 DEF TypeOK, IsMap, Node
  <2>2. \A u \in Uuid : Updates(c, u)' \subseteq Value
    <3> DEFINE B == Bodies(c)'
    <3>1. \A b \in B : b.type = "UpdateNotification" => b.data \in Value
      BY <1>2 DEF Body, RpcAnswer
    <3> QED BY <3>1 DEF Updates
  <2>3. Subscribed(c)' \subseteq DOMAIN mTree'
    BY DEF Subscribed
  <2>4. \A u \in DOMAIN shadow[c] : shadow[c][u] \in Value
    BY DEF ViewTypeOK, IsMap
  <2>5. shadow'[c] = [u \in Subscribed(c)' |->
                        IF Updates(c, u)' # {} THEN CHOOSE v \in Updates(c, u)' : TRUE
                        ELSE IF u \in DOMAIN shadow[c] THEN shadow[c][u]
                        ELSE mTree'[u].data]
    BY DEF ViewNext, Observe
  <2>6. ASSUME NEW u \in Subscribed(c)'
        PROVE  shadow'[c][u] \in Value
    <3>1. Updates(c, u)' # {} => (CHOOSE v \in Updates(c, u)' : TRUE) \in Value
      BY <2>1, <2>2, <2>3, <2>6
    <3> QED BY <2>1, <2>3, <2>4, <2>5, <2>6, <3>1
  <2> QED BY <2>1, <2>3, <2>5, <2>6 DEF IsMap
<1> QED BY <1>1, <1>3, <1>4, <1>5 DEF ViewTypeOK

-----------------------------------------------------------------------------
(* The theorems.                                                           *)

\* The observed server is the server.
LEMMA ObservedServer == ViewSpec => Spec
<1>1. ViewInit => Init
  BY DEF ViewInit
<1>2. [ViewNext]_<<vars, viewVars>> => [Next]_vars
  BY DEF ViewNext
<1> QED BY <1>1, <1>2, PTL DEF ViewSpec, Spec

\* Beside the server's own invariant: why a picture stays true needs that the others
\* are empty or complete, and why a shadow does needs which nodes it has.
ViewIInv == ViewTypeOK /\ PicturesTrue /\ ShadowsKept /\ SubscriberUpToDate

LEMMA ViewIInvInit == ViewInit => ViewIInv
<1> SUFFICES ASSUME ViewInit PROVE ViewIInv
  OBVIOUS
<1>1. TypeOK /\ Init
  BY TypeInit DEF ViewInit
<1>2. \A c \in Conn : view[c] = {} /\ c \notin loaded /\ DOMAIN shadow[c] = {}
  BY EmptyMapType DEF ViewInit
<1>3. ViewTypeOK
  BY <1>1, EmptyMapType DEF ViewTypeOK, ViewInit
<1>4. \A c \in Conn : Subscribed(c) = {}
  <2>1. DOMAIN mTree = {Root} /\ mTree[Root] = NewNode(None, None, None)
    BY <1>1, EmptyMapType DEF Init, Put, EmptyMap
  <2>2. DOMAIN mTree[Root].listener = {}
    BY <2>1 DEF NewNode, EmptyMap
  <2> QED BY <2>1, <2>2 DEF Subscribed
<1> QED BY <1>2, <1>3, <1>4 DEF ViewIInv, PicturesTrue, ShadowsKept, SubscriberUpToDate

LEMMA ViewIInvNext ==
    ASSUME IInv, IInv', ViewIInv, [ViewNext]_<<vars, viewVars>>
    PROVE  ViewIInv'
<1>1. ASSUME ViewNext PROVE ViewIInv'
  <2>1. ViewTypeOK' /\ ShadowsKept' /\ SubscriberUpToDate'
    BY <1>1, ViewTypes, ShadowsNext DEF ViewIInv
  <2>2. PicturesTrue'
    BY <1>1, PicturesNext DEF ViewIInv, ViewTypeOK
  <2> QED BY <2>1, <2>2 DEF ViewIInv
<1>2. ASSUME UNCHANGED <<vars, viewVars>> PROVE ViewIInv'
  <2>1. UNCHANGED <<mTree, link, mConnectionToSessionId, view, loaded, shadow>>
    BY <1>2 DEF vars, viewVars, treeVars, netVars, sessionVars
  <2>2. \A c \in Conn : Subscribed(c)' = Subscribed(c)
    BY <2>1 DEF Subscribed
  <2>3. ViewTypeOK'
    BY <2>1 DEF IInv, ViewIInv, ViewTypeOK, IsMap
  <2> QED BY <2>1, <2>2, <2>3 DEF ViewIInv, PicturesTrue, TreeNodes, SignedIn,
                                 ShadowsKept, SubscriberUpToDate
<1> QED BY <1>1, <1>2

\* The observed server never leaves the states of ViewIInv.
THEOREM ViewInvariance == ViewSpec => []ViewIInv
<1>1. ViewSpec => []IInv
  BY ObservedServer, Invariance, PTL
<1>2. IInv /\ IInv' /\ ViewIInv /\ [ViewNext]_<<vars, viewVars>> => ViewIInv'
  BY ViewIInvNext
<1> QED BY <1>1, <1>2, ViewIInvInit, PTL DEF ViewSpec

\* The pictures are sets of named nodes and the shadows maps of values.
THEOREM ViewsTyped == ViewSpec => []ViewTypeOK
<1>1. ViewIInv => ViewTypeOK
  BY DEF ViewIInv
<1> QED BY <1>1, ViewInvariance, PTL

\* Whoever listed the tree once and applied the TreeUpdateNotifications since has
\* exactly the server's tree, and nobody has a node that is gone, whatever the
\* clients create, delete, set, call or leave.
THEOREM TreeAlwaysMirrored == ViewSpec => []MirrorsTree
<1>1. ViewIInv => MirrorsTree
  BY Types DEF ViewIInv, ViewTypeOK, PicturesTrue, MirrorsTree
<1> QED BY <1>1, ViewInvariance, PTL

\* Whoever fetched a node's data after subscribing and applied the UpdateNotifications
\* since has exactly the node's data.
THEOREM SubscribersAlwaysUpToDate == ViewSpec => []SubscriberUpToDate
<1>1. ViewIInv => SubscriberUpToDate
  BY DEF ViewIInv
<1> QED BY <1>1, ViewInvariance, PTL

\* No handler of the server tells the data of a node to a connection, open or closed,
\* that is not among the node's listeners.
THEOREM UpdatesStayPrivate == Spec => UpdatesOnlyToSubscribers
<1>1. ASSUME IInv, Next, NEW c \in Conn, NEW u \in Uuid, Updates(c, u)' # {}
      PROVE  u \in Subscribed(c)
  <2>1. \E b \in Bodies(c)' : b.type = "UpdateNotification" /\ b.uuid = u
    BY <1>1 DEF Updates
  <2> QED BY <1>1, <2>1, WhoSends DEF ListsOrUpdates
<1>2. IInv /\ [Next]_vars =>
        [\A c \in Conn, u \in Uuid : Updates(c, u)' # {} => u \in Subscribed(c)]_vars
  BY <1>1
<1> QED BY <1>2, Invariance, PTL DEF Spec, UpdatesOnlyToSubscribers
=============================================================================
