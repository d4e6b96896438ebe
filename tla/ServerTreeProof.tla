-------------------------- MODULE ServerTreeProof --------------------------
(***************************************************************************)
(* The proof that the server implements SharedTree, whatever its clients   *)
(* send: each handler is a step of the promise or leaves it alone.         *)
(***************************************************************************)
EXTENDS ServerTree, ProtocolHandlerProof

Notifications == {"TreeUpdateNotification", "UpdateNotification"}

-----------------------------------------------------------------------------
(* What messages say of the tree.                                          *)

\* Replies and calls say nothing of a change.
LEMMA RepliesSayNothing ==
    ASSUME NEW B, \A b \in B : b.type \notin Notifications
    PROVE  ChangesIn(B) = {}
  BY DEF ChangesIn, Notifications

\* A reply beside a notification adds nothing to it.
LEMMA NotificationSays ==
    ASSUME NEW b, NEW note, b.type \notin Notifications
    PROVE  ChangesIn({b} \cup {note}) = ChangesIn({note})
  BY DEF ChangesIn, Notifications

\* A notification of the tree says what its two lists say.
LEMMA TreeNotificationSays ==
    ASSUME NEW note, note.type = "TreeUpdateNotification"
    PROVE  ChangesIn({note}) = TreeChanges(note)
<1>1. /\ {b \in {note} : b.type = "TreeUpdateNotification"} = {note}
      /\ {b \in {note} : b.type = "UpdateNotification"} = {}
  OBVIOUS
<1>2. UNION {TreeChanges(m) : m \in {note}} = TreeChanges(note)
  OBVIOUS
<1> QED BY <1>1, <1>2 DEF ChangesIn

\* The notification of CreateRequest is that of one new node.
LEMMA AdditionSays ==
    ASSUME NEW n, NEW u, NEW p
    PROVE  ChangesIn({NodeAdded(n, u, p)}) =
                {[does |-> "add", uuid |-> u, name |-> n, parent |-> p]}
<1> DEFINE e == [name |-> n, uuid |-> u, parentUuid |-> p]
<1>1. TreeChanges(NodeAdded(n, u, p)) =
        {[does |-> "add", uuid |-> x.uuid, name |-> x.name, parent |-> x.parentUuid] :
            x \in {e}}
  BY DEF TreeChanges, NodeAdded
<1>2. NodeAdded(n, u, p).type = "TreeUpdateNotification"
  BY DEF NodeAdded
<1> QED BY <1>1, <1>2, TreeNotificationSays

\* That of DeleteRequest is that of one node less.
LEMMA DeletionSays ==
    ASSUME NEW u
    PROVE  ChangesIn({NodeDeleted(u)}) = {[does |-> "remove", uuid |-> u]}
<1>1. TreeChanges(NodeDeleted(u)) = {[does |-> "remove", uuid |-> u]}
  BY DEF TreeChanges, NodeDeleted
<1>2. NodeDeleted(u).type = "TreeUpdateNotification"
  BY DEF NodeDeleted
<1> QED BY <1>1, <1>2, TreeNotificationSays

\* A notification of a value says which one.
LEMMA ValueNotificationSays ==
    ASSUME NEW note, note.type = "UpdateNotification"
    PROVE  ChangesIn({note}) = {ValueChange(note)}
<1>1. /\ {b \in {note} : b.type = "TreeUpdateNotification"} = {}
      /\ {b \in {note} : b.type = "UpdateNotification"} = {note}
  OBVIOUS
<1> QED BY <1>1 DEF ChangesIn

\* That of SetValueRequest is that of one new content.
LEMMA UpdateSays ==
    ASSUME NEW u, NEW v
    PROVE  ChangesIn({[type |-> "UpdateNotification", uuid |-> u, data |-> v]}) =
                {[does |-> "write", uuid |-> u, data |-> v]}
<1> DEFINE note == [type |-> "UpdateNotification", uuid |-> u, data |-> v]
<1>1. note.type = "UpdateNotification" /\ note.uuid = u /\ note.data = v
  OBVIOUS
<1> HIDE DEF note
<1>2. ChangesIn({note}) = {[does |-> "write", uuid |-> u, data |-> v]}
  BY <1>1, ValueNotificationSays DEF ValueChange
<1> QED BY <1>2 DEF note
-----------------------------------------------------------------------------
(* What a handler's messages tell everyone.                                *)

\* Nothing is heard of a change when no notification is among the messages.
LEMMA NobodyHears ==
    ASSUME \A x \in Conn : \A b \in Bodies(x)' : b.type \notin Notifications
    PROVE  Heard' = Promise!Nobody
<1>1. \A x \in Conn : ChangesIn(Bodies(x)') = {}
  BY RepliesSayNothing
<1> QED BY <1>1 DEF Heard, Promise!Nobody

\* No messages.
LEMMA SilenceHeard ==
    ASSUME out' = Silence
    PROVE  Heard' = Promise!Nobody
<1>1. \A x \in Conn : Bodies(x)' = {}
  BY DEF Bodies, Silence
<1> QED BY <1>1, NobodyHears

\* One message to one connection.
LEMMA ReplyBodies ==
    ASSUME NEW c \in Conn, NEW t, NEW b, out' = Reply(c, t, b), NEW x \in Conn
    PROVE  Bodies(x)' = IF x = c THEN {b} ELSE {}
<1>1. ASSUME x = c PROVE Bodies(x)' = {b}
  <2>1. out'[x] = <<Packet(t, b)>>
    BY <1>1 DEF Reply, Silence
  <2>2. DOMAIN out'[x] = {1} /\ out'[x][1].message = b
    BY <2>1 DEF Packet
  <2> QED BY <2>2 DEF Bodies
<1>2. ASSUME x # c PROVE Bodies(x)' = {}
  BY <1>2 DEF Bodies, Reply, Silence
<1> QED BY <1>1, <1>2

\* One message to one connection that is no notification.
LEMMA ReplyHeard ==
    ASSUME NEW c \in Conn, NEW t, NEW b, b.type \notin Notifications,
           out' = Reply(c, t, b)
    PROVE  Heard' = Promise!Nobody
  BY ReplyBodies, NobodyHears

\* A reply, and a notification to the connections in `to'.
LEMMA NotificationBodies ==
    ASSUME NEW c \in Conn, NEW t, NEW b, NEW note,
           NEW to, IsFiniteSet(DOMAIN to),
           out' = ReplyAndNotify(c, t, b, note, to), NEW x \in Conn
    PROVE  Bodies(x)' = (IF x = c THEN {b} ELSE {})
                        \cup (IF \E k \in DOMAIN to : to[k] = x THEN {note} ELSE {})
<1> DEFINE s == out'[x]
<1>1. s = ReplyAndNotify(c, t, b, note, to)[x]
  OBVIOUS
<1> HIDE DEF s
<1>2. {s[i].message : i \in DOMAIN s} =
            (IF x = c THEN {b} ELSE {})
            \cup (IF \E k \in DOMAIN to : to[k] = x THEN {note} ELSE {})
  BY <1>1, FanOut
<1> QED BY <1>2 DEF Bodies, s

\* The open connections among those of `to' hear of a change, and nobody else.
HeardBy(to, change) ==
    \A x \in Conn :
        Heard'[x] = IF link[x] = "open" /\ \E k \in DOMAIN to : to[k] = x
                    THEN {change} ELSE {}

\* What the open connections hear of a reply that is no notification and of one
\* that is.
LEMMA NotificationHeard ==
    ASSUME NEW c \in Conn, NEW t, NEW b, b.type \notin Notifications,
           NEW note, NEW change, ChangesIn({note}) = {change},
           NEW to, IsFiniteSet(DOMAIN to), link' = link,
           out' = ReplyAndNotify(c, t, b, note, to)
    PROVE  HeardBy(to, change)
<1>1. ASSUME NEW x \in Conn
      PROVE  ChangesIn(Bodies(x)') =
                IF \E k \in DOMAIN to : to[k] = x THEN {change} ELSE {}
  <2>1. Bodies(x)' = (IF x = c THEN {b} ELSE {})
                     \cup (IF \E k \in DOMAIN to : to[k] = x THEN {note} ELSE {})
    BY NotificationBodies
  <2>2. CASE \E k \in DOMAIN to : to[k] = x
    <3>1. Bodies(x)' = {note} \/ Bodies(x)' = {b} \cup {note}
      BY <2>1, <2>2
    <3>2. ChangesIn(Bodies(x)') = {change}
      BY <3>1, NotificationSays
    <3> QED BY <3>2, <2>2
  <2>3. CASE ~\E k \in DOMAIN to : to[k] = x
    <3>1. \A a \in Bodies(x)' : a.type \notin Notifications
      BY <2>1, <2>3
    <3>2. ChangesIn(Bodies(x)') = {}
      BY <3>1, RepliesSayNothing
    <3> QED BY <3>2, <2>3
  <2> QED BY <2>2, <2>3
<1> QED BY <1>1 DEF Heard, HeardBy

\* A broadcast to all sessions reaches all that are present and nobody else that
\* is still connected: what sessions hold is signed in or closed.
LEMMA BroadcastHeard ==
    ASSUME IInv, NEW c \in Conn, NEW t, NEW b, b.type \notin Notifications,
           NEW note, NEW change, ChangesIn({note}) = {change},
           UNCHANGED <<netVars, sessionVars>>,
           out' = ReplyAndNotify(c, t, b, note, mSessions)
    PROVE  Heard' = Promise!ToAll(change)
<1>1. IsFiniteSet(DOMAIN mSessions)
  BY FiniteFanOut DEF IInv
<1>2. \A x \in Conn :
        Heard'[x] = IF link[x] = "open" /\ \E k \in DOMAIN mSessions : mSessions[k] = x
                    THEN {change} ELSE {}
  <2>1. link' = link
    BY DEF netVars
  <2>2. HeardBy(mSessions, change)
    BY <1>1, <2>1, NotificationHeard
  <2> QED BY <2>2 DEF HeardBy
<1>3. ASSUME NEW x \in Conn
      PROVE  link[x] = "open" /\ (\E k \in DOMAIN mSessions : mSessions[k] = x)
                <=> x \in Here
  <2>1. ASSUME link[x] = "open", NEW k \in DOMAIN mSessions, mSessions[k] = x
        PROVE  x \in Here
    <3>1. mSessions[k] # None /\ link[mSessions[k]] # "closed"
      BY <2>1, NoneAssumption
    <3>2. SignedIn(mSessions[k])
      BY <3>1 DEF IInv, HoldersSignedIn
    <3> QED BY <2>1, <3>2 DEF SignedIn, Here
  <2>2. ASSUME x \in Here
        PROVE  link[x] = "open" /\ \E k \in DOMAIN mSessions : mSessions[k] = x
    BY <2>2 DEF Here, IInv, SessionsConsistent
  <2> QED BY <2>1, <2>2
<1>4. Heard' = [x \in Conn |-> Heard'[x]]
  BY DEF Heard
<1>5. Promise!ToAll(change) = [x \in Conn |-> IF x \in Here THEN {change} ELSE {}]
  BY DEF Promise!ToAll
<1> QED BY <1>2, <1>3, <1>4, <1>5

-----------------------------------------------------------------------------
(* What a handler does to the shared state.                                *)

Hears(x, u) ==
    link[x] = "open" /\ \E s \in DOMAIN mTree[u].listener : mTree[u].listener[s] = x

\* A subscription is a pair of a connection and a node that it hears of.
LEMMA SubscriptionsAre ==
    /\ Subscriptions = {s \in Conn \X DOMAIN mTree : Hears(s[1], s[2])}
    /\ Subscriptions' = {s \in Conn \X DOMAIN mTree' : Hears(s[1], s[2])'}
  BY DEF Subscriptions, ListenersOf, Hears

\* The subscriptions of a step that changes who hears of nothing.
LEMMA SubscriptionsKept ==
    ASSUME DOMAIN mTree' = DOMAIN mTree,
           \A x \in Conn, u \in DOMAIN mTree : (Hears(x, u)' <=> Hears(x, u))
    PROVE  Subscriptions' = Subscriptions
  BY SubscriptionsAre

\* A handler that changes neither the tree nor who is connected, and says nothing
\* of the tree, leaves the promise alone.
LEMMA Looks ==
    ASSUME UNCHANGED <<link, mConnectionToSessionId, treeVars>>,
           Heard' = Promise!Nobody
    PROVE  Promise!Look
<1>1. TreeOf' = TreeOf /\ UuidsUsed' = UuidsUsed /\ Here' = Here
  BY DEF TreeOf, UuidsUsed, Here, treeVars
<1>2. Subscriptions' = Subscriptions
  BY DEF Subscriptions, ListenersOf, treeVars
<1> QED BY <1>1, <1>2 DEF Promise!Look

\* Every answer that changes nothing, every silent return and the crash.
LEMMA AnswersLook ==
    ASSUME NEW c \in Conn, NEW t, NEW b, b.type \notin Notifications,
           Answer(c, t, b) \/ Ignore \/ \E u : Crash(u)
    PROVE  Promise!Look
<1>1. Heard' = Promise!Nobody
  BY ReplyHeard, SilenceHeard DEF Answer, Ignore, Crash
<1> QED BY <1>1, Looks DEF Answer, Ignore, Crash, netVars, sessionVars

\* A connection that comes hears of no node yet.
LEMMA ConnectMaps ==
    ASSUME IInv, NEW c \in Conn, Connect(c)
    PROVE  Promise!Look
<1>1. /\ link[c] = "new" /\ link'[c] = "open"
      /\ \A x \in Conn : x # c => link'[x] = link[x]
      /\ UNCHANGED <<sessionVars, treeVars>>
      /\ Heard' = Promise!Nobody
  BY SilenceHeard DEF Connect, IInv, TypeOK
<1>2. ~SignedIn(c)
  BY <1>1 DEF IInv, SessionsConsistent, SignedIn
<1>3. ASSUME NEW x \in Conn, NEW u \in DOMAIN mTree
      PROVE  Hears(x, u)' <=> Hears(x, u)
  <2>1. CASE x = c
    <3>1. \A s \in DOMAIN mTree[u].listener : mTree[u].listener[s] # c
      BY <1>1, <1>2 DEF IInv, HoldersSignedIn
    <3> QED BY <2>1, <3>1, <1>1 DEF Hears, treeVars
  <2>2. CASE x # c
    BY <2>2, <1>1 DEF Hears, treeVars
  <2> QED BY <2>1, <2>2
<1>4. Subscriptions' = Subscriptions
  BY <1>1, <1>3, SubscriptionsKept DEF treeVars
<1>5. TreeOf' = TreeOf /\ UuidsUsed' = UuidsUsed /\ Here' = Here
  BY <1>1 DEF TreeOf, UuidsUsed, Here, treeVars, sessionVars
<1> QED BY <1>1, <1>4, <1>5 DEF Promise!Look

\* A connection that goes leaves with all its subscriptions, or was never there.
LEMMA DisconnectMaps ==
    ASSUME IInv, NEW c \in Conn, Disconnect(c)
    PROVE  Promise!Look \/ Promise!Leave(c)
<1>1. /\ link[c] = "open" /\ link'[c] = "closed"
      /\ \A x \in Conn : x # c => link'[x] = link[x]
      /\ UNCHANGED treeVars
      /\ Heard' = Promise!Nobody
  BY SilenceHeard DEF Disconnect, IInv, TypeOK
<1>2. TreeOf' = TreeOf /\ UuidsUsed' = UuidsUsed
  BY <1>1 DEF TreeOf, UuidsUsed, treeVars
<1>3. \A x \in Conn, u \in DOMAIN mTree : (Hears(x, u)' <=> x # c /\ Hears(x, u))
  BY <1>1 DEF Hears, treeVars
<1>4. DOMAIN mTree' = DOMAIN mTree
  BY <1>1 DEF treeVars
<1>5. CASE ~SignedIn(c)
  <2>1. \A u \in DOMAIN mTree : ~Hears(c, u)
    BY <1>1, <1>5 DEF Hears, IInv, HoldersSignedIn
  <2>2. \A x \in Conn, u \in DOMAIN mTree : (Hears(x, u)' <=> Hears(x, u))
    BY <1>3, <2>1
  <2>3. Subscriptions' = Subscriptions
    BY <1>4, <2>2, SubscriptionsKept
  <2>4. Here' = Here
    BY <1>5 DEF Disconnect, Here, sessionVars
  <2> QED BY <1>1, <1>2, <2>3, <2>4 DEF Promise!Look
<1>6. CASE SignedIn(c)
  <2>1. Here' = Here \ {c} /\ c \in Here
    BY <1>6 DEF Disconnect, Released, Erase, Here, SignedIn
  <2>2. Subscriptions' = {s \in Subscriptions : s[1] # c}
    <3>1. \A s \in Conn \X DOMAIN mTree :
            Hears(s[1], s[2])' <=> Hears(s[1], s[2]) /\ s[1] # c
      <4>1. ASSUME NEW x \in Conn, NEW u \in DOMAIN mTree
            PROVE  Hears(x, u)' <=> Hears(x, u) /\ x # c
        BY <1>3
      <4> QED BY <4>1
    <3> QED BY <1>4, <3>1, SubscriptionsAre
  <2> QED BY <1>1, <1>2, <2>1, <2>2 DEF Promise!Leave
<1> QED BY <1>5, <1>6

\* The first sign-in makes a client present, a second one changes nothing.
LEMMA SigninMaps ==
    ASSUME NEW c \in Conn, NEW t \in ReqId, Signin(c, t)
    PROVE  Promise!Enter(c)
<1>1. Heard' = Promise!Nobody
  BY ReplyHeard DEF Signin, Notifications
<1>2. Here' = Here \cup {c}
  BY DEF Signin, Here, Emplace, Put
<1>3. TreeOf' = TreeOf /\ UuidsUsed' = UuidsUsed /\ Subscriptions' = Subscriptions
  BY DEF Signin, TreeOf, UuidsUsed, Subscriptions, ListenersOf, treeVars, netVars
<1> QED BY <1>1, <1>2, <1>3 DEF Promise!Enter

-----------------------------------------------------------------------------
(* The handlers of the tree.                                               *)

\* A node whose parent is p hangs in p's children map under its name.
LEMMA SiblingsAreChildren ==
    ASSUME IInv, NEW p \in DOMAIN mTree, NEW v \in Promise!Siblings(p)
    PROVE  /\ v \in DOMAIN mTree /\ TreeOf[v].name = mTree[v].name
           /\ mTree[v].name \in DOMAIN mTree[p].children
<1>1. v \in DOMAIN mTree /\ mTree[v].parent = p /\ TreeOf[v].name = mTree[v].name
  BY DEF Promise!Siblings, TreeOf
<1>2. p \in Uuid /\ TreeConsistent
  BY Types DEF IInv
<1>3. v # Root
  BY <1>1, <1>2, NoneAssumption DEF TreeConsistent
<1> QED BY <1>1, <1>2, <1>3 DEF TreeConsistent, ParentLinks

\* CreateRequest: a name that is free in the children map is free in the whole
\* tree, the uuid is fresh, and everyone hears of the new node.
LEMMA AddNodeMaps ==
    ASSUME IInv, NEW c \in Conn, NEW t \in ReqId, NEW p \in Uuid, NEW n \in Name,
           p \in DOMAIN mTree, SignedIn(c), n \notin DOMAIN mTree[p].children,
           AddNode(c, t, p, n)
    PROVE  \E u \in Uuid : Promise!Add(u, p, n)
<1>1. TypeOK /\ TreeConsistent
  BY DEF IInv
<1>2. PICK new \in Nat : new = mUuidCtr /\ new \notin DOMAIN mTree
  BY <1>1, Types DEF TreeConsistent
<1>3. /\ new \in Uuid /\ mUuidCtr' = new + 1
      /\ DOMAIN mTree' = DOMAIN mTree \cup {new}
      /\ mTree'[new] = NewNode(n, mConnectionToSessionId[c], p)
      /\ \A u \in DOMAIN mTree :
            /\ SameIdentity(u)
            /\ mTree'[u].data = mTree[u].data
            /\ mTree'[u].listener = mTree[u].listener
  BY <1>1, <1>2, AddNodeShape
<1>4. UNCHANGED <<netVars, sessionVars>>
  BY DEF AddNode
<1>5. Here # {} /\ Here' = Here
  BY <1>4 DEF Here, SignedIn, sessionVars
<1>6. UuidsUsed' = UuidsUsed \cup {new} /\ new \notin UuidsUsed
  BY <1>1, <1>2, <1>3 DEF UuidsUsed, TypeOK
<1>7. \A v \in Promise!Siblings(p) : TreeOf[v].name # n
  BY SiblingsAreChildren
<1>8. Heard' = Promise!ToAll([does |-> "add", uuid |-> new, name |-> n, parent |-> p])
  <2> DEFINE b == [type |-> "CreateAccept", uuid |-> new]
             note == NodeAdded(n, new, p)
             change == [does |-> "add", uuid |-> new, name |-> n, parent |-> p]
  <2>1. b.type \notin Notifications
    BY DEF Notifications
  <2>2. ChangesIn({note}) = {change}
    BY AdditionSays
  <2>3. out' = ReplyAndNotify(c, t, b, note, mSessions)
    BY <1>2 DEF AddNode, FreshUuid
  <2> HIDE DEF b, note, change
  <2> QED BY <1>4, <2>1, <2>2, <2>3, BroadcastHeard DEF change
<1>9. Subscriptions' = Subscriptions
  <2>1. DOMAIN mTree'[new].listener = {}
    BY <1>3 DEF NewNode, EmptyMap
  <2>2. \A x \in Conn : ~Hears(x, new)'
    BY <2>1 DEF Hears
  <2>3. \A x \in Conn, u \in DOMAIN mTree : Hears(x, u)' <=> Hears(x, u)
    BY <1>3, <1>4 DEF Hears, netVars
  <2>4. \A s \in Conn \X DOMAIN mTree' :
            Hears(s[1], s[2])' <=> s[2] \in DOMAIN mTree /\ Hears(s[1], s[2])
    <3>1. ASSUME NEW x \in Conn, NEW u \in DOMAIN mTree'
          PROVE  Hears(x, u)' <=> u \in DOMAIN mTree /\ Hears(x, u)
      BY <1>2, <1>3, <2>2, <2>3
    <3> QED BY <3>1
  <2> QED BY <1>3, <2>4, SubscriptionsAre
<1>10. TreeOf' = [v \in DOMAIN TreeOf \cup {new} |->
                    IF v = new THEN [name |-> n, parent |-> p, data |-> Empty]
                    ELSE TreeOf[v]]
  <2>1. \A u \in DOMAIN mTree : /\ mTree'[u].name = mTree[u].name
                                /\ mTree'[u].parent = mTree[u].parent
                                /\ mTree'[u].data = mTree[u].data
    BY <1>3 DEF SameIdentity
  <2>2. /\ mTree'[new].name = n
        /\ mTree'[new].parent = p
        /\ mTree'[new].data = Empty
    BY <1>3 DEF NewNode
  <2> QED BY <1>2, <1>3, <2>1, <2>2 DEF TreeOf
<1>11. p \in DOMAIN TreeOf
  BY DEF TreeOf
<1>12. Promise!Add(new, p, n)
  BY <1>5, <1>6, <1>7, <1>8, <1>9, <1>10, <1>11 DEF Promise!Add
<1> QED BY <1>3, <1>12

\* DeleteRequest: a node without children has nothing below it in the whole tree,
\* and its subscriptions go with it.
LEMMA RemoveNodeMaps ==
    ASSUME IInv, NEW c \in Conn, NEW t \in ReqId, NEW u \in DOMAIN mTree,
           IsLeaf(u), mTree[u].parent \in DOMAIN mTree, RemoveNode(c, t, u)
    PROVE  Promise!Remove(u)
<1>1. TypeOK /\ TreeConsistent
  BY DEF IInv
<1>2. u # Root
  BY <1>1, Types, NoneAssumption DEF TreeConsistent
<1>3. /\ mUuidCtr' = mUuidCtr
      /\ DOMAIN mTree' = DOMAIN mTree \ {u}
      /\ \A v \in DOMAIN mTree' :
            /\ SameIdentity(v)
            /\ mTree'[v].data = mTree[v].data
            /\ mTree'[v].listener = mTree[v].listener
  BY <1>1, RemoveNodeShape
<1>4. UNCHANGED <<netVars, sessionVars>>
  BY DEF RemoveNode
<1>5. u \in DOMAIN TreeOf \ {Root}
  BY <1>2 DEF TreeOf
<1>6. Promise!Siblings(u) = {}
  BY SiblingsAreChildren DEF IsLeaf
<1>7. TreeOf' = [v \in DOMAIN TreeOf \ {u} |-> TreeOf[v]]
  BY <1>3 DEF TreeOf, SameIdentity
<1>8. Subscriptions' = {s \in Subscriptions : s[2] # u}
  <2>1. \A x \in Conn, v \in DOMAIN mTree' : Hears(x, v)' <=> Hears(x, v)
    BY <1>3, <1>4 DEF Hears, netVars
  <2>2. \A s \in Conn \X DOMAIN mTree' : Hears(s[1], s[2])' <=> Hears(s[1], s[2])
    BY <2>1
  <2>3. Conn \X DOMAIN mTree' = {s \in Conn \X DOMAIN mTree : s[2] # u}
    BY <1>3
  <2> QED BY <2>2, <2>3, SubscriptionsAre
<1>9. Heard' = Promise!ToAll([does |-> "remove", uuid |-> u])
  <2> DEFINE b == Result("DeleteResponse", "OK")
             note == NodeDeleted(u)
             change == [does |-> "remove", uuid |-> u]
  <2>1. b.type \notin Notifications
    <3>1. b.type = "DeleteResponse"
      BY DEF Result
    <3> QED BY <3>1 DEF Notifications
  <2>2. ChangesIn({note}) = {change}
    BY DeletionSays
  <2>3. out' = ReplyAndNotify(c, t, b, note, mSessions)
    BY DEF RemoveNode
  <2> HIDE DEF b, note, change
  <2> QED BY <1>4, <2>1, <2>2, <2>3, BroadcastHeard DEF change
<1>10. UuidsUsed' = UuidsUsed /\ Here' = Here
  BY <1>3, <1>4 DEF UuidsUsed, Here, sessionVars
<1> QED BY <1>5, <1>6, <1>7, <1>8, <1>9, <1>10 DEF Promise!Remove

-----------------------------------------------------------------------------
(* The handlers of values and subscriptions.                               *)

\* No listener needs rebinding: its session holds the same connection or none.
LEMMA ReboundNothing ==
    ASSUME IInv, NEW u \in DOMAIN mTree
    PROVE  /\ DOMAIN Rebound(u) = DOMAIN mTree[u].listener
           /\ \A s \in DOMAIN mTree[u].listener : Rebound(u)[s] = mTree[u].listener[s]
  BY DEF IInv, ListenersBound, Rebound

\* A step that changes the content or the listeners of u and nothing else of the
\* tree keeps its shape.
LEMMA ContentMaps ==
    ASSUME IInv, NEW u \in DOMAIN mTree, NEW v, NEW li,
           UNCHANGED <<netVars, sessionVars, mUuidCtr>>,
           \/ mTree' = [mTree EXCEPT ![u].data = v, ![u].listener = li]
           \/ mTree' = [mTree EXCEPT ![u].listener = li] /\ v = mTree[u].data
    PROVE  /\ TreeOf' = [TreeOf EXCEPT ![u].data = v]
           /\ UuidsUsed' = UuidsUsed /\ Here' = Here
           /\ DOMAIN mTree' = DOMAIN mTree
           /\ mTree'[u].listener = li
           /\ \A w \in DOMAIN mTree : w # u => mTree'[w] = mTree[w]
<1>1. mTree[u] \in Node
  BY Types DEF IInv
<1>2. /\ DOMAIN mTree' = DOMAIN mTree
      /\ \/ mTree'[u] = [mTree[u] EXCEPT !.data = v, !.listener = li]
         \/ mTree'[u] = [mTree[u] EXCEPT !.listener = li] /\ v = mTree[u].data
      /\ \A w \in DOMAIN mTree : w # u => mTree'[w] = mTree[w]
  OBVIOUS
<1>3. /\ mTree'[u].data = v
      /\ mTree'[u].listener = li
      /\ mTree'[u].name = mTree[u].name
      /\ mTree'[u].parent = mTree[u].parent
  BY <1>1, <1>2 DEF Node
<1>4. TreeOf' = [TreeOf EXCEPT ![u].data = v]
  BY <1>2, <1>3 DEF TreeOf
<1> QED BY <1>2, <1>3, <1>4 DEF UuidsUsed, Here, sessionVars

\* SetValueRequest: one content changes, and those that subscribed hear of it.
LEMMA SetValueMaps ==
    ASSUME IInv, NEW c \in Conn, NEW t \in ReqId, NEW u \in Uuid, NEW v \in Value,
           SetValue(c, t, u, v)
    PROVE  Promise!Look \/ Promise!Write(u, v)
<1>1. CASE u = Root /\ v = Terminate
  BY <1>1, Looks, SilenceHeard DEF SetValue, sessionVars
<1>2. CASE ~(u = Root /\ v = Terminate) /\ u \notin DOMAIN mTree
  BY <1>2, Looks, SilenceHeard DEF SetValue, Ignore, netVars, sessionVars
<1>3. CASE ~(u = Root /\ v = Terminate) /\ u \in DOMAIN mTree
  <2> DEFINE b == [type |-> "SetValueAccept"]
             note == [type |-> "UpdateNotification", uuid |-> u, data |-> v]
             change == [does |-> "write", uuid |-> u, data |-> v]
  <2>1. /\ mTree' = [mTree EXCEPT ![u].data = v, ![u].listener = Rebound(u)]
        /\ out' = ReplyAndNotify(c, t, b, note, Recipients(u))
        /\ UNCHANGED <<netVars, sessionVars, mUuidCtr>>
    BY <1>3 DEF SetValue
  <2>2. /\ TreeOf' = [TreeOf EXCEPT ![u].data = v]
        /\ UuidsUsed' = UuidsUsed /\ Here' = Here
        /\ DOMAIN mTree' = DOMAIN mTree
        /\ mTree'[u].listener = Rebound(u)
        /\ \A w \in DOMAIN mTree : w # u => mTree'[w] = mTree[w]
    BY <1>3, <2>1, ContentMaps
  <2>3. Subscriptions' = Subscriptions
    <3>1. ASSUME NEW x \in Conn, NEW w \in DOMAIN mTree
          PROVE  Hears(x, w)' <=> Hears(x, w)
      BY <1>3, <2>1, <2>2, ReboundNothing DEF Hears, netVars
    <3> QED BY <2>2, <3>1, SubscriptionsKept
  <2>4. ASSUME NEW x \in Conn
        PROVE  link[x] = "open" /\ (\E k \in DOMAIN Recipients(u) : Recipients(u)[k] = x)
                    <=> <<x, u>> \in Subscriptions
    <3>1. <<x, u>> \in Subscriptions <=> Hears(x, u)
      BY <1>3, SubscriptionsAre
    <3>2. link[x] = "open" => Alive(x)
      BY DEF Alive
    <3> QED BY <1>3, <3>1, <3>2, ReboundNothing DEF Hears, Recipients
  <2>5. \A x \in Conn :
            Heard'[x] = IF link[x] = "open" /\ \E k \in DOMAIN Recipients(u) : Recipients(u)[k] = x
                        THEN {change} ELSE {}
    <3>1. b.type \notin Notifications
      BY DEF Notifications
    <3>2. ChangesIn({note}) = {change}
      BY UpdateSays
    <3>3. PICK to : to = Recipients(u)
      OBVIOUS
    <3>4. IsFiniteSet(DOMAIN to) /\ link' = link
      BY <1>3, <2>1, <3>3, FiniteFanOut DEF IInv, netVars
    <3>5. out' = ReplyAndNotify(c, t, b, note, to)
      BY <2>1, <3>3
    <3> HIDE DEF b, note, change
    <3>6. HeardBy(to, change)
      BY <3>1, <3>2, <3>4, <3>5, NotificationHeard
    <3> QED BY <3>3, <3>6 DEF HeardBy
  <2>6. Heard' = Promise!ToSubscribers(u, change)
    <3>1. Heard' = [x \in Conn |-> Heard'[x]]
      BY DEF Heard
    <3> HIDE DEF change
    <3>2. Promise!ToSubscribers(u, change) =
            [x \in Conn |-> IF <<x, u>> \in Subscriptions THEN {change} ELSE {}]
      BY DEF Promise!ToSubscribers
    <3> QED BY <2>4, <2>5, <3>1, <3>2
  <2>7. u \in DOMAIN TreeOf
    BY <1>3 DEF TreeOf
  <2> QED BY <2>2, <2>3, <2>6, <2>7 DEF Promise!Write
<1> QED BY <1>1, <1>2, <1>3

\* SubscribeRequest: the session's entry leads to the caller from now on, and it
\* led to nobody else before.
LEMMA SubscribeMaps ==
    ASSUME IInv, NEW c \in Conn, NEW t \in ReqId, NEW u \in Uuid, Subscribe(c, t, u)
    PROVE  Promise!Look \/ Promise!Join(c, u)
<1> DEFINE sid == mConnectionToSessionId[c]
<1>1. CASE ~(u \in DOMAIN mTree /\ SignedIn(c))
  BY <1>1, AnswersLook DEF Subscribe, Result, Notifications
<1>2. CASE u \in DOMAIN mTree /\ SignedIn(c)
  <2>1. /\ mTree' = [mTree EXCEPT ![u].listener = Listening(u, c)]
        /\ out' = Reply(c, t, Result("SubscribeResponse", "OK"))
        /\ UNCHANGED <<netVars, sessionVars, mUuidCtr>>
    BY <1>2 DEF Subscribe
  <2>2. /\ TreeOf' = [TreeOf EXCEPT ![u].data = mTree[u].data]
        /\ UuidsUsed' = UuidsUsed /\ Here' = Here
        /\ DOMAIN mTree' = DOMAIN mTree
        /\ mTree'[u].listener = Listening(u, c)
        /\ \A w \in DOMAIN mTree : w # u => mTree'[w] = mTree[w]
    BY <1>2, <2>1, ContentMaps
  <2>3. TreeOf' = TreeOf
    BY <1>2, <2>2 DEF TreeOf
  <2>4. link[c] = "open" /\ link' = link
    BY <2>1 DEF Subscribe, Receives, netVars
  <2>5. \A x \in Conn, w \in DOMAIN mTree :
            Hears(x, w)' <=> Hears(x, w) \/ <<x, w>> = <<c, u>>
    <3>1. sid \in DOMAIN mTree[u].listener => mTree[u].listener[sid] = c
      <4>1. mSessions[sid] = c /\ c # None
        BY <1>2, NoneAssumption DEF IInv, SessionsConsistent, SignedIn
      <4> QED BY <1>2, <4>1 DEF IInv, ListenersBound
    <3> HIDE DEF sid
    <3>2. mTree'[u].listener = Put(mTree[u].listener, sid, c)
      BY <2>2 DEF Listening, sid
    <3>3. \A x \in Conn : Hears(x, u)' <=> Hears(x, u) \/ x = c
      BY <2>4, <3>1, <3>2 DEF Hears, Put
    <3> QED BY <2>2, <2>4, <3>3 DEF Hears
  <2>6. Subscriptions' = Subscriptions \cup {<<c, u>>}
    <3>1. \A s \in Conn \X DOMAIN mTree :
            Hears(s[1], s[2])' <=> Hears(s[1], s[2]) \/ s = <<c, u>>
      BY <2>5
    <3> QED BY <1>2, <2>2, <3>1, SubscriptionsAre
  <2>7. Heard' = Promise!Nobody
    BY <2>1, ReplyHeard DEF Result, Notifications
  <2>8. c \in Here /\ u \in DOMAIN TreeOf
    BY <1>2 DEF Here, SignedIn, TreeOf
  <2> QED BY <2>2, <2>3, <2>6, <2>7, <2>8 DEF Promise!Join
<1> QED BY <1>1, <1>2

\* UnsubscribeRequest: every subscription of the caller to the node is the one of
\* the session that is looked up.
LEMMA UnsubscribeMaps ==
    ASSUME IInv, NEW c \in Conn, NEW t \in ReqId, NEW u \in Uuid, Unsubscribe(c, t, u)
    PROVE  Promise!Look \/ Promise!Quit(c, u)
<1> DEFINE sid == mConnectionToSessionId[c]
<1>1. CASE ~(u \in DOMAIN mTree /\ SignedIn(c) /\ sid \in DOMAIN mTree[u].listener)
  BY <1>1, AnswersLook DEF Unsubscribe, Result, Notifications
<1>2. CASE u \in DOMAIN mTree /\ SignedIn(c) /\ sid \in DOMAIN mTree[u].listener
  <2>1. /\ mTree' = [mTree EXCEPT ![u].listener = Erase(mTree[u].listener, sid)]
        /\ out' = Reply(c, t, Result("UnsubscribeResponse", "OK"))
        /\ UNCHANGED <<netVars, sessionVars, mUuidCtr>>
    BY <1>2 DEF Unsubscribe
  <2>2. /\ TreeOf' = [TreeOf EXCEPT ![u].data = mTree[u].data]
        /\ UuidsUsed' = UuidsUsed /\ Here' = Here
        /\ DOMAIN mTree' = DOMAIN mTree
        /\ mTree'[u].listener = Erase(mTree[u].listener, sid)
        /\ \A w \in DOMAIN mTree : w # u => mTree'[w] = mTree[w]
    BY <1>2, <2>1, ContentMaps
  <2>3. TreeOf' = TreeOf
    BY <1>2, <2>2 DEF TreeOf
  <2>4. link[c] = "open" /\ link' = link
    BY <2>1 DEF Unsubscribe, Receives, netVars
  <2>5. mTree[u].listener[sid] = c
    <3>1. mSessions[sid] = c /\ c # None
      BY <1>2, NoneAssumption DEF IInv, SessionsConsistent, SignedIn
    <3> QED BY <1>2, <3>1 DEF IInv, ListenersBound
  <2>6. \A s \in DOMAIN mTree[u].listener : mTree[u].listener[s] = c => s = sid
    BY <1>2, <2>4 DEF IInv, HoldersSignedIn
  <2>7. \A x \in Conn, w \in DOMAIN mTree :
            Hears(x, w)' <=> Hears(x, w) /\ <<x, w>> # <<c, u>>
    <3> HIDE DEF sid
    <3>1. \A x \in Conn : Hears(x, u)' <=> Hears(x, u) /\ x # c
      BY <2>2, <2>4, <2>5, <2>6 DEF Hears, Erase
    <3> QED BY <2>2, <2>4, <3>1 DEF Hears
  <2>8. Subscriptions' = Subscriptions \ {<<c, u>>}
    <3>1. \A s \in Conn \X DOMAIN mTree :
            Hears(s[1], s[2])' <=> Hears(s[1], s[2]) /\ s # <<c, u>>
      BY <2>7
    <3> QED BY <2>2, <3>1, SubscriptionsAre
  <2>9. <<c, u>> \in Subscriptions
    BY <1>2, <2>4, <2>5, SubscriptionsAre DEF Hears
  <2>10. Heard' = Promise!Nobody
    BY <2>1, ReplyHeard DEF Result, Notifications
  <2> QED BY <2>2, <2>3, <2>8, <2>9, <2>10 DEF Promise!Quit
<1> QED BY <1>1, <1>2

-----------------------------------------------------------------------------
(* Remote calls.                                                           *)

\* A call that is forwarded, or its answer, says nothing of the tree.
LEMMA CallsMap ==
    ASSUME IInv, NEW c \in Conn,
           \/ \E t \in ReqId, u \in Uuid, p \in Param : RpcRequest(c, t, u, p)
           \/ RpcReturn(c)
    PROVE  Promise!Look
<1>1. \A s \in DOMAIN mSessions : mSessions[s] # None => mSessions[s] \in Conn
  BY DEF IInv, TypeOK
<1>2. ASSUME NEW t \in ReqId, NEW u \in Uuid, NEW p \in Param, RpcRequest(c, t, u, p)
      PROVE  Promise!Look
  <2>1. ASSUME NEW owner \in Conn, Forward(c, t, u, p, owner)
        PROVE  Promise!Look
    <3>1. Heard' = Promise!Nobody
      BY <2>1, ReplyHeard DEF Forward, Notifications
    <3> QED BY <2>1, <3>1, Looks DEF Forward, netVars, sessionVars
  <2>2. CASE Ignore \/ Crash(u)
    BY <2>2, SilenceHeard, Looks DEF Ignore, Crash, netVars, sessionVars
  <2>3. CASE Answer(c, t, Result("RpcReject", "NOT_FOUND"))
    BY <2>3, AnswersLook DEF Result, Notifications
  <2> QED BY <1>1, <1>2, <2>1, <2>2, <2>3 DEF RpcRequest
<1>3. ASSUME NEW t \in TrId, NEW answer \in RpcAnswer, RpcReply(c, t, answer)
      PROVE  Promise!Look
  <2>1. answer.type \notin Notifications
    BY DEF RpcAnswer, Notifications
  <2>2. CASE Ignore
    BY <2>2, SilenceHeard, Looks DEF Ignore, netVars, sessionVars
  <2>3. CASE t \in DOMAIN mTrIdTranslation
    <3>1. \/ out' = Silence
          \/ \E x \in Conn : \E id : out' = Reply(x, id, answer)
      BY <1>1, <1>3, <2>3 DEF RpcReply, Ignore
    <3>2. Heard' = Promise!Nobody
      BY <2>1, <3>1, SilenceHeard, ReplyHeard
    <3> QED BY <1>3, <2>3, <3>2, Looks DEF RpcReply, netVars, sessionVars
  <2> QED BY <1>3, <2>2, <2>3 DEF RpcReply
<1> QED BY <1>2, <1>3 DEF RpcReturn

-----------------------------------------------------------------------------
(* The refinement.                                                         *)

\* The constructor's tree is the promised one.
LEMMA RefinementInit == Init => Promise!SharedInit
<1> SUFFICES ASSUME Init PROVE Promise!SharedInit
  OBVIOUS
<1>1. DOMAIN mTree = {Root} /\ mTree[Root] = NewNode(None, None, None)
  BY EmptyMapType DEF Init, Put, EmptyMap
<1>2. TreeOf = [u \in {Root} |-> [name |-> None, parent |-> None, data |-> Empty]]
  BY <1>1 DEF TreeOf, NewNode
<1>3. UuidsUsed = {Root}
  BY DEF UuidsUsed, Init, Root
<1>4. Here = {}
  BY DEF Here, Init, EmptyMap
<1>5. Subscriptions = {}
  <2>1. DOMAIN mTree[Root].listener = {}
    BY <1>1 DEF NewNode, EmptyMap
  <2> QED BY <1>1, <2>1, SubscriptionsAre DEF Hears
<1>6. Heard = Promise!Nobody
  BY DEF Heard, Init, Promise!Nobody
<1> QED BY <1>2, <1>3, <1>4, <1>5, <1>6 DEF Promise!SharedInit

\* Every handler is a step of the promise, or leaves it alone.
LEMMA RefinementNext ==
    ASSUME IInv, Next
    PROVE  Promise!SharedNext
<1> USE DEF Promise!SharedNext
<1>1. ASSUME NEW c \in Conn, Connect(c) PROVE Promise!SharedNext
  BY <1>1, ConnectMaps
<1>2. ASSUME NEW c \in Conn, Disconnect(c) PROVE Promise!SharedNext
  BY <1>2, DisconnectMaps
<1>3. ASSUME NEW c \in Conn, NEW t \in ReqId, Signin(c, t)
      PROVE  Promise!SharedNext
  BY <1>3, SigninMaps
<1>4. ASSUME NEW c \in Conn, NEW t \in ReqId, Heartbeat(c, t)
      PROVE  Promise!SharedNext
  BY <1>4, AnswersLook DEF Heartbeat, Notifications
<1>5. ASSUME NEW c \in Conn, NEW t \in ReqId, NEW p \in Uuid, NEW n \in Name,
             Create(c, t, p, n)
      PROVE  Promise!SharedNext
  <2>1. CASE AddNode(c, t, p, n) /\ p \in DOMAIN mTree /\ SignedIn(c)
             /\ n \notin DOMAIN mTree[p].children
    BY <2>1, AddNodeMaps
  <2>2. ASSUME NEW cause, Answer(c, t, Result("CreateReject", cause)) \/ Ignore
        PROVE  Promise!SharedNext
    <3>1. Result("CreateReject", cause).type \notin Notifications
      BY DEF Result, Notifications
    <3>2. Promise!Look
      BY <2>2, <3>1, AnswersLook
    <3> QED BY <3>2
  <2> QED BY <1>5, <2>1, <2>2 DEF Create
<1>6. ASSUME NEW c \in Conn, NEW t \in ReqId, NEW p \in Uuid,
             NEW n \in Name \cup {Dot}, NEW r \in BOOLEAN, TreeInfo(c, t, p, n, r)
      PROVE  Promise!SharedNext
  <2>1. ASSUME NEW l, Answer(c, t, [type |-> "TreeInfoResponse", nodeToAddList |-> l])
        PROVE  Promise!SharedNext
    BY <2>1, AnswersLook DEF Notifications
  <2>2. ASSUME Answer(c, t, Result("TreeInfoErrorResponse", "NOT_FOUND"))
        PROVE  Promise!SharedNext
    BY <2>2, AnswersLook DEF Result, Notifications
  <2> QED BY <1>6, <2>1, <2>2 DEF TreeInfo
<1>7. ASSUME NEW c \in Conn, NEW t \in ReqId, NEW u \in Uuid, Delete(c, t, u)
      PROVE  Promise!SharedNext
  <2>1. CASE RemoveNode(c, t, u) /\ u \in DOMAIN mTree /\ IsLeaf(u)
             /\ mTree[u].parent \in DOMAIN mTree
    BY <2>1, RemoveNodeMaps
  <2>2. ASSUME NEW cause, Answer(c, t, Result("DeleteResponse", cause)) \/ Crash(u)
        PROVE  Promise!SharedNext
    BY <2>2, AnswersLook DEF Result, Notifications
  <2> QED BY <1>7, <2>1, <2>2 DEF Delete
<1>8. ASSUME NEW c \in Conn, NEW t \in ReqId, NEW u \in Uuid, Get(c, t, u)
      PROVE  Promise!SharedNext
  BY <1>8, AnswersLook DEF Get, Result, Notifications
<1>9. ASSUME NEW c \in Conn, NEW t \in ReqId, NEW u \in Uuid, Subscribe(c, t, u)
      PROVE  Promise!SharedNext
  BY <1>9, SubscribeMaps
<1>10. ASSUME NEW c \in Conn, NEW t \in ReqId, NEW u \in Uuid, Unsubscribe(c, t, u)
       PROVE  Promise!SharedNext
  BY <1>10, UnsubscribeMaps
<1>11. ASSUME NEW c \in Conn, NEW t \in ReqId, NEW u \in Uuid, NEW v \in Value,
              SetValue(c, t, u, v)
       PROVE  Promise!SharedNext
  BY <1>11, SetValueMaps
<1>12. ASSUME NEW c \in Conn, RpcReturn(c) PROVE Promise!SharedNext
  BY <1>12, CallsMap
<1>13. ASSUME NEW c \in Conn, NEW t \in ReqId, NEW u \in Uuid, NEW p \in Param,
              RpcRequest(c, t, u, p)
       PROVE  Promise!SharedNext
  BY <1>13, CallsMap
<1>14. ASSUME Exit PROVE Promise!SharedNext
  BY <1>14, SilenceHeard, Looks DEF Exit, sessionVars
<1> QED BY <1>1, <1>2, <1>3, <1>4, <1>5, <1>6, <1>7, <1>8, <1>9, <1>10, <1>11,
           <1>12, <1>13, <1>14 DEF Next, Request

\* The server of ProtocolHandler implements the shared tree: whatever clients send,
\* sign-ins repeated and requests for the root included, each handler adds, removes
\* or writes one node as promised, tells all that are present and nobody else of
\* it, and keeps who is present and who is subscribed.
THEOREM Refinement == Spec => KeepsPromise
<1>1. IInv /\ [Next]_vars => [Promise!SharedNext]_(Promise!sharedVars)
  <2>1. ASSUME UNCHANGED vars PROVE UNCHANGED Promise!sharedVars
    BY <2>1 DEF vars, netVars, sessionVars, treeVars, Promise!sharedVars, TreeOf,
                UuidsUsed, Here, Subscriptions, ListenersOf, Heard, Bodies
  <2> QED BY <2>1, RefinementNext
<1> QED BY <1>1, RefinementInit, Invariance, PTL
        DEF Spec, KeepsPromise, Promise!SharedSpec
=============================================================================
