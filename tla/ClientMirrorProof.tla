------------------------- MODULE ClientMirrorProof -------------------------
(***************************************************************************)
(* Theorems about ClientMirror, for any number of threads, nodes, names,   *)
(* requests and other clients: the client has one object for each node,    *)
(* follows the tree, finds its nodes among the children of their parents,  *)
(* and forgets what is gone.                                               *)
(***************************************************************************)
EXTENDS ClientMirror, ClientThreadsProof

Requests_ == [type : {"CreateRequest"}, parentUuid : Uuid, name : Name]
             \cup [type : {"TreeInfoRequest"}, parentUuid : Uuid,
                   name : Name \cup {Dot}, recursive : BOOLEAN]
             \cup [type : {"DeleteRequest"}, uuid : Uuid]

-----------------------------------------------------------------------------
(* What is known of the nodes of the client, s being a value of `mirror'.  *)

NodesTyped(s) ==
    /\ s = [nodes |-> s.nodes, mTree |-> s.mTree]
    /\ s.nodes \in [DOMAIN s.nodes -> LocalNode]
    /\ \A o \in DOMAIN s.nodes :
        /\ s.nodes[o].parent \in DOMAIN s.nodes \cup {None}
        /\ \A n \in DOMAIN s.nodes[o].children :
                s.nodes[o].children[n] \in DOMAIN s.nodes
    /\ DOMAIN s.nodes \subseteq Object
    /\ IsFiniteSet(DOMAIN s.nodes)
    /\ RootNode \in DOMAIN s.nodes
    /\ IsMap(s.mTree, Uuid, DOMAIN s.nodes)
    /\ \A u \in DOMAIN s.mTree : s.mTree[u][1] = u

\* There is one object for each node that lives, the one in the table.
Sole(s, live) ==
    \A o \in DOMAIN s.nodes :
        o[1] \in live => o[1] \in DOMAIN s.mTree /\ s.mTree[o[1]] = o

\* No object is for a node that is yet to come.
Earlier(s, ctr) == \A o \in DOMAIN s.nodes : o[1] < ctr

\* The client knows the node u under this name and this parent.
Right(s, u, name, parent) ==
    /\ Known(s, u)
    /\ s.nodes[s.mTree[u]].name = name
    /\ Known(s, parent)
    /\ s.nodes[s.mTree[u]].parent = s.mTree[parent]

Entry(name, uuid, parentUuid) ==
    [name |-> name, uuid |-> uuid, parentUuid |-> parentUuid]

\* The client knows the node of e under that name, of a parent with that uuid.
Bears(s, e) ==
    /\ Known(s, e.uuid)
    /\ LET r == s.nodes[s.mTree[e.uuid]] IN
        r.parent # None /\ r.name = e.name /\ r.parent[1] = e.parentUuid

\* The node p that the client knows has x as its child n.
Has(s, p, n, x) ==
    /\ Known(s, p) /\ n \in DOMAIN s.nodes[s.mTree[p]].children
    /\ s.nodes[s.mTree[p]].children[n] = x

\* From s to t no node but that of e comes to be known otherwise.
BearsOnly(s, t, e) == \A f \in NamedNode : Bears(t, f) => Bears(s, f) \/ f = e
BearsNoMore(s, t) == \A f \in NamedNode : Bears(t, f) => Bears(s, f)

\* No child goes, or only the one that e takes the place of.
HasStill(s, t) == \A p, n, x : Has(s, p, n, x) => Has(t, p, n, x)
Puts(s, t, e) ==
    /\ Has(t, e.parentUuid, e.name, t.mTree[e.uuid])
    /\ \A p, n, x : Has(s, p, n, x) =>
        (p = e.parentUuid /\ n = e.name) \/ Has(t, p, n, x)

\* The parent of the object o loses the child of its name.
Unslots(s, t, o) ==
    \A p, n, x : Has(s, p, n, x) =>
        \/ Has(t, p, n, x)
        \/ /\ s.nodes[o].parent # None /\ s.mTree[p] = s.nodes[o].parent
           /\ n = s.nodes[o].name
Unslotted(s, t, u) ==
    \A p, n, x : p # u /\ Has(s, p, n, x) => Has(t, p, n, x) \/ Bears(s, Entry(n, u, p))

-----------------------------------------------------------------------------
(* What is true of the messages on their way and of what threads have got. *)

Issued(u) == u \in Uuid /\ u < mUuidCtr

TrueEntry(e) ==
    /\ e \in NamedNode /\ Issued(e.uuid) /\ Issued(e.parentUuid)
    /\ e.uuid \in DOMAIN mTree =>
        mTree[e.uuid].name = e.name /\ mTree[e.uuid].parent = e.parentUuid

\* An announcement of one node that came, or went for ever.
Announcement(b) ==
    /\ b.type = "TreeUpdateNotification"
    /\ \/ \E e \in NamedNode :
            b.nodeToAddList = {e} /\ b.nodeToDelete = {} /\ TrueEntry(e)
       \/ \E u \in Uuid :
            /\ b.nodeToAddList = {} /\ b.nodeToDelete = {u}
            /\ Issued(u) /\ u \notin DOMAIN mTree

\* An answer that speaks of nodes speaks the truth.
TrueAnswer(b) ==
    /\ b.type = "CreateAccept" => Issued(b.uuid)
    /\ b.type = "TreeInfoResponse" => \A e \in b.nodeToAddList : TrueEntry(e)

TrueMessage(k) ==
    IF k.transactionId = Notify THEN Announcement(k.message) ELSE TrueAnswer(k.message)

\* A call of a thread, which holds a node.
Call(t) ==
    /\ DOMAIN t = {"does", "id", "at", "name", "recursive", "orCreate", "todo", "sought"}
    /\ t.does \in {"create", "get", "creating", "adding", "lost", "destroy"}
    /\ t.does \in {"creating", "adding", "lost"} => t.id = None
    /\ t.does \in {"create", "creating"} => t.name \in Name
    /\ t.does = "get" /\ t.orCreate => t.name \in Name
    /\ t.at \in DOMAIN mirror.nodes
    /\ \A e \in t.todo : TrueEntry(e)

TaskTyped(w) ==
    op[w] = Idle \/ (Call(op[w]) /\ (op[w].does = "get" => Waits(w)))

-----------------------------------------------------------------------------
(* How the client comes to know what it must.                              *)

\* An announcement of u is on its way.
Announces(k, u) ==
    k.transactionId = Notify /\ \E e \in k.message.nodeToAddList : e.uuid = u
Announced(u) == \E k \in Told(Me) : Announces(k, u)

\* A notification that adds u or a child of it, and one that removes u.
Mentions(k, u) ==
    /\ k.transactionId = Notify
    /\ \E e \in k.message.nodeToAddList : u \in {e.uuid, e.parentUuid}
Deletes(k, u) == k.transactionId = Notify /\ u \in k.message.nodeToDelete

\* The entries of a notification or a listing.
EntriesIn(b) ==
    IF b.type \in {"TreeUpdateNotification", "TreeInfoResponse"} THEN b.nodeToAddList ELSE {}

RightNow(u) == Right(mirror, u, mTree[u].name, mTree[u].parent)

\* A list has the old node, if it is still there.
OldLives == Old \in DOMAIN mTree \ {Root}
Lists(list) == OldLives => \E e \in list : e.uuid = Old

\* A thread that lists the whole tree asks for it, and is answered with it.
WholeTree == [type |-> "TreeInfoRequest", parentUuid |-> Root, name |-> Dot,
              recursive |-> TRUE]
ListsAll(w) == op[w] # Idle /\ op[w].at = RootNode /\ op[w].recursive
WholeList(b) == b.type = "TreeInfoResponse" => Lists(b.nodeToAddList)
ListedWhole(w) ==
    /\ op[w].does = "get" =>
        /\ \A k \in Asked(Me) : k.transactionId = op[w].id => k.message = WholeTree
        /\ \A k \in Told(Me) : k.transactionId = op[w].id => WholeList(k.message)
        /\ Answered(w) => WholeList(AnswerTo(w))
    /\ op[w].does = "adding" => (OldLives => RightNow(Old)) \/ Lists(op[w].todo)

ServerKnown ==
    /\ TypeOK /\ TreeConsistent
    /\ \E s \in DOMAIN mSessions : mSessions[s] = Me
    /\ Issued(Old)
HistoryTyped ==
    /\ loaded \in BOOLEAN /\ removed \subseteq Uuid
    /\ revived \subseteq removed /\ displaced \subseteq Uuid
NodesKnown ==
    NodesTyped(mirror) /\ Sole(mirror, DOMAIN mTree) /\ Earlier(mirror, mUuidCtr)

\* What is known of one thread.
TaskKnown(w) ==
    /\ TaskTyped(w)
    /\ Answered(w) => TrueAnswer(AnswerTo(w))
    /\ ListsAll(w) => ListedWhole(w)

ComesToKnow ==
    /\ \A u \in DOMAIN mTree \ {Root} : u > Old => RightNow(u) \/ Announced(u)
    /\ loaded /\ OldLives => RightNow(Old)

MirrorIInv ==
    /\ ServerKnown /\ HistoryTyped
    /\ Threaded(Requests_) /\ AllTraffic
    /\ NodesKnown
    /\ \A w \in Thread : TaskKnown(w)
    /\ \A k \in Told(Me) : TrueMessage(k)
    /\ ComesToKnow

-----------------------------------------------------------------------------
(* What adding to the nodes of the client does.                            *)

\* From s to t objects come, for uuids in U which were not known, and get known;
\* of those that were known only the ones in X get another name or parent.
Grows(s, t, U, X) ==
    /\ NodesTyped(t)
    /\ DOMAIN s.nodes \subseteq DOMAIN t.nodes
    /\ \A u \in DOMAIN s.mTree : u \in DOMAIN t.mTree /\ t.mTree[u] = s.mTree[u]
    /\ \A u \in DOMAIN t.mTree : u \in DOMAIN s.mTree \/ u \in U
    /\ \A o \in DOMAIN t.nodes \ DOMAIN s.nodes :
        o[1] \in U \ DOMAIN s.mTree /\ o[1] \in DOMAIN t.mTree /\ t.mTree[o[1]] = o
    /\ \A u \in DOMAIN s.mTree \ X :
        /\ t.nodes[s.mTree[u]].name = s.nodes[s.mTree[u]].name
        /\ t.nodes[s.mTree[u]].parent = s.nodes[s.mTree[u]].parent

LEMMA GrowsNot ==
    ASSUME NEW s, NodesTyped(s)
    PROVE  Grows(s, s, {}, {})
  BY DEF Grows

LEMMA GrowsTwice ==
    ASSUME NEW s, NEW t, NEW r, NEW U, NEW V, NEW X, NEW Y,
           NodesTyped(s), Grows(s, t, U, X), Grows(t, r, V, Y)
    PROVE  Grows(s, r, U \cup V, X \cup Y)
<1>1. NodesTyped(r) /\ DOMAIN s.nodes \subseteq DOMAIN r.nodes
  BY DEF Grows
<1>2. \A u \in DOMAIN s.mTree :
        /\ u \in DOMAIN t.mTree /\ t.mTree[u] = s.mTree[u]
        /\ u \in DOMAIN r.mTree /\ r.mTree[u] = s.mTree[u]
  BY DEF Grows
<1>3. ASSUME NEW o \in DOMAIN r.nodes \ DOMAIN s.nodes
      PROVE  o[1] \in (U \cup V) \ DOMAIN s.mTree /\ o[1] \in DOMAIN r.mTree
             /\ r.mTree[o[1]] = o
  <2>1. CASE o \in DOMAIN t.nodes
    BY <1>3, <2>1 DEF Grows
  <2>2. CASE o \notin DOMAIN t.nodes
    BY <1>2, <1>3, <2>2 DEF Grows
  <2> QED BY <2>1, <2>2
<1>4. ASSUME NEW u \in DOMAIN s.mTree \ (X \cup Y)
      PROVE  /\ r.nodes[s.mTree[u]].name = s.nodes[s.mTree[u]].name
             /\ r.nodes[s.mTree[u]].parent = s.nodes[s.mTree[u]].parent
  <2>1. u \in DOMAIN t.mTree \ Y /\ t.mTree[u] = s.mTree[u]
    BY <1>2, <1>4
  <2>2. /\ r.nodes[t.mTree[u]].name = t.nodes[t.mTree[u]].name
        /\ r.nodes[t.mTree[u]].parent = t.nodes[t.mTree[u]].parent
    BY <2>1 DEF Grows
  <2>3. /\ t.nodes[s.mTree[u]].name = s.nodes[s.mTree[u]].name
        /\ t.nodes[s.mTree[u]].parent = s.nodes[s.mTree[u]].parent
    BY <1>4 DEF Grows
  <2> QED BY <2>1, <2>2, <2>3
<1>5. \A u \in DOMAIN r.mTree : u \in DOMAIN s.mTree \/ u \in U \cup V
  BY DEF Grows
<1> QED BY <1>1, <1>2, <1>3, <1>4, <1>5 DEF Grows

\* An object is written.
Rewrites(s, t, o, r) == t = [s EXCEPT !.nodes[o] = r]

\* A node leads to others of these only.
Leads(r, D) ==
    /\ r \in LocalNode /\ r.parent \in D \cup {None}
    /\ \A n \in DOMAIN r.children : r.children[n] \in D

Rewritten(s, t, o, r) ==
    /\ NodesTyped(t) /\ DOMAIN t.nodes = DOMAIN s.nodes /\ t.mTree = s.mTree
    /\ t.nodes[o] = r
    /\ \A x \in DOMAIN s.nodes : x # o => t.nodes[x] = s.nodes[x]

LEMMA WrittenNode ==
    ASSUME NEW s, NodesTyped(s), NEW o \in DOMAIN s.nodes, NEW r,
           Leads(r, DOMAIN s.nodes), NEW t, Rewrites(s, t, o, r)
    PROVE  Rewritten(s, t, o, r)
<1>1. t = [nodes |-> [s.nodes EXCEPT ![o] = r], mTree |-> s.mTree]
  BY DEF NodesTyped, Rewrites
<1> DEFINE m == [s.nodes EXCEPT ![o] = r]
<1>2. /\ m \in [DOMAIN s.nodes -> LocalNode] /\ DOMAIN m = DOMAIN s.nodes /\ m[o] = r
      /\ \A x \in DOMAIN s.nodes : x # o => m[x] = s.nodes[x]
  BY DEF NodesTyped, Leads
<1> HIDE DEF m
<1>3. t.nodes = m /\ t.mTree = s.mTree /\ t = [nodes |-> t.nodes, mTree |-> t.mTree]
  BY <1>1 DEF m
<1>4. ASSUME NEW x \in DOMAIN t.nodes
      PROVE  /\ t.nodes[x].parent \in DOMAIN t.nodes \cup {None}
             /\ \A n \in DOMAIN t.nodes[x].children : t.nodes[x].children[n] \in DOMAIN t.nodes
  <2>1. CASE x = o
    BY <1>2, <1>3, <2>1 DEF Leads
  <2>2. CASE x # o
    BY <1>2, <1>3, <2>2 DEF NodesTyped
  <2> QED BY <2>1, <2>2
<1>5. NodesTyped(t)
  <2>1. t.nodes \in [DOMAIN t.nodes -> LocalNode]
    BY <1>2, <1>3
  <2>2. /\ DOMAIN t.nodes \subseteq Object /\ IsFiniteSet(DOMAIN t.nodes)
        /\ RootNode \in DOMAIN t.nodes /\ IsMap(t.mTree, Uuid, DOMAIN t.nodes)
        /\ \A u \in DOMAIN t.mTree : t.mTree[u][1] = u
    BY <1>2, <1>3 DEF NodesTyped
  <2> QED BY <1>3, <1>4, <2>1, <2>2 DEF NodesTyped
<1> QED BY <1>2, <1>3, <1>5 DEF Rewritten

\* Nothing but children has changed.
Rechilded(s, t) ==
    /\ Grows(s, t, {}, {}) /\ DOMAIN t.nodes = DOMAIN s.nodes /\ t.mTree = s.mTree
    /\ \A x \in DOMAIN s.nodes : /\ t.nodes[x].name = s.nodes[x].name
                                 /\ t.nodes[x].parent = s.nodes[x].parent

Written(s, t, o, ch) ==
    /\ t.nodes[o].children = ch
    /\ \A x \in DOMAIN s.nodes : x # o => t.nodes[x].children = s.nodes[x].children

\* An object gets other children.
LEMMA WrittenChildren ==
    ASSUME NEW s, NodesTyped(s), NEW o \in DOMAIN s.nodes,
           NEW ch, IsMap(ch, Name, DOMAIN s.nodes),
           NEW t, t = [s EXCEPT !.nodes[o].children = ch]
    PROVE  Rechilded(s, t) /\ Written(s, t, o, ch)
<1> DEFINE r == [s.nodes[o] EXCEPT !.children = ch]
<1>1. s.nodes[o] \in LocalNode
  BY DEF NodesTyped
<1>2. ch \in Map(Name, Object)
  <2>1. IsMap(ch, Name, Object)
    BY DEF NodesTyped, IsMap
  <2> QED BY <2>1, MapMembership
<1>3. /\ r \in LocalNode /\ r.children = ch
      /\ r.name = s.nodes[o].name /\ r.parent = s.nodes[o].parent
  BY <1>1, <1>2 DEF LocalNode
<1>4. Rewrites(s, t, o, r)
  BY DEF Rewrites
<1> HIDE DEF r
<1>5. Leads(r, DOMAIN s.nodes)
  BY <1>3 DEF NodesTyped, IsMap, Leads
<1>6. /\ NodesTyped(t) /\ DOMAIN t.nodes = DOMAIN s.nodes /\ t.mTree = s.mTree
      /\ t.nodes[o] = r
      /\ \A x \in DOMAIN s.nodes : x # o => t.nodes[x] = s.nodes[x]
  <2>1. Rewritten(s, t, o, r)
    BY <1>4, <1>5, WrittenNode
  <2> QED BY <2>1 DEF Rewritten
<1>7. \A x \in DOMAIN s.nodes : /\ t.nodes[x].name = s.nodes[x].name
                                /\ t.nodes[x].parent = s.nodes[x].parent
  BY <1>3, <1>6
<1>8. \A u \in DOMAIN s.mTree : s.mTree[u] \in DOMAIN s.nodes
  BY DEF NodesTyped, IsMap
<1>9. Written(s, t, o, ch)
  BY <1>3, <1>6 DEF Written
<1> QED BY <1>6, <1>7, <1>8, <1>9 DEF Grows, Rechilded

\* What was known is as it was, or has the children that it had.
SameNodes(s, t) == \A u \in DOMAIN s.mTree : t.nodes[s.mTree[u]] = s.nodes[s.mTree[u]]
SameChildren(s, t) ==
    \A u \in DOMAIN s.mTree : t.nodes[s.mTree[u]].children = s.nodes[s.mTree[u]].children

\* An object is made for a uuid that is not known.
LEMMA MadeNode ==
    ASSUME NEW s, NodesTyped(s), NEW u \in Uuid, ~Known(s, u),
           NEW name \in Name \cup {None}, NEW parent \in DOMAIN s.nodes \cup {None},
           NEW t, t = Made(s, u, name, parent)
    PROVE  /\ Grows(s, t, {u}, {}) /\ Known(t, u)
           /\ t.nodes[t.mTree[u]].name = name /\ t.nodes[t.mTree[u]].parent = parent
           /\ SameNodes(s, t)
<1> DEFINE others == {x \in DOMAIN s.nodes : x[1] = u}
           o == <<u, 1 + Cardinality(others)>>
           r == [name |-> name, parent |-> parent, children |-> EmptyMap]
<1>1. t = [nodes |-> Put(s.nodes, o, r), mTree |-> Put(s.mTree, u, o)]
  BY DEF Made
<1>2. Cardinality(others) \in Nat
  <2>1. IsFiniteSet(others)
    BY FS_Subset DEF NodesTyped
  <2> QED BY <2>1, FS_CardinalityType
<1>3. o \in Object /\ o[1] = u
  BY <1>2 DEF Object
<1>4. /\ r \in LocalNode /\ r.name = name /\ r.parent = parent
      /\ DOMAIN r.children = {}
  <2>1. EmptyMap \in Map(Name, Object) /\ DOMAIN EmptyMap = {}
    BY EmptyMapType, MapMembership
  <2>2. parent \in Object \cup {None}
    BY DEF NodesTyped
  <2> QED BY <2>1, <2>2 DEF LocalNode
<1> HIDE DEF o, r, others
<1>5. /\ DOMAIN t.nodes = DOMAIN s.nodes \cup {o} /\ t.nodes[o] = r
      /\ \A x \in DOMAIN s.nodes : x # o => t.nodes[x] = s.nodes[x]
      /\ t.nodes = [x \in DOMAIN t.nodes |-> t.nodes[x]]
      /\ t = [nodes |-> t.nodes, mTree |-> t.mTree]
  BY <1>1 DEF Put
<1>6. /\ DOMAIN t.mTree = DOMAIN s.mTree \cup {u} /\ t.mTree[u] = o
      /\ \A v \in DOMAIN s.mTree : t.mTree[v] = s.mTree[v]
      /\ t.mTree = [v \in DOMAIN t.mTree |-> t.mTree[v]]
  BY <1>1 DEF Put, Known
<1>7. \A v \in DOMAIN s.mTree : /\ s.mTree[v] \in DOMAIN s.nodes /\ s.mTree[v][1] = v
                                /\ v \in Uuid /\ v # u /\ s.mTree[v] # o
  BY <1>3 DEF NodesTyped, IsMap, Known
<1>8. NodesTyped(t)
  <2>1. \A x \in DOMAIN t.nodes : t.nodes[x] \in LocalNode
    BY <1>4, <1>5 DEF NodesTyped
  <2>2. t.nodes \in [DOMAIN t.nodes -> LocalNode]
    BY <1>5, <2>1
  <2>3. ASSUME NEW x \in DOMAIN t.nodes
        PROVE  /\ t.nodes[x].parent \in DOMAIN t.nodes \cup {None}
               /\ \A n \in DOMAIN t.nodes[x].children :
                    t.nodes[x].children[n] \in DOMAIN t.nodes
    <3>1. CASE x = o
      BY <1>4, <1>5, <3>1
    <3>2. CASE x # o
      BY <1>5, <3>2 DEF NodesTyped
    <3> QED BY <3>1, <3>2
  <2>4. /\ DOMAIN t.nodes \subseteq Object /\ RootNode \in DOMAIN t.nodes
        /\ IsFiniteSet(DOMAIN t.nodes)
    BY <1>3, <1>5, FS_AddElement DEF NodesTyped
  <2>5. IsMap(t.mTree, Uuid, DOMAIN t.nodes)
    BY <1>5, <1>6, <1>7 DEF IsMap
  <2>6. \A v \in DOMAIN t.mTree : t.mTree[v][1] = v
    BY <1>3, <1>6, <1>7
  <2> QED BY <1>5, <2>2, <2>3, <2>4, <2>5, <2>6 DEF NodesTyped
<1>9. \A x \in DOMAIN t.nodes \ DOMAIN s.nodes :
        x[1] \in {u} \ DOMAIN s.mTree /\ x[1] \in DOMAIN t.mTree /\ t.mTree[x[1]] = x
  BY <1>3, <1>5, <1>6 DEF Known
<1>10. \A v \in DOMAIN s.mTree : t.nodes[s.mTree[v]] = s.nodes[s.mTree[v]]
  BY <1>5, <1>7
<1>11. Grows(s, t, {u}, {})
  BY <1>5, <1>6, <1>8, <1>9, <1>10 DEF Grows
<1> QED BY <1>4, <1>5, <1>6, <1>10, <1>11 DEF Known, SameNodes

\* What growth keeps.
LEMMA GrownKnown ==
    ASSUME NEW s, NEW t, NEW U, NEW X, NodesTyped(s), Grows(s, t, U, X)
    PROVE  /\ \A live : Sole(s, live) => Sole(t, live)
           /\ \A ctr : Earlier(s, ctr) /\ (\A u \in U : u < ctr) => Earlier(t, ctr)
           /\ \A u, name, parent :
                u \notin X /\ Right(s, u, name, parent) => Right(t, u, name, parent)
           /\ \A u : Known(s, u) => Known(t, u)
<1>1. ASSUME NEW live, Sole(s, live), NEW o \in DOMAIN t.nodes, o[1] \in live
      PROVE  o[1] \in DOMAIN t.mTree /\ t.mTree[o[1]] = o
  <2>1. CASE o \in DOMAIN s.nodes
    BY <1>1, <2>1 DEF Sole, Grows
  <2>2. CASE o \notin DOMAIN s.nodes
    BY <1>1, <2>2 DEF Grows
  <2> QED BY <2>1, <2>2
<1>2. ASSUME NEW ctr, Earlier(s, ctr), \A u \in U : u < ctr PROVE Earlier(t, ctr)
  BY <1>2 DEF Earlier, Grows
<1>3. ASSUME NEW u, NEW name, NEW parent, u \notin X, Right(s, u, name, parent)
      PROVE  Right(t, u, name, parent)
  <2>1. /\ u \in DOMAIN s.mTree \ X /\ parent \in DOMAIN s.mTree
        /\ t.nodes[s.mTree[u]].name = s.nodes[s.mTree[u]].name
        /\ t.nodes[s.mTree[u]].parent = s.nodes[s.mTree[u]].parent
    BY <1>3 DEF Right, Known, Grows
  <2> QED BY <1>3, <2>1 DEF Right, Known, Grows
<1> QED BY <1>1, <1>2, <1>3 DEF Sole, Grows, Known

LEMMA GrownBears ==
    ASSUME NEW s, NEW t, NEW U, NEW X, NodesTyped(s), Grows(s, t, U, X),
           NEW f, Bears(t, f), f.uuid \in DOMAIN s.mTree \ X
    PROVE  Bears(s, f)
<1>1. /\ t.mTree[f.uuid] = s.mTree[f.uuid]
      /\ t.nodes[s.mTree[f.uuid]].name = s.nodes[s.mTree[f.uuid]].name
      /\ t.nodes[s.mTree[f.uuid]].parent = s.nodes[s.mTree[f.uuid]].parent
  BY DEF Grows
<1> QED BY <1>1 DEF Bears, Known

LEMMA GrownHas ==
    ASSUME NEW s, NEW t, NEW U, NEW X, Grows(s, t, U, X), SameChildren(s, t)
    PROVE  HasStill(s, t)
  BY DEF Grows, SameChildren, HasStill, Has, Known

LEMMA RechildedBears ==
    ASSUME NEW s, NEW t, NodesTyped(s), Rechilded(s, t)
    PROVE  BearsNoMore(s, t)
<1> SUFFICES ASSUME NEW f \in NamedNode, Bears(t, f) PROVE Bears(s, f)
  BY DEF BearsNoMore
<1>1. Grows(s, t, {}, {}) /\ f.uuid \in DOMAIN s.mTree \ {}
  BY DEF Rechilded, Bears, Known
<1> QED BY <1>1, GrownBears

\* The steps of addNodes for one entry.
LEMMA ParentComes ==
    ASSUME NEW s, NodesTyped(s), NEW e \in NamedNode, NEW t, t = WithParent(s, e)
    PROVE  /\ Grows(s, t, {e.parentUuid}, {}) /\ Known(t, e.parentUuid)
           /\ HasStill(s, t) /\ BearsNoMore(s, t)
<1>1. e.parentUuid \in Uuid
  BY DEF NamedNode
<1>2. CASE Known(s, e.parentUuid)
  BY <1>2, GrowsNot DEF WithParent, Grows, HasStill, BearsNoMore
<1>3. CASE ~Known(s, e.parentUuid)
  <2>1. t = Made(s, e.parentUuid, None, None)
    BY <1>3 DEF WithParent
  <2>2. PICK u : u = e.parentUuid
    OBVIOUS
  <2>3. /\ Grows(s, t, {u}, {}) /\ Known(t, u) /\ t.nodes[t.mTree[u]].parent = None
        /\ SameNodes(s, t)
    <3>1. u \in Uuid /\ ~Known(s, u) /\ t = Made(s, u, None, None)
      BY <1>1, <1>3, <2>1, <2>2
    <3> QED BY <3>1, MadeNode
  <2>4. HasStill(s, t)
    BY <2>3, GrownHas DEF SameNodes, SameChildren
  <2>5. ASSUME NEW f \in NamedNode, Bears(t, f) PROVE Bears(s, f)
    <3>1. f.uuid # u
      BY <2>3, <2>5 DEF Bears
    <3>2. f.uuid \in DOMAIN s.mTree \ {}
      BY <2>3, <2>5, <3>1 DEF Bears, Known, Grows
    <3> QED BY <2>3, <2>5, <3>2, GrownBears
  <2> QED BY <2>2, <2>3, <2>4, <2>5 DEF BearsNoMore
<1> QED BY <1>2, <1>3

LEMMA EntryComes ==
    ASSUME NEW s, NodesTyped(s), NEW e \in NamedNode, Known(s, e.parentUuid),
           NEW t, t = WithEntry(s, e)
    PROVE  /\ Grows(s, t, {e.uuid}, {e.uuid})
           /\ Right(t, e.uuid, e.name, e.parentUuid)
           /\ HasStill(s, t) /\ BearsOnly(s, t, e)
<1> DEFINE p == s.mTree[e.parentUuid]
           o == s.mTree[e.uuid]
<1>1. e.uuid \in Uuid /\ e.name \in Name /\ p \in DOMAIN s.nodes /\ p \in Object
  BY DEF NamedNode, NodesTyped, IsMap, Known
<1>2. ASSUME Known(s, e.uuid)
      PROVE  /\ Grows(s, t, {e.uuid}, {e.uuid}) /\ Right(t, e.uuid, e.name, e.parentUuid)
             /\ SameChildren(s, t)
  <2> DEFINE r == [s.nodes[o] EXCEPT !.name = e.name, !.parent = p]
  <2>1. o \in DOMAIN s.nodes /\ s.nodes[o] \in LocalNode
    BY <1>2 DEF NodesTyped, IsMap, Known
  <2>2. /\ r \in LocalNode /\ r.name = e.name /\ r.parent = p
        /\ r.children = s.nodes[o].children
    BY <1>1, <2>1 DEF LocalNode
  <2>3. t = [s EXCEPT !.nodes[o].name = e.name, !.nodes[o].parent = p]
    BY <1>2 DEF WithEntry
  <2>4. s = [nodes |-> s.nodes, mTree |-> s.mTree] /\ o \in DOMAIN s.nodes
    BY <2>1 DEF NodesTyped
  <2> HIDE DEF o, p
  <2>5. Rewrites(s, t, o, r)
    BY <2>3, <2>4 DEF Rewrites
  <2> HIDE DEF r
  <2>6. Leads(r, DOMAIN s.nodes)
    BY <1>1, <2>1, <2>2 DEF Leads, NodesTyped
  <2>7. Rewritten(s, t, o, r)
    BY <2>1, <2>5, <2>6, WrittenNode
  <2>8. \A u \in DOMAIN s.mTree : u # e.uuid => s.mTree[u] # o /\ s.mTree[u] \in DOMAIN s.nodes
    BY <1>2 DEF NodesTyped, IsMap, Known, o
  <2>9. Grows(s, t, {e.uuid}, {e.uuid})
    BY <2>7, <2>8 DEF Rewritten, Grows
  <2>10. Right(t, e.uuid, e.name, e.parentUuid)
    BY <1>2, <2>2, <2>7 DEF Rewritten, Right, Known, o, p
  <2>11. SameChildren(s, t)
    BY <2>2, <2>7, <2>8 DEF Rewritten, SameChildren, o
  <2> QED BY <2>9, <2>10, <2>11
<1>3. ASSUME ~Known(s, e.uuid)
      PROVE  /\ Grows(s, t, {e.uuid}, {e.uuid}) /\ Right(t, e.uuid, e.name, e.parentUuid)
             /\ SameChildren(s, t)
  <2>1. t = Made(s, e.uuid, e.name, p)
    BY <1>3 DEF WithEntry
  <2> HIDE DEF p, o
  <2>2. /\ Grows(s, t, {e.uuid}, {}) /\ Known(t, e.uuid)
        /\ t.nodes[t.mTree[e.uuid]].name = e.name /\ t.nodes[t.mTree[e.uuid]].parent = p
        /\ SameNodes(s, t)
    <3>1. PICK u, n : u = e.uuid /\ n = e.name
      OBVIOUS
    <3>2. /\ u \in Uuid /\ ~Known(s, u) /\ n \in Name \cup {None}
          /\ p \in DOMAIN s.nodes \cup {None} /\ t = Made(s, u, n, p)
      BY <1>1, <1>3, <2>1, <3>1
    <3>3. /\ Grows(s, t, {u}, {}) /\ Known(t, u)
          /\ t.nodes[t.mTree[u]].name = n /\ t.nodes[t.mTree[u]].parent = p
          /\ SameNodes(s, t)
      BY <3>2, MadeNode
    <3> QED BY <3>1, <3>3
  <2>3. Right(t, e.uuid, e.name, e.parentUuid)
    BY <2>2 DEF Right, Grows, Known, p
  <2>4. Grows(s, t, {e.uuid}, {e.uuid})
    BY <2>2 DEF Grows
  <2> QED BY <2>2, <2>3, <2>4 DEF SameNodes, SameChildren
<1>4. /\ Grows(s, t, {e.uuid}, {e.uuid}) /\ Right(t, e.uuid, e.name, e.parentUuid)
      /\ SameChildren(s, t)
  BY <1>2, <1>3
<1>5. HasStill(s, t)
  BY <1>4, GrownHas
<1>6. ASSUME NEW f \in NamedNode, Bears(t, f) PROVE Bears(s, f) \/ f = e
  <2>1. CASE f.uuid = e.uuid
    <3>1. t.mTree[e.parentUuid][1] = e.parentUuid
      BY <1>4 DEF Right, Known, Grows, NodesTyped
    <3>2. f.name = e.name /\ f.parentUuid = e.parentUuid
      BY <1>4, <1>6, <2>1, <3>1 DEF Right, Bears
    <3> QED BY <2>1, <3>2 DEF NamedNode
  <2>2. CASE f.uuid # e.uuid
    <3>1. f.uuid \in DOMAIN s.mTree \ {e.uuid}
      BY <1>4, <1>6, <2>2 DEF Bears, Known, Grows
    <3> QED BY <1>4, <1>6, <3>1, GrownBears
  <2> QED BY <2>1, <2>2
<1> QED BY <1>4, <1>5, <1>6 DEF BearsOnly

LEMMA EntryListed ==
    ASSUME NEW s, NodesTyped(s), NEW e \in NamedNode, Known(s, e.parentUuid),
           Known(s, e.uuid), NEW t, t = Listed(s, e)
    PROVE  Grows(s, t, {}, {}) /\ Rechilded(s, t) /\ Puts(s, t, e)
<1> DEFINE o == s.mTree[e.parentUuid]
           ch == Put(s.nodes[o].children, e.name, s.mTree[e.uuid])
<1>1. /\ e.name \in Name /\ o \in DOMAIN s.nodes /\ s.mTree[e.uuid] \in DOMAIN s.nodes
  BY DEF NamedNode, NodesTyped, IsMap, Known
<1>2. s.nodes[o].children \in Map(Name, Object)
  BY <1>1 DEF NodesTyped, LocalNode
<1>3. IsMap(s.nodes[o].children, Name, DOMAIN s.nodes)
  BY <1>1, <1>2, MapMembership DEF NodesTyped, IsMap
<1>4. IsMap(ch, Name, DOMAIN s.nodes)
  BY <1>1, <1>3, PutType
<1>5. t = [s EXCEPT !.nodes[o].children = ch]
  BY DEF Listed
<1>6. /\ DOMAIN ch = DOMAIN s.nodes[o].children \cup {e.name}
      /\ ch[e.name] = s.mTree[e.uuid]
      /\ \A n \in DOMAIN s.nodes[o].children : n # e.name => ch[n] = s.nodes[o].children[n]
  BY DEF Put
<1>7. \A p \in DOMAIN s.mTree :
        /\ s.mTree[p] \in DOMAIN s.nodes
        /\ p # e.parentUuid => s.mTree[p] # o
  BY DEF NodesTyped, IsMap, Known
<1>8. o = s.mTree[e.parentUuid]
  OBVIOUS
<1> HIDE DEF o, ch
<1>9. Rechilded(s, t) /\ Written(s, t, o, ch)
  BY <1>1, <1>4, <1>5, WrittenChildren
<1>10. t.mTree = s.mTree
  BY <1>9 DEF Rechilded
<1>11. Has(t, e.parentUuid, e.name, t.mTree[e.uuid])
  BY <1>6, <1>8, <1>9, <1>10 DEF Written, Has, Known
<1>12. ASSUME NEW p, NEW n, NEW x, Has(s, p, n, x), ~(p = e.parentUuid /\ n = e.name)
       PROVE  Has(t, p, n, x)
  <2>1. CASE p = e.parentUuid
    BY <1>6, <1>8, <1>9, <1>10, <1>12, <2>1 DEF Written, Has, Known
  <2>2. CASE p # e.parentUuid
    <3>1. p \in DOMAIN s.mTree /\ s.mTree[p] \in DOMAIN s.nodes /\ s.mTree[p] # o
      BY <1>7, <1>12, <2>2 DEF Has, Known
    <3> QED BY <1>9, <1>10, <1>12, <3>1 DEF Written, Has, Known
  <2> QED BY <2>1, <2>2
<1> QED BY <1>9, <1>11, <1>12 DEF Rechilded, Puts

\* addNodes for one entry: its node is known then as the entry says.
LEMMA EntryAdded ==
    ASSUME NEW s, NodesTyped(s), NEW e \in NamedNode, NEW t, t = Added(s, e)
    PROVE  /\ Grows(s, t, {e.uuid, e.parentUuid}, {e.uuid})
           /\ Right(t, e.uuid, e.name, e.parentUuid)
           /\ BearsOnly(s, t, e) /\ Puts(s, t, e)
<1>1. PICK a : a = WithParent(s, e)
  OBVIOUS
<1>2. PICK b : b = WithEntry(a, e)
  OBVIOUS
<1>3. t = Listed(b, e)
  BY <1>1, <1>2 DEF Added
<1>4. /\ Grows(s, a, {e.parentUuid}, {}) /\ Known(a, e.parentUuid) /\ NodesTyped(a)
      /\ HasStill(s, a) /\ BearsNoMore(s, a)
  BY <1>1, ParentComes DEF Grows
<1>5. /\ Grows(a, b, {e.uuid}, {e.uuid}) /\ Right(b, e.uuid, e.name, e.parentUuid)
      /\ NodesTyped(b) /\ HasStill(a, b) /\ BearsOnly(a, b, e)
  BY <1>2, <1>4, EntryComes DEF Grows
<1>6. Grows(b, t, {}, {}) /\ Rechilded(b, t) /\ Puts(b, t, e)
  BY <1>3, <1>5, EntryListed DEF Right
<1>7. Right(t, e.uuid, e.name, e.parentUuid)
  BY <1>5, <1>6, GrownKnown
<1>8. Grows(s, b, {e.parentUuid} \cup {e.uuid}, {} \cup {e.uuid})
  BY <1>4, <1>5, GrowsTwice
<1>9. Grows(s, t, ({e.parentUuid} \cup {e.uuid}) \cup {}, ({} \cup {e.uuid}) \cup {})
  BY <1>6, <1>8, GrowsTwice
<1>10. BearsOnly(s, t, e)
  <2>1. BearsNoMore(b, t)
    BY <1>5, <1>6, RechildedBears
  <2> QED BY <1>4, <1>5, <2>1 DEF BearsOnly, BearsNoMore
<1>11. Puts(s, t, e)
  BY <1>4, <1>5, <1>6 DEF Puts, HasStill
<1> QED BY <1>7, <1>9, <1>10, <1>11 DEF Grows

\* create with its accept.
LEMMA AcceptGrows ==
    ASSUME NEW s, NodesTyped(s), NEW u \in Uuid, NEW o \in DOMAIN s.nodes,
           NEW n \in Name, NEW t, t = Accepted(s, u, o, n)
    PROVE  /\ Grows(s, t, {u}, {}) /\ Known(t, u)
           /\ HasStill(s, t) /\ (Known(s, u) \/ BearsOnly(s, t, Entry(n, u, o[1])))
<1>1. CASE Known(s, u)
  BY <1>1, GrowsNot DEF Accepted, Grows, HasStill
<1>2. CASE ~Known(s, u)
  <2>1. PICK a : a = Made(s, u, n, o)
    OBVIOUS
  <2> DEFINE ch == Emplace(a.nodes[o].children, n, a.mTree[u])
  <2>2. t = [a EXCEPT !.nodes[o].children = ch]
    BY <1>2, <2>1 DEF Accepted
  <2>3. /\ Grows(s, a, {u}, {}) /\ Known(a, u) /\ NodesTyped(a) /\ o \in DOMAIN a.nodes
        /\ a.nodes[a.mTree[u]].name = n /\ a.nodes[a.mTree[u]].parent = o
        /\ SameNodes(s, a)
    BY <1>2, <2>1, MadeNode DEF Grows
  <2>4. a.mTree[u] \in DOMAIN a.nodes /\ a.nodes[o].children \in Map(Name, Object)
    BY <2>3 DEF NodesTyped, LocalNode, IsMap, Known
  <2>5. IsMap(a.nodes[o].children, Name, DOMAIN a.nodes)
    BY <2>3, <2>4, MapMembership DEF NodesTyped, IsMap
  <2>6. IsMap(ch, Name, DOMAIN a.nodes)
    BY <2>4, <2>5, EmplaceType
  <2>9. /\ DOMAIN a.nodes[o].children \subseteq DOMAIN ch
        /\ \A m \in DOMAIN a.nodes[o].children : ch[m] = a.nodes[o].children[m]
    BY DEF Emplace, Put
  <2> HIDE DEF ch
  <2>10. Rechilded(a, t) /\ Written(a, t, o, ch)
    BY <2>2, <2>3, <2>6, WrittenChildren
  <2>7. Grows(a, t, {}, {}) /\ t.mTree = a.mTree
    BY <2>10 DEF Rechilded
  <2>8. Grows(s, t, {u} \cup {}, {} \cup {})
    BY <2>3, <2>7, GrowsTwice
  <2>11. HasStill(s, t)
    <3>1. HasStill(s, a)
      BY <2>3, GrownHas DEF SameNodes, SameChildren
    <3>2. ASSUME NEW p, NEW m, NEW x, Has(a, p, m, x) PROVE Has(t, p, m, x)
      <4>1. p \in DOMAIN a.mTree /\ a.mTree[p] \in DOMAIN a.nodes
        BY <2>3, <3>2 DEF Has, Known, NodesTyped, IsMap
      <4>2. CASE a.mTree[p] = o
        BY <2>7, <2>9, <2>10, <3>2, <4>1, <4>2 DEF Has, Known, Written
      <4>3. CASE a.mTree[p] # o
        BY <2>7, <2>10, <3>2, <4>1, <4>3 DEF Has, Known, Written
      <4> QED BY <4>2, <4>3
    <3> QED BY <3>1, <3>2 DEF HasStill
  <2>12. ASSUME NEW f \in NamedNode, Bears(t, f)
         PROVE  Bears(s, f) \/ f = Entry(n, u, o[1])
    <3>1. Bears(a, f)
      BY <2>3, <2>10, <2>12, RechildedBears DEF BearsNoMore
    <3>2. CASE f.uuid = u
      BY <2>3, <3>1, <3>2 DEF Bears, Entry, NamedNode
    <3>3. CASE f.uuid # u
      <4>1. f.uuid \in DOMAIN s.mTree \ {}
        BY <2>3, <3>1, <3>3 DEF Bears, Known, Grows
      <4> QED BY <2>3, <3>1, <4>1, GrownBears
    <3> QED BY <3>2, <3>3
  <2>13. Grows(s, t, {u}, {}) /\ Known(t, u)
    BY <2>3, <2>7, <2>8 DEF Grows, Known
  <2> QED BY <2>11, <2>12, <2>13 DEF BearsOnly
<1> QED BY <1>1, <1>2

\* The parent of a node loses a child.
Unlists(s, t, o) == t = [s EXCEPT !.nodes = Unlist(s.nodes, o)]

LEMMA UnlistGrows ==
    ASSUME NEW s, NodesTyped(s), NEW o \in DOMAIN s.nodes,
           NEW t, Unlists(s, t, o)
    PROVE  Rechilded(s, t) /\ Unslots(s, t, o)
<1>1. CASE s.nodes[o].parent = None
  <2>1. t = s
    BY <1>1 DEF Unlist, Unlists, NodesTyped
  <2> QED BY <2>1, GrowsNot DEF Rechilded, Unslots
<1>2. CASE s.nodes[o].parent # None
  <2> DEFINE p == s.nodes[o].parent
             ch == Erase(s.nodes[p].children, s.nodes[o].name)
  <2>1. p \in DOMAIN s.nodes /\ s.nodes[p].children \in Map(Name, Object)
    BY <1>2 DEF NodesTyped, LocalNode
  <2>2. IsMap(s.nodes[p].children, Name, DOMAIN s.nodes)
    BY <2>1, MapMembership DEF NodesTyped, IsMap
  <2>3. IsMap(ch, Name, DOMAIN s.nodes)
    BY <2>2, EraseType
  <2>4. t = [s EXCEPT !.nodes[p].children = ch]
    BY <1>2 DEF Unlist, Unlists
  <2>5. /\ DOMAIN ch = DOMAIN s.nodes[p].children \ {s.nodes[o].name}
        /\ \A n \in DOMAIN ch : ch[n] = s.nodes[p].children[n]
    BY DEF Erase
  <2>6. p = s.nodes[o].parent
    OBVIOUS
  <2> HIDE DEF p, ch
  <2>7. Rechilded(s, t) /\ Written(s, t, p, ch) /\ t.mTree = s.mTree
    BY <2>1, <2>3, <2>4, WrittenChildren DEF Rechilded
  <2>8. ASSUME NEW q, NEW n, NEW x, Has(s, q, n, x),
               ~(s.mTree[q] = p /\ n = s.nodes[o].name)
        PROVE  Has(t, q, n, x)
    <3>1. q \in DOMAIN s.mTree /\ s.mTree[q] \in DOMAIN s.nodes
      BY <2>8 DEF Has, Known, NodesTyped, IsMap
    <3>2. CASE s.mTree[q] = p
      BY <2>5, <2>7, <2>8, <3>1, <3>2 DEF Has, Known, Written
    <3>3. CASE s.mTree[q] # p
      BY <2>7, <2>8, <3>1, <3>3 DEF Has, Known, Written
    <3> QED BY <3>2, <3>3
  <2> QED BY <1>2, <2>6, <2>7, <2>8 DEF Unslots
<1> QED BY <1>1, <1>2

\* removeNodes for one uuid, of a node that lives no longer: the others stay known.
LEMMA NodeRemoved ==
    ASSUME NEW s, NodesTyped(s), NEW u, NEW t, t = Removed(s, u)
    PROVE  /\ NodesTyped(t) /\ DOMAIN t.nodes = DOMAIN s.nodes
           /\ DOMAIN t.mTree = DOMAIN s.mTree \ {u}
           /\ \A v \in DOMAIN t.mTree : t.mTree[v] = s.mTree[v]
           /\ \A live : u \notin live /\ Sole(s, live) => Sole(t, live)
           /\ \A v, name, parent : v # u /\ parent # u /\ Right(s, v, name, parent) =>
                Right(t, v, name, parent)
           /\ BearsNoMore(s, t) /\ Unslotted(s, t, u)
<1>1. CASE ~Known(s, u)
  BY <1>1 DEF Removed, Known, BearsNoMore, Unslotted
<1>2. CASE Known(s, u)
  <2>1. PICK o \in DOMAIN s.nodes : o = s.mTree[u]
    BY <1>2 DEF Known, NodesTyped, IsMap
  <2>2. PICK a : Unlists(s, a, o)
    BY DEF Unlists
  <2>3. /\ NodesTyped(a) /\ DOMAIN a.nodes = DOMAIN s.nodes /\ a.mTree = s.mTree
        /\ \A x \in DOMAIN s.nodes : /\ a.nodes[x].name = s.nodes[x].name
                                     /\ a.nodes[x].parent = s.nodes[x].parent
        /\ Unslots(s, a, o)
    BY <2>1, <2>2, UnlistGrows DEF Rechilded, Grows
  <2>4. a.nodes = Unlist(s.nodes, o)
    BY <2>2 DEF NodesTyped, Unlists
  <2>5. t = [nodes |-> a.nodes, mTree |-> Erase(s.mTree, u)]
    BY <1>2, <2>1, <2>4 DEF Removed
  <2>6. /\ t.nodes = a.nodes /\ t = [nodes |-> t.nodes, mTree |-> t.mTree]
        /\ DOMAIN t.mTree = DOMAIN s.mTree \ {u}
        /\ \A v \in DOMAIN s.mTree : v # u => t.mTree[v] = s.mTree[v]
        /\ t.mTree = Erase(s.mTree, u)
    BY <2>5 DEF Erase
  <2>7. IsMap(t.mTree, Uuid, DOMAIN t.nodes)
    BY <2>3, <2>6, EraseType DEF NodesTyped
  <2>8. NodesTyped(t)
    BY <2>3, <2>6, <2>7 DEF NodesTyped
  <2>9. ASSUME NEW live, u \notin live, Sole(s, live) PROVE Sole(t, live)
    BY <2>3, <2>6, <2>9 DEF Sole
  <2>10. ASSUME NEW v, NEW name, NEW parent, v # u, parent # u, Right(s, v, name, parent)
         PROVE  Right(t, v, name, parent)
    <3>1. s.mTree[v] \in DOMAIN s.nodes
      BY <2>10 DEF Right, Known, NodesTyped, IsMap
    <3> QED BY <2>3, <2>6, <2>10, <3>1 DEF Right, Known
  <2>11. ASSUME NEW f \in NamedNode, Bears(t, f) PROVE Bears(s, f)
    <3>1. f.uuid \in DOMAIN s.mTree /\ t.mTree[f.uuid] = s.mTree[f.uuid]
      BY <2>6, <2>11 DEF Bears, Known
    <3>2. s.mTree[f.uuid] \in DOMAIN s.nodes
      BY <3>1 DEF NodesTyped, IsMap
    <3> QED BY <2>3, <2>6, <2>11, <3>1, <3>2 DEF Bears, Known
  <2>12. ASSUME NEW p, NEW n, NEW x, p # u, Has(s, p, n, x), ~Has(t, p, n, x)
         PROVE  Bears(s, Entry(n, u, p))
    <3>1. p \in DOMAIN s.mTree /\ t.mTree[p] = s.mTree[p] /\ p \in DOMAIN t.mTree
      BY <2>6, <2>12 DEF Has, Known
    <3>2. ~Has(a, p, n, x)
      BY <2>3, <2>6, <2>12, <3>1 DEF Has, Known
    <3>3. /\ s.nodes[o].parent # None /\ s.mTree[p] = s.nodes[o].parent
          /\ n = s.nodes[o].name
      BY <2>3, <2>12, <3>2 DEF Unslots
    <3>4. s.mTree[p][1] = p
      BY <3>1 DEF NodesTyped
    <3> QED BY <1>2, <2>1, <3>3, <3>4 DEF Bears, Entry
  <2> QED BY <2>3, <2>6, <2>8, <2>9, <2>10, <2>11, <2>12 DEF BearsNoMore, Unslotted
<1> QED BY <1>1, <1>2

-----------------------------------------------------------------------------
(* What the server's steps do to what is true.                             *)

\* Uuids grow, and a node that there is is as it was, or new.
ServerMoves ==
    /\ mUuidCtr \in Nat /\ mUuidCtr' \in Nat /\ mUuidCtr <= mUuidCtr'
    /\ DOMAIN mTree \subseteq Uuid
    /\ \A u \in DOMAIN mTree : u < mUuidCtr
    /\ \A u \in DOMAIN mTree' :
        \/ u \in DOMAIN mTree /\ SameIdentity(u)
        \/ u \notin DOMAIN mTree /\ u = mUuidCtr
    /\ \/ mUuidCtr' = mUuidCtr /\ DOMAIN mTree' \subseteq DOMAIN mTree
       \/ mUuidCtr' = mUuidCtr + 1 /\ DOMAIN mTree' = DOMAIN mTree \cup {mUuidCtr}

LEMMA HandlersMove ==
    ASSUME TypeOK, TreeConsistent, Next
    PROVE  ServerMoves
<1>1. /\ mUuidCtr \in Nat /\ DOMAIN mTree \subseteq Uuid
      /\ \A u \in DOMAIN mTree : u < mUuidCtr /\ u # mUuidCtr
  BY Types DEF TreeConsistent, Uuid
<1>2. CASE CreatesNode
  <2>1. PICK c \in Conn, t \in ReqId, p \in DOMAIN mTree, n \in Name :
            SignedIn(c) /\ AddNode(c, t, p, n)
    BY <1>2 DEF CreatesNode
  <2>2. /\ mUuidCtr' = mUuidCtr + 1 /\ DOMAIN mTree' = DOMAIN mTree \cup {mUuidCtr}
        /\ \A u \in DOMAIN mTree : u # mUuidCtr => SameIdentity(u)
    BY <2>1, AddNodeShape
  <2> QED BY <1>1, <2>2 DEF ServerMoves
<1>3. CASE DeletesNode
  <2>1. PICK c \in Conn, t \in ReqId, u \in DOMAIN mTree :
            mTree[u].parent \in DOMAIN mTree /\ RemoveNode(c, t, u)
    BY <1>3 DEF DeletesNode
  <2>2. /\ mUuidCtr' = mUuidCtr /\ DOMAIN mTree' = DOMAIN mTree \ {u}
        /\ \A v \in DOMAIN mTree' : SameIdentity(v)
    BY <2>1, RemoveNodeShape
  <2> QED BY <1>1, <2>2 DEF ServerMoves
<1>4. CASE TreeKept
  BY <1>1, <1>4 DEF TreeKept, ServerMoves
<1> QED BY <1>2, <1>3, <1>4, TreeSteps, UnchangedTree DEF WritesNode

LEMMA StandingStill ==
    ASSUME ServerKnown, UNCHANGED vars
    PROVE  ServerKnown' /\ ServerMoves
<1>1. /\ mUuidCtr \in Nat /\ DOMAIN mTree \subseteq Uuid
      /\ \A u \in DOMAIN mTree : u < mUuidCtr
  BY Types DEF ServerKnown, TreeConsistent
<1>2. /\ mUuidCtr' = mUuidCtr /\ mTree' = mTree /\ mSessions' = mSessions
  BY DEF vars, treeVars, sessionVars
<1>3. TypeOK'
  BY DEF ServerKnown, TypeOK, IsMap, vars, netVars, sessionVars, treeVars, rpcVars
<1>4. TreeConsistent'
  BY <1>2 DEF ServerKnown, TreeConsistent, ParentLinks, ChildLinks
<1>5. ServerKnown'
  BY <1>2, <1>3, <1>4 DEF ServerKnown, Issued
<1> QED BY <1>1, <1>2, <1>5 DEF ServerMoves, SameIdentity

\* What is true stays true.
LEMMA TruthLasts ==
    ASSUME ServerMoves
    PROVE  /\ \A u : Issued(u) => Issued(u)'
           /\ \A e : TrueEntry(e) => TrueEntry(e)'
           /\ \A b : TrueAnswer(b) => TrueAnswer(b)'
           /\ \A k : TrueMessage(k) => TrueMessage(k)'
<1>1. ASSUME NEW u, Issued(u)
      PROVE  /\ Issued(u)' /\ u # mUuidCtr
             /\ u \in DOMAIN mTree' => u \in DOMAIN mTree /\ SameIdentity(u)
  <2>1. u \in Nat /\ u < mUuidCtr
    BY <1>1 DEF Issued, Uuid
  <2> QED BY <1>1, <2>1 DEF ServerMoves, Issued
<1>2. ASSUME NEW e, TrueEntry(e) PROVE TrueEntry(e)'
  BY <1>1, <1>2 DEF TrueEntry, SameIdentity
<1>3. ASSUME NEW b, TrueAnswer(b) PROVE TrueAnswer(b)'
  BY <1>1, <1>2, <1>3 DEF TrueAnswer
<1>4. ASSUME NEW b, Announcement(b) PROVE Announcement(b)'
  BY <1>1, <1>2, <1>4 DEF Announcement
<1>5. ASSUME NEW k, TrueMessage(k) PROVE TrueMessage(k)'
  BY <1>3, <1>4, <1>5 DEF TrueMessage
<1> QED BY <1>1, <1>2, <1>3, <1>5

\* The old node stays where it is for as long as it lives.
LEMMA OldStays ==
    ASSUME ServerMoves, Issued(Old)
    PROVE  /\ OldLives' => OldLives /\ SameIdentity(Old)
           /\ \A list : Lists(list) => Lists(list)'
<1>1. Old \in Nat /\ Old < mUuidCtr
  BY DEF Issued, Uuid
<1>2. Old \in DOMAIN mTree' => Old \in DOMAIN mTree /\ SameIdentity(Old)
  BY <1>1 DEF ServerMoves
<1> QED BY <1>2 DEF OldLives, Lists

\* What the client knows of the nodes.
LEMMA NodesStayKnown ==
    ASSUME ServerMoves, NodesKnown, mirror' = mirror
    PROVE  NodesKnown'
<1>1. \A o \in DOMAIN mirror.nodes : o[1] \in Nat /\ o[1] < mUuidCtr
  BY DEF NodesKnown, NodesTyped, Earlier, Object, Uuid
<1>2. Sole(mirror, DOMAIN mTree)'
  BY <1>1 DEF NodesKnown, Sole, ServerMoves
<1>3. Earlier(mirror, mUuidCtr)'
  BY <1>1 DEF NodesKnown, Earlier, ServerMoves
<1> QED BY <1>2, <1>3 DEF NodesKnown

-----------------------------------------------------------------------------
(* What the server says.                                                   *)

\* It answers the request t of c, if at all, says what is true, and announces what
\* is new and what is gone.
Tells(c, t) ==
    /\ Next /\ UNCHANGED sessionVars
    /\ Says(Me, ForCaller(c, Me, t))
    /\ \A k \in Range(out'[Me]) : TrueMessage(k)'
    /\ \A u \in DOMAIN mTree' \ DOMAIN mTree :
        \E k \in Range(out'[Me]) : Announces(k, u)
    /\ \A u \in DOMAIN mTree \ DOMAIN mTree' :
        \E k \in Range(out'[Me]) : Deletes(k, u)
    /\ \A k \in Range(out'[Me]) : \A u :
        /\ Mentions(k, u) => u \in DOMAIN mTree'
        /\ Deletes(k, u) => u \in DOMAIN mTree
    /\ \A k \in Range(out'[Me]) : \A e \in EntriesIn(k.message) :
        TrueEntry(e)' /\ e.uuid \in DOMAIN mTree' \ {Root}

\* The accept of a create is for a node that there is then, new to the client.
AcceptsWell(b, p, n) ==
    b.type = "CreateAccept" =>
        /\ b.uuid \in DOMAIN mTree \ {Root} /\ Old < b.uuid
        /\ mTree[b.uuid].name = n /\ mTree[b.uuid].parent = p
        /\ TrueEntry([name |-> n, uuid |-> b.uuid, parentUuid |-> p])

\* A delete with success is for a node that is gone then.
DeletesWell(b, u) ==
    b.type = "DeleteResponse" /\ b.cause = "OK" => Issued(u) /\ u \notin DOMAIN mTree

LEMMA MeConnected == Me \in Client /\ Me \in Conn /\ \A w \in Thread : w[1] = Me
  BY ThreadAssumption, MirrorAssumption DEF Client

LEMMA AnsweredTruly ==
    ASSUME Next, NEW c \in Conn, NEW t \in ReqId, NEW b \in Body,
           Answer(c, t, b), TrueAnswer(b)',
           \A e \in EntriesIn(b) : TrueEntry(e)' /\ e.uuid \in DOMAIN mTree' \ {Root}
    PROVE  /\ Tells(c, t)
           /\ \A k \in Range(out'[Me]) : k = Packet(t, b)
<1>1. out' = Reply(c, t, b) /\ mTree' = mTree /\ UNCHANGED sessionVars
  BY DEF Answer, treeVars
<1>2. /\ Range(out'[Me]) = ForCaller(c, Me, Packet(t, b))
      /\ Says(Me, ForCaller(c, Me, t))
  BY <1>1, MeConnected, ReplyPackets
<1>3. \A k \in Range(out'[Me]) : TrueMessage(k)'
  BY <1>2, IdTypes DEF TrueMessage, Packet, ForCaller
<1>4. \A k \in Range(out'[Me]) : \A u : ~Mentions(k, u) /\ ~Deletes(k, u)
  BY <1>2, IdTypes DEF Mentions, Deletes, Packet, ForCaller
<1>5. \A k \in Range(out'[Me]) : \A e \in EntriesIn(k.message) :
        TrueEntry(e)' /\ e.uuid \in DOMAIN mTree' \ {Root}
  BY <1>2 DEF Packet, ForCaller
<1> QED BY <1>1, <1>2, <1>3, <1>4, <1>5 DEF Tells, ForCaller

LEMMA SilentTruly ==
    ASSUME Next, NEW c \in Conn, NEW t \in ReqId, Ignore \/ \E u : Crash(u)
    PROVE  Tells(c, t) /\ Range(out'[Me]) = {}
<1>1. out' = Silence /\ mTree' = mTree /\ UNCHANGED sessionVars
  BY DEF Ignore, Crash, treeVars
<1>2. out'[Me] = <<>>
  BY <1>1, MeConnected DEF Silence
<1>3. Says(Me, ForCaller(c, Me, t)) /\ Range(out'[Me]) = {}
  BY <1>2 DEF Says, Once, Range
<1> QED BY <1>1, <1>3 DEF Tells

LEMMA NotifiedTruly ==
    ASSUME Next, ServerKnown, UNCHANGED sessionVars,
           NEW c \in Conn, NEW t \in ReqId, NEW b \in Body, NEW note \in Body,
           out' = ReplyAndNotify(c, t, b, note, mSessions),
           TrueAnswer(b)', Announcement(note)',
           \A u \in DOMAIN mTree' \ DOMAIN mTree : \E e \in note.nodeToAddList : e.uuid = u,
           note.nodeToDelete = DOMAIN mTree \ DOMAIN mTree',
           \A e \in note.nodeToAddList :
                {e.uuid, e.parentUuid} \subseteq DOMAIN mTree' /\ e.uuid # Root,
           EntriesIn(b) = {}
    PROVE  /\ Tells(c, t)
           /\ \A k \in Range(out'[Me]) : k.transactionId = t => k = Packet(t, b)
<1>1. PICK to : to = mSessions
  OBVIOUS
<1>2. IsFiniteSet(DOMAIN to) /\ \E i \in DOMAIN to : to[i] = Me
  BY <1>1, FiniteFanOut DEF ServerKnown
<1>3. /\ Range(out'[Me]) = SentTo(c, Me, Packet(t, b), note, to)
      /\ Says(Me, ForCaller(c, Me, t))
  BY <1>1, <1>2, MeConnected, FanOutPackets
<1>4. /\ Packet(Notify, note) \in Range(out'[Me])
      /\ \A k \in Range(out'[Me]) : k = Packet(Notify, note) \/ k = Packet(t, b)
  BY <1>2, <1>3 DEF SentTo, ForCaller
<1>5. TrueMessage(Packet(Notify, note))' /\ TrueMessage(Packet(t, b))'
  BY IdTypes DEF TrueMessage, Packet
<1>6. ASSUME NEW u \in DOMAIN mTree' \ DOMAIN mTree
      PROVE  Announces(Packet(Notify, note), u)
  BY <1>6 DEF Announces, Packet
<1>7. \A u \in DOMAIN mTree \ DOMAIN mTree' : Deletes(Packet(Notify, note), u)
  BY DEF Deletes, Packet
<1>8. \A k \in Range(out'[Me]) : \A u :
        /\ Mentions(k, u) => u \in DOMAIN mTree'
        /\ Deletes(k, u) => u \in DOMAIN mTree
  BY <1>4, IdTypes DEF Mentions, Deletes, Packet
<1>9. \A e \in note.nodeToAddList : TrueEntry(e)'
  BY DEF Announcement
<1>10. \A k \in Range(out'[Me]) : \A e \in EntriesIn(k.message) :
        TrueEntry(e)' /\ e.uuid \in DOMAIN mTree' \ {Root}
  BY <1>4, <1>9 DEF Packet, EntriesIn
<1>11. \A k \in Range(out'[Me]) : k.transactionId = t => k = Packet(t, b)
  BY <1>4, IdTypes DEF Packet
<1> QED BY <1>3, <1>4, <1>5, <1>6, <1>7, <1>8, <1>10, <1>11 DEF Tells

LEMMA CreateTells ==
    ASSUME ServerKnown, NEW c \in Conn, NEW t \in ReqId, NEW p \in Uuid, NEW n \in Name,
           Create(c, t, p, n)
    PROVE  /\ Tells(c, t)
           /\ \A k \in Range(out'[Me]) : k.transactionId = t => AcceptsWell(k.message, p, n)'
<1>1. Next
  BY DEF Next, Request
<1>2. ASSUME NEW cause \in Cause, Answer(c, t, Result("CreateReject", cause))
      PROVE  /\ Tells(c, t)
             /\ \A k \in Range(out'[Me]) : AcceptsWell(k.message, p, n)'
  <2>1. PICK b \in Body : b = Result("CreateReject", cause)
    BY ResultTypes
  <2>2. TrueAnswer(b)' /\ EntriesIn(b) = {} /\ AcceptsWell(b, p, n)'
    BY <2>1 DEF TrueAnswer, Result, EntriesIn, AcceptsWell
  <2>3. Tells(c, t) /\ \A k \in Range(out'[Me]) : k = Packet(t, b)
    BY <1>1, <1>2, <2>1, <2>2, AnsweredTruly
  <2> QED BY <2>2, <2>3 DEF Packet
<1>3. ASSUME p \in DOMAIN mTree, SignedIn(c), AddNode(c, t, p, n)
      PROVE  /\ Tells(c, t)
             /\ \A k \in Range(out'[Me]) :
                    k.transactionId = t => AcceptsWell(k.message, p, n)'
  <2>1. PICK u : u = mUuidCtr
    OBVIOUS
  <2>2. /\ u \in Uuid /\ mUuidCtr' = u + 1 /\ DOMAIN mTree' = DOMAIN mTree \cup {u}
        /\ mTree'[u] = NewNode(n, mConnectionToSessionId[c], p)
    BY <1>3, <2>1, AddNodeShape DEF ServerKnown
  <2>3. PICK b \in Body : b = [type |-> "CreateAccept", uuid |-> u]
    BY <2>2, BodyTypes
  <2>4. PICK note \in Body : note = NodeAdded(n, u, p)
    BY <2>2, BodyTypes
  <2>5. out' = ReplyAndNotify(c, t, b, note, mSessions) /\ UNCHANGED sessionVars
    BY <1>3, <2>1, <2>3, <2>4 DEF AddNode, FreshUuid
  <2>6. p < u /\ p \in Nat /\ u \in Nat
    BY <1>3, <2>1, <2>2 DEF ServerKnown, TreeConsistent, Uuid
  <2>7. Issued(u)' /\ Issued(p)'
    BY <2>2, <2>6 DEF Issued
  <2>8. TrueAnswer(b)' /\ EntriesIn(b) = {}
    BY <2>3, <2>7 DEF TrueAnswer, EntriesIn
  <2> DEFINE e == [name |-> n, uuid |-> u, parentUuid |-> p]
  <2>9. /\ e \in NamedNode /\ e.uuid = u /\ e.parentUuid = p /\ e.name = n
        /\ note.nodeToAddList = {e} /\ note.nodeToDelete = {}
        /\ note.type = "TreeUpdateNotification"
    BY <2>2, <2>4 DEF NodeAdded, NamedNode
  <2> HIDE DEF e
  <2>10. mTree'[u].name = n /\ mTree'[u].parent = p
    BY <2>2 DEF NewNode
  <2>11. TrueEntry(e)'
    BY <2>7, <2>9, <2>10 DEF TrueEntry
  <2>12. Announcement(note)'
    BY <2>9, <2>11 DEF Announcement
  <2>13. \A v \in DOMAIN mTree' \ DOMAIN mTree : \E x \in note.nodeToAddList : x.uuid = v
    BY <2>2, <2>9
  <2>14. note.nodeToDelete = DOMAIN mTree \ DOMAIN mTree'
    BY <2>2, <2>9
  <2>15. \A x \in note.nodeToAddList :
            {x.uuid, x.parentUuid} \subseteq DOMAIN mTree' /\ x.uuid # Root
    BY <1>3, <2>2, <2>6, <2>9 DEF Root
  <2>16. Old < u
    BY <2>1, <2>6 DEF ServerKnown, Issued
  <2>17. AcceptsWell(b, p, n)'
    BY <2>2, <2>3, <2>6, <2>10, <2>11, <2>16 DEF AcceptsWell, Root, e
  <2>18. /\ Tells(c, t)
         /\ \A k \in Range(out'[Me]) : k.transactionId = t => k = Packet(t, b)
    BY <1>1, <2>5, <2>8, <2>12, <2>13, <2>14, <2>15, NotifiedTruly
  <2> QED BY <2>17, <2>18 DEF Packet
<1>4. CASE Ignore
  BY <1>1, <1>4, SilentTruly
<1> QED BY <1>2, <1>3, <1>4 DEF Create, Cause

LEMMA DeleteTells ==
    ASSUME ServerKnown, NEW c \in Conn, NEW t \in ReqId, NEW u \in Uuid, Delete(c, t, u)
    PROVE  /\ Tells(c, t)
           /\ \A k \in Range(out'[Me]) : k.transactionId = t => DeletesWell(k.message, u)'
<1>1. Next
  BY DEF Next, Request
<1>2. ASSUME NEW cause \in Cause
      PROVE  /\ Result("DeleteResponse", cause) \in Body
             /\ TrueAnswer(Result("DeleteResponse", cause))'
             /\ EntriesIn(Result("DeleteResponse", cause)) = {}
             /\ cause # "OK" => DeletesWell(Result("DeleteResponse", cause), u)'
  BY ResultTypes DEF TrueAnswer, Result, EntriesIn, DeletesWell
<1>3. ASSUME NEW cause \in Cause \ {"OK"}, Answer(c, t, Result("DeleteResponse", cause))
      PROVE  /\ Tells(c, t)
             /\ \A k \in Range(out'[Me]) : DeletesWell(k.message, u)'
  <2>1. PICK b \in Body : /\ b = Result("DeleteResponse", cause) /\ TrueAnswer(b)'
                          /\ EntriesIn(b) = {} /\ DeletesWell(b, u)'
    BY <1>2, <1>3
  <2>2. Tells(c, t) /\ \A k \in Range(out'[Me]) : k = Packet(t, b)
    BY <1>1, <1>3, <2>1, AnsweredTruly
  <2> QED BY <2>1, <2>2 DEF Packet
<1>4. ASSUME u \in DOMAIN mTree, mTree[u].parent \in DOMAIN mTree, RemoveNode(c, t, u)
      PROVE  /\ Tells(c, t)
             /\ \A k \in Range(out'[Me]) :
                    k.transactionId = t => DeletesWell(k.message, u)'
  <2>1. mUuidCtr' = mUuidCtr /\ DOMAIN mTree' = DOMAIN mTree \ {u}
    BY <1>4, RemoveNodeShape DEF ServerKnown
  <2>2. PICK b \in Body : /\ b = Result("DeleteResponse", "OK") /\ TrueAnswer(b)'
                          /\ EntriesIn(b) = {}
    BY <1>2 DEF Cause
  <2>3. PICK note \in Body : note = NodeDeleted(u)
    BY BodyTypes
  <2>4. out' = ReplyAndNotify(c, t, b, note, mSessions) /\ UNCHANGED sessionVars
    BY <1>4, <2>2, <2>3 DEF RemoveNode
  <2>5. Issued(u)' /\ u \notin DOMAIN mTree'
    BY <1>4, <2>1 DEF ServerKnown, TreeConsistent, Issued
  <2>6. Announcement(note)'
    BY <2>3, <2>5 DEF NodeDeleted, Announcement
  <2>7. \A v \in DOMAIN mTree' \ DOMAIN mTree : \E x \in note.nodeToAddList : x.uuid = v
    BY <2>1
  <2>8. note.nodeToDelete = DOMAIN mTree \ DOMAIN mTree' /\ note.nodeToAddList = {}
    BY <1>4, <2>1, <2>3 DEF NodeDeleted
  <2>9. DeletesWell(b, u)'
    BY <2>5 DEF DeletesWell
  <2>10. \A x \in note.nodeToAddList :
            {x.uuid, x.parentUuid} \subseteq DOMAIN mTree' /\ x.uuid # Root
    BY <2>8
  <2>11. /\ Tells(c, t)
         /\ \A k \in Range(out'[Me]) : k.transactionId = t => k = Packet(t, b)
    BY <1>1, <2>2, <2>4, <2>6, <2>7, <2>8, <2>10, NotifiedTruly
  <2> QED BY <2>9, <2>11 DEF Packet
<1>5. CASE Crash(u)
  BY <1>1, <1>5, SilentTruly
<1> QED BY <1>3, <1>4, <1>5 DEF Delete, Cause

\* The entries of a listing are nodes of the tree.
LEMMA ListsTruth ==
    ASSUME ServerKnown, NEW p \in DOMAIN mTree
    PROVE  /\ \A e \in Entries(p) : TrueEntry(e) /\ e.uuid \in DOMAIN mTree \ {Root}
           /\ \A r \in BOOLEAN : \A e \in ToAddList(p, r) :
                TrueEntry(e) /\ e.uuid \in DOMAIN mTree \ {Root}
<1>1. TypeOK /\ TreeConsistent
  BY DEF ServerKnown
<1>2. ASSUME NEW q \in DOMAIN mTree, NEW e \in Entries(q)
      PROVE  TrueEntry(e) /\ e.uuid \in DOMAIN mTree \ {Root}
  <2>1. PICK n \in DOMAIN mTree[q].children :
            e = [name |-> n, uuid |-> mTree[q].children[n], parentUuid |-> q]
    BY DEF Entries
  <2>2. /\ e.uuid \in DOMAIN mTree /\ mTree[e.uuid].parent = q /\ mTree[e.uuid].name = n
        /\ e.name = n /\ e.parentUuid = q
    BY <1>1, <2>1 DEF TreeConsistent, ChildLinks
  <2>3. Issued(e.uuid) /\ Issued(q)
    BY <1>1, <2>2, Types DEF TreeConsistent, Issued
  <2>4. e \in NamedNode
    BY <1>1, EntriesType
  <2>5. e.uuid # Root
    BY <1>1, <2>1 DEF TreeConsistent, ChildLinks
  <2> QED BY <2>2, <2>3, <2>4, <2>5 DEF TrueEntry
<1>3. Subtree(p) \subseteq DOMAIN mTree
  BY DEF Subtree
<1> QED BY <1>2, <1>3 DEF ToAddList

\* What is listed for the root has the old node, which is a child of it.
LEMMA RootListsOld ==
    ASSUME ServerKnown
    PROVE  Lists(ToAddList(Root, TRUE))
<1>1. SUFFICES ASSUME OldLives PROVE \E e \in ToAddList(Root, TRUE) : e.uuid = Old
  BY DEF Lists
<1>2. Old = 1 /\ Old \in DOMAIN mTree
  BY <1>1, MirrorAssumption DEF OldLives, Root
<1>3. /\ mTree[Old].parent \in DOMAIN mTree /\ mTree[Old].parent < Old
      /\ mTree[Old].name \in DOMAIN mTree[mTree[Old].parent].children
      /\ mTree[mTree[Old].parent].children[mTree[Old].name] = Old
  BY <1>1 DEF ServerKnown, TreeConsistent, ParentLinks, OldLives
<1>4. mTree[Old].parent \in Nat
  BY <1>3, Types DEF ServerKnown, Uuid
<1>5. mTree[Old].parent = Root
  BY <1>2, <1>3, <1>4 DEF Root
<1>6. \E e \in Entries(Root) : e.uuid = Old
  <2> DEFINE n == mTree[Old].name
             e == [name |-> n, uuid |-> mTree[Root].children[n], parentUuid |-> Root]
  <2>1. e \in Entries(Root)
    BY <1>3, <1>5 DEF Entries
  <2>2. e.uuid = Old
    BY <1>3, <1>5
  <2> QED BY <2>1, <2>2
<1>7. Root \in Subtree(Root)
  BY <1>3, <1>5 DEF Subtree
<1> QED BY <1>6, <1>7 DEF ToAddList

LEMMA ListTells ==
    ASSUME ServerKnown, NEW c \in Conn, NEW t \in ReqId, NEW p \in Uuid,
           NEW n \in Name \cup {Dot}, NEW r \in BOOLEAN, TreeInfo(c, t, p, n, r)
    PROVE  /\ Tells(c, t)
           /\ p = Root /\ n = Dot /\ r =>
                \A k \in Range(out'[Me]) : WholeList(k.message)'
<1>1. Next
  BY DEF Next, Request
<1>2. UNCHANGED vars \/ UNCHANGED treeVars
  BY DEF TreeInfo, Answer
<1>3. mTree' = mTree /\ mUuidCtr' = mUuidCtr
  BY <1>2 DEF vars, treeVars
<1>4. /\ \A e : TrueEntry(e) => TrueEntry(e)'
      /\ \A l : Lists(l) => Lists(l)'
  BY <1>3 DEF TrueEntry, Issued, Lists, OldLives
<1>5. ASSUME Answer(c, t, Result("TreeInfoErrorResponse", "NOT_FOUND"))
      PROVE  /\ Tells(c, t)
             /\ \A k \in Range(out'[Me]) : WholeList(k.message)'
  <2>1. PICK b \in Body : b = Result("TreeInfoErrorResponse", "NOT_FOUND")
    BY ResultTypes DEF Cause
  <2>2. TrueAnswer(b)' /\ WholeList(b)' /\ EntriesIn(b) = {}
    BY <2>1 DEF TrueAnswer, Result, WholeList, EntriesIn
  <2>3. Tells(c, t) /\ \A k \in Range(out'[Me]) : k = Packet(t, b)
    BY <1>1, <1>5, <2>1, <2>2, AnsweredTruly
  <2> QED BY <2>2, <2>3 DEF Packet
<1>6. ASSUME NEW list \in SUBSET NamedNode,
             \A e \in list : TrueEntry(e) /\ e.uuid \in DOMAIN mTree \ {Root},
             Answer(c, t, [type |-> "TreeInfoResponse", nodeToAddList |-> list])
      PROVE  /\ Tells(c, t)
             /\ Lists(list) => \A k \in Range(out'[Me]) : WholeList(k.message)'
  <2>1. PICK b \in Body : b = [type |-> "TreeInfoResponse", nodeToAddList |-> list]
    BY BodyTypes
  <2>2. /\ TrueAnswer(b)' /\ (Lists(list) => WholeList(b)')
        /\ \A e \in EntriesIn(b) : TrueEntry(e)' /\ e.uuid \in DOMAIN mTree' \ {Root}
    BY <1>3, <1>4, <1>6, <2>1 DEF TrueAnswer, WholeList, EntriesIn
  <2>3. Tells(c, t) /\ \A k \in Range(out'[Me]) : k = Packet(t, b)
    BY <1>1, <1>6, <2>1, <2>2, AnsweredTruly
  <2> QED BY <2>2, <2>3 DEF Packet
<1>7. CASE p \in DOMAIN mTree /\ n = Dot
  <2>1. PICK list : list = ToAddList(p, r)
    OBVIOUS
  <2>2. /\ list \in SUBSET NamedNode
        /\ \A e \in list : TrueEntry(e) /\ e.uuid \in DOMAIN mTree \ {Root}
    BY <1>7, <2>1, ListsTruth, ToAddListType DEF ServerKnown
  <2>3. p = Root /\ r => Lists(list)
    BY <2>1, RootListsOld
  <2>4. Answer(c, t, [type |-> "TreeInfoResponse", nodeToAddList |-> list])
        \/ Answer(c, t, Result("TreeInfoErrorResponse", "NOT_FOUND"))
    BY <1>7, <2>1 DEF TreeInfo
  <2> QED BY <1>5, <1>6, <2>2, <2>3, <2>4
<1>8. CASE p \in DOMAIN mTree /\ n # Dot /\ n \in DOMAIN mTree[p].children
  <2>1. PICK u \in DOMAIN mTree : u = mTree[p].children[n]
    BY <1>8 DEF ServerKnown, TreeConsistent, ChildLinks
  <2>2. PICK e : e = [name |-> n, uuid |-> u, parentUuid |-> p]
    OBVIOUS
  <2>3. PICK list : list = {e} \cup ToAddList(u, r)
    OBVIOUS
  <2>4. e \in Entries(p)
    BY <1>8, <2>1, <2>2 DEF Entries
  <2>5. TrueEntry(e) /\ e \in NamedNode /\ e.uuid \in DOMAIN mTree \ {Root}
    BY <1>8, <2>4, ListsTruth DEF TrueEntry
  <2>6. /\ list \in SUBSET NamedNode
        /\ \A x \in list : TrueEntry(x) /\ x.uuid \in DOMAIN mTree \ {Root}
    BY <2>3, <2>5, ListsTruth, ToAddListType DEF ServerKnown
  <2>7. Answer(c, t, [type |-> "TreeInfoResponse", nodeToAddList |-> list])
    BY <1>8, <2>1, <2>2, <2>3 DEF TreeInfo
  <2> QED BY <1>6, <1>8, <2>6, <2>7
<1> QED BY <1>5, <1>7, <1>8 DEF TreeInfo


-----------------------------------------------------------------------------
(* What a step must do for all of this to go on.                           *)

\* No object goes, and the client goes on knowing what it knows.
MirrorKeeps ==
    /\ DOMAIN mirror.nodes \subseteq DOMAIN mirror'.nodes
    /\ \A u \in DOMAIN mTree' \ {Root} : RightNow(u) => RightNow(u)'

\* A thread that does not move may get what has been told to the client.
GoesOn(w) ==
    /\ op'[w] = op[w]
    /\ Waits(w) =>
        \/ AnswerTo(w)' = AnswerTo(w)
        \/ \E k \in Told(Me) : k.transactionId = op[w].id /\ AnswerTo(w)' = k.message

\* What is new on the wires is no request of its own, nor an untrue answer.
Undisturbed(w) ==
    /\ \A k \in Asked(Me)' : k.transactionId = op[w].id => k \in Asked(Me)
    /\ \A k \in Told(Me)' : k.transactionId = op[w].id =>
        \/ k \in Told(Me)
        \/ ListsAll(w) /\ op[w].does = "get" => WholeList(k.message)'

LEMMA TaskGoesOn ==
    ASSUME MirrorIInv, ServerMoves, ServerKnown', MirrorKeeps,
           NEW w \in Thread, GoesOn(w), Undisturbed(w)
    PROVE  TaskKnown(w)'
<1>1. PICK t : t = op[w]
  OBVIOUS
<1>2. op'[w] = t /\ TaskKnown(w) /\ (Waits(w)' <=> Waits(w))
  BY <1>1 DEF GoesOn, MirrorIInv, Waits
<1>3. TaskTyped(w)'
  <2>1. CASE t = Idle
    BY <1>2, <2>1 DEF TaskTyped
  <2>2. CASE Call(t) /\ (t.does = "get" => Waits(w))
    <3>1. \A e \in t.todo : TrueEntry(e)'
      BY <2>2, TruthLasts DEF Call
    <3>2. t.at \in DOMAIN mirror'.nodes
      BY <2>2 DEF Call, MirrorKeeps
    <3>3. Call(t)'
      BY <2>2, <3>1, <3>2 DEF Call
    <3> QED BY <1>2, <2>2, <3>3 DEF TaskTyped
  <2> QED BY <1>1, <1>2, <2>1, <2>2 DEF TaskKnown, TaskTyped
<1>4. ASSUME Answered(w)'
      PROVE  \/ AnswerTo(w)' = AnswerTo(w) /\ Answered(w)
             \/ \E k \in Told(Me) : k.transactionId = op[w].id /\ AnswerTo(w)' = k.message
  BY <1>2, <1>4 DEF Answered, GoesOn
<1>5. Waits(w) => op[w].id \in ReqId
  BY DEF MirrorIInv, Threaded, Waits
<1>6. ASSUME Answered(w)' PROVE TrueAnswer(AnswerTo(w))'
  <2>1. PICK b : b = AnswerTo(w)'
    OBVIOUS
  <2>2. TrueAnswer(b)
    <3>1. CASE AnswerTo(w)' = AnswerTo(w) /\ Answered(w)
      BY <1>2, <2>1, <3>1 DEF TaskKnown
    <3>2. CASE \E k \in Told(Me) : k.transactionId = op[w].id /\ AnswerTo(w)' = k.message
      <4>1. PICK k \in Told(Me) : k.transactionId = op[w].id /\ b = k.message
        BY <2>1, <3>2
      <4>2. k.transactionId # Notify /\ TrueMessage(k)
        BY <1>2, <1>5, <1>6, <4>1, IdTypes DEF Answered, MirrorIInv
      <4> QED BY <4>1, <4>2 DEF TrueMessage
    <3> QED BY <1>4, <1>6, <3>1, <3>2
  <2>3. TrueAnswer(b)'
    BY <2>2, TruthLasts
  <2> QED BY <2>1, <2>3
<1>7. ASSUME ListsAll(w)' PROVE ListedWhole(w)'
  <2>1. ListsAll(w) /\ ListedWhole(w)
    BY <1>1, <1>2, <1>7 DEF ListsAll, TaskKnown
  <2>2. \A b : WholeList(b) => WholeList(b)'
    BY OldStays DEF WholeList, MirrorIInv, ServerKnown
  <2>3. ASSUME t.does = "get"
        PROVE  /\ \A k \in Asked(Me)' : k.transactionId = t.id => k.message = WholeTree
               /\ \A k \in Told(Me)' : k.transactionId = t.id => WholeList(k.message)'
    BY <1>1, <2>1, <2>2, <2>3 DEF ListedWhole, Undisturbed
  <2>4. ASSUME t.does = "get", Answered(w)' PROVE WholeList(AnswerTo(w))'
    <3>1. PICK b : b = AnswerTo(w)'
      OBVIOUS
    <3>2. WholeList(b)
      BY <1>1, <1>4, <2>1, <2>4, <3>1 DEF ListedWhole
    <3> QED BY <2>2, <3>1, <3>2
  <2>5. ASSUME t.does = "adding"
        PROVE  (OldLives' => RightNow(Old)') \/ Lists(t.todo)'
    <3>1. (OldLives => RightNow(Old)) \/ Lists(t.todo)
      BY <1>1, <2>1, <2>5 DEF ListedWhole
    <3>2. OldLives' => OldLives /\ Old \in DOMAIN mTree' \ {Root}
      BY OldStays DEF MirrorIInv, ServerKnown, OldLives
    <3>3. Lists(t.todo) => Lists(t.todo)'
      BY OldStays DEF MirrorIInv, ServerKnown
    <3> QED BY <3>1, <3>2, <3>3 DEF MirrorKeeps
  <2> QED BY <1>2, <2>3, <2>4, <2>5 DEF ListedWhole
<1> QED BY <1>3, <1>6, <1>7 DEF TaskKnown

\* A node that there will be is announced, or has been learnt of.
NewsLasts ==
    \A u \in DOMAIN mTree' \ {Root} :
        /\ Announced(u) => Announced(u)' \/ RightNow(u)'
        /\ u \notin DOMAIN mTree => Announced(u)'

\* The program has listed the tree only if it knows the old node.
LoadedRightly == loaded' => loaded \/ (OldLives' => RightNow(Old)')

LEMMA KnowledgeLasts ==
    ASSUME MirrorIInv, ServerMoves, MirrorKeeps, NewsLasts, LoadedRightly
    PROVE  ComesToKnow'
<1>1. ASSUME NEW u \in DOMAIN mTree' \ {Root}, u > Old
      PROVE  RightNow(u)' \/ Announced(u)'
  <2>1. CASE u \in DOMAIN mTree
    <3>1. RightNow(u) \/ Announced(u)
      BY <1>1, <2>1 DEF MirrorIInv, ComesToKnow
    <3> QED BY <1>1, <3>1 DEF NewsLasts, MirrorKeeps
  <2>2. CASE u \notin DOMAIN mTree
    BY <1>1, <2>2 DEF NewsLasts
  <2> QED BY <2>1, <2>2
<1>2. ASSUME loaded', OldLives' PROVE RightNow(Old)'
  <2>1. OldLives /\ Old \in DOMAIN mTree' \ {Root}
    BY <1>2, OldStays DEF MirrorIInv, ServerKnown, OldLives
  <2>2. CASE loaded
    BY <2>1, <2>2 DEF MirrorIInv, ComesToKnow, MirrorKeeps
  <2> QED BY <1>2, <2>2 DEF LoadedRightly
<1> QED BY <1>1, <1>2 DEF ComesToKnow

\* Objects come, and those that are rewritten are then as the tree has them.
LEMMA GrowthKeeps ==
    ASSUME MirrorIInv, UNCHANGED vars, NEW U, NEW X, Grows(mirror, mirror', U, X),
           \A u \in U : Issued(u),
           \A u \in X : u \in DOMAIN mTree => RightNow(u)'
    PROVE  NodesKnown' /\ MirrorKeeps
<1>1. mTree' = mTree /\ mUuidCtr' = mUuidCtr
  BY DEF vars, treeVars
<1>2. PICK r : r = mirror'
  OBVIOUS
<1>3. NodesTyped(mirror) /\ Grows(mirror, r, U, X)
  BY <1>2 DEF MirrorIInv, NodesKnown
<1>4. /\ Sole(r, DOMAIN mTree) /\ Earlier(r, mUuidCtr) /\ NodesTyped(r)
      /\ DOMAIN mirror.nodes \subseteq DOMAIN r.nodes
  <2>1. \A u \in U : u < mUuidCtr
    BY DEF Issued
  <2> QED BY <1>3, <2>1, GrownKnown DEF MirrorIInv, NodesKnown, Grows
<1>5. ASSUME NEW u \in DOMAIN mTree, u \notin X, RightNow(u) PROVE RightNow(u)'
  <2>1. Right(r, u, mTree[u].name, mTree[u].parent)
    BY <1>3, <1>5, GrownKnown DEF RightNow
  <2> QED BY <1>1, <1>2, <2>1 DEF RightNow
<1>6. NodesKnown'
  BY <1>1, <1>2, <1>4 DEF NodesKnown
<1> QED BY <1>1, <1>2, <1>4, <1>5, <1>6 DEF MirrorKeeps

\* A thread of the client does something, and the server nothing.
ThreadStep(w) ==
    /\ UNCHANGED vars
    /\ HistoryTyped' /\ Threaded(Requests_)' /\ AllTraffic'
    /\ NodesKnown' /\ MirrorKeeps /\ LoadedRightly
    /\ \A x \in Thread \ {w} : Stays(x)
    /\ \A k \in Asked(Me)' : k \in Asked(Me) \/ (Waits(w)' /\ k.transactionId = op'[w].id)
    /\ Told(Me)' = Told(Me)
    /\ TaskKnown(w)'

LEMMA ThreadKeeps ==
    ASSUME MirrorIInv, NEW w \in Thread, ThreadStep(w)
    PROVE  MirrorIInv'
<1>1. ServerKnown' /\ ServerMoves
  BY StandingStill DEF MirrorIInv, ThreadStep
<1>2. ASSUME NEW x \in Thread PROVE TaskKnown(x)'
  <2>1. CASE x = w
    BY <2>1 DEF ThreadStep
  <2>2. CASE x # w
    <3>1. Stays(x) /\ GoesOn(x)
      BY <2>2 DEF ThreadStep, Stays, GoesOn
    <3>2. ASSUME Waits(w)' PROVE op'[w].id # op[x].id
      <4>1. w \in ThreadsOf(Me) /\ x \in ThreadsOf(Me) /\ Me \in Client
        BY MeConnected DEF ThreadsOf
      <4>2. Waits(x)' => op'[x].id # op'[w].id
        BY <2>2, <3>2, <4>1 DEF ThreadStep, AllTraffic, Traffic, Owned, ThreadsOf
      <4> QED BY <3>1, <3>2, <4>2 DEF Stays, Waits
    <3>3. Undisturbed(x)
      BY <3>2 DEF Undisturbed, ThreadStep
    <3> QED BY <1>1, <3>1, <3>3, TaskGoesOn DEF ThreadStep
  <2> QED BY <2>1, <2>2
<1>3. NewsLasts
  BY DEF NewsLasts, ThreadStep, Announced, vars, treeVars
<1>4. ComesToKnow'
  BY <1>1, <1>3, KnowledgeLasts DEF ThreadStep
<1>5. \A k \in Told(Me)' : TrueMessage(k)'
  BY <1>1, TruthLasts DEF ThreadStep, MirrorIInv
<1> QED BY <1>1, <1>2, <1>4, <1>5 DEF ThreadStep, MirrorIInv

-----------------------------------------------------------------------------
(* The steps of the threads.                                               *)

\* What holds when a step leaves the client's nodes alone.
LEMMA MirrorStays ==
    ASSUME MirrorIInv, UNCHANGED vars, mirror' = mirror
    PROVE  NodesKnown' /\ MirrorKeeps
<1>1. mTree' = mTree
  BY DEF vars, treeVars
<1>2. NodesKnown'
  BY StandingStill, NodesStayKnown DEF MirrorIInv
<1> QED BY <1>1, <1>2 DEF MirrorKeeps, RightNow

LEMMA HistoryStays ==
    ASSUME MirrorIInv, UNCHANGED history
    PROVE  HistoryTyped' /\ LoadedRightly
  BY DEF MirrorIInv, HistoryTyped, history, LoadedRightly

\* A thread sends a request.
LEMMA SendKeeps ==
    ASSUME MirrorIInv, NEW w \in Thread, ~Waits(w), NEW task, Call(task),
           task.does \in {"create", "get", "destroy"}, NEW message \in Requests_,
           Sends(w, task, message), UNCHANGED <<vars, toClient, mirror, history>>,
           task.does = "get" /\ task.at = RootNode /\ task.recursive =>
                message = WholeTree
    PROVE  MirrorIInv'
<1>1. PICK id : id = mTransactioIdCtr[Me]
  OBVIOUS
<1>2. /\ Threaded(Requests_)' /\ AllTraffic' /\ Sent(w, Me, id, message)
  BY <1>1, MeConnected, Sending DEF MirrorIInv, Call
<1>3. op' = [op EXCEPT ![w] = [task EXCEPT !.id = id]]
  BY <1>1, MeConnected DEF Sends
<1>4. PICK t : t = [task EXCEPT !.id = id]
  OBVIOUS
<1>5. /\ op'[w] = t /\ DOMAIN t = DOMAIN task /\ t.id = id
      /\ \A f \in DOMAIN task \ {"id"} : t[f] = task[f]
  BY <1>3, <1>4 DEF MirrorIInv, Threaded
<1>6. /\ t.does = task.does /\ t.at = task.at /\ t.name = task.name
      /\ t.recursive = task.recursive /\ t.orCreate = task.orCreate
      /\ t.todo = task.todo
  BY <1>4
<1>7. Me \in Client
  BY MeConnected
<1>8. /\ id \in ReqId /\ ~Answered(w)' /\ Told(Me)' = Told(Me)
      /\ \A k \in Asked(Me) \cup Told(Me) : k.transactionId # id
      /\ Asked(Me)' = Asked(Me) \cup {Packet(id, message)}
      /\ \A x \in Thread \ {w} : Stays(x)
  BY <1>2, <1>7 DEF Sent
<1>9. NodesKnown' /\ MirrorKeeps /\ HistoryTyped' /\ LoadedRightly
  BY MirrorStays, HistoryStays
<1>10. TaskTyped(w)'
  <2>1. \A e : TrueEntry(e) => TrueEntry(e)'
    BY StandingStill, TruthLasts DEF MirrorIInv
  <2>2. Call(t)'
    BY <1>5, <1>6, <2>1 DEF Call
  <2>3. Waits(w)'
    BY <1>5, <1>8, IdTypes DEF Waits
  <2> QED BY <1>5, <2>2, <2>3 DEF TaskTyped
<1>11. ASSUME ListsAll(w)' PROVE ListedWhole(w)'
  <2>1. t.at = RootNode /\ t.recursive
    BY <1>5, <1>11 DEF ListsAll
  <2>2. ASSUME t.does = "get"
        PROVE  /\ \A k \in Asked(Me)' : k.transactionId = t.id => k.message = WholeTree
               /\ \A k \in Told(Me)' : k.transactionId # t.id
    <3>1. message = WholeTree
      BY <1>6, <2>1, <2>2
    <3> QED BY <1>5, <1>8, <3>1 DEF Packet
  <2>3. t.does # "adding"
    BY <1>6
  <2> QED BY <1>5, <1>8, <2>2, <2>3 DEF ListedWhole
<1>12. TaskKnown(w)'
  BY <1>8, <1>10, <1>11 DEF TaskKnown
<1>13. Waits(w)' /\ (\A k \in Asked(Me)' : k \in Asked(Me) \/ k.transactionId = op'[w].id)
  BY <1>5, <1>8, IdTypes DEF Waits, Packet
<1> QED BY <1>2, <1>8, <1>9, <1>12, <1>13, ThreadKeeps DEF ThreadStep

\* A thread that waits for nothing goes on with a task.
LEMMA LeftKeeps ==
    ASSUME MirrorIInv, NEW w \in Thread, NEW task, task.id = None, Left(w, task),
           Threaded(Requests_)', AllTraffic', UNCHANGED vars,
           HistoryTyped', NodesKnown', MirrorKeeps, LoadedRightly,
           task = Idle \/ Call(task)',
           task.does = "adding" /\ task.at = RootNode /\ task.recursive =>
                (OldLives' => RightNow(Old)') \/ Lists(task.todo)',
           task = Idle \/ task.does # "get"
    PROVE  MirrorIInv'
<1>1. /\ op'[w] = task /\ Asked(Me)' = Asked(Me) /\ Told(Me)' = Told(Me)
      /\ \A x \in Thread \ {w} : Stays(x)
  BY MeConnected DEF Left
<1>2. ~Answered(w)' /\ TaskTyped(w)'
  BY <1>1 DEF Answered, Waits, TaskTyped
<1>3. ListsAll(w)' => ListedWhole(w)'
  BY <1>1 DEF ListsAll, ListedWhole
<1>4. TaskKnown(w)'
  BY <1>2, <1>3 DEF TaskKnown
<1> QED BY <1>1, <1>4, ThreadKeeps DEF ThreadStep

LEMMA HeldNodes ==
    ASSUME MirrorIInv, NEW o \in Held
    PROVE  o \in DOMAIN mirror.nodes /\ o[1] \in Uuid
  BY DEF MirrorIInv, NodesKnown, NodesTyped, Object, Held

LEMMA RequestsKeep ==
    ASSUME MirrorIInv, NEW w \in Thread, NEW o \in Held,
           \/ \E n \in Name :
                Create_(w, o, n) \/ \E b \in BOOLEAN : Get_(w, o, n, b)
           \/ Destroy(w, o) \/ \E r \in BOOLEAN : LoadChildren(w, o, r)
    PROVE  MirrorIInv'
<1>1. o \in DOMAIN mirror.nodes /\ o[1] \in Uuid
  BY HeldNodes
<1>2. ASSUME NEW n \in Name, Create_(w, o, n) PROVE MirrorIInv'
  <2> DEFINE task == Task("create", o, n)
             message == CreateRequest(o, n)
  <2>1. Call(task) /\ task.does = "create"
    BY <1>1 DEF Call, Task
  <2>2. message \in Requests_
    BY <1>1 DEF Requests_, CreateRequest
  <2>3. ~Waits(w) /\ Sends(w, task, message) /\ UNCHANGED <<vars, toClient, mirror, history>>
    BY <1>2 DEF Create_, Waits, Idle
  <2> HIDE DEF task, message
  <2> QED BY <2>1, <2>2, <2>3, SendKeeps
<1>3. ASSUME NEW n \in Name, NEW b \in BOOLEAN, Get_(w, o, n, b) PROVE MirrorIInv'
  <2> DEFINE task == [Task("get", o, n) EXCEPT !.orCreate = b]
             message == [type |-> "TreeInfoRequest", parentUuid |-> o[1], name |-> n,
                         recursive |-> FALSE]
  <2>1. Call(task) /\ task.does = "get" /\ task.recursive = FALSE
    BY <1>1 DEF Call, Task
  <2>2. message \in Requests_
    BY <1>1 DEF Requests_
  <2>3. ~Waits(w) /\ Sends(w, task, message) /\ UNCHANGED <<vars, toClient, mirror, history>>
    BY <1>3 DEF Get_, Waits, Idle
  <2> HIDE DEF task, message
  <2> QED BY <2>1, <2>2, <2>3, SendKeeps
<1>4. ASSUME Destroy(w, o) PROVE MirrorIInv'
  <2> DEFINE task == Task("destroy", o, None)
             message == [type |-> "DeleteRequest", uuid |-> o[1]]
  <2>1. Call(task) /\ task.does = "destroy"
    BY <1>1 DEF Call, Task
  <2>2. message \in Requests_
    BY <1>1 DEF Requests_
  <2>3. ~Waits(w) /\ Sends(w, task, message) /\ UNCHANGED <<vars, toClient, mirror, history>>
    BY <1>4 DEF Destroy, Waits, Idle
  <2> HIDE DEF task, message
  <2> QED BY <2>1, <2>2, <2>3, SendKeeps
<1>5. ASSUME NEW r \in BOOLEAN, LoadChildren(w, o, r) PROVE MirrorIInv'
  <2> DEFINE task == [Task("get", o, Dot) EXCEPT !.recursive = r]
             message == [type |-> "TreeInfoRequest", parentUuid |-> o[1], name |-> Dot,
                         recursive |-> r]
  <2>1. Call(task) /\ task.does = "get" /\ task.at = o /\ task.recursive = r
    BY <1>1 DEF Call, Task
  <2>2. message \in Requests_
    BY <1>1 DEF Requests_
  <2>3. o = RootNode /\ r => message = WholeTree
    BY DEF RootNode, WholeTree
  <2>4. ~Waits(w) /\ Sends(w, task, message) /\ UNCHANGED <<vars, toClient, mirror, history>>
    BY <1>5 DEF LoadChildren, Waits, Idle
  <2> HIDE DEF task, message
  <2> QED BY <2>1, <2>2, <2>3, <2>4, SendKeeps
<1> QED BY <1>2, <1>3, <1>4, <1>5

LEMMA OrCreateKeeps ==
    ASSUME MirrorIInv, NEW w \in Thread, OrCreate(w)
    PROVE  MirrorIInv'
<1> DEFINE task == [op[w] EXCEPT !.does = "create"]
           message == CreateRequest(op[w].at, op[w].name)
<1>1. Call(op[w]) /\ op[w].does = "creating"
  BY DEF OrCreate, MirrorIInv, TaskKnown, TaskTyped, Idle
<1>2. Call(task) /\ task.does = "create"
  BY <1>1 DEF Call
<1>3. message \in Requests_
  BY <1>1, HeldNodes DEF Call, Held, Requests_, CreateRequest
<1>4. ~Waits(w) /\ Sends(w, task, message) /\ UNCHANGED <<vars, toClient, mirror, history>>
  BY <1>1 DEF OrCreate, Waits, Call
<1> HIDE DEF task, message
<1> QED BY <1>2, <1>3, <1>4, SendKeeps

\* A thread returns with its answer: what must be shown is what becomes of the nodes.
LEMMA ReturnKeeps ==
    ASSUME MirrorIInv, NEW w \in Thread, Answered(w), NEW task, task.id = None,
           Returns(w, task), HistoryTyped', NodesKnown', MirrorKeeps, LoadedRightly,
           task = Idle \/ Call(task)',
           task.does = "adding" /\ task.at = RootNode /\ task.recursive =>
                (OldLives' => RightNow(Old)') \/ Lists(task.todo)',
           task = Idle \/ task.does # "get"
    PROVE  MirrorIInv'
<1>1. Threaded(Requests_)' /\ AllTraffic' /\ Left(w, task)
  BY Returning DEF MirrorIInv
<1>2. UNCHANGED vars
  BY DEF Returns
<1> QED BY <1>1, <1>2, LeftKeeps

\* What a call that has got its answer is.
LEMMA GotCall ==
    ASSUME MirrorIInv, NEW w \in Thread, NEW does, NEW type,
           does \in {"create", "get", "destroy"}, Got(w, does, type)
    PROVE  /\ Answered(w) /\ Call(op[w]) /\ op[w].does = does
           /\ AnswerTo(w).type = type /\ TrueAnswer(AnswerTo(w))
           /\ ListsAll(w) => ListedWhole(w)
           /\ op[w].at \in DOMAIN mirror.nodes
  BY DEF Got, MirrorIInv, TaskKnown, TaskTyped, Idle, Call

LEMMA IdleTask == Idle.id = None /\ Idle.does = "nothing"
  BY DEF Idle

LEMMA CreateAcceptedKeeps ==
    ASSUME MirrorIInv, NEW w \in Thread, CreateAccepted(w)
    PROVE  MirrorIInv'
<1>1. PICK u : u = AnswerTo(w).uuid
  OBVIOUS
<1>2. /\ Got(w, "create", "CreateAccept") /\ Returns(w, Idle)
      /\ mirror' = Accepted(mirror, u, op[w].at, op[w].name)
      /\ revived' = revived \cup ({u} \cap removed)
      /\ UNCHANGED <<loaded, removed, displaced>>
  BY <1>1 DEF CreateAccepted
<1>3. /\ Answered(w) /\ Issued(u) /\ op[w].at \in DOMAIN mirror.nodes /\ op[w].name \in Name
  BY <1>1, <1>2, GotCall DEF TrueAnswer, Call
<1>4. UNCHANGED vars
  BY <1>2 DEF Returns
<1>5. Grows(mirror, mirror', {u}, {})
  BY <1>2, <1>3, AcceptGrows DEF Issued, MirrorIInv, NodesKnown
<1>6. NodesKnown' /\ MirrorKeeps
  BY <1>3, <1>4, <1>5, GrowthKeeps
<1>7. HistoryTyped' /\ LoadedRightly
  BY <1>2 DEF MirrorIInv, HistoryTyped, LoadedRightly
<1> QED BY <1>2, <1>3, <1>6, <1>7, IdleTask, ReturnKeeps

LEMMA CreateRejectedKeeps ==
    ASSUME MirrorIInv, NEW w \in Thread, CreateRejected(w)
    PROVE  MirrorIInv'
<1>1. Answered(w) /\ Returns(w, Idle) /\ UNCHANGED <<mirror, history>> /\ UNCHANGED vars
  BY DEF CreateRejected, Got, Returns
<1>2. NodesKnown' /\ MirrorKeeps /\ HistoryTyped' /\ LoadedRightly
  BY <1>1, MirrorStays, HistoryStays
<1> QED BY <1>1, <1>2, IdleTask, ReturnKeeps

LEMMA GetAnsweredKeeps ==
    ASSUME MirrorIInv, NEW w \in Thread, GetAnswered(w)
    PROVE  MirrorIInv'
<1>1. PICK list : list = AnswerTo(w).nodeToAddList
  OBVIOUS
<1> DEFINE own == IF op[w].name = Dot THEN None
                  ELSE (CHOOSE e \in list : e.parentUuid = op[w].at[1]
                                          /\ e.name = op[w].name).uuid
<1> HIDE DEF own
<1>2. PICK sought : sought = own
  OBVIOUS
<1>3. PICK task : task = [op[w] EXCEPT !.does = "adding", !.id = None, !.todo = list,
                                     !.sought = sought]
  OBVIOUS
<1>4. /\ Got(w, "get", "TreeInfoResponse") /\ Returns(w, task)
      /\ UNCHANGED <<mirror, history>> /\ UNCHANGED vars
  BY <1>1, <1>2, <1>3 DEF GetAnswered, Returns, own
<1>5. /\ Answered(w) /\ Call(op[w]) /\ op[w].does = "get"
      /\ \A e \in list : TrueEntry(e)
      /\ op[w].at = RootNode /\ op[w].recursive => Lists(list)
  BY <1>1, <1>4, GotCall, IdleTask DEF TrueAnswer, ListsAll, ListedWhole, WholeList
<1>6. NodesKnown' /\ MirrorKeeps /\ HistoryTyped' /\ LoadedRightly
  BY <1>4, MirrorStays, HistoryStays
<1>7. /\ \A e : TrueEntry(e) => TrueEntry(e)'
      /\ Lists(list) => Lists(list)'
  BY <1>4, StandingStill, TruthLasts, OldStays DEF MirrorIInv, ServerKnown
<1>8. /\ DOMAIN task = DOMAIN op[w] /\ task.does = "adding" /\ task.id = None
      /\ task.todo = list /\ task.at = op[w].at /\ task.name = op[w].name
      /\ task.recursive = op[w].recursive /\ task.orCreate = op[w].orCreate
  BY <1>3, <1>5 DEF Call
<1>9. Call(task)'
  BY <1>4, <1>5, <1>7, <1>8 DEF Call
<1>10. task.at = RootNode /\ task.recursive => Lists(task.todo)'
  BY <1>5, <1>7, <1>8
<1> QED BY <1>4, <1>5, <1>6, <1>8, <1>9, <1>10, ReturnKeeps

LEMMA GetNothingKeeps ==
    ASSUME MirrorIInv, NEW w \in Thread, GetNothing(w)
    PROVE  MirrorIInv'
<1>1. PICK again : again = [op[w] EXCEPT !.does = "creating", !.id = None]
  OBVIOUS
<1>2. PICK task : task = IF op[w].orCreate /\ op[w].name \notin DOMAIN Children(op[w].at)
                         THEN again ELSE Idle
  OBVIOUS
<1>3. /\ Got(w, "get", "TreeInfoErrorResponse") /\ Returns(w, task)
      /\ UNCHANGED <<mirror, history>> /\ UNCHANGED vars
  BY <1>1, <1>2 DEF GetNothing, Returns
<1>4. Answered(w) /\ Call(op[w]) /\ op[w].does = "get"
  BY <1>3, GotCall
<1>5. NodesKnown' /\ MirrorKeeps /\ HistoryTyped' /\ LoadedRightly
  BY <1>3, MirrorStays, HistoryStays
<1>6. \A e : TrueEntry(e) => TrueEntry(e)'
  BY <1>3, StandingStill, TruthLasts DEF MirrorIInv
<1>7. /\ DOMAIN again = DOMAIN op[w] /\ again.does = "creating" /\ again.id = None
      /\ again.todo = op[w].todo /\ again.at = op[w].at /\ again.name = op[w].name
      /\ again.recursive = op[w].recursive /\ again.orCreate = op[w].orCreate
  BY <1>1, <1>4 DEF Call
<1>8. CASE task = Idle
  BY <1>3, <1>4, <1>5, <1>8, IdleTask, ReturnKeeps
<1>9. CASE task = again /\ op[w].orCreate
  <2>1. again.name \in Name
    BY <1>4, <1>7, <1>9 DEF Call
  <2>2. Call(again)'
    BY <1>3, <1>4, <1>6, <1>7, <2>1 DEF Call
  <2> QED BY <1>3, <1>4, <1>5, <1>7, <1>9, <2>2, ReturnKeeps
<1> QED BY <1>2, <1>8, <1>9

LEMMA DestroyedKeeps ==
    ASSUME MirrorIInv, NEW w \in Thread, Destroyed(w)
    PROVE  MirrorIInv'
<1>1. /\ Got(w, "destroy", "DeleteResponse") /\ Returns(w, Idle)
      /\ UNCHANGED <<loaded, removed, revived>> /\ UNCHANGED vars
  BY DEF Destroyed, Returns
<1>2. PICK o : o = op[w].at
  OBVIOUS
<1>3. Answered(w) /\ o \in DOMAIN mirror.nodes
  BY <1>1, <1>2, GotCall
<1>4. LoadedRightly
  BY <1>1 DEF LoadedRightly
<1>5. CASE UNCHANGED <<mirror, displaced>>
  <2>1. NodesKnown' /\ MirrorKeeps
    BY <1>1, <1>5, MirrorStays
  <2>2. HistoryTyped'
    BY <1>1, <1>5 DEF MirrorIInv, HistoryTyped
  <2> QED BY <1>1, <1>3, <1>4, <2>1, <2>2, IdleTask, ReturnKeeps
<1>6. CASE /\ mirror' = [mirror EXCEPT !.nodes = Unlist(@, o)]
           /\ displaced' = displaced \cup {x[1] : x \in ListedAs(o) \ {o}}
  <2>1. Grows(mirror, mirror', {}, {})
    <3>1. Unlists(mirror, mirror', o)
      BY <1>6 DEF Unlists
    <3> QED BY <1>3, <3>1, UnlistGrows DEF Rechilded, MirrorIInv, NodesKnown
  <2>2. NodesKnown' /\ MirrorKeeps
    BY <1>1, <2>1, GrowthKeeps
  <2>3. \A x \in ListedAs(o) : x[1] \in Uuid
    BY HeldNodes DEF ListedAs, Held
  <2>4. HistoryTyped'
    BY <1>1, <1>6, <2>3 DEF MirrorIInv, HistoryTyped
  <2> QED BY <1>1, <1>3, <1>4, <2>2, <2>4, IdleTask, ReturnKeeps
<1> QED BY <1>2, <1>5, <1>6 DEF Destroyed

LEMMA ExpireKeeps ==
    ASSUME MirrorIInv, NEW w \in Thread, Expire(w)
    PROVE  MirrorIInv'
<1>1. Throws(w) /\ UNCHANGED <<mirror, history>> /\ UNCHANGED vars
  BY DEF Expire, Throws
<1>2. Threaded(Requests_)' /\ AllTraffic' /\ Left(w, Idle)
  BY <1>1, Throwing DEF MirrorIInv
<1>3. NodesKnown' /\ MirrorKeeps /\ HistoryTyped' /\ LoadedRightly
  BY <1>1, MirrorStays, HistoryStays
<1> QED BY <1>1, <1>2, <1>3, IdleTask, LeftKeeps

LEMMA AddNextKeeps ==
    ASSUME MirrorIInv, NEW w \in Thread, AddNext(w)
    PROVE  MirrorIInv'
<1>1. /\ op[w].does = "adding" /\ UNCHANGED vars
      /\ UNCHANGED <<mTransactions, mTransactioIdCtr, wires>>
      /\ loaded' = loaded /\ removed' = removed
  BY DEF AddNext
<1>2. PICK e \in op[w].todo :
        /\ mirror' = Added(mirror, e)
        /\ op' = [op EXCEPT ![w].todo = @ \ {e}]
        /\ revived' = revived \cup ({e.uuid, e.parentUuid} \cap removed)
        /\ displaced' = IF e.uuid \in removed
                        THEN displaced \cup {x[1] : x \in Overtaken(e)}
                        ELSE displaced \ {e.uuid}
  BY DEF AddNext
<1>3. PICK task : task = [op[w] EXCEPT !.todo = op[w].todo \ {e}]
  OBVIOUS
<1>4. Call(op[w]) /\ op[w].id = None /\ TaskKnown(w) /\ TrueEntry(e)
  BY <1>1, IdleTask DEF MirrorIInv, TaskKnown, TaskTyped, Call
<1>5. /\ DOMAIN task = DOMAIN op[w] /\ task.does = "adding" /\ task.id = None
      /\ task.todo = op[w].todo \ {e} /\ task.at = op[w].at /\ task.name = op[w].name
      /\ task.recursive = op[w].recursive /\ task.orCreate = op[w].orCreate
  BY <1>1, <1>3, <1>4 DEF Call
<1>6. op' = [op EXCEPT ![w] = task]
  BY <1>2, <1>3
<1>7. Threaded(Requests_)' /\ AllTraffic' /\ Left(w, task)
  BY <1>1, <1>4, <1>5, <1>6, GoingOn DEF MirrorIInv, Waits
<1>8. /\ Grows(mirror, mirror', {e.uuid, e.parentUuid}, {e.uuid})
      /\ Right(mirror', e.uuid, e.name, e.parentUuid)
  BY <1>2, <1>4, EntryAdded DEF TrueEntry, MirrorIInv, NodesKnown
<1>9. /\ mTree' = mTree
      /\ \A f : TrueEntry(f) => TrueEntry(f)'
      /\ \A l : Lists(l) => Lists(l)'
  BY <1>1, StandingStill, TruthLasts, OldStays
     DEF vars, treeVars, MirrorIInv, ServerKnown
<1>10. e.uuid \in DOMAIN mTree => RightNow(e.uuid)'
  BY <1>4, <1>8, <1>9 DEF TrueEntry, RightNow
<1>11. NodesKnown' /\ MirrorKeeps
  BY <1>1, <1>4, <1>8, <1>10, GrowthKeeps DEF TrueEntry
<1>12. HistoryTyped' /\ LoadedRightly
  <2>1. \A x \in Overtaken(e) : x[1] \in Uuid
    BY HeldNodes DEF Overtaken, Held
  <2> QED BY <1>1, <1>2, <2>1 DEF MirrorIInv, HistoryTyped, LoadedRightly
<1>13. Call(task)'
  BY <1>4, <1>5, <1>9, <1>11 DEF Call, MirrorKeeps
<1>14. ASSUME task.at = RootNode, task.recursive
       PROVE  (OldLives' => RightNow(Old)') \/ Lists(task.todo)'
  <2>1. (OldLives => RightNow(Old)) \/ Lists(op[w].todo)
    BY <1>1, <1>4, <1>5, <1>14, IdleTask DEF TaskKnown, ListsAll, ListedWhole
  <2>2. OldLives' <=> OldLives
    BY <1>9 DEF OldLives
  <2>3. CASE OldLives => RightNow(Old)
    BY <1>9, <1>11, <2>2, <2>3 DEF MirrorKeeps, OldLives
  <2>4. CASE Lists(op[w].todo) /\ e.uuid = Old
    BY <1>10, <2>2, <2>4 DEF OldLives
  <2>5. CASE Lists(op[w].todo) /\ e.uuid # Old
    BY <1>5, <2>2, <2>5 DEF Lists
  <2> QED BY <2>1, <2>3, <2>4, <2>5
<1> QED BY <1>1, <1>5, <1>7, <1>11, <1>12, <1>13, <1>14, LeftKeeps

LEMMA GetEndKeeps ==
    ASSUME MirrorIInv, NEW w \in Thread, GetEnd(w)
    PROVE  MirrorIInv'
<1>1. PICK lost : lost = [op[w] EXCEPT !.does = "lost"]
  OBVIOUS
<1>2. PICK task : task = IF op[w].sought = None \/ Known(mirror, op[w].sought) THEN Idle
                         ELSE lost
  OBVIOUS
<1>3. /\ op[w].does = "adding" /\ op[w].todo = {} /\ UNCHANGED vars
      /\ UNCHANGED <<mTransactions, mTransactioIdCtr, wires>>
      /\ UNCHANGED <<mirror, removed, revived, displaced>>
      /\ op' = [op EXCEPT ![w] = task]
      /\ loaded' = (loaded \/ (op[w].at = RootNode /\ op[w].recursive))
  BY <1>1, <1>2 DEF GetEnd
<1>4. Call(op[w]) /\ op[w].id = None /\ TaskKnown(w)
  BY <1>3, IdleTask DEF MirrorIInv, TaskKnown, TaskTyped, Call
<1>5. /\ DOMAIN lost = DOMAIN op[w] /\ lost.does = "lost" /\ lost.id = None
      /\ lost.todo = op[w].todo /\ lost.at = op[w].at /\ lost.name = op[w].name
      /\ lost.recursive = op[w].recursive /\ lost.orCreate = op[w].orCreate
  BY <1>1, <1>4 DEF Call
<1>6. task.id = None /\ task.does # "adding" /\ task.does # "get"
  BY <1>2, <1>5, IdleTask
<1>7. Threaded(Requests_)' /\ AllTraffic' /\ Left(w, task)
  BY <1>3, <1>4, <1>6, GoingOn DEF MirrorIInv, Waits
<1>8. NodesKnown' /\ MirrorKeeps
  BY <1>3, MirrorStays
<1>9. LoadedRightly
  <2>1. SUFFICES ASSUME op[w].at = RootNode, op[w].recursive, OldLives'
                 PROVE  RightNow(Old)'
    BY <1>3 DEF LoadedRightly
  <2>2. (OldLives => RightNow(Old)) \/ Lists({})
    BY <1>3, <1>4, <2>1, IdleTask DEF TaskKnown, ListsAll, ListedWhole
  <2>3. OldLives /\ Old \in DOMAIN mTree' \ {Root}
    BY <1>3, <2>1 DEF OldLives, vars, treeVars
  <2> QED BY <1>8, <2>2, <2>3 DEF Lists, MirrorKeeps
<1>10. HistoryTyped'
  BY <1>3 DEF MirrorIInv, HistoryTyped
<1>11. task = Idle \/ Call(task)'
  BY <1>2, <1>3, <1>4, <1>5 DEF Call
<1> QED BY <1>3, <1>6, <1>7, <1>8, <1>9, <1>10, <1>11, LeftKeeps

-----------------------------------------------------------------------------
(* The steps of the reader.                                                *)

LEMMA ReadAnswerKeeps ==
    ASSUME MirrorIInv, ReadAnswer
    PROVE  MirrorIInv'
<1>1. ReadsAnswer(Me) /\ UNCHANGED <<mirror, history>> /\ UNCHANGED vars
  BY DEF ReadAnswer, ReadsAnswer
<1>2. PICK k : k = Arrived(Me)
  OBVIOUS
<1>3. Threaded(Requests_)' /\ AllTraffic' /\ Filed(Me, k)
  BY <1>1, <1>2, MeConnected, Filing DEF MirrorIInv
<1>4. ServerKnown' /\ ServerMoves
  BY <1>1, StandingStill DEF MirrorIInv
<1>5. NodesKnown' /\ MirrorKeeps /\ HistoryTyped' /\ LoadedRightly
  BY <1>1, MirrorStays, HistoryStays
<1>6. /\ Told(Me) = {k} \cup Told(Me)' /\ Asked(Me)' = Asked(Me)
      /\ k.transactionId # Notify
  BY <1>3, MeConnected, IdTypes DEF Filed, Taken
<1>7. ASSUME NEW x \in Thread PROVE TaskKnown(x)'
  <2>1. GoesOn(x)
    BY <1>3, <1>6 DEF Filed, GoesOn, Stays
  <2>2. Undisturbed(x)
    BY <1>6 DEF Undisturbed
  <2> QED BY <1>4, <1>5, <2>1, <2>2, TaskGoesOn
<1>8. NewsLasts
  <2>1. mTree' = mTree
    BY <1>1 DEF vars, treeVars
  <2>2. \A u : Announced(u) => Announced(u)'
    BY <1>6 DEF Announced, Announces
  <2> QED BY <2>1, <2>2 DEF NewsLasts
<1>9. ComesToKnow'
  BY <1>4, <1>5, <1>8, KnowledgeLasts
<1>10. \A m \in Told(Me)' : TrueMessage(m)'
  BY <1>4, <1>6, TruthLasts DEF MirrorIInv
<1> QED BY <1>3, <1>4, <1>5, <1>7, <1>9, <1>10 DEF MirrorIInv

\* The nodes after a notification, which speaks of one node.
LEMMA NotificationKeeps ==
    ASSUME MirrorIInv, UNCHANGED vars, NEW m, Announcement(m),
           \/ \E e \in m.nodeToAddList : mirror' = Added(mirror, e)
           \/ \E u \in m.nodeToDelete : mirror' = Removed(mirror, u)
    PROVE  /\ NodesKnown' /\ MirrorKeeps
           /\ \A u \in DOMAIN mTree : \A e \in m.nodeToAddList :
                e.uuid = u => RightNow(u)'
           /\ m.nodeToDelete \subseteq Uuid
<1>1. mTree' = mTree /\ mUuidCtr' = mUuidCtr
  BY DEF vars, treeVars
<1>2. ASSUME NEW e \in NamedNode, m.nodeToAddList = {e}, m.nodeToDelete = {}, TrueEntry(e)
      PROVE  /\ NodesKnown' /\ MirrorKeeps
             /\ \A u \in DOMAIN mTree : \A f \in m.nodeToAddList :
                    f.uuid = u => RightNow(u)'
  <2>1. /\ Grows(mirror, mirror', {e.uuid, e.parentUuid}, {e.uuid})
        /\ Right(mirror', e.uuid, e.name, e.parentUuid)
    BY <1>2, EntryAdded DEF MirrorIInv, NodesKnown
  <2>2. e.uuid \in DOMAIN mTree => RightNow(e.uuid)'
    BY <1>1, <1>2, <2>1 DEF TrueEntry, RightNow
  <2>3. NodesKnown' /\ MirrorKeeps
    BY <1>2, <2>1, <2>2, GrowthKeeps DEF TrueEntry
  <2> QED BY <1>2, <2>2, <2>3
<1>3. ASSUME NEW d \in Uuid, m.nodeToAddList = {}, m.nodeToDelete = {d},
             d \notin DOMAIN mTree
      PROVE  NodesKnown' /\ MirrorKeeps
  <2>1. PICK r : r = mirror'
    OBVIOUS
  <2>2. r = Removed(mirror, d) /\ NodesTyped(mirror)
    BY <1>3, <2>1 DEF MirrorIInv, NodesKnown
  <2>3. /\ NodesTyped(r) /\ DOMAIN r.nodes = DOMAIN mirror.nodes
        /\ Sole(r, DOMAIN mTree)
        /\ \A v, name, parent : v # d /\ parent # d /\ Right(mirror, v, name, parent) =>
                Right(r, v, name, parent)
    BY <1>3, <2>2, NodeRemoved DEF MirrorIInv, NodesKnown
  <2>4. Earlier(r, mUuidCtr)
    BY <2>3 DEF MirrorIInv, NodesKnown, Earlier
  <2>5. NodesKnown'
    BY <1>1, <2>1, <2>3, <2>4 DEF NodesKnown
  <2>6. ASSUME NEW u \in DOMAIN mTree \ {Root}, RightNow(u) PROVE RightNow(u)'
    <3>1. u # d /\ mTree[u].parent # d
      BY <1>3, <2>6 DEF MirrorIInv, ServerKnown, TreeConsistent, ParentLinks
    <3>2. Right(r, u, mTree[u].name, mTree[u].parent)
      BY <2>3, <2>6, <3>1 DEF RightNow
    <3> QED BY <1>1, <2>1, <3>2 DEF RightNow
  <2> QED BY <1>1, <2>1, <2>3, <2>5, <2>6 DEF MirrorKeeps
<1> QED BY <1>2, <1>3 DEF Announcement

LEMMA ReadNotificationKeeps ==
    ASSUME MirrorIInv, ReadNotification
    PROVE  MirrorIInv'
<1>1. PICK k : k = Arrived(Me)
  OBVIOUS
<1>2. /\ Takes(Me) /\ ~Matches(Me, k)
      /\ \/ \E e \in k.message.nodeToAddList : mirror' = Added(mirror, e)
         \/ \E u \in k.message.nodeToDelete : mirror' = Removed(mirror, u)
      /\ removed' = removed \cup k.message.nodeToDelete
      /\ UNCHANGED vars /\ UNCHANGED <<threadVars, toServer>>
      /\ UNCHANGED <<loaded, revived, displaced>>
  BY <1>1 DEF ReadNotification
<1>3. /\ Threaded(Requests_)' /\ AllTraffic' /\ Taken(Me, k)
      /\ k.transactionId = Notify /\ \A w \in Thread : Stays(w)
  BY <1>1, <1>2, MeConnected, Hearing DEF MirrorIInv
<1>4. Told(Me) = {k} \cup Told(Me)' /\ Asked(Me)' = Asked(Me)
  BY <1>3, MeConnected DEF Taken
<1>5. ServerKnown' /\ ServerMoves
  BY <1>2, StandingStill DEF MirrorIInv
<1>6. Announcement(k.message)
  BY <1>3, <1>4 DEF MirrorIInv, TrueMessage
<1>7. /\ NodesKnown' /\ MirrorKeeps
      /\ \A u \in DOMAIN mTree : \A e \in k.message.nodeToAddList :
            e.uuid = u => RightNow(u)'
      /\ k.message.nodeToDelete \subseteq Uuid
  BY <1>2, <1>6, NotificationKeeps
<1>8. HistoryTyped' /\ LoadedRightly
  BY <1>2, <1>7 DEF MirrorIInv, HistoryTyped, LoadedRightly
<1>9. ASSUME NEW x \in Thread PROVE TaskKnown(x)'
  <2>1. GoesOn(x) /\ Undisturbed(x)
    BY <1>3, <1>4 DEF Undisturbed, GoesOn, Stays
  <2> QED BY <1>5, <1>7, <2>1, TaskGoesOn
<1>10. NewsLasts
  <2>1. mTree' = mTree
    BY <1>2 DEF vars, treeVars
  <2>2. ASSUME NEW u \in DOMAIN mTree, Announced(u) PROVE Announced(u)' \/ RightNow(u)'
    <3>1. PICK q \in Told(Me) : Announces(q, u)
      BY <2>2 DEF Announced
    <3>2. q = k \/ q \in Told(Me)'
      BY <1>4
    <3> QED BY <1>7, <3>1, <3>2 DEF Announces, Announced
  <2> QED BY <2>1, <2>2 DEF NewsLasts
<1>11. ComesToKnow'
  BY <1>5, <1>7, <1>8, <1>10, KnowledgeLasts
<1>12. \A q \in Told(Me)' : TrueMessage(q)'
  BY <1>4, <1>5, TruthLasts DEF MirrorIInv
<1> QED BY <1>3, <1>5, <1>7, <1>8, <1>9, <1>11, <1>12 DEF MirrorIInv

-----------------------------------------------------------------------------
(* The steps of the server.                                                *)

\* What it tells an asker of the whole tree is a list of the whole tree.
TellsWhole ==
    \A w \in Thread : ListsAll(w) /\ op[w].does = "get" =>
        \A k \in Range(out'[Me]) : k.transactionId = op[w].id => WholeList(k.message)'

LEMMA ServerKeeps ==
    ASSUME MirrorIInv, NEW c \in Conn, NEW t, Tells(c, t), TellsWhole,
           Delivered, Threaded(Requests_)', AllTraffic',
           UNCHANGED <<threadVars, mirror, history>>,
           \A k \in Asked(Me)' : k \in Asked(Me)
    PROVE  MirrorIInv'
<1>1. /\ Next /\ UNCHANGED sessionVars
      /\ \A k \in Range(out'[Me]) : TrueMessage(k)'
      /\ \A u \in DOMAIN mTree' \ DOMAIN mTree :
            \E k \in Range(out'[Me]) : Announces(k, u)
  BY DEF Tells
<1>2. TypeOK /\ TreeConsistent /\ TypeOK' /\ TreeConsistent'
  BY <1>1, TypeNext, TreeNext DEF MirrorIInv, ServerKnown
<1>3. ServerMoves
  BY <1>1, <1>2, HandlersMove
<1>4. ServerKnown'
  <2>1. mSessions' = mSessions
    BY <1>1 DEF sessionVars
  <2>2. Issued(Old)'
    BY <1>3, TruthLasts DEF MirrorIInv, ServerKnown
  <2> QED BY <1>2, <2>1, <2>2 DEF MirrorIInv, ServerKnown
<1>5. NodesKnown'
  BY <1>3, NodesStayKnown DEF MirrorIInv
<1>6. MirrorKeeps
  <2>1. ASSUME NEW u \in DOMAIN mTree' \ {Root}, RightNow(u) PROVE RightNow(u)'
    <3>1. mirror.mTree[u] \in DOMAIN mirror.nodes /\ mirror.mTree[u][1] = u
      BY <2>1 DEF RightNow, Right, Known, MirrorIInv, NodesKnown, NodesTyped, IsMap
    <3>2. u < mUuidCtr /\ u \in Nat
      BY <3>1 DEF MirrorIInv, NodesKnown, Earlier, NodesTyped, Object, Uuid
    <3>3. SameIdentity(u)
      BY <1>3, <2>1, <3>2 DEF ServerMoves
    <3> QED BY <1>3, <2>1, <3>2, <3>3 DEF SameIdentity, RightNow
  <2> QED BY <2>1 DEF MirrorKeeps
<1>7. HistoryTyped' /\ LoadedRightly
  BY HistoryStays
<1>8. Told(Me)' = Told(Me) \cup Range(out'[Me]) /\ \A w \in Thread : Stays(w)
  BY MeConnected DEF Delivered
<1>9. ASSUME NEW w \in Thread PROVE TaskKnown(w)'
  <2>1. GoesOn(w) /\ Undisturbed(w)
    BY <1>8 DEF Undisturbed, GoesOn, Stays, TellsWhole
  <2> QED BY <1>3, <1>4, <1>6, <2>1, TaskGoesOn
<1>10. \A k \in Told(Me)' : TrueMessage(k)'
  BY <1>1, <1>3, <1>8, TruthLasts DEF MirrorIInv
<1>11. NewsLasts
  BY <1>1, <1>8 DEF NewsLasts, Announced, Announces
<1>12. ComesToKnow'
  BY <1>3, <1>6, <1>7, <1>11, KnowledgeLasts
<1> QED BY <1>4, <1>5, <1>7, <1>9, <1>10, <1>12 DEF MirrorIInv

LEMMA GettingWaits ==
    ASSUME MirrorIInv, NEW w \in Thread, ListsAll(w), op[w].does = "get"
    PROVE  op[w].id \in ReqId
  BY DEF ListsAll, MirrorIInv, TaskKnown, TaskTyped, Threaded, Waits

\* What the answer b to the message m says of the node that it is about.
AnswersWell(m, b) ==
    /\ m.type = "CreateRequest" => AcceptsWell(b, m.parentUuid, m.name)
    /\ m.type = "DeleteRequest" => DeletesWell(b, m.uuid)

\* The request k of the client is answered with what is true.
AnswersTruly(k) ==
    /\ k \in Asked(Me) /\ k.transactionId \in ReqId
    /\ Tells(Me, k.transactionId)
    /\ k.message = WholeTree => \A q \in Range(out'[Me]) : WholeList(q.message)'
    /\ \A q \in Range(out'[Me]) :
        q.transactionId = k.transactionId => AnswersWell(k.message, q.message)'

LEMMA ServeTells ==
    ASSUME MirrorIInv, Serve, NEW k, k = Requested(Me)
    PROVE  AnswersTruly(k)
<1>1. PICK t : t = k.transactionId
  OBVIOUS
<1>2. PICK m : m = k.message
  OBVIOUS
<1>3. /\ TakesRequest(Me) /\ Delivers /\ UNCHANGED <<threadVars, mirror, history>>
      /\ CASE m.type = "CreateRequest" -> Create(Me, t, m.parentUuid, m.name)
           [] m.type = "TreeInfoRequest" ->
                TreeInfo(Me, t, m.parentUuid, m.name, m.recursive)
           [] m.type = "DeleteRequest" -> Delete(Me, t, m.uuid)
  BY <1>1, <1>2 DEF Serve
<1>4. t \in ReqId /\ m \in Requests_ /\ k \in Asked(Me)
  <2> DEFINE R == [transactionId : ReqId, message : Requests_]
  <2>1. toServer[Me] \in Seq(R) /\ toServer[Me] # <<>>
    BY <1>3, MeConnected DEF MirrorIInv, Threaded, ThreadsTypeOK, TakesRequest
  <2>2. \A p \in R : p.transactionId \in ReqId /\ p.message \in Requests_
    OBVIOUS
  <2> HIDE DEF R
  <2>3. Head(toServer[Me]) \in R /\ Head(toServer[Me]) \in Range(toServer[Me])
    BY <2>1, TakenPackets
  <2> QED BY <1>1, <1>2, <2>2, <2>3 DEF Requested, Asked
<1>5. ServerKnown /\ Me \in Conn /\ Me \in Client
  BY MeConnected DEF MirrorIInv
<1>6. /\ Tells(Me, t)
      /\ m = WholeTree => \A q \in Range(out'[Me]) : WholeList(q.message)'
      /\ \A q \in Range(out'[Me]) : q.transactionId = t => AnswersWell(m, q.message)'
  <2>1. CASE m \in [type : {"CreateRequest"}, parentUuid : Uuid, name : Name]
    <3>1. m.type = "CreateRequest" /\ m.type # WholeTree.type
      BY <2>1 DEF WholeTree
    <3>2. Create(Me, t, m.parentUuid, m.name)
      BY <1>3, <3>1
    <3>3. /\ Tells(Me, t)
          /\ \A q \in Range(out'[Me]) : q.transactionId = t =>
                AcceptsWell(q.message, m.parentUuid, m.name)'
      BY <1>4, <1>5, <2>1, <3>2, CreateTells
    <3> QED BY <3>1, <3>3 DEF AnswersWell
  <2>2. CASE m \in [type : {"TreeInfoRequest"}, parentUuid : Uuid,
                    name : Name \cup {Dot}, recursive : BOOLEAN]
    <3>1. TreeInfo(Me, t, m.parentUuid, m.name, m.recursive)
      BY <1>3, <2>2
    <3>2. m = WholeTree => m.parentUuid = Root /\ m.name = Dot /\ m.recursive
      BY DEF WholeTree
    <3>3. /\ Tells(Me, t)
          /\ m = WholeTree => \A q \in Range(out'[Me]) : WholeList(q.message)'
      BY <1>4, <1>5, <2>2, <3>1, <3>2, ListTells
    <3>4. m.type # "CreateRequest" /\ m.type # "DeleteRequest"
      BY <2>2
    <3> QED BY <3>3, <3>4 DEF AnswersWell
  <2>3. CASE m \in [type : {"DeleteRequest"}, uuid : Uuid]
    <3>1. m.type = "DeleteRequest" /\ m.type # WholeTree.type
      BY <2>3 DEF WholeTree
    <3>2. Delete(Me, t, m.uuid)
      BY <1>3, <3>1
    <3>3. /\ Tells(Me, t)
          /\ \A q \in Range(out'[Me]) : q.transactionId = t =>
                DeletesWell(q.message, m.uuid)'
      BY <1>4, <1>5, <2>3, <3>2, DeleteTells
    <3> QED BY <3>1, <3>3 DEF AnswersWell
  <2> QED BY <1>4, <2>1, <2>2, <2>3 DEF Requests_
<1> QED BY <1>1, <1>2, <1>4, <1>6 DEF AnswersTruly

LEMMA ServeKeeps ==
    ASSUME MirrorIInv, Serve
    PROVE  MirrorIInv'
<1>1. PICK k : k = Requested(Me)
  OBVIOUS
<1>2. PICK t : t = k.transactionId
  OBVIOUS
<1>3. PICK m : m = k.message
  OBVIOUS
<1>4. TakesRequest(Me) /\ Delivers /\ UNCHANGED <<threadVars, mirror, history>>
  BY DEF Serve
<1>5. t \in ReqId /\ k \in Asked(Me)
  BY <1>1, <1>2, ServeTells DEF AnswersTruly
<1>6. Me \in Conn /\ Me \in Client
  BY MeConnected
<1>7. Tells(Me, t) /\ (m = WholeTree => \A q \in Range(out'[Me]) : WholeList(q.message)')
  BY <1>1, <1>2, <1>3, ServeTells DEF AnswersTruly
<1>8. \A x \in Client : Says(x, IF x = Me THEN {t} ELSE {})
  BY <1>7, MirrorAssumption DEF Tells, ForCaller
<1>9. /\ Threaded(Requests_)' /\ AllTraffic' /\ Delivered
      /\ Asked(Me) = {k} \cup Asked(Me)'
  BY <1>1, <1>2, <1>4, <1>6, <1>8, Serving DEF MirrorIInv
<1>10. \A q \in Range(out'[Me]) : q.transactionId = t \/ q.transactionId = Notify
  BY <1>6, <1>8 DEF Says
<1>11. TellsWhole
  <2>1. SUFFICES ASSUME NEW w \in Thread, ListsAll(w), op[w].does = "get",
                        NEW q \in Range(out'[Me]), q.transactionId = op[w].id
                 PROVE  WholeList(q.message)'
    BY DEF TellsWhole
  <2>2. op[w].id = t
    BY <1>10, <2>1, GettingWaits, IdTypes
  <2>3. m = WholeTree
    BY <1>2, <1>3, <1>5, <2>1, <2>2 DEF MirrorIInv, TaskKnown, ListedWhole
  <2> QED BY <1>7, <2>1, <2>3
<1> QED BY <1>4, <1>6, <1>7, <1>9, <1>11, ServerKeeps

LEMMA ServeOtherKeeps ==
    ASSUME MirrorIInv, ServeOther
    PROVE  MirrorIInv'
<1>1. PICK c \in Conn \ {Me}, t \in ReqId, u \in Uuid :
        (\E n \in Name : Create(c, t, u, n)) \/ Delete(c, t, u)
  BY DEF ServeOther
<1>2. Delivers /\ UNCHANGED <<threadVars, toServer>> /\ UNCHANGED <<threadVars, mirror, history>>
  BY DEF ServeOther
<1>3. Tells(c, t)
  BY <1>1, CreateTells, DeleteTells DEF MirrorIInv
<1>4. \A x \in Client : Says(x, {})
  <2>1. ForCaller(c, Me, t) = {}
    BY <1>1 DEF ForCaller
  <2> QED BY <1>3, <2>1, MirrorAssumption DEF Tells
<1>5. /\ Threaded(Requests_)' /\ AllTraffic' /\ Delivered /\ Asked(Me)' = Asked(Me)
  BY <1>2, <1>4, MeConnected, Announcing DEF MirrorIInv
<1>6. \A q \in Range(out'[Me]) : q.transactionId = Notify
  BY <1>4, MeConnected DEF Says
<1>7. TellsWhole
  BY <1>6, GettingWaits, IdTypes DEF TellsWhole
<1> QED BY <1>2, <1>3, <1>5, <1>7, ServerKeeps

LEMMA MirrorIInvNext == MirrorIInv /\ [MirrorNext]_mirrorVars => MirrorIInv'
<1>1. ASSUME MirrorIInv, MirrorNext PROVE MirrorIInv'
  BY <1>1, RequestsKeep, CreateAcceptedKeeps, CreateRejectedKeeps, GetAnsweredKeeps,
     GetNothingKeeps, OrCreateKeeps, AddNextKeeps, GetEndKeeps, DestroyedKeeps,
     ExpireKeeps, ReadAnswerKeeps, ReadNotificationKeeps, ServeKeeps, ServeOtherKeeps
     DEF MirrorNext
<1>2. ASSUME MirrorIInv, UNCHANGED mirrorVars PROVE MirrorIInv'
  <2>1. /\ UNCHANGED vars /\ UNCHANGED history /\ mirror' = mirror
        /\ op' = op /\ mTransactions' = mTransactions
        /\ mTransactioIdCtr' = mTransactioIdCtr
        /\ toServer' = toServer /\ toClient' = toClient
    BY <1>2 DEF mirrorVars, threadVars, wires
  <2>2. /\ NodesKnown' /\ MirrorKeeps /\ HistoryTyped' /\ LoadedRightly
    BY <1>2, <2>1, MirrorStays, HistoryStays
  <2>3. ServerKnown' /\ ServerMoves
    BY <1>2, <2>1, StandingStill DEF MirrorIInv
  <2>4. Asked(Me)' = Asked(Me) /\ Told(Me)' = Told(Me)
    BY <2>1 DEF Asked, Told
  <2>5. Threaded(Requests_)'
    BY <1>2, <2>1 DEF MirrorIInv, Threaded, ThreadsTypeOK
  <2>6. AllTraffic'
    <3>1. \A x \in Client : Untouched(x)
      BY <2>1 DEF Untouched
    <3> QED BY <1>2, <3>1, UntouchedTraffic DEF MirrorIInv, AllTraffic
  <2>7. ASSUME NEW w \in Thread PROVE TaskKnown(w)'
    <3>1. GoesOn(w) /\ Undisturbed(w)
      BY <2>1, <2>4 DEF GoesOn, Undisturbed, AnswerTo
    <3> QED BY <1>2, <2>2, <2>3, <3>1, TaskGoesOn
  <2>8. NewsLasts
    BY <2>1, <2>4 DEF NewsLasts, Announced, vars, treeVars
  <2>9. ComesToKnow'
    BY <1>2, <2>2, <2>3, <2>8, KnowledgeLasts
  <2>10. \A k \in Told(Me)' : TrueMessage(k)'
    BY <1>2, <2>3, <2>4, TruthLasts DEF MirrorIInv
  <2> QED BY <2>2, <2>3, <2>5, <2>6, <2>7, <2>9, <2>10 DEF MirrorIInv
<1> QED BY <1>1, <1>2

-----------------------------------------------------------------------------
(* The beginning.                                                          *)

\* What the server has, with the old node and without.
LEMMA TreeAtFirst ==
    ASSUME MirrorInit
    PROVE  /\ IsMap(mTree, Uuid, Node) /\ TreeConsistent
           /\ DOMAIN mTree = {Root, Old}
<1> DEFINE bare == NewNode(None, None, None)
<1>1. Root \in Uuid /\ Old \in Uuid /\ 0 \in SessionId /\ mUuidCtr = Old + 1
  BY BoundsAssumption, MirrorAssumption DEF MirrorInit, Root, Uuid, SessionId
<1>2. bare \in Node
  BY NewNodeType
<1>3. bare.parent = None /\ bare.children = EmptyMap
  BY DEF NewNode
<1> HIDE DEF bare
<1>4. CASE Old = 0
  <2>1. mTree = Put(EmptyMap, Root, bare)
    BY <1>4 DEF MirrorInit, bare
  <2>2. IsMap(mTree, Uuid, Node)
    BY <1>1, <1>2, <2>1, EmptyMapType, PutType
  <2>3. DOMAIN mTree = {Root} /\ mTree[Root] = bare
    BY <2>1, EmptyMapType DEF Put
  <2>4. DOMAIN mTree[Root].children = {}
    BY <1>3, <2>3, EmptyMapType
  <2>5. TreeConsistent
    BY <1>1, <1>3, <1>4, <2>3, <2>4 DEF TreeConsistent, ParentLinks, ChildLinks, Root
  <2> QED BY <1>4, <2>2, <2>3, <2>5 DEF Root
<1>5. CASE Old = 1
  <2>1. PICK n \in Name :
            mTree = Put(Put(EmptyMap, Root, [bare EXCEPT
                                !.children = Put(EmptyMap, n, Old)]),
                        Old, NewNode(n, 0, Root))
    BY <1>5 DEF MirrorInit, bare
  <2> DEFINE top == [bare EXCEPT !.children = Put(EmptyMap, n, Old)]
             node == NewNode(n, 0, Root)
  <2>2. top \in Node /\ node \in Node
    <3>1. node \in Node
      BY <1>1, NewNodeType
    <3>2. Put(EmptyMap, n, Old) \in Map(Name, Uuid)
      BY <1>1, EmptyMapType, PutType, MapMembership
    <3> QED BY <1>2, <3>1, <3>2 DEF Node
  <2>3. /\ top.parent = None /\ top.children = Put(EmptyMap, n, Old)
        /\ node.parent = Root /\ node.name = n /\ node.children = EmptyMap
    BY <1>2, <1>3 DEF NewNode, Node
  <2> HIDE DEF top, node
  <2>4. mTree = Put(Put(EmptyMap, Root, top), Old, node)
    BY <2>1 DEF top, node
  <2>5. IsMap(mTree, Uuid, Node)
    <3>1. IsMap(Put(EmptyMap, Root, top), Uuid, Node)
      BY <1>1, <2>2, EmptyMapType, PutType
    <3> QED BY <1>1, <2>2, <2>4, <3>1, PutType
  <2>6. /\ DOMAIN mTree = {Root, Old} /\ mTree[Root] = top /\ mTree[Old] = node
        /\ Root # Old /\ Root < Old
    BY <1>5, <2>4, EmptyMapType DEF Put, Root
  <2>7. /\ DOMAIN mTree[Root].children = {n} /\ mTree[Root].children[n] = Old
        /\ DOMAIN mTree[Old].children = {}
    BY <2>3, <2>6, EmptyMapType DEF Put
  <2>8. TreeConsistent
    BY <1>1, <1>5, <2>3, <2>6, <2>7 DEF TreeConsistent, ParentLinks, ChildLinks, Root
  <2> QED BY <2>5, <2>6, <2>8
<1> QED BY <1>4, <1>5, MirrorAssumption

LEMMA MirrorIInvInit == MirrorInit => MirrorIInv
<1> SUFFICES ASSUME MirrorInit PROVE MirrorIInv
  OBVIOUS
<1>1. /\ SignedInInit /\ ThreadsInit /\ mUuidCtr = Old + 1
      /\ loaded = FALSE /\ removed = {} /\ revived = {} /\ displaced = {}
      /\ mirror = [nodes |-> Put(EmptyMap, RootNode,
                        [name |-> None, parent |-> None, children |-> EmptyMap]),
                   mTree |-> Put(EmptyMap, Root, RootNode)]
  BY DEF MirrorInit
<1>2. /\ Root \in Uuid /\ Old \in Uuid /\ Old \in Nat /\ Old + 1 \in 1 .. MaxUuid + 1
      /\ RootNode \in Object /\ RootNode[1] = Root /\ Root < Old + 1
  BY BoundsAssumption, MirrorAssumption DEF Root, Uuid, Object, RootNode
<1>3. TypeOK
  <2>1. /\ status = "running" /\ link = [c \in Conn |-> "open"] /\ fault = None
        /\ mTrIdCtr = 0 /\ mTrIdTranslation = EmptyMap /\ out = Silence
    BY <1>1 DEF SignedInInit
  <2>2. /\ mSessionIdCtr \in 0 .. MaxSession
        /\ mSessions \in [0 .. mSessionIdCtr - 1 -> Conn \cup {None}]
        /\ IsMap(mConnectionToSessionId, Conn, SessionId)
    BY <1>1, SessionsAtFirst DEF IsMap
  <2>3. mTrIdCtr \in TrId /\ IsMap(mTrIdTranslation, TrId, SessionId \X ReqId)
    BY <2>1, BoundsAssumption, EmptyMapType DEF TrId
  <2>4. out \in [Conn -> Seq(Message)] /\ mUuidCtr \in 1 .. MaxUuid + 1
    BY <1>1, <1>2, <2>1, SilenceType
  <2> QED BY <2>1, <2>2, <2>3, <2>4, TreeAtFirst DEF TypeOK
<1>4. ServerKnown
  <2>1. mConnectionToSessionId[Me] \in DOMAIN mSessions
        /\ mSessions[mConnectionToSessionId[Me]] = Me
    BY <1>1, SessionsAtFirst, MeConnected
  <2>2. Issued(Old)
    BY <1>1, <1>2 DEF Issued
  <2> QED BY <1>3, <2>1, <2>2, TreeAtFirst DEF ServerKnown
<1>5. HistoryTyped
  BY <1>1 DEF HistoryTyped
<1>6. Threaded(Requests_) /\ AllTraffic
  BY <1>1, TrafficAtFirst
<1>7. /\ DOMAIN mirror.nodes = {RootNode} /\ DOMAIN mirror.mTree = {Root}
      /\ mirror.nodes[RootNode] = [name |-> None, parent |-> None, children |-> EmptyMap]
      /\ mirror.mTree[Root] = RootNode
      /\ mirror.nodes = [o \in {RootNode} |-> mirror.nodes[o]]
      /\ mirror = [nodes |-> mirror.nodes, mTree |-> mirror.mTree]
      /\ IsMap(mirror.mTree, Uuid, {RootNode})
  <2>1. IsMap(Put(EmptyMap, Root, RootNode), Uuid, {RootNode})
    BY <1>2, EmptyMapType, PutType
  <2> QED BY <1>1, <2>1, EmptyMapType DEF Put
<1>8. NodesTyped(mirror)
  <2>1. EmptyMap \in Map(Name, Object) /\ DOMAIN EmptyMap = {}
    BY EmptyMapType, MapMembership
  <2>2. mirror.nodes[RootNode] \in LocalNode /\ mirror.nodes[RootNode].parent = None
        /\ DOMAIN mirror.nodes[RootNode].children = {}
    BY <1>7, <2>1 DEF LocalNode
  <2>3. IsFiniteSet(DOMAIN mirror.nodes)
    BY <1>7, FS_Singleton
  <2> QED BY <1>2, <1>7, <2>2, <2>3 DEF NodesTyped
<1>9. NodesKnown
  BY <1>1, <1>2, <1>7, <1>8 DEF NodesKnown, Sole, Earlier
<1>10. ASSUME NEW w \in Thread PROVE TaskKnown(w)
  <2>1. op[w] = Idle
    BY <1>1 DEF ThreadsInit
  <2> QED BY <2>1, IdleTask DEF TaskKnown, TaskTyped, Answered, Waits, ListsAll
<1>11. \A k \in Told(Me) : TrueMessage(k)
  BY <1>1, MeConnected DEF ThreadsInit, Told, Range
<1>12. ComesToKnow
  BY <1>1, <1>2, TreeAtFirst DEF ComesToKnow
<1> QED BY <1>4, <1>5, <1>6, <1>9, <1>10, <1>11, <1>12 DEF MirrorIInv

-----------------------------------------------------------------------------
LEMMA QuietKnows ==
    ASSUME MirrorIInv, Quiet, NEW u \in Due
    PROVE  RightNow(u) /\ ~Announced(u)
<1>1. ~Announced(u)
  BY DEF Quiet, Settled, Announced, Told, Range
<1>2. u \in DOMAIN mTree \ {Root} /\ (u > Old \/ loaded) /\ u \in Nat
  BY Types DEF Due, MirrorIInv, ServerKnown, Uuid
<1>3. CASE u > Old
  BY <1>1, <1>2, <1>3 DEF MirrorIInv, ComesToKnow
<1>4. CASE ~(u > Old)
  <2>1. u = Old
    BY <1>2, <1>4, MirrorAssumption DEF Root
  <2> QED BY <1>1, <1>2, <1>4, <2>1 DEF MirrorIInv, ComesToKnow, OldLives
<1> QED BY <1>3, <1>4

\* The strengthening of those below: what is true of the nodes of the client, of
\* what threads have got, and of the messages on their way.
THEOREM MirrorInvariance == MirrorSpec => []MirrorIInv
  BY MirrorIInvInit, MirrorIInvNext, PTL DEF MirrorSpec

\* The tree of the client, its threads and the wires keep their types: above all, no
\* node leads to one that is not there.
THEOREM MirrorTypeCorrect == MirrorSpec => []MirrorTypeOK
<1>1. ASSUME MirrorIInv PROVE MirrorTypeOK
  <2>1. NodesTyped(mirror) /\ TypeOK /\ HistoryTyped /\ Threaded(Requests_)
    BY <1>1 DEF MirrorIInv, NodesKnown, ServerKnown
  <2>2. DOMAIN mirror = {"nodes", "mTree"}
    BY <2>1 DEF NodesTyped
  <2>3. ASSUME NEW o \in DOMAIN mirror.nodes
        PROVE  /\ DOMAIN mirror.nodes[o] = {"name", "parent", "children"}
               /\ mirror.nodes[o].name \in Name \cup {None}
               /\ mirror.nodes[o].parent \in DOMAIN mirror.nodes \cup {None}
               /\ IsMap(mirror.nodes[o].children, Name, DOMAIN mirror.nodes)
    <3>1. mirror.nodes[o] \in LocalNode
      BY <2>1 DEF NodesTyped
    <3>2. mirror.nodes[o].children \in Map(Name, Object)
      BY <3>1 DEF LocalNode
    <3>3. IsMap(mirror.nodes[o].children, Name, DOMAIN mirror.nodes)
      BY <2>1, <3>2, MapMembership DEF NodesTyped, IsMap
    <3> QED BY <2>1, <3>1, <3>3 DEF NodesTyped, LocalNode
  <2>4. ASSUME NEW w \in Thread
        PROVE  \/ op[w] = Idle
               \/ /\ op[w].does \in {"create", "get", "creating", "adding", "lost",
                                    "destroy"}
                  /\ op[w].at \in DOMAIN mirror.nodes
                  /\ op[w].todo \subseteq NamedNode
    BY <1>1 DEF MirrorIInv, TaskKnown, TaskTyped, Call, TrueEntry
  <2>5. ThreadsTypeOK(Requests_)
    BY <2>1 DEF Threaded
  <2>6. /\ DOMAIN mirror.nodes \subseteq Object
        /\ IsMap(mirror.mTree, Uuid, DOMAIN mirror.nodes)
    BY <2>1 DEF NodesTyped
  <2> QED BY <2>1, <2>2, <2>3, <2>4, <2>5, <2>6 DEF MirrorTypeOK, HistoryTyped, Requests_
<1> QED BY <1>1, MirrorInvariance, PTL

\* The client has one object for each node that lives, whichever came first, the
\* accept, the announcement or a listing, for any number of threads.
THEOREM AlwaysOneObjectPerNode == MirrorSpec => []OneObjectPerNode
<1>1. MirrorIInv => OneObjectPerNode
  BY DEF MirrorIInv, NodesKnown, Sole, OneObjectPerNode
<1> QED BY <1>1, MirrorInvariance, PTL

\* When all has come that was sent, the client knows every node that was announced to
\* it or listed, under its name and its parent: whatever its threads and the other
\* clients created and destroyed meanwhile, and whatever timed out.
THEOREM AlwaysFollowsTree == MirrorSpec => []FollowsTree
<1>1. ASSUME MirrorIInv PROVE FollowsTree
  BY <1>1, QuietKnows DEF FollowsTree, RightNow, Right, Local
<1> QED BY <1>1, MirrorInvariance, PTL

\* waitTransaction finds its transaction, and no other thread waits for the same one,
\* in create, get, createOrGet, loadChildren and destroy as well.
THEOREM MirrorWaitsOwned == MirrorSpec => []WaitsOwned
<1>1. MirrorIInv => WaitsOwned
  BY TrafficOwned DEF MirrorIInv
<1> QED BY <1>1, MirrorInvariance, PTL

-----------------------------------------------------------------------------
(* What the client forgets.                                                *)

\* Of the notifications s, those that speak of a node which lives no longer come
\* before the one that takes it away.
Ordered(s, live) ==
    \A i \in DOMAIN s : \A u : Mentions(s[i], u) /\ u \notin live =>
        \E j \in DOMAIN s : i < j /\ Deletes(s[j], u)

Leaving(u) == \E k \in Told(Me) : Deletes(k, u)

\* The client has been told of every node that is gone, or will be; of those that
\* are gone it knows what it has yet to be told of and what came back.
ForgetIInv ==
    /\ \A u : Issued(u) /\ u \notin DOMAIN mTree => u \in removed \/ Leaving(u)
    /\ \A u \in DOMAIN mirror.mTree \ DOMAIN mTree : u \in revived \/ Leaving(u)
    /\ Ordered(toClient[Me], DOMAIN mTree)

LEMMA OrderedTail ==
    ASSUME NEW S, NEW s \in Seq(S), s # <<>>, NEW live, Ordered(s, live)
    PROVE  /\ Ordered(Tail(s), live)
           /\ \A u : Mentions(Head(s), u) /\ u \notin live =>
                \E k \in Range(Tail(s)) : Deletes(k, u)
<1>1. PICK r : r = Tail(s)
  OBVIOUS
<1>2. /\ Len(s) \in Nat \ {0} /\ DOMAIN s = 1 .. Len(s) /\ DOMAIN r = 1 .. Len(s) - 1
      /\ Head(s) = s[1] /\ \A i \in DOMAIN r : r[i] = s[i + 1]
  BY <1>1
<1>3. ASSUME NEW i \in DOMAIN s, NEW u, Mentions(s[i], u), u \notin live
      PROVE  \E j \in DOMAIN r : i < j + 1 /\ Deletes(r[j], u)
  <2>1. PICK j \in DOMAIN s : i < j /\ Deletes(s[j], u)
    BY <1>3 DEF Ordered
  <2>2. j - 1 \in DOMAIN r /\ r[j - 1] = s[j] /\ i < (j - 1) + 1
    BY <1>2, <2>1
  <2> QED BY <2>1, <2>2
<1>4. Ordered(r, live)
  <2>1. ASSUME NEW i \in DOMAIN r, NEW u, Mentions(r[i], u), u \notin live
        PROVE  \E j \in DOMAIN r : i < j /\ Deletes(r[j], u)
    <3>1. i + 1 \in DOMAIN s /\ Mentions(s[i + 1], u)
      BY <1>2, <2>1
    <3>2. PICK j \in DOMAIN r : i + 1 < j + 1 /\ Deletes(r[j], u)
      BY <1>3, <2>1, <3>1
    <3> QED BY <1>2, <3>2
  <2> QED BY <2>1 DEF Ordered
<1>5. ASSUME NEW u, Mentions(Head(s), u), u \notin live
      PROVE  \E k \in Range(r) : Deletes(k, u)
  <2>1. \E j \in DOMAIN r : Deletes(r[j], u)
    BY <1>2, <1>3, <1>5
  <2> QED BY <2>1 DEF Range
<1> QED BY <1>1, <1>4, <1>5

LEMMA OrderedJoin ==
    ASSUME NEW S, NEW s \in Seq(S), NEW t \in Seq(S), NEW r, Joins(s, t, r),
           NEW live, NEW after, Ordered(s, live),
           \A u \in live \ after : \E k \in Range(t) : Deletes(k, u),
           \A k \in Range(t) : \A u : Mentions(k, u) => u \in after
    PROVE  Ordered(r, after)
<1>1. /\ Len(s) \in Nat /\ DOMAIN s = 1 .. Len(s)
      /\ Len(t) \in Nat /\ DOMAIN t = 1 .. Len(t)
      /\ DOMAIN r = 1 .. Len(s) + Len(t)
      /\ \A i \in DOMAIN s : r[i] = s[i]
      /\ \A i \in DOMAIN t : r[Len(s) + i] = t[i]
      /\ \A i \in DOMAIN r \ DOMAIN s : i - Len(s) \in DOMAIN t /\ r[i] = t[i - Len(s)]
  BY DEF Joins
<1>2. SUFFICES ASSUME NEW i \in DOMAIN r, NEW u, Mentions(r[i], u), u \notin after
               PROVE  \E j \in DOMAIN r : i < j /\ Deletes(r[j], u)
  BY DEF Ordered
<1>3. i \in DOMAIN s /\ Mentions(s[i], u)
  <2>1. CASE i \notin DOMAIN s
    <3>1. r[i] \in Range(t)
      BY <1>1, <2>1 DEF Range
    <3> QED BY <1>2, <3>1
  <2> QED BY <1>1, <1>2, <2>1
<1>4. CASE u \in live
  <2>1. PICK j \in DOMAIN t : Deletes(t[j], u)
    BY <1>2, <1>4 DEF Range
  <2>2. Len(s) + j \in DOMAIN r /\ i < Len(s) + j /\ r[Len(s) + j] = t[j]
    BY <1>1, <1>3, <2>1
  <2> QED BY <2>1, <2>2
<1>5. CASE u \notin live
  <2>1. PICK j \in DOMAIN s : i < j /\ Deletes(s[j], u)
    BY <1>3, <1>5 DEF Ordered
  <2>2. j \in DOMAIN r /\ r[j] = s[j]
    BY <1>1, <2>1
  <2> QED BY <2>1, <2>2
<1> QED BY <1>4, <1>5

\* A thread makes the client know the nodes in U as well, at most.
LEMMA ThreadForgets ==
    ASSUME MirrorIInv, ForgetIInv, UNCHANGED vars, toClient' = toClient,
           removed' = removed, NEW U, \A u \in U : Issued(u),
           \A u \in DOMAIN mirror'.mTree : u \in DOMAIN mirror.mTree \/ u \in U,
           revived \cup (U \cap removed) \subseteq revived'
    PROVE  ForgetIInv'
<1>1. mTree' = mTree /\ mUuidCtr' = mUuidCtr
  BY DEF vars, treeVars
<1>2. /\ \A u : Leaving(u)' <=> Leaving(u)
      /\ \A u : Issued(u)' <=> Issued(u)
  BY <1>1 DEF Leaving, Told, Issued
<1>3. \A u : Issued(u)' /\ u \notin DOMAIN mTree' => u \in removed' \/ Leaving(u)'
  BY <1>1, <1>2 DEF ForgetIInv
<1>4. ASSUME NEW u \in DOMAIN mirror'.mTree, u \notin DOMAIN mTree'
      PROVE  u \in revived' \/ Leaving(u)'
  <2>1. CASE u \in DOMAIN mirror.mTree
    BY <1>1, <1>2, <1>4, <2>1 DEF ForgetIInv
  <2>2. CASE u \in U
    BY <1>1, <1>2, <1>4, <2>2 DEF ForgetIInv
  <2> QED BY <2>1, <2>2
<1>5. Ordered(toClient'[Me], DOMAIN mTree')
  BY <1>1 DEF ForgetIInv
<1> QED BY <1>3, <1>4, <1>5 DEF ForgetIInv

\* A thread leaves what the client knows alone.
LEMMA SameForgotten ==
    ASSUME MirrorIInv, ForgetIInv, UNCHANGED <<vars, toClient, removed, revived>>,
           mirror'.mTree = mirror.mTree
    PROVE  ForgetIInv'
<1> DEFINE U == {}
<1>1. /\ \A u \in DOMAIN mirror'.mTree : u \in DOMAIN mirror.mTree \/ u \in U
      /\ revived \cup (U \cap removed) \subseteq revived' /\ \A u \in U : Issued(u)
  OBVIOUS
<1> HIDE DEF U
<1> QED BY <1>1, ThreadForgets

LEMMA CreateAcceptedForgets ==
    ASSUME MirrorIInv, ForgetIInv, NEW w \in Thread, CreateAccepted(w)
    PROVE  ForgetIInv'
<1>1. PICK u : u = AnswerTo(w).uuid
  OBVIOUS
<1>2. /\ Got(w, "create", "CreateAccept") /\ Returns(w, Idle)
      /\ mirror' = Accepted(mirror, u, op[w].at, op[w].name)
      /\ revived' = revived \cup ({u} \cap removed) /\ removed' = removed
  BY <1>1 DEF CreateAccepted
<1>3. Issued(u) /\ op[w].at \in DOMAIN mirror.nodes /\ op[w].name \in Name
  BY <1>1, <1>2, GotCall DEF TrueAnswer, Call
<1>4. UNCHANGED vars /\ toClient' = toClient
  BY <1>2 DEF Returns, wires
<1>5. Grows(mirror, mirror', {u}, {})
  BY <1>2, <1>3, AcceptGrows DEF Issued, MirrorIInv, NodesKnown
<1>6. PICK U : U = {u}
  OBVIOUS
<1>7. /\ \A v \in DOMAIN mirror'.mTree : v \in DOMAIN mirror.mTree \/ v \in U
      /\ \A v \in U : Issued(v)
      /\ revived \cup (U \cap removed) \subseteq revived'
  BY <1>2, <1>3, <1>5, <1>6 DEF Grows
<1> QED BY <1>2, <1>4, <1>7, ThreadForgets

LEMMA AddNextForgets ==
    ASSUME MirrorIInv, ForgetIInv, NEW w \in Thread, AddNext(w)
    PROVE  ForgetIInv'
<1>1. /\ op[w].does = "adding" /\ UNCHANGED vars /\ toClient' = toClient
      /\ removed' = removed
  BY DEF AddNext, wires
<1>2. PICK e \in op[w].todo :
        /\ mirror' = Added(mirror, e)
        /\ revived' = revived \cup ({e.uuid, e.parentUuid} \cap removed)
  BY DEF AddNext
<1>3. TrueEntry(e)
  BY <1>1, IdleTask DEF MirrorIInv, TaskKnown, TaskTyped, Call
<1>4. Grows(mirror, mirror', {e.uuid, e.parentUuid}, {e.uuid})
  BY <1>2, <1>3, EntryAdded DEF TrueEntry, MirrorIInv, NodesKnown
<1>5. PICK U : U = {e.uuid, e.parentUuid}
  OBVIOUS
<1>6. /\ \A u \in DOMAIN mirror'.mTree : u \in DOMAIN mirror.mTree \/ u \in U
      /\ \A u \in U : Issued(u)
      /\ revived \cup (U \cap removed) \subseteq revived'
  BY <1>2, <1>3, <1>4, <1>5 DEF Grows, TrueEntry
<1> QED BY <1>1, <1>6, ThreadForgets

LEMMA DestroyedForgets ==
    ASSUME MirrorIInv, ForgetIInv, NEW w \in Thread, Destroyed(w)
    PROVE  ForgetIInv'
<1>1. /\ Got(w, "destroy", "DeleteResponse") /\ Returns(w, Idle)
      /\ UNCHANGED <<removed, revived>>
      /\ mirror' = mirror \/ mirror' = [mirror EXCEPT !.nodes = Unlist(@, op[w].at)]
  BY DEF Destroyed
<1>2. UNCHANGED <<vars, toClient, removed, revived>>
  BY <1>1 DEF Returns, wires
<1>3. mirror'.mTree = mirror.mTree
  BY <1>1 DEF MirrorIInv, NodesKnown, NodesTyped
<1> QED BY <1>2, <1>3, SameForgotten

LEMMA ReadAnswerForgets ==
    ASSUME MirrorIInv, ForgetIInv, ReadAnswer
    PROVE  ForgetIInv'
<1>1. PICK k : k = Arrived(Me)
  OBVIOUS
<1>2. /\ ReadsAnswer(Me) /\ UNCHANGED <<mirror, history>> /\ UNCHANGED vars
      /\ toClient[Me] # <<>> /\ toClient' = [toClient EXCEPT ![Me] = Tail(@)]
  BY DEF ReadAnswer, ReadsAnswer, Takes
<1>3. /\ Told(Me) = {k} \cup Told(Me)' /\ k.transactionId # Notify
  BY <1>1, <1>2, MeConnected, IdTypes, Filing DEF MirrorIInv, Filed, Taken
<1>4. toClient \in [Client -> Seq(Message)]
  BY DEF MirrorIInv, Threaded, ThreadsTypeOK
<1>5. toClient'[Me] = Tail(toClient[Me])
  BY <1>2, <1>4, MeConnected
<1>6. mTree' = mTree /\ mUuidCtr' = mUuidCtr /\ removed' = removed /\ revived' = revived
  BY <1>2 DEF vars, treeVars, history
<1>7. /\ \A u : Leaving(u) => Leaving(u)'
      /\ \A u : Issued(u)' <=> Issued(u)
  BY <1>3, <1>6 DEF Leaving, Deletes, Issued
<1>8. Ordered(toClient'[Me], DOMAIN mTree')
  BY <1>2, <1>4, <1>5, <1>6, MeConnected, OrderedTail DEF ForgetIInv
<1>9. \A u : Issued(u)' /\ u \notin DOMAIN mTree' => u \in removed' \/ Leaving(u)'
  BY <1>6, <1>7 DEF ForgetIInv
<1>10. \A u \in DOMAIN mirror'.mTree \ DOMAIN mTree' : u \in revived' \/ Leaving(u)'
  BY <1>2, <1>6, <1>7 DEF ForgetIInv
<1> QED BY <1>8, <1>9, <1>10 DEF ForgetIInv

\* A notification that adds is followed by the one that removes, if the node is gone.
LEMMA ReadNotificationForgets ==
    ASSUME MirrorIInv, ForgetIInv, ReadNotification
    PROVE  ForgetIInv'
<1>1. PICK k : k = Arrived(Me)
  OBVIOUS
<1>2. /\ Takes(Me) /\ ~Matches(Me, k)
      /\ toClient[Me] # <<>> /\ toClient' = [toClient EXCEPT ![Me] = Tail(@)]
      /\ \/ \E e \in k.message.nodeToAddList : mirror' = Added(mirror, e)
         \/ \E u \in k.message.nodeToDelete : mirror' = Removed(mirror, u)
      /\ removed' = removed \cup k.message.nodeToDelete /\ revived' = revived
      /\ UNCHANGED vars /\ UNCHANGED <<threadVars, toServer>>
  BY <1>1 DEF ReadNotification, Takes
<1>3. Told(Me) = {k} \cup Told(Me)' /\ k.transactionId = Notify
  BY <1>1, <1>2, MeConnected, Hearing DEF MirrorIInv, Taken
<1>4. Announcement(k.message)
  BY <1>3 DEF MirrorIInv, TrueMessage
<1>5. toClient \in [Client -> Seq(Message)]
  BY DEF MirrorIInv, Threaded, ThreadsTypeOK
<1>6. toClient'[Me] = Tail(toClient[Me]) /\ k = Head(toClient[Me])
  BY <1>1, <1>2, <1>5, MeConnected DEF Arrived
<1>7. mTree' = mTree /\ mUuidCtr' = mUuidCtr
  BY <1>2 DEF vars, treeVars
<1>8. /\ Ordered(toClient'[Me], DOMAIN mTree')
      /\ \A u : Mentions(k, u) /\ u \notin DOMAIN mTree => Leaving(u)'
  BY <1>2, <1>5, <1>6, <1>7, MeConnected, OrderedTail DEF ForgetIInv, Leaving, Told
<1>9. /\ \A u : Leaving(u) => Leaving(u)' \/ u \in k.message.nodeToDelete
      /\ \A u : Issued(u)' <=> Issued(u)
  BY <1>3, <1>7 DEF Leaving, Deletes, Issued
<1>10. \A u : Issued(u)' /\ u \notin DOMAIN mTree' => u \in removed' \/ Leaving(u)'
  BY <1>2, <1>7, <1>9 DEF ForgetIInv
<1>11. ASSUME NEW e \in k.message.nodeToAddList, mirror' = Added(mirror, e)
       PROVE  \A u \in DOMAIN mirror'.mTree \ DOMAIN mTree' : u \in revived' \/ Leaving(u)'
  <2>1. TrueEntry(e) /\ k.message.nodeToDelete = {}
    BY <1>4, <1>11 DEF Announcement
  <2>2. Grows(mirror, mirror', {e.uuid, e.parentUuid}, {e.uuid})
    BY <1>11, <2>1, EntryAdded DEF TrueEntry, MirrorIInv, NodesKnown
  <2>3. \A u \in DOMAIN mirror'.mTree : u \in DOMAIN mirror.mTree \/ Mentions(k, u)
    BY <1>3, <1>11, <2>2 DEF Grows, Mentions
  <2> QED BY <1>2, <1>7, <1>8, <1>9, <2>1, <2>3 DEF ForgetIInv
<1>12. ASSUME NEW d \in k.message.nodeToDelete, mirror' = Removed(mirror, d)
       PROVE  \A u \in DOMAIN mirror'.mTree \ DOMAIN mTree' : u \in revived' \/ Leaving(u)'
  <2>1. k.message.nodeToDelete = {d}
    BY <1>4, <1>12 DEF Announcement
  <2>2. PICK r : r = mirror'
    OBVIOUS
  <2>3. DOMAIN r.mTree = DOMAIN mirror.mTree \ {d}
    BY <1>12, <2>2, NodeRemoved DEF MirrorIInv, NodesKnown
  <2> QED BY <1>2, <1>7, <1>9, <2>1, <2>2, <2>3 DEF ForgetIInv
<1> QED BY <1>2, <1>8, <1>10, <1>11, <1>12 DEF ForgetIInv

\* The server tells the client of what it takes away.
LEMMA ServerForgets ==
    ASSUME MirrorIInv, ForgetIInv, NEW c \in Conn, NEW t, Tells(c, t), Delivers,
           UNCHANGED <<mirror, history>>
    PROVE  ForgetIInv'
<1>1. /\ Next /\ Says(Me, ForCaller(c, Me, t))
      /\ \A u \in DOMAIN mTree \ DOMAIN mTree' :
            \E k \in Range(out'[Me]) : Deletes(k, u)
      /\ \A k \in Range(out'[Me]) : \A u : Mentions(k, u) => u \in DOMAIN mTree'
  BY DEF Tells
<1>2. ServerMoves
  BY <1>1, HandlersMove DEF MirrorIInv, ServerKnown
<1>3. toClient \in [Client -> Seq(Message)]
  BY DEF MirrorIInv, Threaded, ThreadsTypeOK
<1>4. PICK s \in Seq(Message) : s = toClient[Me]
  BY <1>3, MeConnected
<1>5. PICK t_ \in Seq(Message) : t_ = out'[Me]
  BY <1>1 DEF Says
<1>6. PICK r : r = toClient'[Me]
  OBVIOUS
<1>7. Joins(s, t_, r)
  BY <1>4, <1>5, <1>6, MeConnected DEF Delivers, Joins
<1>8. Range(r) = Range(s) \cup Range(t_)
  BY <1>7, JoinedPackets
<1>9. Ordered(r, DOMAIN mTree')
  <2>1. PICK live : live = DOMAIN mTree
    OBVIOUS
  <2>2. PICK after : after = DOMAIN mTree'
    OBVIOUS
  <2>3. Ordered(s, live)
    BY <1>4, <2>1 DEF ForgetIInv
  <2> QED BY <1>1, <1>5, <1>7, <2>1, <2>2, <2>3, OrderedJoin
<1>10. /\ \A u : Leaving(u) => Leaving(u)'
       /\ \A u \in DOMAIN mTree \ DOMAIN mTree' : Leaving(u)'
  <2>1. Told(Me)' = Told(Me) \cup Range(out'[Me])
    BY <1>4, <1>5, <1>6, <1>8 DEF Told
  <2> QED BY <1>1, <2>1 DEF Leaving
<1>11. removed' = removed /\ revived' = revived /\ mirror' = mirror
  BY DEF history
<1>12. ASSUME NEW u, Issued(u)', u \notin DOMAIN mTree'
       PROVE  u \in removed' \/ Leaving(u)'
  <2>1. Issued(u)
    BY <1>2, <1>12 DEF ServerMoves, Issued, Uuid
  <2> QED BY <1>10, <1>11, <1>12, <2>1 DEF ForgetIInv
<1>13. \A u \in DOMAIN mirror'.mTree \ DOMAIN mTree' : u \in revived' \/ Leaving(u)'
  BY <1>10, <1>11 DEF ForgetIInv
<1> QED BY <1>6, <1>9, <1>12, <1>13 DEF ForgetIInv

LEMMA ServeForgets ==
    ASSUME MirrorIInv, ForgetIInv, Serve
    PROVE  ForgetIInv'
<1>1. \E t : Tells(Me, t)
  BY ServeTells DEF AnswersTruly
<1> QED BY <1>1, MeConnected, ServerForgets DEF Serve

LEMMA ServeOtherForgets ==
    ASSUME MirrorIInv, ForgetIInv, ServeOther
    PROVE  ForgetIInv'
<1>1. PICK c \in Conn \ {Me}, t \in ReqId, u \in Uuid :
        (\E n \in Name : Create(c, t, u, n)) \/ Delete(c, t, u)
  BY DEF ServeOther
<1>2. Tells(c, t)
  BY <1>1, CreateTells, DeleteTells DEF MirrorIInv
<1> QED BY <1>2, ServerForgets DEF ServeOther

LEMMA ForgetIInvNext ==
    MirrorIInv /\ ForgetIInv /\ [MirrorNext]_mirrorVars => ForgetIInv'
<1>1. ASSUME MirrorIInv, ForgetIInv, MirrorNext PROVE ForgetIInv'
  <2>1. ASSUME NEW w \in Thread,
               \/ \E o \in Held, n \in Name :
                    Create_(w, o, n) \/ \E b \in BOOLEAN : Get_(w, o, n, b)
               \/ \E o \in Held : Destroy(w, o) \/ \E r \in BOOLEAN : LoadChildren(w, o, r)
        PROVE  ForgetIInv'
    <3>1. UNCHANGED <<vars, toClient, mirror, history>>
      BY <2>1 DEF Create_, Get_, Destroy, LoadChildren
    <3> QED BY <1>1, <3>1, SameForgotten DEF history
  <2>2. ASSUME NEW w \in Thread,
               \/ CreateRejected(w) \/ GetAnswered(w) \/ GetNothing(w) \/ OrCreate(w)
               \/ Expire(w)
        PROVE  ForgetIInv'
    <3>1. UNCHANGED <<vars, toClient, mirror, history>>
      BY <2>2 DEF CreateRejected, GetAnswered, GetNothing, OrCreate, Expire, Returns,
                  Throws, wires
    <3> QED BY <1>1, <3>1, SameForgotten DEF history
  <2>3. ASSUME NEW w \in Thread, GetEnd(w) PROVE ForgetIInv'
    BY <1>1, <2>3, SameForgotten DEF GetEnd, wires
  <2> QED BY <1>1, <2>1, <2>2, <2>3, CreateAcceptedForgets, AddNextForgets,
             DestroyedForgets, ReadAnswerForgets, ReadNotificationForgets,
             ServeForgets, ServeOtherForgets DEF MirrorNext
<1>2. ASSUME MirrorIInv, ForgetIInv, UNCHANGED mirrorVars PROVE ForgetIInv'
  BY <1>2, SameForgotten DEF mirrorVars, wires, history
<1> QED BY <1>1, <1>2

LEMMA ForgetIInvInit == MirrorInit => ForgetIInv
<1> SUFFICES ASSUME MirrorInit PROVE ForgetIInv
  OBVIOUS
<1>1. DOMAIN mTree = {Root, Old} /\ mUuidCtr = Old + 1 /\ Old \in {0, 1} /\ Root = 0
  BY TreeAtFirst, MirrorAssumption DEF MirrorInit, Root
<1>2. \A u : Issued(u) => u \in DOMAIN mTree
  BY <1>1 DEF Issued, Uuid
<1>3. DOMAIN mirror.mTree = {Root}
  BY EmptyMapType DEF MirrorInit, Put
<1>4. toClient[Me] = <<>>
  BY MeConnected DEF MirrorInit, ThreadsInit
<1> QED BY <1>1, <1>2, <1>3, <1>4 DEF ForgetIInv, Ordered

\* When all has come that was sent, the client knows no node that is gone but what a
\* late accept or listing has brought back: of every other one the deletion has come
\* after whatever made the client know it.
THEOREM AlwaysForgetsRemoved == MirrorSpec => []ForgetsRemoved
<1>1. ASSUME ForgetIInv PROVE ForgetsRemoved
  <2>1. Quiet => \A u : ~Leaving(u)
    BY DEF Quiet, Settled, Leaving, Told, Range
  <2> QED BY <1>1, <2>1 DEF ForgetIInv, ForgetsRemoved
<1> QED BY <1>1, MirrorInvariance, ForgetIInvInit, ForgetIInvNext, PTL DEF MirrorSpec

-----------------------------------------------------------------------------
(* The children of the client's nodes.                                     *)

\* Of the packets s, one announces u, and it comes after all that delete d.
LateIn(s, d, u) ==
    \E j \in DOMAIN s :
        Announces(s[j], u) /\ \A i \in DOMAIN s : Deletes(s[i], d) => i < j
Late(d, u) == LateIn(toClient[Me], d, u)

Lives(u) == u \in DOMAIN mTree \ {Root}

\* The tree has the node u where the entry e has another one.
Rival(e, u) == mTree[u].name = e.name /\ mTree[u].parent = e.parentUuid

\* A true entry of a node; when the node is gone and the client has yet to be told so,
\* then it will hear of the node that has taken its place after that.
ClaimTrue(e) ==
    /\ TrueEntry(e) /\ e.uuid # Root
    /\ e.uuid \notin DOMAIN mTree /\ Leaving(e.uuid) =>
        \A u : Lives(u) /\ Rival(e, u) => Late(e.uuid, u)

Identity(u) == Entry(mTree[u].name, u, mTree[u].parent)
Slotted(u) == Has(mirror, mTree[u].parent, mTree[u].name, mirror.mTree[u])

\* What the answers to a create and to a destroy say.
AcceptFits(b, p, n) ==
    b.type = "CreateAccept" => Old < b.uuid /\ ClaimTrue(Entry(n, b.uuid, p))
Fits(t, b) ==
    /\ t.does = "create" => AcceptFits(b, t.at[1], t.name)
    /\ t.does = "destroy" => DeletesWell(b, t.at[1])
AsksFor(t) ==
    IF t.does = "create" THEN CreateRequest(t.at, t.name)
    ELSE [type |-> "DeleteRequest", uuid |-> t.at[1]]

ListClaims(b) == \A e \in EntriesIn(b) : ClaimTrue(e)

\* What a thread has to add is true, and its answer is to what it asked for.
Claims(w) ==
    /\ op[w] # Idle => \A e \in op[w].todo : ClaimTrue(e)
    /\ Answered(w) => ListClaims(AnswerTo(w)) /\ Fits(op[w], AnswerTo(w))
    /\ Waits(w) /\ op[w].does \in {"create", "destroy"} =>
        /\ \A k \in Asked(Me) : k.transactionId = op[w].id => k.message = AsksFor(op[w])
        /\ \A k \in Told(Me) : k.transactionId = op[w].id => Fits(op[w], k.message)

TrueNodes == \A f \in NamedNode : Bears(mirror, f) => ClaimTrue(f)

\* A node that the client knows as the tree has it is among the children, or is yet to
\* be announced, unless it has been displaced.
InPlace ==
    \A u : Lives(u) /\ u \notin displaced /\ Bears(mirror, Identity(u)) =>
        Slotted(u) \/ Announced(u)

ChildIInv ==
    /\ \A k \in Told(Me) : ListClaims(k.message)
    /\ \A w \in Thread : Claims(w)
    /\ TrueNodes /\ InPlace

-----------------------------------------------------------------------------
(* The order of the notifications.                                         *)

LEMMA LateTail ==
    ASSUME NEW S, NEW s \in Seq(S), s # <<>>, NEW d, NEW u, LateIn(s, d, u)
    PROVE  /\ (\E k \in Range(Tail(s)) : Deletes(k, d)) => LateIn(Tail(s), d, u)
           /\ (\E k \in Range(s) : Deletes(k, d)) =>
                \E k \in Range(Tail(s)) : Announces(k, u)
<1>1. PICK r : r = Tail(s)
  OBVIOUS
<1>2. /\ Len(s) \in Nat \ {0} /\ DOMAIN s = 1 .. Len(s) /\ DOMAIN r = 1 .. Len(s) - 1
      /\ \A i \in DOMAIN r : r[i] = s[i + 1]
  BY <1>1
<1>3. PICK j \in DOMAIN s :
        Announces(s[j], u) /\ \A i \in DOMAIN s : Deletes(s[i], d) => i < j
  BY DEF LateIn
<1>4. ASSUME NEW i \in DOMAIN s, Deletes(s[i], d)
      PROVE  j - 1 \in DOMAIN r /\ r[j - 1] = s[j]
  <2>1. i < j
    BY <1>3, <1>4
  <2> QED BY <1>2, <2>1
<1>5. ASSUME NEW k \in Range(r), Deletes(k, d) PROVE LateIn(r, d, u)
  <2>1. PICK i \in DOMAIN r : k = r[i]
    BY <1>5 DEF Range
  <2>2. i + 1 \in DOMAIN s /\ Deletes(s[i + 1], d)
    BY <1>2, <1>5, <2>1
  <2>3. j - 1 \in DOMAIN r /\ r[j - 1] = s[j]
    BY <1>4, <2>2
  <2>4. \A h \in DOMAIN r : Deletes(r[h], d) => h < j - 1
    <3>1. ASSUME NEW h \in DOMAIN r, Deletes(r[h], d) PROVE h < j - 1
      <4>1. h + 1 \in DOMAIN s /\ Deletes(s[h + 1], d)
        BY <1>2, <3>1
      <4>2. h + 1 < j
        BY <1>3, <4>1
      <4> QED BY <1>2, <4>2
    <3> QED BY <3>1
  <2> QED BY <1>3, <2>3, <2>4 DEF LateIn
<1>6. ASSUME NEW k \in Range(s), Deletes(k, d)
      PROVE  \E q \in Range(r) : Announces(q, u)
  <2>1. PICK i \in DOMAIN s : k = s[i]
    BY <1>6 DEF Range
  <2>2. j - 1 \in DOMAIN r /\ r[j - 1] = s[j]
    BY <1>4, <1>6, <2>1
  <2> QED BY <1>3, <2>2 DEF Range
<1> QED BY <1>1, <1>5, <1>6

\* What is said later does not delete the node d.
LEMMA LateJoin ==
    ASSUME NEW S, NEW s \in Seq(S), NEW t \in Seq(S), NEW r, Joins(s, t, r),
           NEW d, \A k \in Range(t) : ~Deletes(k, d), NEW u,
           LateIn(s, d, u) \/ \E k \in Range(t) : Announces(k, u)
    PROVE  LateIn(r, d, u)
<1>1. /\ Len(s) \in Nat /\ DOMAIN s = 1 .. Len(s)
      /\ Len(t) \in Nat /\ DOMAIN t = 1 .. Len(t)
      /\ DOMAIN r = 1 .. Len(s) + Len(t)
      /\ \A i \in DOMAIN s : r[i] = s[i]
      /\ \A i \in DOMAIN t : r[Len(s) + i] = t[i]
      /\ \A i \in DOMAIN r \ DOMAIN s : i - Len(s) \in DOMAIN t /\ r[i] = t[i - Len(s)]
  BY DEF Joins
<1>2. \A i \in DOMAIN r : Deletes(r[i], d) => i \in DOMAIN s /\ Deletes(s[i], d)
  <2>1. ASSUME NEW i \in DOMAIN r, Deletes(r[i], d) PROVE i \in DOMAIN s
    <3>1. CASE i \notin DOMAIN s
      <4>1. r[i] \in Range(t)
        BY <1>1, <3>1 DEF Range
      <4> QED BY <2>1, <4>1
    <3> QED BY <3>1
  <2> QED BY <1>1, <2>1
<1>3. CASE LateIn(s, d, u)
  <2>1. PICK j \in DOMAIN s :
        Announces(s[j], u) /\ \A i \in DOMAIN s : Deletes(s[i], d) => i < j
    BY <1>3 DEF LateIn
  <2>2. j \in DOMAIN r /\ Announces(r[j], u)
    BY <1>1, <2>1
  <2> QED BY <1>2, <2>1, <2>2 DEF LateIn
<1>4. CASE \E k \in Range(t) : Announces(k, u)
  <2>1. PICK i \in DOMAIN t : Announces(t[i], u)
    BY <1>4 DEF Range
  <2>2. Len(s) + i \in DOMAIN r /\ r[Len(s) + i] = t[i]
    BY <1>1, <2>1
  <2>3. \A h \in DOMAIN r : Deletes(r[h], d) => h < Len(s) + i
    BY <1>1, <1>2
  <2> QED BY <2>1, <2>2, <2>3 DEF LateIn
<1> QED BY <1>3, <1>4

-----------------------------------------------------------------------------
(* True claims stay true.                                                  *)

ClaimsLast == \A e : ClaimTrue(e) => ClaimTrue(e)'

LEMMA OneOfAName ==
    ASSUME TreeConsistent, NEW u, NEW v, Lives(u), Lives(v),
           mTree[u].name = mTree[v].name, mTree[u].parent = mTree[v].parent
    PROVE  u = v
  BY DEF TreeConsistent, ParentLinks, Lives

LEMMA ClaimsUnmoved ==
    ASSUME UNCHANGED vars, toClient' = toClient
    PROVE  \A e : ClaimTrue(e)' <=> ClaimTrue(e)
<1>1. mTree' = mTree /\ mUuidCtr' = mUuidCtr
  BY DEF vars, treeVars
<1>2. /\ \A e : TrueEntry(e)' <=> TrueEntry(e)
      /\ \A u : Leaving(u)' <=> Leaving(u)
      /\ \A u : Lives(u)' <=> Lives(u)
      /\ \A e, u : Rival(e, u)' <=> Rival(e, u)
      /\ \A d, u : Late(d, u)' <=> Late(d, u)
  BY <1>1 DEF TrueEntry, Issued, Leaving, Told, Lives, Rival, Late
<1> QED BY <1>1, <1>2 DEF ClaimTrue

\* The reader takes a packet.
TakesOne ==
    /\ UNCHANGED vars /\ toClient[Me] # <<>>
    /\ toClient' = [toClient EXCEPT ![Me] = Tail(@)]

LEMMA ClaimsTaken ==
    ASSUME MirrorIInv, TakesOne
    PROVE  /\ ClaimsLast
           /\ \A d, u : Leaving(d) /\ Late(d, u) => Announced(u)'
           /\ Told(Me) = {Arrived(Me)} \cup Told(Me)'
<1>1. mTree' = mTree /\ mUuidCtr' = mUuidCtr
  BY DEF TakesOne, vars, treeVars
<1>2. toClient \in [Client -> Seq(Message)]
  BY DEF MirrorIInv, Threaded, ThreadsTypeOK
<1>3. PICK s \in Seq(Message) : s = toClient[Me]
  BY <1>2, MeConnected
<1>4. s # <<>> /\ toClient'[Me] = Tail(s) /\ Arrived(Me) = Head(s)
  BY <1>2, <1>3, MeConnected DEF TakesOne, Arrived
<1>5. Told(Me) = Range(s) /\ Told(Me)' = Range(Tail(s))
  BY <1>3, <1>4 DEF Told
<1>6. Range(s) = {Head(s)} \cup Range(Tail(s))
  BY <1>4, TakenPackets
<1>7. ASSUME NEW d, NEW u, Late(d, u)
      PROVE  /\ Leaving(d)' => Late(d, u)'
             /\ Leaving(d) => Announced(u)'
  <2>1. LateIn(s, d, u)
    BY <1>3, <1>7 DEF Late
  <2>2. /\ (\E k \in Range(Tail(s)) : Deletes(k, d)) => LateIn(Tail(s), d, u)
        /\ (\E k \in Range(s) : Deletes(k, d)) => \E k \in Range(Tail(s)) : Announces(k, u)
    BY <1>4, <2>1, LateTail
  <2> QED BY <1>4, <1>5, <2>2 DEF Late, Leaving, Announced
<1>8. /\ \A e : TrueEntry(e)' <=> TrueEntry(e)
      /\ \A u : Leaving(u)' => Leaving(u)
      /\ \A u : Lives(u)' <=> Lives(u)
      /\ \A e, u : Rival(e, u)' <=> Rival(e, u)
  BY <1>1, <1>5, <1>6 DEF TrueEntry, Issued, Leaving, Lives, Rival
<1>9. ClaimsLast
  BY <1>1, <1>7, <1>8 DEF ClaimTrue, ClaimsLast
<1> QED BY <1>4, <1>5, <1>6, <1>7, <1>9

\* A node that dies makes room for others, which are announced after it has gone.
LEMMA ClaimsServed ==
    ASSUME MirrorIInv, NEW c \in Conn, NEW t, Tells(c, t), Delivers
    PROVE  /\ ClaimsLast
           /\ \A k \in Range(out'[Me]) : ListClaims(k.message)'
<1>1. /\ Next /\ Says(Me, ForCaller(c, Me, t))
      /\ \A u \in DOMAIN mTree' \ DOMAIN mTree :
            \E k \in Range(out'[Me]) : Announces(k, u)
      /\ \A k \in Range(out'[Me]) : \A u : Deletes(k, u) => u \in DOMAIN mTree
      /\ \A k \in Range(out'[Me]) : \A e \in EntriesIn(k.message) :
            TrueEntry(e)' /\ e.uuid \in DOMAIN mTree' \ {Root}
  BY DEF Tells
<1>2. ServerMoves /\ TreeConsistent
  BY <1>1, HandlersMove DEF MirrorIInv, ServerKnown
<1>3. toClient \in [Client -> Seq(Message)]
  BY DEF MirrorIInv, Threaded, ThreadsTypeOK
<1>4. PICK s \in Seq(Message) : s = toClient[Me]
  BY <1>3, MeConnected
<1>5. PICK t_ \in Seq(Message) : t_ = out'[Me]
  BY <1>1 DEF Says
<1>6. PICK r : r = toClient'[Me]
  OBVIOUS
<1>7. Joins(s, t_, r)
  BY <1>4, <1>5, <1>6, MeConnected DEF Delivers, Joins
<1>8. Range(r) = Range(s) \cup Range(t_)
  BY <1>7, JoinedPackets
<1>9. ASSUME NEW e, ClaimTrue(e), e.uuid \notin DOMAIN mTree', Leaving(e.uuid)',
             NEW u, Lives(u)', Rival(e, u)'
      PROVE  Late(e.uuid, u)'
  <2>1. PICK d : d = e.uuid
    OBVIOUS
  <2>2. CASE d \in DOMAIN mTree
    <3>1. u \in DOMAIN mTree /\ SameIdentity(u)
      BY <1>2, <1>9, <2>1, <2>2 DEF ServerMoves, Lives
    <3>2. Lives(d) /\ Lives(u) /\ mTree[d].name = mTree[u].name
          /\ mTree[d].parent = mTree[u].parent
      BY <1>9, <2>1, <2>2, <3>1 DEF ClaimTrue, TrueEntry, Lives, Rival, SameIdentity
    <3>3. u = d
      BY <1>2, <3>2, OneOfAName
    <3> QED BY <1>9, <2>1, <3>3 DEF Lives
  <2>3. CASE d \notin DOMAIN mTree
    <3>1. \A k \in Range(t_) : ~Deletes(k, d)
      BY <1>1, <1>5, <2>3
    <3>2. Leaving(d)
      BY <1>4, <1>6, <1>8, <1>9, <2>1, <3>1 DEF Leaving, Told
    <3>3. LateIn(s, d, u) \/ \E k \in Range(t_) : Announces(k, u)
      <4>1. CASE u \in DOMAIN mTree
        <5>1. SameIdentity(u)
          BY <1>2, <1>9, <4>1 DEF ServerMoves, Lives
        <5>2. Lives(u) /\ Rival(e, u)
          BY <1>9, <4>1, <5>1 DEF Lives, Rival, SameIdentity
        <5> QED BY <1>4, <1>9, <2>1, <2>3, <3>2, <5>2 DEF ClaimTrue, Late
      <4>2. CASE u \notin DOMAIN mTree
        BY <1>1, <1>5, <1>9, <4>2 DEF Lives
      <4> QED BY <4>1, <4>2
    <3>4. LateIn(r, d, u)
      BY <1>7, <3>1, <3>3, LateJoin
    <3> QED BY <1>6, <2>1, <3>4 DEF Late
  <2> QED BY <2>2, <2>3
<1>10. \A e : TrueEntry(e) => TrueEntry(e)'
  BY <1>2, TruthLasts
<1>11. ClaimsLast
  BY <1>9, <1>10 DEF ClaimTrue, ClaimsLast
<1>12. ASSUME NEW k \in Range(out'[Me]), NEW e \in EntriesIn(k.message)
       PROVE  ClaimTrue(e)'
  BY <1>1, <1>12 DEF ClaimTrue
<1> QED BY <1>11, <1>12 DEF ListClaims

\* The answers of a create and of a destroy.
LEMMA AnswersFit ==
    ASSUME ServerMoves, ClaimsLast
    PROVE  /\ \A b, p, n : AcceptFits(b, p, n) => AcceptFits(b, p, n)'
           /\ \A b, p, n : AcceptsWell(b, p, n)' => AcceptFits(b, p, n)'
           /\ \A b, u : DeletesWell(b, u) => DeletesWell(b, u)'
<1>1. ASSUME NEW b, NEW p, NEW n, AcceptFits(b, p, n) PROVE AcceptFits(b, p, n)'
  <2>1. PICK e : e = Entry(n, b.uuid, p)
    OBVIOUS
  <2> QED BY <1>1, <2>1 DEF AcceptFits, ClaimsLast
<1>2. ASSUME NEW b, NEW p, NEW n, AcceptsWell(b, p, n)' PROVE AcceptFits(b, p, n)'
  <2>1. PICK e : e = Entry(n, b.uuid, p)
    OBVIOUS
  <2>2. e.uuid = b.uuid
    BY <2>1 DEF Entry
  <2>3. ASSUME b.type = "CreateAccept" PROVE Old < b.uuid /\ ClaimTrue(e)'
    <3>1. TrueEntry(e)' /\ e.uuid \in DOMAIN mTree' \ {Root} /\ Old < b.uuid
      BY <1>2, <2>1, <2>2, <2>3 DEF AcceptsWell, Entry
    <3> QED BY <3>1 DEF ClaimTrue
  <2> QED BY <2>1, <2>3 DEF AcceptFits
<1>3. ASSUME NEW b, NEW u, DeletesWell(b, u) PROVE DeletesWell(b, u)'
  <2>1. ASSUME Issued(u), u \notin DOMAIN mTree PROVE Issued(u)' /\ u \notin DOMAIN mTree'
    <3>1. u # mUuidCtr /\ Issued(u)'
      BY <2>1, TruthLasts DEF Issued, ServerMoves, Uuid
    <3> QED BY <2>1, <3>1 DEF ServerMoves
  <2> QED BY <1>3, <2>1 DEF DeletesWell
<1> QED BY <1>1, <1>2, <1>3

-----------------------------------------------------------------------------
(* The threads' claims.                                                    *)

LEMMA ClaimsGoOn ==
    ASSUME MirrorIInv, ChildIInv, ServerMoves, ClaimsLast, NEW w \in Thread, GoesOn(w),
           NEW t, t = op[w],
           \A k \in Asked(Me)' : k.transactionId = t.id => k \in Asked(Me),
           \A k \in Told(Me)' : k.transactionId = t.id =>
                k \in Told(Me) \/ (Waits(w) => Fits(t, k.message)')
    PROVE  Claims(w)'
<1>1. op'[w] = t /\ Claims(w) /\ (Waits(w)' <=> Waits(w))
  BY DEF GoesOn, ChildIInv, Waits
<1>2. ASSUME NEW b, Fits(t, b) PROVE Fits(t, b)'
  BY <1>2, AnswersFit DEF Fits
<1>3. \A b : ListClaims(b) => ListClaims(b)'
  BY DEF ListClaims, ClaimsLast
<1>4. ASSUME Answered(w)' PROVE ListClaims(AnswerTo(w))' /\ Fits(op[w], AnswerTo(w))'
  <2>1. PICK b : b = AnswerTo(w)'
    OBVIOUS
  <2>2. ListClaims(b) /\ Fits(t, b)
    <3>1. CASE AnswerTo(w)' = AnswerTo(w)
      <4>1. Answered(w)
        BY <1>1, <1>4, <3>1 DEF Answered
      <4> QED BY <1>1, <2>1, <3>1, <4>1 DEF Claims
    <3>2. CASE \E k \in Told(Me) : k.transactionId = op[w].id /\ AnswerTo(w)' = k.message
      <4>1. PICK k \in Told(Me) : k.transactionId = op[w].id /\ b = k.message
        BY <2>1, <3>2
      <4>2. Fits(t, b)
        BY <1>1, <1>4, <4>1 DEF Claims, Answered, Fits
      <4> QED BY <4>1, <4>2 DEF ChildIInv
    <3> QED BY <1>1, <1>4, <3>1, <3>2 DEF GoesOn, Answered
  <2> QED BY <1>1, <1>2, <1>3, <2>1, <2>2
<1>5. ASSUME Waits(w)', t.does \in {"create", "destroy"}
      PROVE  /\ \A k \in Asked(Me)' : k.transactionId = t.id => k.message = AsksFor(t)
             /\ \A k \in Told(Me)' : k.transactionId = t.id => Fits(t, k.message)'
  BY <1>1, <1>2, <1>5 DEF Claims
<1>6. t # Idle => \A e \in t.todo : ClaimTrue(e)'
  BY <1>1 DEF Claims, ClaimsLast
<1> QED BY <1>1, <1>4, <1>5, <1>6 DEF Claims

\* A thread of the client does something, and the server nothing.
LEMMA ThreadClaims ==
    ASSUME MirrorIInv, MirrorIInv', ChildIInv, UNCHANGED vars, toClient' = toClient,
           NEW w \in Thread, \A x \in Thread \ {w} : Stays(x),
           \A k \in Asked(Me)' :
                k \in Asked(Me) \/ (Waits(w)' /\ k.transactionId = op'[w].id),
           Claims(w)', TrueNodes', InPlace'
    PROVE  ChildIInv'
<1>1. ServerMoves
  BY StandingStill DEF MirrorIInv
<1>2. ClaimsLast /\ Told(Me)' = Told(Me)
  BY ClaimsUnmoved DEF ClaimsLast, Told
<1>3. ASSUME NEW x \in Thread PROVE Claims(x)'
  <2>1. CASE x = w
    BY <2>1
  <2>2. CASE x # w
    <3>1. GoesOn(x)
      BY <2>2 DEF Stays, GoesOn
    <3>2. PICK t : t = op[x]
      OBVIOUS
    <3>3. ASSUME NEW k \in Asked(Me)', k.transactionId = t.id PROVE k \in Asked(Me)
      <4>1. w \in ThreadsOf(Me) /\ x \in ThreadsOf(Me) /\ Me \in Client
        BY MeConnected DEF ThreadsOf
      <4>2. Waits(w)' => op'[w].id # None
        BY DEF Waits
      <4>3. Waits(w)' /\ Waits(x)' => op'[x].id # op'[w].id
        BY <2>2, <4>1 DEF MirrorIInv, AllTraffic, Traffic, Owned, ThreadsOf
      <4> QED BY <3>1, <3>2, <3>3, <4>2, <4>3 DEF GoesOn, Waits
    <3> QED BY <1>1, <1>2, <3>1, <3>2, <3>3, ClaimsGoOn
  <2> QED BY <2>1, <2>2
<1>4. \A k \in Told(Me)' : ListClaims(k.message)'
  BY <1>2 DEF ChildIInv, ListClaims, ClaimsLast
<1> QED BY <1>3, <1>4 DEF ChildIInv

\* What is in its place stays there when nothing moves.
LEMMA PlacesUnmoved ==
    ASSUME ChildIInv, UNCHANGED <<vars, toClient, mirror, displaced>>
    PROVE  TrueNodes' /\ InPlace'
<1>1. \A e : ClaimTrue(e)' <=> ClaimTrue(e)
  BY ClaimsUnmoved
<1>2. mTree' = mTree
  BY DEF vars, treeVars
<1>3. TrueNodes'
  BY <1>1 DEF ChildIInv, TrueNodes
<1>4. InPlace'
  BY <1>2 DEF ChildIInv, InPlace, Lives, Identity, Slotted, Announced, Told
<1> QED BY <1>3, <1>4

\* A thread sends a request.
LEMMA SentClaims ==
    ASSUME MirrorIInv, MirrorIInv', ChildIInv, NEW w \in Thread, ~Waits(w),
           NEW task, Call(task), NEW message \in Requests_,
           Sends(w, task, message), UNCHANGED <<vars, toClient, mirror, history>>,
           \A e \in task.todo : ClaimTrue(e),
           task.does \in {"create", "destroy"} => message = AsksFor(task)
    PROVE  ChildIInv'
<1>1. PICK id : id = mTransactioIdCtr[Me]
  OBVIOUS
<1>2. Sent(w, Me, id, message)
  BY <1>1, MeConnected, Sending DEF MirrorIInv, Call
<1>3. PICK t : t = [task EXCEPT !.id = id]
  OBVIOUS
<1>4. op'[w] = t
  BY <1>1, <1>3, MeConnected DEF Sends, MirrorIInv, Threaded
<1>5. /\ t.id = id /\ t.does = task.does /\ t.at = task.at /\ t.name = task.name
      /\ t.todo = task.todo
  BY <1>3 DEF Call
<1>6. /\ id \in ReqId /\ ~Answered(w)' /\ Told(Me)' = Told(Me)
      /\ \A k \in Asked(Me) \cup Told(Me) : k.transactionId # id
      /\ Asked(Me)' = Asked(Me) \cup {Packet(id, message)}
      /\ \A x \in Thread \ {w} : Stays(x)
  BY <1>2, MeConnected DEF Sent
<1>7. ASSUME t.does \in {"create", "destroy"}
      PROVE  \A k \in Asked(Me)' : k.transactionId = t.id => k.message = AsksFor(t)
  <2>1. message = AsksFor(t)
    BY <1>5, <1>7 DEF AsksFor
  <2> QED BY <1>5, <1>6, <2>1 DEF Packet
<1>8. \A e \in t.todo : ClaimTrue(e)'
  BY <1>5, ClaimsUnmoved
<1>9. Claims(w)'
  BY <1>4, <1>5, <1>6, <1>7, <1>8 DEF Claims
<1>10. TrueNodes' /\ InPlace'
  BY PlacesUnmoved DEF history
<1>11. \A k \in Asked(Me)' : k \in Asked(Me) \/ (Waits(w)' /\ k.transactionId = op'[w].id)
  BY <1>4, <1>5, <1>6, IdTypes DEF Waits, Packet
<1> QED BY <1>6, <1>9, <1>10, <1>11, ThreadClaims

\* A thread that waits for nothing goes on with a task.
LEMMA LeftClaims ==
    ASSUME MirrorIInv, MirrorIInv', ChildIInv, UNCHANGED vars, toClient' = toClient,
           NEW w \in Thread, NEW task, task.id = None, Left(w, task),
           task = Idle \/ \A e \in task.todo : ClaimTrue(e), TrueNodes', InPlace'
    PROVE  ChildIInv'
<1>1. /\ op'[w] = task /\ Asked(Me)' = Asked(Me)
      /\ \A x \in Thread \ {w} : Stays(x)
  BY MeConnected DEF Left
<1>2. ~Waits(w)' /\ ~Answered(w)'
  BY <1>1 DEF Answered, Waits
<1>3. task # Idle => \A e \in task.todo : ClaimTrue(e)'
  BY ClaimsUnmoved
<1>4. Claims(w)'
  BY <1>1, <1>2, <1>3 DEF Claims
<1> QED BY <1>1, <1>4, ThreadClaims

-----------------------------------------------------------------------------
(* The steps of the threads, again.                                        *)

LEMMA RequestsClaim ==
    ASSUME MirrorIInv, MirrorIInv', ChildIInv, NEW w \in Thread, NEW o \in Held,
           \/ \E n \in Name :
                Create_(w, o, n) \/ \E b \in BOOLEAN : Get_(w, o, n, b)
           \/ Destroy(w, o) \/ \E r \in BOOLEAN : LoadChildren(w, o, r)
    PROVE  ChildIInv'
<1>1. o \in DOMAIN mirror.nodes /\ o[1] \in Uuid
  BY HeldNodes
<1>2. ASSUME NEW n \in Name, Create_(w, o, n) PROVE ChildIInv'
  <2> DEFINE task == Task("create", o, n)
             message == CreateRequest(o, n)
  <2>1. Call(task) /\ task.todo = {} /\ message = AsksFor(task)
    BY <1>1 DEF Call, Task, AsksFor
  <2>2. message \in Requests_
    BY <1>1 DEF Requests_, CreateRequest
  <2>3. ~Waits(w) /\ Sends(w, task, message) /\ UNCHANGED <<vars, toClient, mirror, history>>
    BY <1>2 DEF Create_, Waits, Idle
  <2> HIDE DEF task, message
  <2> QED BY <2>1, <2>2, <2>3, SentClaims
<1>3. ASSUME NEW n \in Name, NEW b \in BOOLEAN, Get_(w, o, n, b) PROVE ChildIInv'
  <2> DEFINE task == [Task("get", o, n) EXCEPT !.orCreate = b]
             message == [type |-> "TreeInfoRequest", parentUuid |-> o[1], name |-> n,
                         recursive |-> FALSE]
  <2>1. Call(task) /\ task.todo = {} /\ task.does = "get"
    BY <1>1 DEF Call, Task
  <2>2. message \in Requests_
    BY <1>1 DEF Requests_
  <2>3. ~Waits(w) /\ Sends(w, task, message) /\ UNCHANGED <<vars, toClient, mirror, history>>
    BY <1>3 DEF Get_, Waits, Idle
  <2> HIDE DEF task, message
  <2> QED BY <2>1, <2>2, <2>3, SentClaims
<1>4. ASSUME Destroy(w, o) PROVE ChildIInv'
  <2> DEFINE task == Task("destroy", o, None)
             message == [type |-> "DeleteRequest", uuid |-> o[1]]
  <2>1. Call(task) /\ task.todo = {} /\ message = AsksFor(task)
    BY <1>1 DEF Call, Task, AsksFor
  <2>2. message \in Requests_
    BY <1>1 DEF Requests_
  <2>3. ~Waits(w) /\ Sends(w, task, message) /\ UNCHANGED <<vars, toClient, mirror, history>>
    BY <1>4 DEF Destroy, Waits, Idle
  <2> HIDE DEF task, message
  <2> QED BY <2>1, <2>2, <2>3, SentClaims
<1>5. ASSUME NEW r \in BOOLEAN, LoadChildren(w, o, r) PROVE ChildIInv'
  <2> DEFINE task == [Task("get", o, Dot) EXCEPT !.recursive = r]
             message == [type |-> "TreeInfoRequest", parentUuid |-> o[1], name |-> Dot,
                         recursive |-> r]
  <2>1. Call(task) /\ task.todo = {} /\ task.does = "get"
    BY <1>1 DEF Call, Task
  <2>2. message \in Requests_
    BY <1>1 DEF Requests_
  <2>3. ~Waits(w) /\ Sends(w, task, message) /\ UNCHANGED <<vars, toClient, mirror, history>>
    BY <1>5 DEF LoadChildren, Waits, Idle
  <2> HIDE DEF task, message
  <2> QED BY <2>1, <2>2, <2>3, SentClaims
<1> QED BY <1>2, <1>3, <1>4, <1>5

LEMMA OrCreateClaims ==
    ASSUME MirrorIInv, MirrorIInv', ChildIInv, NEW w \in Thread, OrCreate(w)
    PROVE  ChildIInv'
<1> DEFINE task == [op[w] EXCEPT !.does = "create"]
           message == CreateRequest(op[w].at, op[w].name)
<1>1. Call(op[w]) /\ op[w].does = "creating"
  BY DEF OrCreate, MirrorIInv, TaskKnown, TaskTyped, Idle
<1>2. /\ Call(task) /\ task.does = "create" /\ task.todo = op[w].todo
      /\ task.at = op[w].at /\ task.name = op[w].name
  BY <1>1 DEF Call
<1>3. message \in Requests_
  BY <1>1, HeldNodes DEF Call, Held, Requests_, CreateRequest
<1>4. ~Waits(w) /\ Sends(w, task, message) /\ UNCHANGED <<vars, toClient, mirror, history>>
  BY <1>1 DEF OrCreate, Waits, Call
<1>5. message = AsksFor(task)
  BY <1>2 DEF AsksFor
<1>6. \A e \in task.todo : ClaimTrue(e)
  BY <1>1, <1>2, IdleTask DEF ChildIInv, Claims
<1> HIDE DEF task, message
<1> QED BY <1>2, <1>3, <1>4, <1>5, <1>6, SentClaims

\* A thread returns and leaves the nodes alone.
LEMMA QuietReturn ==
    ASSUME MirrorIInv, MirrorIInv', ChildIInv, NEW w \in Thread, Answered(w), NEW task,
           task.id = None, Returns(w, task), UNCHANGED <<mirror, history>>,
           task = Idle \/ \A e \in task.todo : ClaimTrue(e)
    PROVE  ChildIInv'
<1>1. Left(w, task)
  BY Returning DEF MirrorIInv
<1>2. UNCHANGED vars /\ toClient' = toClient
  BY DEF Returns, wires
<1>3. TrueNodes' /\ InPlace'
  BY <1>2, PlacesUnmoved DEF history
<1> QED BY <1>1, <1>2, <1>3, LeftClaims

LEMMA QuietReturnsClaim ==
    ASSUME MirrorIInv, MirrorIInv', ChildIInv, NEW w \in Thread,
           CreateRejected(w) \/ GetAnswered(w) \/ GetNothing(w)
    PROVE  ChildIInv'
<1>1. CASE CreateRejected(w)
  BY <1>1, IdleTask, QuietReturn DEF CreateRejected, Got
<1>2. CASE GetAnswered(w)
  <2>1. PICK list : list = AnswerTo(w).nodeToAddList
    OBVIOUS
  <2> DEFINE own == IF op[w].name = Dot THEN None
                    ELSE (CHOOSE e \in list : e.parentUuid = op[w].at[1]
                                            /\ e.name = op[w].name).uuid
  <2> HIDE DEF own
  <2>2. PICK sought : sought = own
    OBVIOUS
  <2>3. PICK task : task = [op[w] EXCEPT !.does = "adding", !.id = None, !.todo = list,
                                       !.sought = sought]
    OBVIOUS
  <2>4. /\ Got(w, "get", "TreeInfoResponse") /\ Returns(w, task)
        /\ UNCHANGED <<mirror, history>>
    BY <1>2, <2>1, <2>2, <2>3 DEF GetAnswered, own
  <2>5. Answered(w) /\ Call(op[w]) /\ AnswerTo(w).type = "TreeInfoResponse"
    BY <2>4, GotCall
  <2>6. task.id = None /\ task.todo = list
    BY <2>3, <2>5 DEF Call
  <2>7. \A e \in list : ClaimTrue(e)
    BY <2>1, <2>5 DEF ChildIInv, Claims, ListClaims, EntriesIn
  <2> QED BY <2>4, <2>5, <2>6, <2>7, QuietReturn
<1>3. CASE GetNothing(w)
  <2>1. PICK again : again = [op[w] EXCEPT !.does = "creating", !.id = None]
    OBVIOUS
  <2>2. PICK task : task = IF op[w].orCreate /\ op[w].name \notin DOMAIN Children(op[w].at)
                           THEN again ELSE Idle
    OBVIOUS
  <2>3. /\ Got(w, "get", "TreeInfoErrorResponse") /\ Returns(w, task)
        /\ UNCHANGED <<mirror, history>>
    BY <1>3, <2>1, <2>2 DEF GetNothing
  <2>4. Answered(w) /\ Call(op[w]) /\ op[w].does = "get"
    BY <2>3, GotCall
  <2>5. again.id = None /\ again.todo = op[w].todo
    BY <2>1, <2>4 DEF Call
  <2>6. \A e \in op[w].todo : ClaimTrue(e)
    BY <2>4, IdleTask DEF ChildIInv, Claims
  <2> QED BY <2>2, <2>3, <2>4, <2>5, <2>6, IdleTask, QuietReturn
<1> QED BY <1>1, <1>2, <1>3

LEMMA ExpireClaims ==
    ASSUME MirrorIInv, MirrorIInv', ChildIInv, NEW w \in Thread, Expire(w)
    PROVE  ChildIInv'
<1>1. Throws(w) /\ UNCHANGED <<mirror, history>> /\ UNCHANGED vars /\ toClient' = toClient
  BY DEF Expire, Throws, wires
<1>2. Left(w, Idle)
  BY <1>1, Throwing DEF MirrorIInv
<1>3. TrueNodes' /\ InPlace'
  BY <1>1, PlacesUnmoved DEF history
<1> QED BY <1>1, <1>2, <1>3, IdleTask, LeftClaims

LEMMA GetEndClaims ==
    ASSUME MirrorIInv, MirrorIInv', ChildIInv, NEW w \in Thread, GetEnd(w)
    PROVE  ChildIInv'
<1>1. PICK lost : lost = [op[w] EXCEPT !.does = "lost"]
  OBVIOUS
<1>2. PICK task : task = IF op[w].sought = None \/ Known(mirror, op[w].sought) THEN Idle
                         ELSE lost
  OBVIOUS
<1>3. /\ op[w].does = "adding" /\ op[w].todo = {} /\ UNCHANGED vars
      /\ UNCHANGED <<mTransactions, mTransactioIdCtr, wires>>
      /\ UNCHANGED <<mirror, removed, revived, displaced>>
      /\ op' = [op EXCEPT ![w] = task]
  BY <1>1, <1>2 DEF GetEnd
<1>4. Call(op[w]) /\ op[w].id = None
  BY <1>3, IdleTask DEF MirrorIInv, TaskKnown, TaskTyped, Call
<1>5. lost.id = None /\ lost.todo = {}
  BY <1>1, <1>3, <1>4 DEF Call
<1>6. task.id = None /\ (task = Idle \/ task.todo = {})
  BY <1>2, <1>5, IdleTask
<1>7. Left(w, task)
  BY <1>3, <1>4, <1>6, GoingOn DEF MirrorIInv, Waits
<1>8. UNCHANGED vars /\ toClient' = toClient
  BY <1>3 DEF wires
<1>9. TrueNodes' /\ InPlace'
  BY <1>3, <1>8, PlacesUnmoved
<1> QED BY <1>6, <1>7, <1>8, <1>9, LeftClaims

\* The name and the place of a node of the tree.
LEMMA IdentityType ==
    ASSUME ServerKnown, NEW u, Lives(u)
    PROVE  Identity(u) \in NamedNode
<1>1. /\ u \in Uuid /\ mTree[u].parent \in DOMAIN mTree
      /\ mTree[u].name \in DOMAIN mTree[mTree[u].parent].children
      /\ DOMAIN mTree \subseteq Uuid
  BY Types DEF ServerKnown, TreeConsistent, ParentLinks, Lives
<1>2. mTree[mTree[u].parent] \in Node
  BY <1>1 DEF ServerKnown, TypeOK, IsMap
<1>3. mTree[mTree[u].parent].children \in Map(Name, Uuid)
  BY <1>2 DEF Node
<1>4. DOMAIN mTree[mTree[u].parent].children \subseteq Name
  BY <1>3, MapMembership DEF IsMap
<1> QED BY <1>1, <1>4 DEF Identity, Entry, NamedNode

\* The client adds an entry: a node that loses its place to a dead one will be announced.
LEMMA AddedClaims ==
    ASSUME MirrorIInv, ChildIInv, mTree' = mTree, ClaimsLast, NEW e, ClaimTrue(e),
           mirror' = Added(mirror, e),
           \A u : Announced(u) => Announced(u)' \/ u = e.uuid,
           \A u : u # e.uuid /\ u \notin displaced' => u \notin displaced,
           \A u : /\ Lives(u) /\ ~Lives(e.uuid) /\ Rival(e, u) /\ u \notin displaced'
                  /\ Known(mirror, u) /\ Slotted(u)
                  => Announced(u)'
    PROVE  TrueNodes' /\ InPlace'
<1>1. PICK r : r = mirror'
  OBVIOUS
<1>2. PICK s : s = mirror
  OBVIOUS
<1>3. TrueEntry(e) /\ e \in NamedNode
  BY DEF ClaimTrue, TrueEntry
<1>4. NodesTyped(s) /\ r = Added(s, e)
  BY <1>1, <1>2 DEF MirrorIInv, NodesKnown
<1>5. Grows(s, r, {e.uuid, e.parentUuid}, {e.uuid}) /\ BearsOnly(s, r, e) /\ Puts(s, r, e)
  BY <1>3, <1>4, EntryAdded
<1>6. TrueNodes'
  <2>1. ASSUME NEW f \in NamedNode, Bears(r, f) PROVE ClaimTrue(f)'
    <3>1. ClaimTrue(f)
      BY <1>2, <1>5, <2>1 DEF BearsOnly, ChildIInv, TrueNodes
    <3> QED BY <3>1 DEF ClaimsLast
  <2> QED BY <1>1, <2>1 DEF TrueNodes
<1>7. ASSUME NEW u, Lives(u), u \notin displaced', Bears(r, Identity(u))
      PROVE  \/ Has(r, mTree[u].parent, mTree[u].name, r.mTree[u])
             \/ Announced(u)'
  <2>1. PICK f : f = Identity(u)
    OBVIOUS
  <2>2. f \in NamedNode /\ f.uuid = u /\ Bears(r, f)
    BY <1>7, <2>1, IdentityType DEF MirrorIInv, Identity, Entry
  <2>3. CASE u = e.uuid
    <3>1. mTree[u].name = e.name /\ mTree[u].parent = e.parentUuid
      BY <1>3, <1>7, <2>3 DEF TrueEntry, Lives
    <3> QED BY <1>5, <2>3, <3>1 DEF Puts
  <2>4. CASE u # e.uuid
    <3>1. Bears(s, f)
      BY <1>5, <2>2, <2>4 DEF BearsOnly
    <3>2. Known(s, u) /\ r.mTree[u] = s.mTree[u]
      BY <1>5, <2>2, <3>1 DEF Bears, Known, Grows
    <3>3. Slotted(u) \/ Announced(u)
      BY <1>2, <1>7, <2>1, <2>4, <3>1 DEF ChildIInv, InPlace
    <3>4. CASE Slotted(u) /\ ~Rival(e, u)
      <4>1. Has(s, mTree[u].parent, mTree[u].name, s.mTree[u])
        BY <1>2, <3>4 DEF Slotted
      <4> QED BY <1>5, <3>2, <3>4, <4>1 DEF Puts, Rival
    <3>5. CASE Slotted(u) /\ Rival(e, u)
      <4>1. CASE Lives(e.uuid)
        <5>1. /\ mTree[e.uuid].name = mTree[u].name
              /\ mTree[e.uuid].parent = mTree[u].parent
          BY <1>3, <3>5, <4>1 DEF TrueEntry, Rival, Lives
        <5> QED BY <1>7, <2>4, <4>1, <5>1, OneOfAName DEF MirrorIInv, ServerKnown
      <4>2. CASE ~Lives(e.uuid)
        BY <1>2, <1>7, <3>2, <3>5, <4>2
      <4> QED BY <4>1, <4>2
    <3> QED BY <2>4, <3>3, <3>4, <3>5
  <2> QED BY <2>3, <2>4
<1>8. InPlace'
  BY <1>1, <1>7 DEF InPlace, Lives, Identity, Slotted
<1> QED BY <1>6, <1>8

LEMMA AddNextClaims ==
    ASSUME MirrorIInv, MirrorIInv', ForgetIInv, ChildIInv, NEW w \in Thread, AddNext(w)
    PROVE  ChildIInv'
<1>1. /\ op[w].does = "adding" /\ UNCHANGED vars /\ mTree' = mTree
      /\ UNCHANGED <<mTransactions, mTransactioIdCtr, wires>> /\ toClient' = toClient
  BY DEF AddNext, vars, treeVars, wires
<1>2. PICK e \in op[w].todo :
        /\ mirror' = Added(mirror, e)
        /\ op' = [op EXCEPT ![w].todo = @ \ {e}]
        /\ displaced' = IF e.uuid \in removed
                        THEN displaced \cup {x[1] : x \in Overtaken(e)}
                        ELSE displaced \ {e.uuid}
  BY DEF AddNext
<1>3. PICK task : task = [op[w] EXCEPT !.todo = op[w].todo \ {e}]
  OBVIOUS
<1>4. Call(op[w]) /\ op[w].id = None /\ \A f \in op[w].todo : ClaimTrue(f)
  BY <1>1, IdleTask DEF MirrorIInv, TaskKnown, TaskTyped, Call, ChildIInv, Claims
<1>5. task.id = None /\ task.todo = op[w].todo \ {e}
  BY <1>3, <1>4 DEF Call
<1>6. op' = [op EXCEPT ![w] = task]
  BY <1>2, <1>3
<1>7. Left(w, task)
  BY <1>1, <1>4, <1>5, <1>6, GoingOn DEF MirrorIInv, Waits
<1>8. ClaimsLast /\ \A u : Announced(u)' <=> Announced(u)
  BY <1>1, ClaimsUnmoved DEF ClaimsLast, Announced, Told
<1>9. ASSUME NEW u, Lives(u), ~Lives(e.uuid), Rival(e, u), u \notin displaced',
             Known(mirror, u), Slotted(u)
      PROVE  Announced(u)'
  <2>1. ClaimTrue(e) /\ e.uuid \notin DOMAIN mTree /\ Issued(e.uuid)
    BY <1>4, <1>9 DEF ClaimTrue, TrueEntry, Lives
  <2>2. CASE e.uuid \in removed
    <3>1. PICK x : x = mirror.mTree[u]
      OBVIOUS
    <3>2. x[1] = u /\ x \in DOMAIN mirror.nodes
      BY <1>9, <3>1 DEF Known, MirrorIInv, NodesKnown, NodesTyped, IsMap
    <3>3. Has(mirror, e.parentUuid, e.name, x)
      BY <1>9, <3>1 DEF Slotted, Rival
    <3>4. x \in Overtaken(e)
      BY <3>2, <3>3 DEF Has, Overtaken, Children
    <3> QED BY <1>2, <1>9, <2>2, <3>2, <3>4
  <2>3. CASE e.uuid \notin removed
    <3>1. Leaving(e.uuid)
      BY <2>1, <2>3 DEF ForgetIInv
    <3>2. Late(e.uuid, u)
      BY <1>9, <2>1, <3>1 DEF ClaimTrue
    <3>3. Announced(u)
      BY <3>2, MeConnected DEF Late, LateIn, Announced, Told, Range
    <3> QED BY <1>8, <3>3
  <2> QED BY <2>2, <2>3
<1>10. \A u : u # e.uuid /\ u \notin displaced' => u \notin displaced
  BY <1>2
<1>11. TrueNodes' /\ InPlace'
  BY <1>1, <1>2, <1>4, <1>8, <1>9, <1>10, AddedClaims
<1> QED BY <1>1, <1>4, <1>5, <1>7, <1>11, LeftClaims

LEMMA CreateAcceptedClaims ==
    ASSUME MirrorIInv, MirrorIInv', ChildIInv, NEW w \in Thread, CreateAccepted(w)
    PROVE  ChildIInv'
<1>1. PICK v : v = AnswerTo(w).uuid
  OBVIOUS
<1>2. PICK o, n : o = op[w].at /\ n = op[w].name
  OBVIOUS
<1>3. /\ Got(w, "create", "CreateAccept") /\ Returns(w, Idle)
      /\ mirror' = Accepted(mirror, v, o, n) /\ displaced' = displaced
  BY <1>1, <1>2 DEF CreateAccepted
<1>4. /\ Answered(w) /\ op[w].does = "create" /\ AnswerTo(w).type = "CreateAccept"
      /\ Issued(v) /\ o \in DOMAIN mirror.nodes /\ n \in Name
  BY <1>1, <1>2, <1>3, GotCall DEF TrueAnswer, Call
<1>5. UNCHANGED vars /\ toClient' = toClient /\ mTree' = mTree
  BY <1>3 DEF Returns, wires, vars, treeVars
<1>6. PICK e : e = Entry(n, v, o[1])
  OBVIOUS
<1>7. Old < v /\ ClaimTrue(e)
  BY <1>1, <1>2, <1>4, <1>6 DEF ChildIInv, Claims, Fits, AcceptFits
<1>8. PICK r : r = mirror'
  OBVIOUS
<1>9. PICK s : s = mirror
  OBVIOUS
<1>10. /\ Grows(s, r, {v}, {}) /\ HasStill(s, r)
       /\ BearsNoMore(s, r) \/ (~Known(s, v) /\ BearsOnly(s, r, e))
  <2>1. v \in Uuid /\ NodesTyped(s) /\ o \in DOMAIN s.nodes /\ r = Accepted(s, v, o, n)
    BY <1>3, <1>4, <1>8, <1>9 DEF Issued, MirrorIInv, NodesKnown
  <2>2. /\ Grows(s, r, {v}, {}) /\ HasStill(s, r)
        /\ Known(s, v) \/ BearsOnly(s, r, Entry(n, v, o[1]))
    BY <1>4, <2>1, AcceptGrows
  <2>3. Known(s, v) => r = s
    BY <2>1 DEF Accepted
  <2> QED BY <1>6, <2>2, <2>3 DEF BearsNoMore
<1>11. TrueNodes'
  <2>1. ASSUME NEW f \in NamedNode, Bears(r, f) PROVE ClaimTrue(f)'
    <3>1. ClaimTrue(f)
      BY <1>7, <1>9, <1>10, <2>1 DEF BearsOnly, BearsNoMore, ChildIInv, TrueNodes
    <3> QED BY <1>5, <3>1, ClaimsUnmoved
  <2> QED BY <1>8, <2>1 DEF TrueNodes
<1>12. ASSUME NEW u, Lives(u), u \notin displaced, Bears(r, Identity(u))
       PROVE  \/ Has(r, mTree[u].parent, mTree[u].name, r.mTree[u])
              \/ Announced(u)
  <2>1. PICK f : f = Identity(u)
    OBVIOUS
  <2>2. f \in NamedNode /\ f.uuid = u /\ Bears(r, f)
    BY <1>12, <2>1, IdentityType DEF MirrorIInv, Identity, Entry
  <2>3. CASE Bears(s, f)
    <3>1. r.mTree[u] = s.mTree[u]
      BY <1>10, <2>2, <2>3 DEF Bears, Known, Grows
    <3>2. Slotted(u) \/ Announced(u)
      BY <1>9, <1>12, <2>1, <2>3 DEF ChildIInv, InPlace
    <3> QED BY <1>9, <1>10, <3>1, <3>2 DEF HasStill, Slotted
  <2>4. CASE ~Bears(s, f)
    <3>1. ~Known(s, v) /\ f = e
      BY <1>10, <2>2, <2>4 DEF BearsOnly, BearsNoMore
    <3>2. u = v
      BY <1>6, <2>2, <3>1 DEF Entry
    <3>3. ~RightNow(u)
      BY <1>9, <3>1, <3>2 DEF RightNow, Right
    <3> QED BY <1>7, <1>12, <3>2, <3>3 DEF Lives, MirrorIInv, ComesToKnow
  <2> QED BY <2>3, <2>4
<1>13. \A u : Announced(u)' <=> Announced(u)
  BY <1>5 DEF Announced, Told
<1>14. InPlace'
  BY <1>3, <1>5, <1>8, <1>12, <1>13 DEF InPlace, Lives, Identity, Slotted
<1>15. Left(w, Idle)
  BY <1>3, <1>4, IdleTask, Returning DEF MirrorIInv
<1> QED BY <1>5, <1>11, <1>14, <1>15, IdleTask, LeftClaims

LEMMA DestroyedClaims ==
    ASSUME MirrorIInv, MirrorIInv', ChildIInv, NEW w \in Thread, Destroyed(w)
    PROVE  ChildIInv'
<1>1. /\ Got(w, "destroy", "DeleteResponse") /\ Returns(w, Idle)
  BY DEF Destroyed
<1>2. PICK o : o = op[w].at
  OBVIOUS
<1>3. /\ Answered(w) /\ op[w].does = "destroy" /\ AnswerTo(w).type = "DeleteResponse"
      /\ o \in DOMAIN mirror.nodes
  BY <1>1, <1>2, GotCall
<1>4. UNCHANGED vars /\ toClient' = toClient /\ mTree' = mTree
  BY <1>1 DEF Returns, wires, vars, treeVars
<1>5. Left(w, Idle)
  BY <1>1, <1>3, IdleTask, Returning DEF MirrorIInv
<1>6. CASE UNCHANGED <<mirror, displaced>>
  <2>1. TrueNodes' /\ InPlace'
    BY <1>4, <1>6, PlacesUnmoved
  <2> QED BY <1>4, <1>5, <2>1, IdleTask, LeftClaims
<1>7. CASE /\ AnswerTo(w).cause = "OK"
           /\ mirror' = [mirror EXCEPT !.nodes = Unlist(@, o)]
           /\ displaced' = displaced \cup {x[1] : x \in ListedAs(o) \ {o}}
  <2>1. PICK r : r = mirror'
    OBVIOUS
  <2>2. PICK s : s = mirror
    OBVIOUS
  <2>3. o[1] \notin DOMAIN mTree
    BY <1>2, <1>3, <1>7 DEF ChildIInv, Claims, Fits, DeletesWell
  <2>4. NodesTyped(s) /\ o \in DOMAIN s.nodes /\ Unlists(s, r, o)
    BY <1>3, <1>7, <2>1, <2>2 DEF Unlists, MirrorIInv, NodesKnown
  <2>5. Rechilded(s, r) /\ Unslots(s, r, o) /\ BearsNoMore(s, r) /\ r.mTree = s.mTree
    BY <2>4, UnlistGrows, RechildedBears DEF Rechilded
  <2>6. TrueNodes'
    <3>1. ASSUME NEW f \in NamedNode, Bears(r, f) PROVE ClaimTrue(f)'
      <4>1. ClaimTrue(f)
        BY <2>2, <2>5, <3>1 DEF BearsNoMore, ChildIInv, TrueNodes
      <4> QED BY <1>4, <4>1, ClaimsUnmoved
    <3> QED BY <2>1, <3>1 DEF TrueNodes
  <2>7. ASSUME NEW u, Lives(u), u \notin displaced', Bears(r, Identity(u))
        PROVE  \/ Has(r, mTree[u].parent, mTree[u].name, r.mTree[u])
               \/ Announced(u)
    <3>1. PICK f : f = Identity(u)
      OBVIOUS
    <3>2. f \in NamedNode /\ f.uuid = u /\ Bears(s, f)
      BY <2>5, <2>7, <3>1, IdentityType DEF MirrorIInv, Identity, Entry, BearsNoMore
    <3>3. u \notin displaced
      BY <1>7, <2>7
    <3>4. Slotted(u) \/ Announced(u)
      BY <2>2, <2>7, <3>1, <3>2, <3>3 DEF ChildIInv, InPlace
    <3>5. ASSUME Slotted(u)
          PROVE  Has(r, mTree[u].parent, mTree[u].name, r.mTree[u])
      <4>1. PICK x : x = s.mTree[u]
        OBVIOUS
      <4>2. x[1] = u /\ x \in DOMAIN s.nodes
        BY <2>4, <3>2, <4>1 DEF Bears, Known, NodesTyped, IsMap
      <4>3. Has(s, mTree[u].parent, mTree[u].name, x)
        BY <2>2, <3>5, <4>1 DEF Slotted
      <4>4. ASSUME s.nodes[o].parent # None, s.mTree[mTree[u].parent] = s.nodes[o].parent,
                   mTree[u].name = s.nodes[o].name
            PROVE  FALSE
        <5>1. x \in ListedAs(o)
          BY <2>2, <4>2, <4>3, <4>4 DEF ListedAs, Children, Has
        <5>2. x # o
          BY <2>3, <2>7, <4>2 DEF Lives
        <5> QED BY <1>7, <2>7, <4>2, <5>1, <5>2
      <4> QED BY <2>5, <4>1, <4>3, <4>4 DEF Unslots
    <3> QED BY <3>4, <3>5
  <2>8. \A u : Announced(u)' <=> Announced(u)
    BY <1>4 DEF Announced, Told
  <2>9. InPlace'
    BY <1>4, <2>1, <2>7, <2>8 DEF InPlace, Lives, Identity, Slotted
  <2> QED BY <1>4, <1>5, <2>6, <2>9, IdleTask, LeftClaims
<1> QED BY <1>2, <1>6, <1>7 DEF Destroyed

-----------------------------------------------------------------------------
(* The steps of the reader, again.                                         *)

LEMMA ReadAnswerClaims ==
    ASSUME MirrorIInv, ChildIInv, ReadAnswer
    PROVE  ChildIInv'
<1>1. PICK k : k = Arrived(Me)
  OBVIOUS
<1>2. /\ ReadsAnswer(Me) /\ UNCHANGED vars /\ TakesOne
      /\ mirror' = mirror /\ displaced' = displaced
  BY DEF ReadAnswer, ReadsAnswer, Takes, TakesOne, history
<1>3. Filed(Me, k)
  BY <1>1, <1>2, MeConnected, Filing DEF MirrorIInv
<1>4. /\ Told(Me) = {k} \cup Told(Me)' /\ Asked(Me)' = Asked(Me)
      /\ k.transactionId # Notify
  BY <1>3, MeConnected, IdTypes DEF Filed, Taken
<1>5. ServerMoves /\ ClaimsLast /\ mTree' = mTree
  BY <1>2, StandingStill, ClaimsTaken DEF MirrorIInv, vars, treeVars
<1>6. ASSUME NEW x \in Thread PROVE Claims(x)'
  <2>1. GoesOn(x)
    BY <1>3, <1>4 DEF Filed, GoesOn, Stays
  <2>2. PICK t : t = op[x]
    OBVIOUS
  <2> QED BY <1>4, <1>5, <2>1, <2>2, ClaimsGoOn
<1>7. \A u : Announced(u) => Announced(u)'
  BY <1>4 DEF Announced, Announces
<1>8. TrueNodes'
  BY <1>2, <1>5 DEF ChildIInv, TrueNodes, ClaimsLast
<1>9. InPlace'
  BY <1>2, <1>5, <1>7 DEF ChildIInv, InPlace, Lives, Identity, Slotted
<1>10. \A q \in Told(Me)' : ListClaims(q.message)'
  BY <1>4, <1>5 DEF ChildIInv, ListClaims, ClaimsLast
<1> QED BY <1>6, <1>8, <1>9, <1>10 DEF ChildIInv

\* The client removes a node: one that loses its place with it will be announced.
LEMMA RemovedClaims ==
    ASSUME MirrorIInv, ChildIInv, mTree' = mTree, ClaimsLast, displaced' = displaced,
           NEW d \in Uuid, d \notin DOMAIN mTree, Leaving(d), mirror' = Removed(mirror, d),
           \A u : Announced(u) => Announced(u)',
           \A u : Late(d, u) => Announced(u)'
    PROVE  TrueNodes' /\ InPlace'
<1>1. PICK r : r = mirror'
  OBVIOUS
<1>2. PICK s : s = mirror
  OBVIOUS
<1>3. /\ DOMAIN r.mTree = DOMAIN s.mTree \ {d}
      /\ \A v \in DOMAIN r.mTree : r.mTree[v] = s.mTree[v]
      /\ BearsNoMore(s, r) /\ Unslotted(s, r, d)
  BY <1>1, <1>2, NodeRemoved DEF MirrorIInv, NodesKnown
<1>4. TrueNodes'
  <2>1. ASSUME NEW f \in NamedNode, Bears(r, f) PROVE ClaimTrue(f)'
    <3>1. ClaimTrue(f)
      BY <1>2, <1>3, <2>1 DEF BearsNoMore, ChildIInv, TrueNodes
    <3> QED BY <3>1 DEF ClaimsLast
  <2> QED BY <1>1, <2>1 DEF TrueNodes
<1>5. ASSUME NEW u, Lives(u), u \notin displaced, Bears(r, Identity(u))
      PROVE  \/ Has(r, mTree[u].parent, mTree[u].name, r.mTree[u])
             \/ Announced(u)'
  <2>1. PICK f : f = Identity(u)
    OBVIOUS
  <2>2. /\ f \in NamedNode /\ f.uuid = u /\ f.name = mTree[u].name
        /\ f.parentUuid = mTree[u].parent /\ Bears(s, f)
    BY <1>3, <1>5, <2>1, IdentityType DEF MirrorIInv, Identity, Entry, BearsNoMore
  <2>3. Slotted(u) \/ Announced(u)
    BY <1>2, <1>5, <2>1, <2>2 DEF ChildIInv, InPlace
  <2>4. ASSUME Slotted(u)
        PROVE  \/ Has(r, mTree[u].parent, mTree[u].name, r.mTree[u])
               \/ Announced(u)'
    <3>1. f.parentUuid # d
      BY <1>5, <2>2 DEF MirrorIInv, ServerKnown, TreeConsistent, ParentLinks, Lives
    <3>2. u \in DOMAIN r.mTree
      BY <1>3, <1>5, <2>2 DEF Bears, Known, Lives
    <3>3. Has(s, f.parentUuid, f.name, r.mTree[u])
      BY <1>2, <1>3, <2>2, <2>4, <3>2 DEF Slotted
    <3>4. PICK e : e = Entry(f.name, d, f.parentUuid)
      OBVIOUS
    <3>5. CASE Bears(s, e)
      <4>1. e \in NamedNode /\ e.uuid = d /\ Rival(e, u)
        BY <2>2, <3>4 DEF Entry, NamedNode, Rival
      <4>2. ClaimTrue(e)
        BY <1>2, <3>5, <4>1 DEF ChildIInv, TrueNodes
      <4> QED BY <1>5, <4>1, <4>2 DEF ClaimTrue
    <3>6. CASE ~Bears(s, e)
      BY <1>3, <2>2, <3>1, <3>3, <3>4, <3>6 DEF Unslotted
    <3> QED BY <3>5, <3>6
  <2> QED BY <2>3, <2>4, <1>5
<1>6. InPlace'
  BY <1>1, <1>5 DEF InPlace, Lives, Identity, Slotted
<1> QED BY <1>4, <1>6

LEMMA ReadNotificationClaims ==
    ASSUME MirrorIInv, ForgetIInv, ChildIInv, ReadNotification
    PROVE  ChildIInv'
<1>1. PICK k : k = Arrived(Me)
  OBVIOUS
<1>2. /\ Takes(Me) /\ ~Matches(Me, k)
      /\ \/ \E e \in k.message.nodeToAddList : mirror' = Added(mirror, e)
         \/ \E u \in k.message.nodeToDelete : mirror' = Removed(mirror, u)
      /\ UNCHANGED vars /\ UNCHANGED <<threadVars, toServer>>
      /\ displaced' = displaced /\ TakesOne
  BY <1>1 DEF ReadNotification, Takes, TakesOne
<1>3. /\ Taken(Me, k) /\ k.transactionId = Notify /\ \A w \in Thread : Stays(w)
  BY <1>1, <1>2, MeConnected, Hearing DEF MirrorIInv
<1>4. Told(Me) = {k} \cup Told(Me)' /\ Asked(Me)' = Asked(Me)
  BY <1>3, MeConnected DEF Taken
<1>5. Announcement(k.message)
  BY <1>3, <1>4 DEF MirrorIInv, TrueMessage
<1>6. /\ ServerMoves /\ ClaimsLast /\ mTree' = mTree
      /\ \A d, u : Leaving(d) /\ Late(d, u) => Announced(u)'
  BY <1>2, StandingStill, ClaimsTaken DEF MirrorIInv, vars, treeVars
<1>7. \A u : Announced(u) => Announced(u)' \/ Announces(k, u)
  BY <1>4 DEF Announced
<1>8. \A u : Mentions(k, u) /\ u \notin DOMAIN mTree => Leaving(u)
  <2>1. toClient \in [Client -> Seq(Message)]
    BY DEF MirrorIInv, Threaded, ThreadsTypeOK
  <2>2. PICK s \in Seq(Message) : s = toClient[Me]
    BY <2>1, MeConnected
  <2>3. s # <<>> /\ k = Head(s)
    BY <1>1, <1>2, <2>2 DEF Takes, Arrived
  <2>4. \A u : Mentions(Head(s), u) /\ u \notin DOMAIN mTree =>
            \E q \in Range(Tail(s)) : Deletes(q, u)
    BY <2>2, <2>3, OrderedTail DEF ForgetIInv
  <2>5. Range(Tail(s)) \subseteq Told(Me)
    BY <2>2, <2>3, TakenPackets DEF Told
  <2> QED BY <2>3, <2>4, <2>5 DEF Leaving
<1>9. TrueNodes' /\ InPlace'
  <2>1. ASSUME NEW e \in k.message.nodeToAddList, mirror' = Added(mirror, e)
        PROVE  TrueNodes' /\ InPlace'
    <3>1. k.message.nodeToAddList = {e} /\ k.message.type = "TreeUpdateNotification"
      BY <1>5, <2>1 DEF Announcement
    <3>2. ClaimTrue(e)
      BY <1>4, <3>1 DEF ChildIInv, ListClaims, EntriesIn
    <3>3. \A u : Announced(u) => Announced(u)' \/ u = e.uuid
      BY <1>7, <3>1 DEF Announces
    <3>4. ASSUME NEW u, Lives(u), ~Lives(e.uuid), Rival(e, u) PROVE Announced(u)'
      <4>1. e.uuid \notin DOMAIN mTree
        BY <3>2, <3>4 DEF ClaimTrue, Lives
      <4>2. Leaving(e.uuid)
        BY <1>3, <1>8, <3>1, <4>1 DEF Mentions
      <4>3. Late(e.uuid, u)
        BY <3>2, <3>4, <4>1, <4>2 DEF ClaimTrue
      <4> QED BY <1>6, <4>2, <4>3
    <3> QED BY <1>2, <1>6, <2>1, <3>2, <3>3, <3>4, AddedClaims
  <2>2. ASSUME NEW d \in k.message.nodeToDelete, mirror' = Removed(mirror, d)
        PROVE  TrueNodes' /\ InPlace'
    <3>1. /\ k.message.nodeToAddList = {} /\ d \in Uuid /\ d \notin DOMAIN mTree
      BY <1>5, <2>2 DEF Announcement
    <3>2. Leaving(d)
      BY <1>3, <1>4, <2>2 DEF Leaving, Deletes
    <3>3. \A u : Announced(u) => Announced(u)'
      BY <1>7, <3>1 DEF Announces
    <3> QED BY <1>2, <1>6, <2>2, <3>1, <3>2, <3>3, RemovedClaims
  <2> QED BY <1>2, <2>1, <2>2
<1>10. ASSUME NEW x \in Thread PROVE Claims(x)'
  <2>1. GoesOn(x)
    BY <1>3 DEF GoesOn, Stays
  <2>2. PICK t : t = op[x]
    OBVIOUS
  <2> QED BY <1>4, <1>6, <2>1, <2>2, ClaimsGoOn
<1>11. \A q \in Told(Me)' : ListClaims(q.message)'
  BY <1>4, <1>6 DEF ChildIInv, ListClaims, ClaimsLast
<1> QED BY <1>9, <1>10, <1>11 DEF ChildIInv

-----------------------------------------------------------------------------
(* The steps of the server, again.                                         *)

\* What it tells a thread fits what that one has asked for.
TellsFitly ==
    \A w \in Thread : Waits(w) => \A k \in Range(out'[Me]) :
        k.transactionId = op[w].id => Fits(op[w], k.message)'

LEMMA ServerClaims ==
    ASSUME MirrorIInv, ChildIInv, NEW c \in Conn, NEW t, Tells(c, t), TellsFitly,
           Delivers, Delivered, UNCHANGED <<threadVars, mirror, history>>,
           \A k \in Asked(Me)' : k \in Asked(Me)
    PROVE  ChildIInv'
<1>1. ServerMoves
  BY HandlersMove DEF Tells, MirrorIInv, ServerKnown
<1>2. ClaimsLast /\ \A k \in Range(out'[Me]) : ListClaims(k.message)'
  BY ClaimsServed
<1>3. Told(Me)' = Told(Me) \cup Range(out'[Me]) /\ \A w \in Thread : Stays(w)
  BY MeConnected DEF Delivered
<1>4. op' = op /\ mirror' = mirror /\ displaced' = displaced
  BY DEF threadVars, history
<1>5. ASSUME NEW w \in Thread PROVE Claims(w)'
  <2>1. GoesOn(w)
    BY <1>3 DEF GoesOn, Stays
  <2>2. PICK x : x = op[w]
    OBVIOUS
  <2>3. ASSUME NEW k \in Told(Me)', k.transactionId = x.id
        PROVE  k \in Told(Me) \/ (Waits(w) => Fits(x, k.message)')
    BY <1>3, <1>4, <2>2, <2>3 DEF TellsFitly
  <2> QED BY <1>1, <1>2, <2>1, <2>2, <2>3, ClaimsGoOn
<1>6. TrueNodes'
  BY <1>2, <1>4 DEF ChildIInv, TrueNodes, ClaimsLast
<1>7. InPlace'
  <2>1. ASSUME NEW u, Lives(u)', u \notin displaced, Bears(mirror, Identity(u)')
        PROVE  Slotted(u)' \/ Announced(u)'
    <3>1. u \in DOMAIN mirror.mTree
      BY <2>1 DEF Bears, Known, Identity, Entry
    <3>2. mirror.mTree[u] \in DOMAIN mirror.nodes /\ mirror.mTree[u][1] = u
      BY <3>1 DEF MirrorIInv, NodesKnown, NodesTyped, IsMap
    <3>3. u < mUuidCtr /\ u \in Nat
      BY <3>2 DEF MirrorIInv, NodesKnown, Earlier, NodesTyped, Object, Uuid
    <3>4. Lives(u) /\ SameIdentity(u)
      BY <1>1, <2>1, <3>3 DEF ServerMoves, Lives
    <3>5. mTree'[u].name = mTree[u].name /\ mTree'[u].parent = mTree[u].parent
      BY <3>4 DEF SameIdentity
    <3>6. Bears(mirror, Identity(u))
      BY <2>1, <3>5 DEF Identity
    <3>7. Slotted(u) \/ Announced(u)
      BY <2>1, <3>4, <3>6 DEF ChildIInv, InPlace
    <3> QED BY <1>3, <1>4, <3>5, <3>7 DEF Slotted, Announced
  <2> QED BY <1>4, <2>1 DEF InPlace
<1>8. \A k \in Told(Me)' : ListClaims(k.message)'
  BY <1>2, <1>3 DEF ChildIInv, ListClaims, ClaimsLast
<1> QED BY <1>5, <1>6, <1>7, <1>8 DEF ChildIInv

LEMMA ServeClaims ==
    ASSUME MirrorIInv, ChildIInv, Serve
    PROVE  ChildIInv'
<1>1. PICK k : k = Requested(Me)
  OBVIOUS
<1>2. PICK t : t = k.transactionId
  OBVIOUS
<1>3. PICK m : m = k.message
  OBVIOUS
<1>4. TakesRequest(Me) /\ Delivers /\ UNCHANGED <<threadVars, mirror, history>>
  BY DEF Serve
<1>5. Me \in Conn /\ Me \in Client
  BY MeConnected
<1>6. /\ t \in ReqId /\ k \in Asked(Me) /\ Tells(Me, t)
      /\ \A q \in Range(out'[Me]) : q.transactionId = t => AnswersWell(m, q.message)'
  BY <1>1, <1>2, <1>3, ServeTells DEF AnswersTruly
<1>7. \A x \in Client : Says(x, IF x = Me THEN {t} ELSE {})
  BY <1>6, MirrorAssumption DEF Tells, ForCaller
<1>8. Delivered /\ Asked(Me) = {k} \cup Asked(Me)'
  BY <1>1, <1>2, <1>4, <1>5, <1>7, Serving DEF MirrorIInv
<1>9. \A q \in Range(out'[Me]) : q.transactionId = t \/ q.transactionId = Notify
  BY <1>5, <1>7 DEF Says
<1>10. ServerMoves /\ ClaimsLast
  BY <1>4, <1>5, <1>6, HandlersMove, ClaimsServed DEF Tells, MirrorIInv, ServerKnown
<1>11. TellsFitly
  <2>1. ASSUME NEW w \in Thread, Waits(w), NEW q \in Range(out'[Me]),
               q.transactionId = op[w].id
        PROVE  Fits(op[w], q.message)'
    <3>1. PICK x : x = op[w]
      OBVIOUS
    <3>2. x.id = t
      <4>1. x.id \in ReqId
        BY <2>1, <3>1 DEF Waits, MirrorIInv, Threaded
      <4> QED BY <1>9, <2>1, <3>1, <4>1, IdTypes
    <3>3. PICK b : b = q.message
      OBVIOUS
    <3>4. AnswersWell(m, b)'
      BY <1>6, <2>1, <3>1, <3>2, <3>3
    <3>5. ASSUME x.does \in {"create", "destroy"} PROVE m = AsksFor(x)
      BY <1>2, <1>3, <1>6, <2>1, <3>1, <3>2, <3>5 DEF ChildIInv, Claims
    <3>6. ASSUME x.does = "create" PROVE AcceptFits(b, x.at[1], x.name)'
      <4>1. /\ m.type = "CreateRequest" /\ m.parentUuid = x.at[1] /\ m.name = x.name
        BY <3>5, <3>6 DEF AsksFor, CreateRequest
      <4>2. AcceptsWell(b, x.at[1], x.name)'
        BY <3>4, <4>1 DEF AnswersWell
      <4> QED BY <1>10, <4>2, AnswersFit
    <3>7. ASSUME x.does = "destroy" PROVE DeletesWell(b, x.at[1])'
      <4>1. m.type = "DeleteRequest" /\ m.uuid = x.at[1]
        BY <3>5, <3>7 DEF AsksFor
      <4> QED BY <3>4, <4>1 DEF AnswersWell
    <3>8. Fits(x, b)'
      BY <3>6, <3>7 DEF Fits
    <3>9. op'[w] = x
      BY <1>4, <3>1 DEF threadVars
    <3> QED BY <3>3, <3>8, <3>9
  <2> QED BY <1>4, <2>1 DEF TellsFitly, threadVars
<1> QED BY <1>4, <1>5, <1>6, <1>8, <1>11, ServerClaims

LEMMA ServeOtherClaims ==
    ASSUME MirrorIInv, ChildIInv, ServeOther
    PROVE  ChildIInv'
<1>1. PICK c \in Conn \ {Me}, t \in ReqId, u \in Uuid :
        (\E n \in Name : Create(c, t, u, n)) \/ Delete(c, t, u)
  BY DEF ServeOther
<1>2. Delivers /\ UNCHANGED <<threadVars, toServer>> /\ UNCHANGED <<threadVars, mirror, history>>
  BY DEF ServeOther
<1>3. Tells(c, t)
  BY <1>1, CreateTells, DeleteTells DEF MirrorIInv
<1>4. \A x \in Client : Says(x, {})
  <2>1. ForCaller(c, Me, t) = {}
    BY <1>1 DEF ForCaller
  <2> QED BY <1>3, <2>1, MirrorAssumption DEF Tells
<1>5. Delivered /\ Asked(Me)' = Asked(Me)
  BY <1>2, <1>4, MeConnected, Announcing DEF MirrorIInv
<1>6. \A q \in Range(out'[Me]) : q.transactionId = Notify
  BY <1>4, MeConnected DEF Says
<1>7. TellsFitly
  <2>1. \A w \in Thread : Waits(w) => op[w].id # Notify
    BY IdTypes DEF Waits, MirrorIInv, Threaded
  <2> QED BY <1>6, <2>1 DEF TellsFitly
<1> QED BY <1>2, <1>3, <1>5, <1>7, ServerClaims

-----------------------------------------------------------------------------
LEMMA ChildIInvNext ==
    MirrorIInv /\ MirrorIInv' /\ ForgetIInv /\ ChildIInv /\ [MirrorNext]_mirrorVars
        => ChildIInv'
<1>1. ASSUME MirrorIInv, MirrorIInv', ForgetIInv, ChildIInv, MirrorNext PROVE ChildIInv'
  BY <1>1, RequestsClaim, CreateAcceptedClaims, QuietReturnsClaim, OrCreateClaims,
     AddNextClaims, GetEndClaims, DestroyedClaims, ExpireClaims, ReadAnswerClaims,
     ReadNotificationClaims, ServeClaims, ServeOtherClaims DEF MirrorNext
<1>2. ASSUME MirrorIInv, ChildIInv, UNCHANGED mirrorVars PROVE ChildIInv'
  <2>1. /\ UNCHANGED vars /\ op' = op /\ mTransactions' = mTransactions
        /\ toServer' = toServer /\ toClient' = toClient
        /\ mirror' = mirror /\ displaced' = displaced
    BY <1>2 DEF mirrorVars, threadVars, wires, history
  <2>2. ServerMoves
    BY <1>2, <2>1, StandingStill DEF MirrorIInv
  <2>3. ClaimsLast /\ Told(Me)' = Told(Me) /\ Asked(Me)' = Asked(Me)
    BY <2>1, ClaimsUnmoved DEF ClaimsLast, Told, Asked
  <2>4. ASSUME NEW x \in Thread PROVE Claims(x)'
    <3>1. GoesOn(x)
      BY <2>1 DEF GoesOn, AnswerTo
    <3>2. PICK t : t = op[x]
      OBVIOUS
    <3> QED BY <1>2, <2>2, <2>3, <3>1, <3>2, ClaimsGoOn
  <2>5. TrueNodes' /\ InPlace'
    BY <1>2, <2>1, PlacesUnmoved
  <2>6. \A k \in Told(Me)' : ListClaims(k.message)'
    BY <1>2, <2>3 DEF ChildIInv, ListClaims, ClaimsLast
  <2> QED BY <2>4, <2>5, <2>6 DEF ChildIInv
<1> QED BY <1>1, <1>2

LEMMA ChildIInvInit == MirrorInit => ChildIInv
<1> SUFFICES ASSUME MirrorInit PROVE ChildIInv
  OBVIOUS
<1>1. toClient[Me] = <<>> /\ \A w \in Thread : op[w] = Idle
  BY MeConnected DEF MirrorInit, ThreadsInit
<1>2. Told(Me) = {}
  BY <1>1 DEF Told, Range
<1>3. \A w \in Thread : Claims(w)
  BY <1>1, IdleTask DEF Claims, Answered, Waits
<1>4. /\ DOMAIN mirror.mTree = {Root} /\ mirror.mTree[Root] = RootNode
      /\ mirror.nodes[RootNode].parent = None
  BY EmptyMapType DEF MirrorInit, Put
<1>5. \A e : ~Bears(mirror, e)
  BY <1>4 DEF Bears, Known
<1> QED BY <1>2, <1>3, <1>5 DEF ChildIInv, TrueNodes, InPlace

\* When all has come that was sent, the client finds each node that it must know among
\* the children of that node's parent: of two nodes that have had one name there, the
\* one that lives was announced after the other had gone, so that neither a late answer
\* nor a late listing, nor the deletion of the other, has cost it its place, but where
\* `displaced' says so.
THEOREM AlwaysChildrenFollow == MirrorSpec => []ChildrenFollow
<1>1. ASSUME MirrorIInv, ChildIInv PROVE ChildrenFollow
  <2>1. SUFFICES ASSUME Quiet, NEW u \in Due, u \notin displaced PROVE Slotted(u)
    BY DEF ChildrenFollow, Slotted, Has, Local
  <2>2. RightNow(u) /\ ~Announced(u)
    BY <1>1, <2>1, QuietKnows
  <2>3. PICK p, o : p = mTree[u].parent /\ o = mirror.mTree[u]
    OBVIOUS
  <2>4. /\ Known(mirror, u) /\ Known(mirror, p)
        /\ mirror.nodes[o].name = mTree[u].name
        /\ mirror.nodes[o].parent = mirror.mTree[p]
    BY <2>2, <2>3 DEF RightNow, Right
  <2>5. mirror.mTree[p] \in Object /\ mirror.mTree[p][1] = p
    BY <1>1, <2>4 DEF Known, MirrorIInv, NodesKnown, NodesTyped, IsMap
  <2>6. Bears(mirror, Identity(u))
    BY <2>3, <2>4, <2>5, NodeAssumption DEF Bears, Identity, Entry
  <2>7. Lives(u)
    BY <2>1 DEF Due, Lives
  <2> QED BY <1>1, <2>1, <2>2, <2>6, <2>7 DEF ChildIInv, InPlace
<1>2. MirrorSpec => []ChildIInv
  <2>1. MirrorSpec => [](MirrorIInv /\ ForgetIInv)
    BY MirrorInvariance, ForgetIInvInit, ForgetIInvNext, PTL DEF MirrorSpec
  <2> QED BY <2>1, ChildIInvInit, ChildIInvNext, PTL DEF MirrorSpec
<1> QED BY <1>1, <1>2, MirrorInvariance, PTL
=============================================================================
