---------------------------- MODULE ClientMirror ----------------------------
(***************************************************************************)
(* The tree as one client holds it: create, get, createOrGet, loadChildren *)
(* and destroy of client/src/Client.cpp and Property.hpp, by any threads   *)
(* of the client `Me', while its reader applies what the server announces  *)
(* and other clients create and delete nodes.  Each critical section of    *)
(* mTreeMutex is one action.  All have signed in, Me after `Old' nodes     *)
(* were made.                                                              *)
(***************************************************************************)
EXTENDS ClientThreads

CONSTANTS
    Me,     \* the client
    Old     \* 0, or 1: the uuid of the node that is older than its sign-in

ASSUME MirrorAssumption ==
    /\ Client = {Me}
    /\ Old \in {0, 1}
    /\ Old <= MaxUuid

VARIABLES
    mirror,     \* the client's nodes, and the table mTree of them
    loaded,     \* has the program listed the whole tree?
    removed,    \* the uuids whose deletion the reader has handled
    revived,    \* those that an accept or a listing brought back after that
    displaced   \* those whose entry at their parent another node has cost them

history == <<loaded, removed, revived, displaced>>
mirrorVars == <<vars, threadVars, wires, mirror, history>>

\* struct Node of the client: objects, of which several may have had one uuid.
Object == Uuid \X (Nat \ {0})
LocalNode == [name : Name \cup {None}, parent : Object \cup {None},
              children : Map(Name, Object)]
RootNode == <<Root, 1>>

\* A pointer to nothing is to no object.
ASSUME NodeAssumption == None \notin Object

\* What a thread does: `at' is the node that it was called for, todo is what it
\* still has to add of a listing, and sought the uuid that get will look up.
Task(does, at, name) ==
    [does |-> does, id |-> None, at |-> at, name |-> name, recursive |-> FALSE,
     orCreate |-> FALSE, todo |-> {}, sought |-> None]

MirrorTypeOK ==
    /\ TypeOK
    /\ DOMAIN mirror = {"nodes", "mTree"}
    /\ DOMAIN mirror.nodes \subseteq Object
    /\ \A o \in DOMAIN mirror.nodes :
        /\ DOMAIN mirror.nodes[o] = {"name", "parent", "children"}
        /\ mirror.nodes[o].name \in Name \cup {None}
        /\ mirror.nodes[o].parent \in DOMAIN mirror.nodes \cup {None}
        /\ IsMap(mirror.nodes[o].children, Name, DOMAIN mirror.nodes)
    /\ IsMap(mirror.mTree, Uuid, DOMAIN mirror.nodes)
    /\ \A w \in Thread :
        \/ op[w] = Idle
        \/ /\ op[w].does \in {"create", "get", "creating", "adding", "lost",
                             "destroy"}
           /\ op[w].at \in DOMAIN mirror.nodes
           /\ op[w].todo \subseteq NamedNode
    /\ ThreadsTypeOK([type : {"CreateRequest"}, parentUuid : Uuid, name : Name]
            \cup [type : {"TreeInfoRequest"}, parentUuid : Uuid,
                  name : Name \cup {Dot}, recursive : BOOLEAN]
            \cup [type : {"DeleteRequest"}, uuid : Uuid])
    /\ loaded \in BOOLEAN
    /\ removed \subseteq Uuid
    /\ revived \subseteq removed
    /\ displaced \subseteq Uuid

\* The old node is a child of the root, which is all that Me knows.
MirrorInit ==
    /\ SignedInInit
    /\ ThreadsInit
    /\ mUuidCtr = Old + 1
    /\ \E n \in Name :
        mTree = IF Old = 0 THEN Put(EmptyMap, Root, NewNode(None, None, None))
                ELSE Put(Put(EmptyMap, Root, [NewNode(None, None, None) EXCEPT
                                                !.children = Put(EmptyMap, n, Old)]),
                         Old, NewNode(n, 0, Root))
    /\ mirror = [nodes |-> Put(EmptyMap, RootNode,
                    [name |-> None, parent |-> None, children |-> EmptyMap]),
                 mTree |-> Put(EmptyMap, Root, RootNode)]
    /\ loaded = FALSE
    /\ removed = {}
    /\ revived = {}
    /\ displaced = {}

-----------------------------------------------------------------------------
(* Faulty variants of definitions below, which nothing uses.               *)

\* addNodes leaves a ghost what it is, or keeps the child that has the name.
WithEntry_ghost(s, e) ==
    IF e.uuid \in DOMAIN s.mTree THEN s
    ELSE LET o == <<e.uuid, 1 + Cardinality({x \in DOMAIN s.nodes : x[1] = e.uuid})>>
         IN  [nodes |-> Put(s.nodes, o, [name |-> e.name, children |-> EmptyMap,
                                         parent |-> s.mTree[e.parentUuid]]),
              mTree |-> Put(s.mTree, e.uuid, o)]
Listed_emplaced(s, e) ==
    [s EXCEPT !.nodes[s.mTree[e.parentUuid]].children =
                Emplace(@, e.name, s.mTree[e.uuid])]

\* removeNodes forgets nothing, or frees a node that others may hold.
Removed_known(s, u) == s
Removed_freed(s, u) ==
    IF u \in DOMAIN s.mTree
    THEN [nodes |-> Erase(s.nodes, s.mTree[u]), mTree |-> Erase(s.mTree, u)]
    ELSE s

\* create does not look for a node that has been announced.
Accepted_unchecked(s, u, o, n) ==
    LET x == <<u, 1 + Cardinality({y \in DOMAIN s.nodes : y[1] = u})>>
    IN  [nodes |-> Put([s.nodes EXCEPT ![o].children = Emplace(@, n, x)], x,
                       [name |-> n, parent |-> o, children |-> EmptyMap]),
         mTree |-> Emplace(s.mTree, u, x)]

-----------------------------------------------------------------------------
(* The client's nodes, s being a value of `mirror'.                        *)

Known(s, u) == u \in DOMAIN s.mTree
Children(o) == mirror.nodes[o].children

\* make_shared and mTree.emplace, for a uuid that is not there.
Made(s, u, name, parent) ==
    LET o == <<u, 1 + Cardinality({x \in DOMAIN s.nodes : x[1] = u})>>
    IN  [nodes |-> Put(s.nodes, o, [name |-> name, parent |-> parent,
                                    children |-> EmptyMap]),
         mTree |-> Put(s.mTree, u, o)]

\* A parent that is not known yet comes in as a ghost.
WithParent(s, e) ==
    IF Known(s, e.parentUuid) THEN s ELSE Made(s, e.parentUuid, None, None)

\* A node that is known gets the name and the parent of its entry.
WithEntry(s, e) ==
    LET p == s.mTree[e.parentUuid] IN
    IF Known(s, e.uuid)
    THEN [s EXCEPT !.nodes[s.mTree[e.uuid]].name = e.name,
                   !.nodes[s.mTree[e.uuid]].parent = p]
    ELSE Made(s, e.uuid, e.name, p)

\* parentNode->children[name] = node
Listed(s, e) ==
    [s EXCEPT !.nodes[s.mTree[e.parentUuid]].children =
                Put(@, e.name, s.mTree[e.uuid])]

\* addNodes, for one entry of its list.
Added(s, e) == Listed(WithEntry(WithParent(s, e), e), e)

\* The parent of a node loses the child of that node's name.
Unlist(nodes, o) ==
    IF nodes[o].parent = None THEN nodes
    ELSE [nodes EXCEPT ![nodes[o].parent].children = Erase(@, nodes[o].name)]

\* What the parent of a node has under that node's name.
ListedAs(o) ==
    {x \in DOMAIN mirror.nodes :
        LET n == mirror.nodes[o].name
            p == mirror.nodes[o].parent
        IN  p # None /\ n \in DOMAIN Children(p) /\ Children(p)[n] = x}

\* What has the name of the entry e at its parent.
Overtaken(e) ==
    {x \in DOMAIN mirror.nodes :
        /\ Known(mirror, e.parentUuid)
        /\ LET kids == Children(mirror.mTree[e.parentUuid])
           IN  e.name \in DOMAIN kids /\ kids[e.name] = x}

\* removeNodes, for one uuid of its list.
Removed(s, u) ==
    IF Known(s, u)
    THEN [nodes |-> Unlist(s.nodes, s.mTree[u]), mTree |-> Erase(s.mTree, u)]
    ELSE s

-----------------------------------------------------------------------------
(* The threads of a program, which may hold any node that was ever there.  *)

Held == DOMAIN mirror.nodes

CreateRequest(o, n) == [type |-> "CreateRequest", parentUuid |-> o[1], name |-> n]

\* create up to its wait, for a name that is not among the children.
Create_(w, o, n) ==
    /\ op[w] = Idle
    /\ n \notin DOMAIN Children(o)
    /\ Sends(w, Task("create", o, n), CreateRequest(o, n))
    /\ UNCHANGED <<vars, toClient, mirror, history>>

\* get up to its wait, for a name that is not among the children; createOrGet
\* begins with it.
Get_(w, o, n, orCreate) ==
    /\ op[w] = Idle
    /\ n \notin DOMAIN Children(o)
    /\ Sends(w, [Task("get", o, n) EXCEPT !.orCreate = orCreate],
             [type |-> "TreeInfoRequest", parentUuid |-> o[1], name |-> n,
              recursive |-> FALSE])
    /\ UNCHANGED <<vars, toClient, mirror, history>>

\* loadChildren up to its wait: get of ".".
LoadChildren(w, o, recursive) ==
    /\ op[w] = Idle
    /\ Sends(w, [Task("get", o, Dot) EXCEPT !.recursive = recursive],
             [type |-> "TreeInfoRequest", parentUuid |-> o[1], name |-> Dot,
              recursive |-> recursive])
    /\ UNCHANGED <<vars, toClient, mirror, history>>

\* destroy up to its wait, of the root as of any other node.
Destroy(w, o) ==
    /\ op[w] = Idle
    /\ Sends(w, Task("destroy", o, None), [type |-> "DeleteRequest", uuid |-> o[1]])
    /\ UNCHANGED <<vars, toClient, mirror, history>>

Got(w, does, type) ==
    op[w].does = does /\ Answered(w) /\ AnswerTo(w).type = type

\* create with its accept: the node may have been announced already.
Accepted(s, u, o, n) ==
    IF Known(s, u) THEN s
    ELSE LET t == Made(s, u, n, o)
         IN  [t EXCEPT !.nodes[o].children = Emplace(@, n, t.mTree[u])]

CreateAccepted(w) ==
    /\ Got(w, "create", "CreateAccept")
    /\ mirror' = Accepted(mirror, AnswerTo(w).uuid, op[w].at, op[w].name)
    /\ revived' = revived \cup ({AnswerTo(w).uuid} \cap removed)
    /\ Returns(w, Idle)
    /\ UNCHANGED <<loaded, removed, displaced>>

\* create with its reject returns the child of that name, if there is one.
CreateRejected(w) ==
    /\ Got(w, "create", "CreateReject")
    /\ Returns(w, Idle)
    /\ UNCHANGED <<mirror, history>>

\* get with a listing goes on to add it; its own node comes first.
GetAnswered(w) ==
    /\ Got(w, "get", "TreeInfoResponse")
    /\ LET list == AnswerTo(w).nodeToAddList IN
       Returns(w, [op[w] EXCEPT
            !.does = "adding", !.id = None, !.todo = list,
            !.sought = IF op[w].name = Dot THEN None
                       ELSE (CHOOSE e \in list : e.parentUuid = op[w].at[1]
                                               /\ e.name = op[w].name).uuid])
    /\ UNCHANGED <<mirror, history>>

\* get finds nothing; createOrGet goes on to create, and looks at the children
\* once more.
GetNothing(w) ==
    /\ Got(w, "get", "TreeInfoErrorResponse")
    /\ Returns(w, IF op[w].orCreate /\ op[w].name \notin DOMAIN Children(op[w].at)
                  THEN [op[w] EXCEPT !.does = "creating", !.id = None]
                  ELSE Idle)
    /\ UNCHANGED <<mirror, history>>

\* createOrGet sends its CreateRequest.
OrCreate(w) ==
    /\ op[w].does = "creating"
    /\ Sends(w, [op[w] EXCEPT !.does = "create"], CreateRequest(op[w].at, op[w].name))
    /\ UNCHANGED <<vars, toClient, mirror, history>>

\* addNodes of a listing, parents first, an entry in each critical section.
AddNext(w) ==
    /\ op[w].does = "adding"
    /\ \E e \in op[w].todo :
        /\ \A f \in op[w].todo : f.uuid # e.parentUuid
        /\ mirror' = Added(mirror, e)
        /\ op' = [op EXCEPT ![w].todo = @ \ {e}]
        /\ revived' = revived \cup ({e.uuid, e.parentUuid} \cap removed)
        /\ displaced' = IF e.uuid \in removed
                        THEN displaced \cup {x[1] : x \in Overtaken(e)}
                        ELSE displaced \ {e.uuid}
    /\ UNCHANGED <<vars, mTransactions, mTransactioIdCtr, wires, loaded, removed>>

\* get looks for its node in mTree, and follows the iterator without a look.
GetEnd(w) ==
    /\ op[w].does = "adding"
    /\ op[w].todo = {}
    /\ op' = [op EXCEPT ![w] =
                IF op[w].sought = None \/ Known(mirror, op[w].sought) THEN Idle
                ELSE [@ EXCEPT !.does = "lost"]]
    /\ loaded' = (loaded \/ (op[w].at = RootNode /\ op[w].recursive))
    /\ UNCHANGED <<vars, mTransactions, mTransactioIdCtr, wires, mirror, removed,
                   revived, displaced>>

\* destroy with its answer: the parent loses the child of that name, whichever
\* node that is by now.
Destroyed(w) ==
    /\ Got(w, "destroy", "DeleteResponse")
    /\ IF AnswerTo(w).cause = "OK"
       THEN /\ mirror' = [mirror EXCEPT !.nodes = Unlist(@, op[w].at)]
            /\ displaced' = displaced \cup {x[1] : x \in ListedAs(op[w].at) \ {op[w].at}}
       ELSE UNCHANGED <<mirror, displaced>>
    /\ Returns(w, Idle)
    /\ UNCHANGED <<loaded, removed, revived>>

Expire(w) == Throws(w) /\ UNCHANGED <<mirror, history>>

-----------------------------------------------------------------------------
(* The reader and the server.                                              *)

ReadAnswer == ReadsAnswer(Me) /\ UNCHANGED <<mirror, history>>

\* handle of TreeUpdateNotification: addNodes, then removeNodes, of at most one
\* entry.
ReadNotification ==
    /\ Takes(Me)
    /\ ~Matches(Me, Arrived(Me))
    /\ LET m == Arrived(Me).message IN
        /\ \/ \E e \in m.nodeToAddList : mirror' = Added(mirror, e)
           \/ \E u \in m.nodeToDelete : mirror' = Removed(mirror, u)
        /\ removed' = removed \cup m.nodeToDelete
    /\ UNCHANGED <<vars, threadVars, toServer, loaded, revived, displaced>>

\* The server handles the next request of Me, or one of another client that has an
\* effect.  A server that has crashed over the root answers no more: what has been
\* sent arrives, and what the client makes of the end of the connection is left out.
Serve ==
    /\ TakesRequest(Me)
    /\ LET t == Requested(Me).transactionId
           m == Requested(Me).message
       IN  CASE m.type = "CreateRequest" -> Create(Me, t, m.parentUuid, m.name)
             [] m.type = "TreeInfoRequest" ->
                    TreeInfo(Me, t, m.parentUuid, m.name, m.recursive)
             [] m.type = "DeleteRequest" -> Delete(Me, t, m.uuid)
    /\ Delivers
    /\ UNCHANGED <<threadVars, mirror, history>>

ServeOther ==
    /\ \E c \in Conn \ {Me}, t \in ReqId, u \in Uuid :
        \/ \E n \in Name : Create(c, t, u, n)
        \/ Delete(c, t, u)
    /\ <<status, treeVars>>' # <<status, treeVars>>
    /\ Delivers
    /\ UNCHANGED <<threadVars, toServer, mirror, history>>

MirrorNext ==
    \/ \E w \in Thread :
        \/ \E o \in Held, n \in Name :
            Create_(w, o, n) \/ \E b \in BOOLEAN : Get_(w, o, n, b)
        \/ \E o \in Held : Destroy(w, o) \/ \E r \in BOOLEAN : LoadChildren(w, o, r)
        \/ CreateAccepted(w) \/ CreateRejected(w) \/ GetAnswered(w) \/ GetNothing(w)
        \/ OrCreate(w) \/ AddNext(w) \/ GetEnd(w) \/ Destroyed(w) \/ Expire(w)
    \/ ReadAnswer \/ ReadNotification \/ Serve \/ ServeOther

MirrorSpec == MirrorInit /\ [][MirrorNext]_mirrorVars

-----------------------------------------------------------------------------
\* Nothing is under way, and the program is not in a call.
Quiet == Settled(Me)

\* What the client must know by now.
Due == {u \in DOMAIN mTree \ {Root} : u > Old \/ loaded}

\* The object of the client for a node that it knows.
Local(u) == mirror.nodes[mirror.mTree[u]]

\* Whichever came first, the accept of a create, the announcement or a listing,
\* the client has one object for each node that lives: a value or a handler set
\* through one Property is seen through every other one of that node.
OneObjectPerNode ==
    \A o, x \in DOMAIN mirror.nodes : o[1] = x[1] /\ o[1] \in DOMAIN mTree => o = x

\* When all has come that was sent, the client knows each node that was announced
\* to it or listed, under its name and its parent, ghosts included.
FollowsTree ==
    Quiet => \A u \in Due :
        /\ Known(mirror, u)
        /\ Local(u).name = mTree[u].name
        /\ Known(mirror, mTree[u].parent)
        /\ Local(u).parent = mirror.mTree[mTree[u].parent]

\* It finds that node among the children of its parent, unless a destroy took
\* off the node in place of an older one of that name, or a late listing put
\* back an older one, which had been deleted.
ChildrenFollow ==
    Quiet => \A u \in Due \ displaced :
        /\ mTree[u].name \in DOMAIN Local(mTree[u].parent).children
        /\ Local(mTree[u].parent).children[mTree[u].name] = mirror.mTree[u]

\* What it knows besides is what a late accept or listing brought back after the
\* reader had taken it away.
ForgetsRemoved == Quiet => DOMAIN mirror.mTree \subseteq DOMAIN mTree \cup revived

\* createOrGet, when another client has made the node in between, finds that node
\* among the children once it has the reject, unless it is gone again.
CreateOrGetFinds ==
    \A w \in Thread :
        /\ Got(w, "create", "CreateReject")
        /\ op[w].orCreate
        /\ AnswerTo(w).cause = "ALREADY_EXIST"
        => \/ op[w].name \in DOMAIN Children(op[w].at)
           \/ \E x \in DOMAIN mirror.nodes :
                /\ mirror.nodes[x].name = op[w].name
                /\ mirror.nodes[x].parent = op[w].at
                /\ x[1] \notin DOMAIN mTree \/ x[1] \in displaced
=============================================================================
