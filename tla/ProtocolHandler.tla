--------------------------- MODULE ProtocolHandler ---------------------------
(***************************************************************************)
(* The property tree server: server/src/ProtocolHandler.cpp with the       *)
(* connection bookkeeping of Server.cpp.  One thread runs the reactor, so  *)
(* every message handler is atomic: one action per handler, with one       *)
(* disjunct per way through it.                                            *)
(*                                                                         *)
(* A request carries the transaction id its client chose, and every reply  *)
(* repeats it; `out' is what the latest handler wrote to each connection,  *)
(* in the order of its calls of send.                                      *)
(***************************************************************************)
EXTENDS Integers, Sequences, FiniteSets, Maps

CONSTANTS
    Conn,        \* the connections that may be accepted, each used once
    Name,        \* the names a node may be given
    Dot,         \* the name "." of TreeInfoRequest
    Value,       \* the contents a node may have
    Empty,       \* the content of a node nobody has set
    Terminate,   \* the four bytes 9u, which stop the server when set at the root
    Param,       \* the payloads of remote calls and of their results
    MaxUuid,     \* bound: the last uuid handed out
    MaxSession,  \* bound: the number of sign-ins
    TrIdMod,     \* 2^16 in the code: the number of transaction ids
    ReqId,       \* the transaction ids that clients choose
    Ops,         \* the requests that clients send
    None         \* a null pointer

Operation == {"Signin", "Resignin", "Create", "TreeInfo", "SetValue",
              "Terminate", "Get", "Subscribe", "Unsubscribe", "Delete",
              "DeleteRoot", "RpcRequest", "RpcRoot", "RpcReply", "Hearbeat"}

Root == 0
Uuid == 0 .. MaxUuid
SessionId == 0 .. MaxSession - 1
TrId == 0 .. TrIdMod - 1

\* The transaction id 0xFFFF of every notification.
Notify == TrIdMod - 1

Cause == {"OK", "NOT_FOUND", "ALREADY_EXIST", "NOT_PERMITTED", "NOT_EMPTY",
          "NO_HANDLER"}

NamedNode == [name : Name, uuid : Uuid, parentUuid : Uuid]

\* struct Node; the uuid is the node's key in mTree, and the pointers to
\* other nodes are their uuids.
Node == [name : Name \cup {None}, sessionId : SessionId \cup {None},
         parent : Uuid \cup {None}, data : Value,
         children : Map(Name, Uuid), listener : Map(SessionId, Conn)]

RpcAnswer == [type : {"RpcAccept"}, value : Param]
             \cup [type : {"RpcReject"}, cause : {"NOT_FOUND", "NO_HANDLER"}]

\* The messages that the server sends.
Body == [type : {"SigninAccept"}, sessionId : SessionId]
        \cup [type : {"CreateAccept"}, uuid : Uuid]
        \cup [type : {"CreateReject", "GetReject", "TreeInfoErrorResponse",
                      "SubscribeResponse", "UnsubscribeResponse",
                      "DeleteResponse"}, cause : Cause]
        \cup [type : {"TreeInfoResponse"}, nodeToAddList : SUBSET NamedNode]
        \cup [type : {"SetValueAccept", "HearbeatResponse"}]
        \cup [type : {"GetAccept"}, data : Value]
        \cup [type : {"TreeUpdateNotification"},
              nodeToAddList : SUBSET NamedNode, nodeToDelete : SUBSET Uuid]
        \cup [type : {"UpdateNotification"}, uuid : Uuid, data : Value]
        \cup [type : {"RpcRequest"}, uuid : Uuid, param : Param]
        \cup RpcAnswer

Message == [transactionId : TrId, message : Body]

ASSUME BoundsAssumption ==
    /\ MaxUuid \in Nat
    /\ MaxSession \in Nat \ {0}
    /\ TrIdMod \in Nat \ {0, 1}

\* A client never chooses 0xFFFF (Client.cpp, addTransaction).
ASSUME RequestAssumption ==
    /\ ReqId \subseteq TrId \ {Notify}
    /\ Ops \subseteq Operation

ASSUME DataAssumption == Empty \in Value

ASSUME NoneAssumption ==
    None \notin Conn /\ None \notin Uuid /\ None \notin SessionId

-----------------------------------------------------------------------------
VARIABLES
    status,                  \* of the server process
    link,                    \* the life of each connection
    fault,                   \* observed: the node whose request crashed it, or None
    mSessions,               \* session id -> its connection, or None once reset
    mConnectionToSessionId,
    mSessionIdCtr,
    mTree,                   \* uuid -> node
    mUuidCtr,
    mTrIdCtr,                \* modulo TrIdMod, all that is ever used of it
    mTrIdTranslation,        \* forwarded id -> <<caller's session, caller's id>>
    out

netVars == <<status, link, fault>>
sessionVars == <<mSessions, mConnectionToSessionId, mSessionIdCtr>>
treeVars == <<mTree, mUuidCtr>>
rpcVars == <<mTrIdCtr, mTrIdTranslation>>
vars == <<netVars, sessionVars, treeVars, rpcVars, out>>

TypeOK ==
    /\ status \in {"running", "stopping", "terminated", "crashed"}
    /\ link \in [Conn -> {"new", "open", "closed"}]
    /\ fault \in Uuid \cup {None}
    /\ mSessionIdCtr \in 0 .. MaxSession
    /\ mSessions \in [0 .. mSessionIdCtr - 1 -> Conn \cup {None}]
    /\ IsMap(mConnectionToSessionId, Conn, SessionId)
    /\ IsMap(mTree, Uuid, Node)
    /\ mUuidCtr \in 1 .. MaxUuid + 1
    /\ mTrIdCtr \in TrId
    /\ IsMap(mTrIdTranslation, TrId, SessionId \X ReqId)
    /\ out \in [Conn -> Seq(Message)]

-----------------------------------------------------------------------------
(* Faulty variants of definitions below, each what a slip in the code would *)
(* make of it.  Nothing uses them; the properties tell them from the code.  *)

\* The arguments sessionId and parent of Node's constructor, swapped.
NewNode_swapped(n, sid, p) ==
    [name |-> n, sessionId |-> p, parent |-> sid, data |-> Empty,
     children |-> EmptyMap, listener |-> EmptyMap]

\* onDisconnect erases the session, keeps its connection, or its binding.
Abandoned_erased(s) == Erase(mSessions, s)
Abandoned_connected(s) == mSessions
Released_bound(c) == mConnectionToSessionId

\* The notification names the node for its parent.
NodeAdded_swapped(n, u, p) ==
    [type |-> "TreeUpdateNotification",
     nodeToAddList |-> {[name |-> n, uuid |-> p, parentUuid |-> u]},
     nodeToDelete |-> {}]

\* The size of the registry as the next uuid.
FreshUuid_size == Cardinality(DOMAIN mTree)

\* The listing stops below the first level.
Subtree_flat(u) == {u}

\* DeleteRequest does not look at the children.
IsLeaf_any(u) == TRUE

\* DeleteRequest leaves the entry of the parent.
WithoutNode_listed(u) == Erase(mTree, u)

\* SetValueRequest notifies all sessions, or only the listeners it rebinds.
Recipients_sessions(u) == [s \in {x \in DOMAIN mSessions : mSessions[x] # None} |->
                            mSessions[s]]
Recipients_rebound(u) == EmptyMap

\* SubscribeRequest files the listener under the node's owner.
Listening_owner(u, c) == Put(mTree[u].listener, mTree[u].sessionId, c)

\* The 32 bits of mTrIdCtr as an id.
NextTrId_wide == mTrIdCtr + 1

\* RpcRequest emplaces its translation, or files none.
Translated_emplaced(c, t) ==
    Emplace(mTrIdTranslation, mTrIdCtr, <<mConnectionToSessionId[c], t>>)
Translated_lost(c, t) == mTrIdTranslation

-----------------------------------------------------------------------------
NewNode(n, sid, p) ==
    [name |-> n, sessionId |-> sid, parent |-> p, data |-> Empty,
     children |-> EmptyMap, listener |-> EmptyMap]

\* What a handler that sends nothing leaves in `out'.
Silence == [c \in Conn |-> <<>>]

\* The constructor: the root belongs to session 0xFFFFFFFF, which never exists.
Init ==
    /\ status = "running"
    /\ link = [c \in Conn |-> "new"]
    /\ fault = None
    /\ mSessions = EmptyMap
    /\ mConnectionToSessionId = EmptyMap
    /\ mSessionIdCtr = 0
    /\ mTree = Put(EmptyMap, Root, NewNode(None, None, None))
    /\ mUuidCtr = 1
    /\ mTrIdCtr = 0
    /\ mTrIdTranslation = EmptyMap
    /\ out = Silence

-----------------------------------------------------------------------------
(* Helpers of the handlers.                                                *)

\* The reactor dispatches a request that c sent.
Receives(c, op) ==
    /\ op \in Ops
    /\ status \in {"running", "stopping"}
    /\ link[c] = "open"

SignedIn(c) == c \in DOMAIN mConnectionToSessionId

Packet(t, body) == [transactionId |-> t, message |-> body]

Reply(c, t, body) == [Silence EXCEPT ![c] = <<Packet(t, body)>>]

\* The reply, then one notification for each key that `to' maps to the
\* connection (send drops what is addressed to a null connection).
ReplyAndNotify(c, t, body, note, to) ==
    [x \in Conn |->
        Reply(c, t, body)[x] \o
        [i \in 1 .. Cardinality({k \in DOMAIN to : to[k] = x}) |->
            Packet(Notify, note)]]

\* The handler replies and changes nothing.
Answer(c, t, body) ==
    /\ out' = Reply(c, t, body)
    /\ UNCHANGED <<netVars, sessionVars, treeVars, rpcVars>>

\* The handler returns without a reply.
Ignore ==
    /\ out' = Silence
    /\ UNCHANGED <<netVars, sessionVars, treeVars, rpcVars>>

\* The handler of a request for u follows a null pointer or an end iterator.
Crash(u) ==
    /\ status' = "crashed"
    /\ fault' = u
    /\ out' = Silence
    /\ UNCHANGED <<link, sessionVars, treeVars, rpcVars>>

\* The reply that carries a cause, which is "OK" when the request succeeded.
Result(type, cause) == [type |-> type, cause |-> cause]

-----------------------------------------------------------------------------
(* Connections.                                                            *)

\* Server::handleServerRead
Connect(c) ==
    /\ status \in {"running", "stopping"}
    /\ link[c] = "new"
    /\ link' = [link EXCEPT ![c] = "open"]
    /\ out' = Silence
    /\ UNCHANGED <<status, fault, sessionVars, treeVars, rpcVars>>

\* Session::connectionSession.reset()
Abandoned(s) == [mSessions EXCEPT ![s] = None]

\* mConnectionToSessionId.erase(...)
Released(c) == Erase(mConnectionToSessionId, c)

\* A failed or empty read: Server::onDisconnect, ProtocolHandler::onDisconnect.
\* The session stays, without its connection.
Disconnect(c) ==
    /\ status \in {"running", "stopping"}
    /\ link[c] = "open"
    /\ link' = [link EXCEPT ![c] = "closed"]
    /\ \/ /\ ~SignedIn(c)
          /\ UNCHANGED sessionVars
       \/ /\ SignedIn(c)
          /\ mSessions' = Abandoned(mConnectionToSessionId[c])
          /\ mConnectionToSessionId' = Released(c)
          /\ UNCHANGED mSessionIdCtr
    /\ out' = Silence
    /\ UNCHANGED <<status, fault, treeVars, rpcVars>>

\* The reactor leaves its loop after mTerminator() and the process ends.
Exit ==
    /\ status = "stopping"
    /\ status' = "terminated"
    /\ out' = Silence
    /\ UNCHANGED <<link, fault, sessionVars, treeVars, rpcVars>>

\* A second sign-in of a connection makes a second session, but emplace keeps
\* the connection bound to the first one.  SigninAccept goes out as it is
\* constructed, with session id 0.
Signin(c, t) ==
    /\ Receives(c, IF SignedIn(c) THEN "Resignin" ELSE "Signin")
    /\ mSessionIdCtr < MaxSession
    /\ mSessionIdCtr' = mSessionIdCtr + 1
    /\ mSessions' = Emplace(mSessions, mSessionIdCtr, c)
    /\ mConnectionToSessionId' =
            Emplace(mConnectionToSessionId, c, mSessionIdCtr)
    /\ out' = Reply(c, t, [type |-> "SigninAccept", sessionId |-> 0])
    /\ UNCHANGED <<netVars, treeVars, rpcVars>>

Heartbeat(c, t) ==
    /\ Receives(c, "Hearbeat")
    /\ Answer(c, t, [type |-> "HearbeatResponse"])

-----------------------------------------------------------------------------
(* The tree.                                                               *)

NodeAdded(n, u, p) ==
    [type |-> "TreeUpdateNotification",
     nodeToAddList |-> {[name |-> n, uuid |-> u, parentUuid |-> p]},
     nodeToDelete |-> {}]

NodeDeleted(u) ==
    [type |-> "TreeUpdateNotification",
     nodeToAddList |-> {}, nodeToDelete |-> {u}]

\* mUuidCtr++
FreshUuid == mUuidCtr

\* The way through CreateRequest that makes the node: children.emplace and
\* mTree.emplace, the accept, then the notification of every session.
AddNode(c, t, p, n) ==
    /\ mUuidCtr \in Uuid
    /\ mUuidCtr' = mUuidCtr + 1
    /\ mTree' = Put([mTree EXCEPT ![p].children = Put(@, n, FreshUuid)],
                    FreshUuid, NewNode(n, mConnectionToSessionId[c], p))
    /\ out' = ReplyAndNotify(c, t, [type |-> "CreateAccept", uuid |-> FreshUuid],
                             NodeAdded(n, FreshUuid, p), mSessions)
    /\ UNCHANGED <<netVars, sessionVars, rpcVars>>

Create(c, t, p, n) ==
    /\ Receives(c, "Create")
    /\ \/ /\ p \notin DOMAIN mTree
          /\ Answer(c, t, Result("CreateReject", "NOT_FOUND"))
       \/ /\ p \in DOMAIN mTree
          /\ ~SignedIn(c)
          /\ Ignore
       \/ /\ p \in DOMAIN mTree
          /\ SignedIn(c)
          /\ n \in DOMAIN mTree[p].children
          /\ Answer(c, t, Result("CreateReject", "ALREADY_EXIST"))
       \/ /\ p \in DOMAIN mTree
          /\ SignedIn(c)
          /\ n \notin DOMAIN mTree[p].children
          /\ AddNode(c, t, p, n)

\* The entries that the children of u make in a nodeToAddList.
Entries(u) ==
    {[name |-> n, uuid |-> mTree[u].children[n], parentUuid |-> u] :
        n \in DOMAIN mTree[u].children}

\* The node u and all that is below it: what every set has that holds u and is
\* closed under children.
Subtree(u) ==
    LET Closed(S) == \A v \in S : \A e \in Entries(v) : e.uuid \in S
    IN  {v \in DOMAIN mTree :
            \A S \in SUBSET DOMAIN mTree : u \in S /\ Closed(S) => v \in S}

\* fillToAddListFromTree: what it lists; the order is that of a traversal.
ToAddList(u, recursive) ==
    IF recursive THEN UNION {Entries(v) : v \in Subtree(u)} ELSE Entries(u)

\* "." names the parent itself, even beside a child of that name.
TreeInfo(c, t, p, n, recursive) ==
    /\ Receives(c, "TreeInfo")
    /\ \/ /\ p \notin DOMAIN mTree
          /\ Answer(c, t, Result("TreeInfoErrorResponse", "NOT_FOUND"))
       \/ /\ p \in DOMAIN mTree
          /\ n # Dot
          /\ n \notin DOMAIN mTree[p].children
          /\ Answer(c, t, Result("TreeInfoErrorResponse", "NOT_FOUND"))
       \/ /\ p \in DOMAIN mTree
          /\ n = Dot
          /\ Answer(c, t, [type |-> "TreeInfoResponse",
                           nodeToAddList |-> ToAddList(p, recursive)])
       \/ /\ p \in DOMAIN mTree
          /\ n # Dot
          /\ n \in DOMAIN mTree[p].children
          /\ LET u == mTree[p].children[n] IN
             Answer(c, t, [type |-> "TreeInfoResponse",
                           nodeToAddList |->
                               {[name |-> n, uuid |-> u, parentUuid |-> p]}
                               \cup ToAddList(u, recursive)])

IsLeaf(u) == DOMAIN mTree[u].children = {}

\* mTree.erase and children.erase: the node dies with its data and listeners.
WithoutNode(u) ==
    Erase([mTree EXCEPT ![mTree[u].parent].children = Erase(@, mTree[u].name)], u)

\* The way through DeleteRequest that removes the node: the reply, then the
\* notification of every session.
RemoveNode(c, t, u) ==
    /\ mTree' = WithoutNode(u)
    /\ out' = ReplyAndNotify(c, t, Result("DeleteResponse", "OK"),
                             NodeDeleted(u), mSessions)
    /\ UNCHANGED <<netVars, sessionVars, mUuidCtr, rpcVars>>

\* The parent is locked and followed without a look: a node that has none sends
\* the server through a null pointer.
Delete(c, t, u) ==
    /\ Receives(c, IF u = Root THEN "DeleteRoot" ELSE "Delete")
    /\ \/ /\ u \notin DOMAIN mTree
          /\ Answer(c, t, Result("DeleteResponse", "NOT_FOUND"))
       \/ /\ u \in DOMAIN mTree
          /\ ~IsLeaf(u)
          /\ Answer(c, t, Result("DeleteResponse", "NOT_EMPTY"))
       \/ /\ u \in DOMAIN mTree
          /\ IsLeaf(u)
          /\ mTree[u].parent \notin DOMAIN mTree
          /\ Crash(u)
       \/ /\ u \in DOMAIN mTree
          /\ IsLeaf(u)
          /\ mTree[u].parent \in DOMAIN mTree
          /\ RemoveNode(c, t, u)

-----------------------------------------------------------------------------
(* Values and subscriptions.                                               *)

\* weak_ptr::lock of a connection object: the server's table and the sessions
\* keep it alive.
Alive(c) == link[c] = "open" \/ \E s \in DOMAIN mSessions : mSessions[s] = c

\* The listeners of u as SetValueRequest leaves them: one whose connection is
\* gone is bound to its session's connection, when it has one.
Rebound(u) ==
    [s \in DOMAIN mTree[u].listener |->
        IF ~Alive(mTree[u].listener[s])
           /\ s \in DOMAIN mSessions /\ mSessions[s] # None
        THEN mSessions[s]
        ELSE mTree[u].listener[s]]

\* Those of them that get the notification.
Recipients(u) ==
    LET reached == {s \in DOMAIN Rebound(u) : Alive(Rebound(u)[s])}
    IN  [s \in reached |-> Rebound(u)[s]]

SetValue(c, t, u, v) ==
    /\ Receives(c, IF u = Root /\ v = Terminate THEN "Terminate" ELSE "SetValue")
    /\ \/ /\ u = Root /\ v = Terminate
          /\ status' = "stopping"
          /\ out' = Silence
          /\ UNCHANGED <<link, fault, sessionVars, treeVars, rpcVars>>
       \/ /\ ~(u = Root /\ v = Terminate)
          /\ u \notin DOMAIN mTree
          /\ Ignore
       \/ /\ ~(u = Root /\ v = Terminate)
          /\ u \in DOMAIN mTree
          /\ mTree' = [mTree EXCEPT ![u].data = v, ![u].listener = Rebound(u)]
          /\ out' = ReplyAndNotify(c, t, [type |-> "SetValueAccept"],
                        [type |-> "UpdateNotification", uuid |-> u, data |-> v],
                        Recipients(u))
          /\ UNCHANGED <<netVars, sessionVars, mUuidCtr, rpcVars>>

\* GetRequest asks for no sign-in.
Get(c, t, u) ==
    /\ Receives(c, "Get")
    /\ \/ /\ u \notin DOMAIN mTree
          /\ Answer(c, t, Result("GetReject", "NOT_FOUND"))
       \/ /\ u \in DOMAIN mTree
          /\ Answer(c, t, [type |-> "GetAccept", data |-> mTree[u].data])

\* node->listener[sessionId] = pConnection
Listening(u, c) == Put(mTree[u].listener, mConnectionToSessionId[c], c)

Subscribe(c, t, u) ==
    /\ Receives(c, "Subscribe")
    /\ \/ /\ u \notin DOMAIN mTree
          /\ Answer(c, t, Result("SubscribeResponse", "NOT_FOUND"))
       \/ /\ u \in DOMAIN mTree
          /\ ~SignedIn(c)
          /\ Ignore
       \/ /\ u \in DOMAIN mTree
          /\ SignedIn(c)
          /\ mTree' = [mTree EXCEPT ![u].listener = Listening(u, c)]
          /\ out' = Reply(c, t, Result("SubscribeResponse", "OK"))
          /\ UNCHANGED <<netVars, sessionVars, mUuidCtr, rpcVars>>

Unsubscribe(c, t, u) ==
    /\ Receives(c, "Unsubscribe")
    /\ \/ /\ u \notin DOMAIN mTree
          /\ Answer(c, t, Result("UnsubscribeResponse", "NOT_FOUND"))
       \/ /\ u \in DOMAIN mTree
          /\ ~SignedIn(c)
          /\ Ignore
       \/ /\ u \in DOMAIN mTree
          /\ SignedIn(c)
          /\ mConnectionToSessionId[c] \notin DOMAIN mTree[u].listener
          /\ Answer(c, t, Result("UnsubscribeResponse", "NOT_FOUND"))
       \/ /\ u \in DOMAIN mTree
          /\ SignedIn(c)
          /\ mConnectionToSessionId[c] \in DOMAIN mTree[u].listener
          /\ mTree' = [mTree EXCEPT ![u].listener =
                            Erase(@, mConnectionToSessionId[c])]
          /\ out' = Reply(c, t, Result("UnsubscribeResponse", "OK"))
          /\ UNCHANGED <<netVars, sessionVars, mUuidCtr, rpcVars>>

-----------------------------------------------------------------------------
(* Remote calls: a request goes to the session that created the node, under *)
(* an id of the server's; the answer goes back under the caller's id.       *)

\* mTrIdCtr++, as the 16 bits that are used of it.
NextTrId == (mTrIdCtr + 1) % TrIdMod

\* The translation of the forwarded id back to the caller's session and id.
Translated(c, t) ==
    Put(mTrIdTranslation, mTrIdCtr, <<mConnectionToSessionId[c], t>>)

\* The way through RpcRequest that forwards it to the connection `owner'.
Forward(c, t, u, p, owner) ==
    /\ mTrIdCtr' = NextTrId
    /\ mTrIdTranslation' = Translated(c, t)
    /\ out' = Reply(owner, mTrIdCtr,
                    [type |-> "RpcRequest", uuid |-> u, param |-> p])
    /\ UNCHANGED <<netVars, sessionVars, treeVars>>

\* The session of the node's creator is looked up without a check that it was
\* found: the root has none.
RpcRequest(c, t, u, p) ==
    /\ Receives(c, IF u = Root THEN "RpcRoot" ELSE "RpcRequest")
    /\ \/ /\ u \notin DOMAIN mTree
          /\ Answer(c, t, Result("RpcReject", "NOT_FOUND"))
       \/ /\ u \in DOMAIN mTree
          /\ ~SignedIn(c)
          /\ Ignore
       \/ /\ u \in DOMAIN mTree
          /\ SignedIn(c)
          /\ mTree[u].sessionId \notin DOMAIN mSessions
          /\ Crash(u)
       \/ /\ u \in DOMAIN mTree
          /\ SignedIn(c)
          /\ mTree[u].sessionId \in DOMAIN mSessions
          /\ LET owner == mSessions[mTree[u].sessionId] IN
             IF owner = None THEN Ignore ELSE Forward(c, t, u, p, owner)

\* RpcAccept or RpcReject, of any connection and without a sign-in.
RpcReply(c, t, answer) ==
    /\ Receives(c, "RpcReply")
    /\ \/ /\ t \notin DOMAIN mTrIdTranslation
          /\ Ignore
       \/ /\ t \in DOMAIN mTrIdTranslation
          /\ mTrIdTranslation' = Erase(mTrIdTranslation, t)
          /\ LET sid == mTrIdTranslation[t][1]
                 id  == mTrIdTranslation[t][2]
             IN  out' = IF sid \in DOMAIN mSessions /\ mSessions[sid] # None
                        THEN Reply(mSessions[sid], id, answer)
                        ELSE Silence
          /\ UNCHANGED <<netVars, sessionVars, treeVars, mTrIdCtr>>

-----------------------------------------------------------------------------
Request(c) ==
    \E t \in ReqId :
        \/ Signin(c, t)
        \/ Heartbeat(c, t)
        \/ \E p \in Uuid, n \in Name : Create(c, t, p, n)
        \/ \E p \in Uuid, n \in Name \cup {Dot}, r \in BOOLEAN :
                TreeInfo(c, t, p, n, r)
        \/ \E u \in Uuid : \/ Delete(c, t, u)
                           \/ Get(c, t, u)
                           \/ Subscribe(c, t, u)
                           \/ Unsubscribe(c, t, u)
        \/ \E u \in Uuid, v \in Value : SetValue(c, t, u, v)
        \/ \E u \in Uuid, p \in Param : RpcRequest(c, t, u, p)

\* A target answers under the id that the request came with.
RpcReturn(c) == \E t \in TrId, answer \in RpcAnswer : RpcReply(c, t, answer)

Next ==
    \/ \E c \in Conn : Connect(c) \/ Disconnect(c) \/ Request(c) \/ RpcReturn(c)
    \/ Exit

Spec == Init /\ [][Next]_vars

-----------------------------------------------------------------------------
(* What the server is for.                                                 *)

\* Every node but the root hangs under a registered, older parent, which lists
\* it under its name.
ParentLinks ==
    \A u \in DOMAIN mTree \ {Root} :
        LET p == mTree[u].parent IN
        /\ p \in DOMAIN mTree
        /\ p < u
        /\ mTree[u].name \in DOMAIN mTree[p].children
        /\ mTree[p].children[mTree[u].name] = u

\* Every child is registered, knows its parent and is listed under its name.
ChildLinks ==
    \A p \in DOMAIN mTree : \A n \in DOMAIN mTree[p].children :
        LET u == mTree[p].children[n] IN
        /\ u \in DOMAIN mTree \ {Root}
        /\ mTree[u].parent = p
        /\ mTree[u].name = n

\* CreateRequest and DeleteRequest update the registry mTree and the children
\* maps one after the other: the two always describe one tree with the root on
\* top, so that no node can be orphaned, listed twice or left dangling.
TreeConsistent ==
    /\ Root \in DOMAIN mTree
    /\ mTree[Root].parent = None
    /\ \A u \in DOMAIN mTree : u < mUuidCtr
    /\ ParentLinks
    /\ ChildLinks

\* The session that RpcRequest looks up without a check is there for every node
\* but the root, its creator's disconnect included.
OwnersKnown ==
    \A u \in DOMAIN mTree \ {Root} : mTree[u].sessionId \in DOMAIN mSessions

\* DeleteRequest follows the node's parent and RpcRequest the session of its
\* creator without a look (ProtocolHandler.cpp, 434 and 487), and no client checks
\* which node it names.  Only a request for the root can crash the server by it:
\* one that deletes the root when nothing else is left, or calls it.  For every
\* other node both are still there, its creator's disconnect and the deletions of
\* others included.
CrashesAtRootOnly == status = "crashed" => fault = Root

\* onDisconnect dereferences the session of the connection unchecked: every
\* bound connection is open and is the one its session holds, so none outlives
\* its disconnect in mConnectionToSessionId.
SessionsConsistent ==
    \A c \in DOMAIN mConnectionToSessionId :
        /\ link[c] = "open"
        /\ mConnectionToSessionId[c] \in DOMAIN mSessions
        /\ mSessions[mConnectionToSessionId[c]] = c

\* A subscription is kept under the session that made it and never leads to the
\* connection of another one, however sessions lose their connections.
ListenersBound ==
    \A u \in DOMAIN mTree : \A s \in DOMAIN mTree[u].listener :
        /\ s \in DOMAIN mSessions
        /\ mSessions[s] \in {mTree[u].listener[s], None}

\* Any session or subscription that still leads to a connection leads to a closed
\* one or to one that is signed in, and the subscription is filed under the very
\* session that SubscribeRequest and UnsubscribeRequest look up for it, however
\* often the connection signed in: every subscription of a client can be ended.
HoldersSignedIn ==
    /\ \A s \in DOMAIN mSessions :
        mSessions[s] # None /\ link[mSessions[s]] # "closed" =>
            SignedIn(mSessions[s])
    /\ \A u \in DOMAIN mTree : \A s \in DOMAIN mTree[u].listener :
        LET c == mTree[u].listener[s] IN
        link[c] # "closed" => SignedIn(c) /\ mConnectionToSessionId[c] = s

\* What the latest handler sent to c, in any order.
Bodies(c) == {out[c][i].message : i \in DOMAIN out[c]}

\* Broadcasts, updates, forwarded calls and answers go to connections that are
\* still open, when clients sign in once per connection: onDisconnect leaves no
\* session behind that a handler would write to.
ClosedGetsNothing == \A c \in Conn : link[c] # "open" => out[c] = <<>>

\* A uuid denotes one node for ever: CreateRequest never hands it out again after
\* DeleteRequest, and no request renames, moves or reassigns the node.
UuidDenotesOneNode ==
    [][\A u \in 0 .. mUuidCtr - 1 :
        u \in DOMAIN mTree' =>
            /\ u \in DOMAIN mTree
            /\ mTree'[u].name = mTree[u].name
            /\ mTree'[u].parent = mTree[u].parent
            /\ mTree'[u].sessionId = mTree[u].sessionId]_vars

\* A session is for ever, and it never moves to another connection: one that
\* lost its connection stays without.
SessionsOnlyFade ==
    [][\A s \in DOMAIN mSessions :
        /\ s \in DOMAIN mSessions'
        /\ mSessions'[s] \in {mSessions[s], None}]_vars

=============================================================================
