----------------------------- MODULE ServerView -----------------------------
(***************************************************************************)
(* What the server tells its clients, set against what it knows: each      *)
(* connection keeps the picture that an ideal client would draw from the   *)
(* messages it is sent, in their order, and nothing else.  The variables   *)
(* added here only observe `out'; the server is that of ProtocolHandler.   *)
(***************************************************************************)
EXTENDS ProtocolHandler

VARIABLES
    view,    \* the nodes each connection was told of since it signed in
    loaded,  \* the connections that listed the whole tree since then
    shadow   \* the data of the nodes that each connection is subscribed to

viewVars == <<view, loaded, shadow>>

ViewTypeOK ==
    /\ TypeOK
    /\ view \in [Conn -> SUBSET NamedNode]
    /\ loaded \subseteq Conn
    /\ \A c \in Conn : IsMap(shadow[c], Uuid, Value)

ViewInit ==
    /\ Init
    /\ view = [c \in Conn |-> {}]
    /\ loaded = {}
    /\ shadow = [c \in Conn |-> EmptyMap]

\* Client::addNodes and Client::removeNodes on the messages of one handler, without
\* the client's races; they carry one change at most, so their order is no matter.
Told(nodes, bodies) ==
    LET changes == {m \in bodies : m.type = "TreeUpdateNotification"}
        listings == {m \in bodies : m.type = "TreeInfoResponse"}
    IN  {e \in nodes \cup UNION {m.nodeToAddList : m \in changes \cup listings} :
            \A m \in changes : e.uuid \notin m.nodeToDelete}

\* The nodes that c is subscribed to.
Subscribed(c) ==
    {u \in DOMAIN mTree :
        \E s \in DOMAIN mTree[u].listener : mTree[u].listener[s] = c}

\* What the latest handler told c of the data of u.
Updates(c, u) ==
    {m.data : m \in {b \in Bodies(c) : b.type = "UpdateNotification" /\ b.uuid = u}}

\* A picture starts from nothing when the client signs in, and a shadow from what a
\* fetch right after the subscription returns.
Observe ==
    /\ view' = [c \in Conn |-> IF SignedIn(c)' THEN Told(view[c], Bodies(c)') ELSE {}]
    /\ loaded' = {c \in Conn :
                    /\ SignedIn(c) /\ SignedIn(c)'
                    /\ \/ c \in loaded
                       \/ \E t \in ReqId : TreeInfo(c, t, Root, Dot, TRUE)}
    /\ shadow' = [c \in Conn |->
                    [u \in Subscribed(c)' |->
                        IF Updates(c, u)' # {} THEN CHOOSE v \in Updates(c, u)' : TRUE
                        ELSE IF u \in DOMAIN shadow[c] THEN shadow[c][u]
                        ELSE mTree'[u].data]]

ViewNext == Next /\ Observe

ViewSpec == ViewInit /\ [][ViewNext]_<<vars, viewVars>>

-----------------------------------------------------------------------------
\* The nodes of the tree, as NamedNode lists them.
TreeNodes ==
    {[name |-> mTree[u].name, uuid |-> u, parentUuid |-> mTree[u].parent] :
        u \in DOMAIN mTree \ {Root}}

\* TreeUpdateNotification carries all that changes: a client that lists the tree
\* once and then applies the notifications holds exactly the server's tree after
\* every handler, and before it has listed it knows of no node that is gone.
MirrorsTree ==
    \A c \in DOMAIN mConnectionToSessionId :
        /\ view[c] \subseteq TreeNodes
        /\ c \in loaded => view[c] = TreeNodes

\* UpdateNotification reaches every subscriber: whoever fetched once after
\* SubscribeRequest and applies the updates holds the node's current data,
\* whoever sets it.
SubscriberUpToDate ==
    \A c \in Conn : \A u \in Subscribed(c) :
        link[c] = "open" => shadow[c][u] = mTree[u].data

\* SetValueRequest tells nobody but the subscribers: not a session that never
\* subscribed to the node, nor one that unsubscribed.
UpdatesOnlyToSubscribers ==
    [][\A c \in Conn, u \in Uuid : Updates(c, u)' # {} => u \in Subscribed(c)]_vars
=============================================================================
