----------------------------- MODULE ServerTree -----------------------------
(***************************************************************************)
(* The server of ProtocolHandler as an implementation of SharedTree: the   *)
(* sessions, the two structures that hold the tree and the listener maps   *)
(* only serve to keep the promise of one tree that all are told of.        *)
(***************************************************************************)
EXTENDS ProtocolHandler

\* The open connections that a listener of u leads to.
ListenersOf(u) ==
    {c \in Conn : link[c] = "open"
        /\ \E s \in DOMAIN mTree[u].listener : mTree[u].listener[s] = c}

\* The nodes that a notification says have come or gone.
TreeChanges(m) ==
    {[does |-> "add", uuid |-> e.uuid, name |-> e.name, parent |-> e.parentUuid] :
        e \in m.nodeToAddList}
    \cup {[does |-> "remove", uuid |-> u] : u \in m.nodeToDelete}

\* The content that a notification says a node has now.
ValueChange(m) == [does |-> "write", uuid |-> m.uuid, data |-> m.data]

\* What the notifications among some messages say of the tree.
ChangesIn(bodies) ==
    (UNION {TreeChanges(m) : m \in {b \in bodies : b.type = "TreeUpdateNotification"}})
    \cup {ValueChange(m) : m \in {b \in bodies : b.type = "UpdateNotification"}}

-----------------------------------------------------------------------------
(* What the variables of the promise are in the server.                    *)

TreeOf == [u \in DOMAIN mTree |-> [name |-> mTree[u].name,
                                  parent |-> mTree[u].parent,
                                  data |-> mTree[u].data]]

UuidsUsed == 0 .. mUuidCtr - 1

\* Those that the server knows a session of.
Here == DOMAIN mConnectionToSessionId

Subscriptions == {s \in Conn \X DOMAIN mTree : s[1] \in ListenersOf(s[2])}

Heard == [c \in Conn |-> IF link[c] = "open" THEN ChangesIn(Bodies(c)) ELSE {}]

Promise == INSTANCE SharedTree WITH
    Client <- Conn,
    Id <- Uuid,
    Top <- Root,
    nodes <- TreeOf,
    used <- UuidsUsed,
    present <- Here,
    subscribed <- Subscriptions,
    told <- Heard

\* Each handler is one step of the promise, or leaves it alone: whatever sessions
\* come and go, a create finds its name free among all nodes of that parent and a
\* delete nothing below the node, though both only look at the children map; the
\* change reaches everyone who is signed in and nobody else; and a value reaches
\* those that subscribed, until they unsubscribe, leave or the node goes.
KeepsPromise == Promise!SharedSpec
=============================================================================
