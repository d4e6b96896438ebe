----------------------------- MODULE SharedTree -----------------------------
(***************************************************************************)
(* What the server promises its clients, without sessions, messages,       *)
(* children maps or listener maps: one tree of named nodes that all share, *)
(* where a change is one step that every client present is told of at      *)
(* once, and a value one that those subscribed to the node are told.       *)
(***************************************************************************)
CONSTANTS
    Client,  \* those that may come
    Name,    \* the names of nodes
    Value,   \* the contents of nodes
    Empty,   \* the content of a new node
    Id,      \* what denotes a node
    Top,     \* the node that is always there
    None     \* the name and the parent of Top

VARIABLES
    nodes,       \* id -> the name, the parent and the content of the node
    used,        \* the ids that ever denoted a node
    present,     \* the clients that are told
    subscribed,  \* who is told of which node's content
    told         \* what the latest step told each client

sharedVars == <<nodes, used, present, subscribed, told>>

Nobody == [c \in Client |-> {}]
ToAll(change) == [c \in Client |-> IF c \in present THEN {change} ELSE {}]
ToSubscribers(u, change) ==
    [c \in Client |-> IF <<c, u>> \in subscribed THEN {change} ELSE {}]

SharedInit ==
    /\ nodes = [u \in {Top} |-> [name |-> None, parent |-> None, data |-> Empty]]
    /\ used = {Top}
    /\ present = {}
    /\ subscribed = {}
    /\ told = Nobody

Siblings(p) == {u \in DOMAIN nodes : nodes[u].parent = p}

\* A node of that name appears under an id that never denoted another.
Add(u, p, n) ==
    /\ present # {}
    /\ u \notin used
    /\ p \in DOMAIN nodes
    /\ \A v \in Siblings(p) : nodes[v].name # n
    /\ nodes' = [v \in DOMAIN nodes \cup {u} |->
                    IF v = u THEN [name |-> n, parent |-> p, data |-> Empty]
                    ELSE nodes[v]]
    /\ used' = used \cup {u}
    /\ told' = ToAll([does |-> "add", uuid |-> u, name |-> n, parent |-> p])
    /\ UNCHANGED <<present, subscribed>>

\* A node that has nothing below it goes, and the subscriptions with it.
Remove(u) ==
    /\ u \in DOMAIN nodes \ {Top}
    /\ Siblings(u) = {}
    /\ nodes' = [v \in DOMAIN nodes \ {u} |-> nodes[v]]
    /\ subscribed' = {s \in subscribed : s[2] # u}
    /\ told' = ToAll([does |-> "remove", uuid |-> u])
    /\ UNCHANGED <<used, present>>

Write(u, v) ==
    /\ u \in DOMAIN nodes
    /\ nodes' = [nodes EXCEPT ![u].data = v]
    /\ told' = ToSubscribers(u, [does |-> "write", uuid |-> u, data |-> v])
    /\ UNCHANGED <<used, present, subscribed>>

Enter(c) ==
    /\ present' = present \cup {c}
    /\ told' = Nobody
    /\ UNCHANGED <<nodes, used, subscribed>>

Leave(c) ==
    /\ c \in present
    /\ present' = present \ {c}
    /\ subscribed' = {s \in subscribed : s[1] # c}
    /\ told' = Nobody
    /\ UNCHANGED <<nodes, used>>

Join(c, u) ==
    /\ c \in present /\ u \in DOMAIN nodes
    /\ subscribed' = subscribed \cup {<<c, u>>}
    /\ told' = Nobody
    /\ UNCHANGED <<nodes, used, present>>

Quit(c, u) ==
    /\ <<c, u>> \in subscribed
    /\ subscribed' = subscribed \ {<<c, u>>}
    /\ told' = Nobody
    /\ UNCHANGED <<nodes, used, present>>

\* A question, or a request that is refused.
Look ==
    /\ told' = Nobody
    /\ UNCHANGED <<nodes, used, present, subscribed>>

SharedNext ==
    \/ Look
    \/ \E c \in Client : \/ Enter(c) \/ Leave(c)
                         \/ \E u \in Id : Join(c, u) \/ Quit(c, u)
    \/ \E u \in Id : \/ Remove(u)
                     \/ \E p \in Id, n \in Name : Add(u, p, n)
                     \/ \E v \in Value : Write(u, v)

SharedSpec == SharedInit /\ [][SharedNext]_sharedVars
=============================================================================
