------------------------------ MODULE TreeWalk ------------------------------
(***************************************************************************)
(* The traversal behind the listings of TreeInfoRequest: the loop of       *)
(* fillToAddListFromTree over an explicit stack, set against the set of    *)
(* nodes that ToAddList of ProtocolHandler says it lists.                  *)
(***************************************************************************)
EXTENDS ProtocolHandler, SequencesExt

\* A level of the stack: a node and the names of the children that its iterator
\* has not passed.
LevelOf(u) == [parentNode |-> u, rest |-> DOMAIN mTree[u].children]

\* A faulty variant of the next definition, which nothing uses: the level of the
\* child takes the place of its parent's.
Deeper_replaced(levels, rest, u) == Append(Front(levels), LevelOf(u))

\* The level on top has passed a child, and that child's level goes on top.
Deeper(levels, rest, u) ==
    Append([levels EXCEPT ![Len(levels)].rest = rest], LevelOf(u))

\* What is left of the loop: the list that it makes of the rest of the levels.
RECURSIVE Filled(_, _)
Filled(levels, recursive) ==
    IF levels = <<>> THEN <<>>
    ELSE IF Last(levels).rest = {} THEN Filled(Front(levels), recursive)
    ELSE LET p == Last(levels).parentNode
             n == CHOOSE x \in Last(levels).rest : TRUE
             u == mTree[p].children[n]
             rest == Last(levels).rest \ {n}
         IN  <<[name |-> n, uuid |-> u, parentUuid |-> p]>> \o
             Filled(IF recursive /\ DOMAIN mTree[u].children # {}
                    THEN Deeper(levels, rest, u)
                    ELSE [levels EXCEPT ![Len(levels)].rest = rest],
                    recursive)

NodeToAddList(u, recursive) == Filled(<<LevelOf(u)>>, recursive)

\* A listing has all that is below a node and nothing else, or its children only,
\* each of them once and its parent before it: addNodes of the client would make
\* an empty node of a parent that comes later.
ListsParentsFirst ==
    \A u \in DOMAIN mTree : \A recursive \in BOOLEAN :
        LET list == NodeToAddList(u, recursive) IN
        /\ ToSet(list) = ToAddList(u, recursive)
        /\ Len(list) = Cardinality(ToSet(list))
        /\ \A i \in DOMAIN list :
            \/ list[i].parentUuid = u
            \/ \E j \in 1 .. i - 1 : list[j].uuid = list[i].parentUuid
=============================================================================
