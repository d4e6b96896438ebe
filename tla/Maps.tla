-------------------------------- MODULE Maps --------------------------------
(***************************************************************************)
(* The associative containers of the program (std::map and                 *)
(* std::unordered_map) as functions on the finite set of their keys.       *)
(***************************************************************************)

\* The maps from keys in S to values in T.
Map(S, T) == UNION {[D -> T] : D \in SUBSET S}

\* m is one of them; cheaper than membership when T is large.
IsMap(m, S, T) == DOMAIN m \subseteq S /\ m \in [DOMAIN m -> T]

\* The map without entries.
EmptyMap == [k \in {} |-> k]

\* m[k] = v of the containers: inserts, or overwrites what k is bound to.
Put(m, k, v) == [x \in DOMAIN m \cup {k} |-> IF x = k THEN v ELSE m[x]]

\* emplace of the containers: does nothing when k is bound already.
Emplace(m, k, v) == IF k \in DOMAIN m THEN m ELSE Put(m, k, v)

\* erase of the containers.
Erase(m, k) == [x \in DOMAIN m \ {k} |-> m[x]]

=============================================================================
