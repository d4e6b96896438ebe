-------------------------- MODULE MCProtocolHandler --------------------------
(* Small instances of ProtocolHandler for TLC.                             *)
EXTENDS ProtocolHandler, TLC

\* Interchangeable connections and names.
Symmetry == Permutations(Conn) \cup Permutations(Name)

\* All that the client library sends, deletions and calls of the root included:
\* only the constructor of a client signs in, once per connection.
Ops_Library == Operation \ {"Resignin"}
=============================================================================
