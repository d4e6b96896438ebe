----------------------------- MODULE MCRpcRelay -----------------------------
(* Small instances of RpcRelay for TLC.                                    *)
EXTENDS RpcRelay, TLC

\* Interchangeable connections.
Symmetry == Permutations(Conn)

Ops_Relay == {"Signin", "Create", "Delete", "RpcRequest", "RpcReply"}

\* The payloads: which connection calls, and under which id.
Calls == Conn \X ReqId
=============================================================================
