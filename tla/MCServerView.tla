---------------------------- MODULE MCServerView ----------------------------
(* Small instances of ServerView for TLC.                                  *)
EXTENDS ServerView, ServerTree, TreeWalk

\* Interchangeable connections and names.
Symmetry == Permutations(Conn) \cup Permutations(Name)

\* The state without what the latest handler sent, of which the properties of values
\* speak in steps only: TLC checks those on every step, seen states or not.
ViewOfValues == <<netVars, sessionVars, treeVars, rpcVars, viewVars>>

Ops_Tree == {"Signin", "Create", "TreeInfo", "Delete", "DeleteRoot"}

Ops_Value == {"Signin", "Resignin", "Create", "SetValue", "Subscribe",
              "Unsubscribe", "Delete"}
=============================================================================
