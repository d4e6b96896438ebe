---------------------------- MODULE MCClientMirror ----------------------------
(* Small instances of ClientMirror for TLC.                                *)
EXTENDS ClientMirror, TLC

CONSTANTS c1, t1, t2

\* Interchangeable names and threads.
Symmetry == Permutations(Name) \cup Permutations({t1, t2})

Ops_Mirror == {"Create", "TreeInfo", "Delete", "DeleteRoot"}

\* What the server last sent is on its way already: `out' tells no states apart.
View == <<netVars, sessionVars, treeVars, rpcVars, threadVars, wires, mirror,
          history>>

TwoThreads == {<<c1, t1>>, <<c1, t2>>}
=============================================================================
