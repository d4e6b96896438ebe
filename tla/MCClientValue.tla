---------------------------- MODULE MCClientValue ----------------------------
(* Small instances of ClientValue for TLC.                                 *)
EXTENDS ClientValue

CONSTANTS c1, c2

Ops_Share == {"SetValue", "Get"}

\* Both clients assign, and the first one has another thread that fetches.
BothSet == {<<c1, "set">>, <<c2, "set">>}
OneFetches == {<<c1, "fetch">>}
AllThreads == BothSet \cup OneFetches
=============================================================================
