------------------------------ MODULE MCMonitor ------------------------------
(* Small instances of Monitor for TLC.                                     *)
EXTENDS Monitor

CONSTANT c1

Ops_Monitor == {"Create", "TreeInfo", "Delete", "DeleteRoot", "Subscribe", "Unsubscribe"}

MonitorThreads == {<<c1, "console">>, <<c1, "worker">>}

\* Is a list that deletes, or may delete, under way, or may one still be?
Deleting == walk.begun /\ walk.action \in {"NONE", "DEL"}
MayDelete == Deleting \/ (mRunning /\ mTransactioIdCtr[Me] \in ReqId)

\* Some things tell no states apart: what the server last sent, which is on its way
\* already; whether the whole tree has been listed; who listens to the root and has
\* a handler for it, as nothing is assigned; what was unsubscribed by hand and is no
\* more; and what only matters to a list that deletes.
View == <<netVars, sessionVars, [mTree EXCEPT ![Root].listener = EmptyMap], mUuidCtr,
          rpcVars, threadVars, wires, mirror, handlerVars,
          mToSubscribe, mToSubscribeMutex, worker, tosub, mRunning, mAutowatch,
          updateHandler \ {RootNode}, walk, caught, dismissed \cap DOMAIN mTree,
          IF Deleting THEN <<since, grown>> ELSE <<>>,
          IF MayDelete THEN <<removed, revived, displaced>> ELSE <<>>>>
=============================================================================
