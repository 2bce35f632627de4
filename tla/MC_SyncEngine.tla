--------------------------- MODULE MC_SyncEngine ---------------------------
(* Instances of SyncEngine for TLC.                                         *)
EXTENDS SyncEngine, TLC

CONSTANTS r1, r2, h1, h2, sched, client, jobA, gsc, key1

OneHost == [t \in Threads |-> h1]
TwoHosts == [t \in Threads |-> IF t = sched THEN h1 ELSE h2]
OneProvider == [j \in Jobs |-> gsc]

\* The engine never reads lastError: states that differ only there have the
\* same futures for the properties that do not mention it.
WithoutLastError ==
    <<now, run, worker, thread, [p \in Providers |-> conn[p].config]>>

RunSymmetry == Permutations(RunIds)
=============================================================================
