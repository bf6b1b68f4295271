--------------------------- MODULE MCPluginPages ---------------------------
(* The pages of the plugin in small instances for TLC.                     *)
EXTENDS PluginPages, TLC

CONSTANTS f1, f2, i1, i2

\* Two folders where the user chooses one.
SmallFolders ==
  [p \in {"sessions", "drawer", "shell", "knowledge", "playbooks"} |-> {f1, f2}] @@
  [p \in {"fixture", "runs", "skills", "governance", "alerts"} |-> {f1}]

SmallBounds ==
  [sessions |-> 2, sessionCalls |-> 2,
   charts |-> 2, edits |-> 1, editedCharts |-> 1, chartEdits |-> 2,
   retries |-> 1, drawerCalls |-> 3, attachments |-> 1, fixtureCalls |-> 2, shellRequests |-> 1,
   bases |-> 2, documents |-> 1, knowledgeCalls |-> 2,
   services |-> 1, items |-> 1, tasks |-> 1, itemVersions |-> 2, itemCalls |-> 2,
   keys |-> 2, editors |-> 1, playbookCalls |-> 1, runs |-> 1, runCalls |-> 2,
   skills |-> 2, skillVersions |-> 1, skillRuns |-> 1, skillCalls |-> 1, saves |-> 1]

\* A chart whose query just has not too many points, one with a panel of its own, and one that is
\* refused.
Query(to, step) == [named |-> TRUE, from |-> 0, to |-> to, step |-> step]
Stat == [kind |-> "VizConfig", group |-> "stat", version |-> 13, complete |-> TRUE]
SmallCharts ==
  {[query |-> Query(9999000, 1), viz |-> None], [query |-> Query(2000, 1), viz |-> Stat],
   [query |-> Query(10000000, 1), viz |-> None]}

SmallWidths == [least |-> 1, first |-> 1, greatest |-> 2]
BothTools == <<"read", "write">>
OneFolder == [i \in Entries |-> f1]
AlertSeed == i1 :> "analyzing" @@ i2 :> "firing"

=============================================================================
