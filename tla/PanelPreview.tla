---------------------------- MODULE PanelPreview ----------------------------
(***************************************************************************)
(* The panels of the workbench (GrafanaPanelPreview): a chart is checked,  *)
(* its query is run on Grafana's data source, and what comes back is given *)
(* to Grafana's renderer.  A chart may be on the page several times (in a  *)
(* message, on the canvas, on the full screen): views with the same query  *)
(* and as many retries share one execution, counted by references.         *)
(*                                                                         *)
(* Grafana (its data sources, its renderer) is external.  An execution     *)
(* nobody is subscribed to is disposed; its late answers change nothing    *)
(* and are left out.  A frame of data is there or not; texts and sizes are *)
(* left out.                                                               *)
(***************************************************************************)
EXTENDS Integers, FiniteSets

CONSTANTS
  Views,         \* the places on the page
  Charts,        \* charts: a query, if there is one, and a configuration of the panel
  Parts,         \* the keys of the responses of one query
  MajorVersion,  \* of Grafana
  MaxPoints,     \* maxQueryDataPoints
  MaxRetries,    \* bound: retries of a view
  None

\* The queries that are shared, what one says, and what a place on the page may hold.
Keys == {<<chart.query, retry>> : chart \in Charts, retry \in 0 .. MaxRetries}
States == [status : {"loading", "ready", "empty", "error"}, series : BOOLEAN]
ViewStates ==
  [chart : Charts, retry : 0 .. MaxRetries, key : Keys \cup {None}, due : BOOLEAN,
   state : States, broken : BOOLEAN]

\* What the constants must be (assumed in PluginPages).
Parameters ==
  /\ MajorVersion \in Int /\ MaxPoints \in Nat \ {0} /\ MaxRetries \in Nat
  /\ None \notin Keys \cup ViewStates
  /\ \A chart \in Charts : chart.query # None =>
       {chart.query.from, chart.query.to, chart.query.step} \subseteq Int

VARIABLES
  page,   \* the views
  calls,  \* the executions that are not disposed
  store   \* sharedPanelQueries

vars == <<page, calls, store>>

-----------------------------------------------------------------------------
(* What a chart must be for its query to be run.                           *)

SupportedPlugins == {"timeseries", "stat", "gauge", "barchart"}

\* Points of the range, both ends included.
DataPoints(q) ==
  LET interval == q.step * 1000  range == q.to - q.from
  IN  (range + interval - 1) \div interval + 1

\* Version v1 of the canvas, or Grafana's own.
SupportedVizConfig(viz) ==
  /\ viz.kind = "VizConfig"
  /\ viz.group \in SupportedPlugins
  /\ viz.version \in {1, 13}
  /\ viz.complete

\* parsePanelDefinition; a configuration without fields counts as none.
Parses(chart) ==
  /\ chart.query # None
  /\ chart.query.named
  /\ MajorVersion = 13
  /\ chart.query.from < chart.query.to
  /\ chart.query.step > 0
  /\ chart.query.step * 1000 <= chart.query.to - chart.query.from
  /\ DataPoints(chart.query) <= MaxPoints
  /\ chart.viz # None => SupportedVizConfig(chart.viz)

\* normalizedQueryKey with the retries: charts that differ in the panel only share a query.
Key(v) == <<page[v].chart.query, page[v].retry>>

-----------------------------------------------------------------------------
(* The states of a query, and how views get them.                          *)

Loading == [status |-> "loading", series |-> FALSE]
State(status, series) == [status |-> status, series |-> series]

\* What the component makes of a state: without data the boundary, with its error, is unmounted.
Showing(view, state) ==
  [view EXCEPT !.state = state,
               !.broken = @ /\ state.series]

Subscribed(k) == {v \in Views : page[v] # None /\ page[v].key = k}

\* subscriber.next: the state is kept for later subscribers and shown by those there are.
Emit(k, state) ==
  /\ store' = [store EXCEPT ![k].last = state]
  /\ page' = [v \in Views |-> IF v \in Subscribed(k) THEN Showing(page[v], state) ELSE page[v]]

-----------------------------------------------------------------------------
(* acquireSharedPanelQuery and release.                                    *)

Forget(f, k) == [l \in DOMAIN f \ {k} |-> f[l]]

\* The last view that leaves cancels the execution and forgets the entry.
Released(k) ==
  IF k = None THEN [queries |-> store, executions |-> calls]
  ELSE IF store[k].references > 1
       THEN [queries |-> [store EXCEPT ![k].references = @ - 1], executions |-> calls]
       ELSE [queries |-> Forget(store, k), executions |-> Forget(calls, k)]

\* An execution starts with its first view and asks for the data source.
Acquired(held, k) ==
  IF k \in DOMAIN held.queries
  THEN [held EXCEPT !.queries[k].references = @ + 1]
  ELSE [queries |-> [l \in DOMAIN held.queries \cup {k} |->
          IF l = k THEN [references |-> 1, last |-> Loading] ELSE held.queries[l]],
        executions |-> [l \in DOMAIN held.executions \cup {k} |->
          IF l = k THEN [stage |-> "get", keyed |-> [p \in Parts |-> FALSE]]
          ELSE held.executions[l]]]

-----------------------------------------------------------------------------
(* GrafanaPanelPreview, RenderablePanel and usePanelQuery.                 *)

NewView(chart) ==
  [chart |-> chart, retry |-> 0, key |-> None, due |-> Parses(chart), state |-> Loading,
   broken |-> FALSE]

\* A chart that does not parse is shown with what is wrong about it, and runs no query.
Mount(v) ==
  /\ page[v] = None
  /\ \E chart \in Charts : page' = [page EXCEPT ![v] = NewView(chart)]
  /\ UNCHANGED <<calls, store>>

Unmount(v) ==
  /\ page[v] # None
  /\ page' = [page EXCEPT ![v] = None]
  /\ calls' = Released(page[v].key).executions
  /\ store' = Released(page[v].key).queries

\* The same place gets another chart: the state stays until the effect has run, and a chart with
\* the same query keeps the subscription.
Rerender(v) ==
  /\ page[v] # None
  /\ \E chart \in Charts \ {page[v].chart} :
       IF Parses(chart) /\ Parses(page[v].chart)
       THEN /\ page' = [page EXCEPT ![v].chart = chart,
                          ![v].due = page[v].key # <<chart.query, page[v].retry>>]
            /\ UNCHANGED <<calls, store>>
       ELSE /\ page' = [page EXCEPT ![v] = NewView(chart)]
            /\ calls' = Released(page[v].key).executions
            /\ store' = Released(page[v].key).queries

\* Fault: the view keeps what the old query said until the new one speaks.
SubscribeSilently(v, state) == [page[v] EXCEPT !.due = FALSE, !.key = Key(v)]

\* The subscription replays what the query said last.
Subscribe(v, state) == [Showing(page[v], state) EXCEPT !.due = FALSE, !.key = Key(v)]

EffectRuns(v) ==
  LET held == Acquired(Released(page[v].key), Key(v))
  IN  /\ page[v] # None /\ page[v].due
      /\ page' = [page EXCEPT ![v] = Subscribe(v, held.queries[Key(v)].last)]
      /\ calls' = held.executions
      /\ store' = held.queries

Retry(v) ==
  /\ page[v] # None /\ Parses(page[v].chart)
  /\ page[v].state.status = "error"
  /\ page[v].retry < MaxRetries
  /\ page' = [page EXCEPT ![v].retry = @ + 1, ![v].due = TRUE]
  /\ UNCHANGED <<calls, store>>

\* The renderer throws; what is left is the message of the boundary.
RenderFails(v) ==
  /\ page[v] # None /\ Parses(page[v].chart)
  /\ page[v].state.series /\ ~page[v].broken
  /\ page' = [page EXCEPT ![v].broken = TRUE]
  /\ UNCHANGED <<calls, store>>

-----------------------------------------------------------------------------
(* executePanelQuery.                                                      *)

DatasourceFound(k) ==
  /\ calls[k].stage = "get"
  /\ calls' = [calls EXCEPT ![k].stage = "query"]
  /\ Emit(k, Loading)

\* No data source, or the query is an error.
QueryFails(k) ==
  /\ calls[k].stage \in {"get", "query"}
  /\ calls' = [calls EXCEPT ![k].stage = "done"]
  /\ Emit(k, State("error", FALSE))

\* What there is for the parts once one has answered; a response without a key replaces them all.
Keyed(k, part, series) ==
  IF part = None THEN [p \in Parts |-> FALSE] ELSE [calls[k].keyed EXCEPT ![part] = series]

AnySeries(k, part, series) ==
  IF part = None THEN series ELSE \E p \in Parts : Keyed(k, part, series)[p]

\* What a response says: its state is Done unless it says otherwise or has errors.
Said(any, said, errors) ==
  LET state == IF said # None THEN said ELSE IF errors THEN "Error" ELSE "Done"
  IN  IF state = "Error" \/ (errors /\ ~any) THEN State("error", FALSE)
      ELSE IF state # "Done" THEN State("loading", any)
      ELSE State(IF any THEN "ready" ELSE "empty", any)

\* A response of one part is shown with what the others had.
Responds(k) ==
  /\ calls[k].stage = "query"
  /\ \E part \in Parts \cup {None}, series, errors \in BOOLEAN,
        said \in {None, "Done", "Streaming", "Error"} :
       /\ calls' = [calls EXCEPT ![k].keyed = Keyed(k, part, series)]
       /\ Emit(k, Said(AnySeries(k, part, series), said, errors))

Completes(k) ==
  /\ calls[k].stage = "query"
  /\ calls' = [calls EXCEPT ![k].stage = "done"]
  /\ UNCHANGED <<page, store>>

-----------------------------------------------------------------------------
Init ==
  /\ page = [v \in Views |-> None]
  /\ calls = <<>>
  /\ store = <<>>

Next ==
  \/ \E v \in Views :
       Mount(v) \/ Unmount(v) \/ Rerender(v) \/ EffectRuns(v) \/ Retry(v) \/ RenderFails(v)
  \/ \E k \in DOMAIN calls :
       DatasourceFound(k) \/ QueryFails(k) \/ Responds(k) \/ Completes(k)

Spec == Init /\ [][Next]_vars

-----------------------------------------------------------------------------
(* Properties.                                                             *)

\* An entry of the shared queries is there exactly while views are subscribed to it, counts them,
\* and has an execution; a query that runs has passed the checks.
TypeOK ==
  /\ page \in [Views -> ViewStates \cup {None}]
  /\ DOMAIN calls = DOMAIN store
  /\ \A k \in DOMAIN store :
       /\ store[k].references = Cardinality(Subscribed(k))
       /\ store[k].references > 0
       /\ DataPoints(k[1]) \in 2..MaxPoints
  /\ \A v \in Views : page[v] # None =>
       /\ page[v].key # None => page[v].key \in DOMAIN store
       /\ page[v].broken => page[v].state.series

\* Once its effect has run a view shows what the query of its own chart said last, whatever it
\* showed before and whichever view started the query.
ShowsOwnQuery ==
  \A v \in Views : page[v] # None /\ Parses(page[v].chart) /\ ~page[v].due =>
    /\ page[v].key = Key(v)
    /\ page[v].state = store[Key(v)].last

=============================================================================
