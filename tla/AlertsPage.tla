----------------------------- MODULE AlertsPage -----------------------------
(***************************************************************************)
(* The page of alerts (features/alerts): the filtered list with the detail *)
(* of one alert, the refresh that moves alerts along, the runbook that is  *)
(* made of an analysis, and fixtureAlertGateway, which keeps alerts and    *)
(* audit events under two keys of the storage of the browser tab.          *)
(*                                                                         *)
(* A request of the gateway is a delay that reads the storage when it is   *)
(* over, and one that is aborted never does.  A load reads twice, the list *)
(* and then the alert, and is overtaken when its number is no longer the   *)
(* last one; it is kept only while a refresh waits for it.                 *)
(*                                                                         *)
(* The page is written, and tested, for a host that keeps it mounted when  *)
(* the alert in the path changes.  AppShell mounts it anew (Keyed).        *)
(* Severities, texts, times, the message and the sums above the list are   *)
(* left out.                                                               *)
(***************************************************************************)
EXTENDS Naturals, FiniteSets

CONSTANTS
  Items,      \* the alerts
  Folders,    \* the folders of the user
  FolderOf,   \* the folder of each alert
  Seed,       \* the status each alert has in the fixture
  Keyed,      \* another path mounts the page anew, as in AppShell
  MaxSaves,   \* bound: runbooks made
  None

\* What the constants must be (assumed in PluginPages).
Parameters ==
  /\ FolderOf \in [Items -> Folders]
  /\ Seed \in [Items -> {"firing", "analyzing", "analyzed", "failed"}]
  /\ Keyed \in BOOLEAN
  /\ MaxSaves \in Nat
  /\ None \notin Items \cup Folders \cup {"sent", "loads"}

VARIABLES
  page,   \* the state of the components on the page
  calls,  \* the unanswered requests: loads, a refresh, a save
  store   \* the storage: alerts, audit events, runbooks

vars == <<page, calls, store>>

Statuses == {"firing", "analyzing", "analyzed", "failed"}
Queries == [status : Statuses \cup {None}, folder : Folders \cup {None}]
AnyAlert == [status |-> None, folder |-> None]

Quiet == [loads |-> {}, refresh |-> None, save |-> None]

-----------------------------------------------------------------------------
(* The gateway.                                                            *)

Matches(i, query) ==
  /\ query.status \in {None, store.status[i]}
  /\ query.folder \in {None, FolderOf[i]}

ListAlerts(query) == {i \in Items : Matches(i, query)}

Advance(status) ==
  CASE status = "firing" -> "analyzing"
    [] status = "analyzing" -> "analyzed"
    [] OTHER -> status

Changed == {i \in Items : store.status[i] \in {"firing", "analyzing"}}

\* refreshAlerts, with both keys written or neither.  An event is named after the
\* millisecond, and one whose name is taken is not pushed.
RefreshAlerts ==
  \/ Changed = {} /\ UNCHANGED store
  \/ \E pushed \in SUBSET Changed :
       /\ pushed # {}
       /\ store' = [store EXCEPT !.status = [i \in Items |-> Advance(@[i])],
                                 !.events = [i \in Items |-> IF i \in pushed THEN @[i] + 1 ELSE @[i]]]

-----------------------------------------------------------------------------
(* The page.                                                               *)

\* A folder the user no longer sees is left out of the query.
EffectiveQuery(p) ==
  IF p.known /\ p.query.folder \notin p.folders THEN [p.query EXCEPT !.folder = None]
  ELSE p.query

Showing == page.list.status = "success"

\* The effect of another alert or another query: what the old one had is dropped.
Scoped(p) ==
  [p EXCEPT !.analysis = FALSE, !.refreshing = FALSE, !.saving = FALSE]

\* A page that was just mounted; its filter is empty.
Mounted(p, at) ==
  [Scoped(p) EXCEPT !.route = at, !.query = AnyAlert, !.timer = TRUE,
                    !.list = [status |-> "loading"], !.detail = None]

Enter(p, at) == IF Keyed THEN Mounted(p, at) ELSE [Scoped(p) EXCEPT !.route = at, !.timer = TRUE]

SetQuery ==
  /\ Showing
  /\ \E query \in Queries :
       /\ query # page.query
       /\ query.folder \in page.folders \cup {None}
       /\ page' = [Scoped(page) EXCEPT !.query = query, !.timer = TRUE]
  /\ calls' = Quiet
  /\ UNCHANGED store

\* The shell reads the folders: they are not known meanwhile, and others may come back.
FoldersChange ==
  \E known \in BOOLEAN, folders \in SUBSET Folders, writable \in SUBSET Folders :
    LET changed == [page EXCEPT !.known = known, !.folders = folders, !.writable = writable]
    IN  /\ writable \subseteq folders
        /\ ~known => folders = {}
        /\ changed # page
        /\ IF EffectiveQuery(changed) = EffectiveQuery(page)
           THEN page' = changed /\ UNCHANGED calls
           ELSE page' = [Scoped(changed) EXCEPT !.timer = TRUE] /\ calls' = Quiet
        /\ UNCHANGED store

Select ==
  /\ Showing
  /\ \E i \in page.list.items : i # page.route /\ page' = Enter(page, i)
  /\ calls' = Quiet
  /\ UNCHANGED store

\* Another page of the application, and back.
Leave ==
  /\ page' = Mounted(page, None)
  /\ calls' = Quiet
  /\ UNCHANGED store

OpenAnalysis ==
  /\ Showing /\ page.detail # None
  /\ page.detail.status = "analyzed"
  /\ ~page.analysis
  /\ page' = [page EXCEPT !.analysis = TRUE]
  /\ UNCHANGED <<calls, store>>

CloseAnalysis ==
  /\ page.analysis
  /\ page' = [page EXCEPT !.analysis = FALSE]
  /\ UNCHANGED <<calls, store>>

-----------------------------------------------------------------------------
(* load.                                                                   *)

\* A load that is overtaken matters to the refresh that waits for it, if there is one.
Load(by) ==
  {[l EXCEPT !.current = FALSE] : l \in {m \in calls.loads : m.by = "refresh"}} \cup
  {[current |-> TRUE, by |-> by, query |-> EffectiveQuery(page), route |-> page.route,
    stage |-> "list", items |-> {}]}

TimerLoads ==
  /\ page.timer
  /\ page' = [page EXCEPT !.timer = FALSE]
  /\ calls' = [calls EXCEPT !.loads = Load("effect")]
  /\ UNCHANGED store

\* refresh goes on when its load returns.
Ended(p, l) == IF l.by = "refresh" THEN [p EXCEPT !.refreshing = FALSE] ELSE p

CallsAfter(l) ==
  [calls EXCEPT !.loads = @ \ {l}, !.refresh = IF l.by = "refresh" THEN None ELSE @]

Overtaken(l) ==
  /\ l \in calls.loads
  /\ ~l.current
  /\ page' = Ended(page, l)
  /\ calls' = CallsAfter(l)
  /\ UNCHANGED store

\* The list is there: the alert of the path, or the first one, is asked for next.
ListAnswered(l) ==
  /\ l \in calls.loads
  /\ l.current /\ l.stage = "list"
  /\ ListAlerts(l.query) # {}
  /\ calls' = [calls EXCEPT !.loads = (@ \ {l}) \cup
       {[l EXCEPT !.stage = "alert", !.items = ListAlerts(l.query)]}]
  /\ UNCHANGED <<page, store>>

NoneAnswered(l) ==
  /\ l \in calls.loads
  /\ l.current /\ l.stage = "list"
  /\ ListAlerts(l.query) = {}
  /\ page' = [Ended(page, l) EXCEPT !.list = [status |-> "success", items |-> {}], !.detail = None]
  /\ calls' = CallsAfter(l)
  /\ UNCHANGED store

\* What the list and the alert gave is shown, and the path names the alert.
AlertAnswered(l) ==
  /\ l \in calls.loads
  /\ l.current /\ l.stage = "alert"
  /\ \E i \in l.items :
       LET shown == [Ended(page, l) EXCEPT !.list = [status |-> "success", items |-> l.items],
                                           !.detail = [id |-> i, status |-> store.status[i]]]
       IN  /\ l.route \in l.items => i = l.route
           /\ IF i = l.route
              THEN page' = shown /\ calls' = CallsAfter(l)
              ELSE /\ page' = IF Keyed THEN Mounted(shown, i)
                              ELSE [Scoped(shown) EXCEPT !.route = i]
                   /\ calls' = Quiet
  /\ UNCHANGED store

LoadFails(l) ==
  /\ l \in calls.loads
  /\ l.current
  /\ page' = [Ended(page, l) EXCEPT !.list = [status |-> "error"]]
  /\ calls' = CallsAfter(l)
  /\ UNCHANGED store

-----------------------------------------------------------------------------
(* refresh and saveRunbook.                                                *)

Refresh ==
  /\ Showing
  /\ ~page.refreshing
  /\ page' = [page EXCEPT !.refreshing = TRUE]
  /\ calls' = [calls EXCEPT !.refresh = "sent"]
  /\ UNCHANGED store

RefreshAnswered ==
  /\ calls.refresh = "sent"
  /\ RefreshAlerts
  /\ UNCHANGED page
  /\ calls' = [calls EXCEPT !.refresh = "loads", !.loads = Load("refresh")]

RefreshFails ==
  /\ calls.refresh = "sent"
  /\ page' = [page EXCEPT !.refreshing = FALSE]
  /\ calls' = [calls EXCEPT !.refresh = None]
  /\ UNCHANGED store

SaveRunbook ==
  /\ Showing /\ page.detail # None
  /\ page.detail.status = "analyzed"
  /\ FolderOf[page.detail.id] \in page.writable
  /\ ~page.saving
  /\ page' = [page EXCEPT !.saving = TRUE]
  /\ calls' = [calls EXCEPT !.save = page.detail.id]
  /\ UNCHANGED store

\* The page goes to the runbook, and the alerts are left.
SaveAnswered ==
  /\ calls.save # None
  /\ store.runbooks < MaxSaves
  /\ store' = [store EXCEPT !.runbooks = @ + 1]
  /\ page' = Mounted(page, None)
  /\ calls' = Quiet

SaveFails ==
  /\ calls.save # None
  /\ page' = [page EXCEPT !.saving = FALSE]
  /\ calls' = [calls EXCEPT !.save = None]
  /\ UNCHANGED store

-----------------------------------------------------------------------------
\* The path may name an alert.
Init ==
  /\ \E route \in Items \cup {None} :
       page = [route |-> route, query |-> AnyAlert, known |-> TRUE, folders |-> Folders,
               writable |-> Folders, list |-> [status |-> "loading"], detail |-> None,
               timer |-> TRUE, refreshing |-> FALSE, saving |-> FALSE,
               analysis |-> FALSE]
  /\ calls = Quiet
  /\ store = [status |-> Seed, events |-> [i \in Items |-> 0], runbooks |-> 0]

Next ==
  \/ SetQuery \/ FoldersChange \/ Select \/ Leave \/ OpenAnalysis \/ CloseAnalysis
  \/ TimerLoads \/ Refresh \/ RefreshAnswered \/ RefreshFails
  \/ SaveRunbook \/ SaveAnswered \/ SaveFails
  \/ \E l \in calls.loads :
       Overtaken(l) \/ ListAnswered(l) \/ NoneAnswered(l) \/ AlertAnswered(l) \/ LoadFails(l)

Spec == Init /\ [][Next]_vars

-----------------------------------------------------------------------------
(* Properties.                                                             *)

\* The page waits for a refresh or a save exactly while there is one, and the alert whose
\* detail is shown is one of the list.
TypeOK ==
  /\ page.route \in Items \cup {None}
  /\ page.query \in Queries
  /\ page.refreshing <=> calls.refresh # None
  /\ page.saving <=> calls.save # None
  /\ Showing => (IF page.list.items = {} THEN page.detail = None
                 ELSE page.detail.id \in page.list.items)
  /\ Cardinality({l \in calls.loads : l.current}) <= 1
  /\ store.status \in [Items -> Statuses]

\* The tests of the page expect the filter to be what the user chose once the list is there
\* ("ignores a stale list response after the filter changes"): no answer changes it.
FilterIsKept ==
  [][\A l \in calls.loads : AlertAnswered(l) => page'.query = page.query]_vars

\* The test "deterministically advances active alerts and appends audit events": every alert
\* a refresh moves along has an event of its own.
AdvancesAreAudited ==
  [][\A i \in Items : store'.status[i] # store.status[i] =>
       store'.events[i] = store.events[i] + 1]_vars

=============================================================================
