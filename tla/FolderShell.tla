----------------------------- MODULE FolderShell -----------------------------
(***************************************************************************)
(* The folders of the shell (app): the list that AppShellContext keeps of  *)
(* the Grafana folders of the user, the active folder and its copy in the  *)
(* storage of the browser tab, the dropdown that chooses it, and the new   *)
(* list that is asked for when ResourceClient reports that a request for   *)
(* the active folder was refused.                                          *)
(*                                                                         *)
(* grafanaFolderGateway reads the folders and the permissions with two     *)
(* requests that Grafana serves at moments of their own.  Grafana and the  *)
(* backend of the plugin are external: permissions change at any time, and *)
(* the backend may refuse what the list still shows.  fresh and since are  *)
(* history: whether a list was asked for after the last refusal that was   *)
(* about the active folder.                                                *)
(***************************************************************************)
EXTENDS Naturals, FiniteSets

CONSTANTS
  Folders,      \* the folders of Grafana
  Default,      \* DEFAULT_FOLDER_UID
  MaxRequests,  \* bound: requests of the page under way
  None

\* What the constants must be (assumed in PluginPages).
Parameters ==
  /\ MaxRequests \in Nat
  /\ None \notin Folders \cup {Default}

VARIABLES
  page,   \* folders, activeFolderUid, an effect that is due, the dropdown
  calls,  \* the unanswered requests for the folders and of the page
  store   \* Grafana's folders and permissions, and the storage of the tab

vars == <<page, calls, store>>

Uids == Folders \cup {Default}
Kinds == {"request", "requestVoid", "requestFormData", "requestBlob"}
Permissions == {"none", "View", "Edit"}

Showing == page.list.status = "success"

\* activeFolder, which is there only when the list has it.
ActiveFolder ==
  IF Showing /\ page.active \in DOMAIN page.list.data THEN page.active ELSE None

-----------------------------------------------------------------------------
(* grafanaFolderGateway.                                                   *)

ListRequest == [current |-> TRUE, since |-> TRUE, hits |-> None, permissions |-> None]

\* The two requests of Promise.all.
SearchServed(q) ==
  /\ q.hits = None
  /\ calls' = [calls EXCEPT !.lists = (@ \ {q}) \cup {[q EXCEPT !.hits = <<store.folders>>]}]
  /\ UNCHANGED <<page, store>>

PermissionsServed(q) ==
  /\ q.permissions = None
  /\ calls' = [calls EXCEPT !.lists =
       (@ \ {q}) \cup {[q EXCEPT !.permissions = <<store.permission>>]}]
  /\ UNCHANGED <<page, store>>

\* parseFolders: the folders that were found and on which there is a permission.
ParseFolders(q) ==
  [f \in {g \in q.hits[1] : q.permissions[1][g] # "none"} |-> q.permissions[1][f]]

-----------------------------------------------------------------------------
(* AppShellContext.                                                        *)

\* The folder that is active once the list is there: the old one, the default, or the first.
Active(data) ==
  IF DOMAIN data = {} THEN {None}
  ELSE IF page.active \in DOMAIN data THEN {page.active}
  ELSE IF Default \in DOMAIN data THEN {Default} ELSE DOMAIN data

\* An answer that counts is shown, and a folder that was not active before is stored.
FoldersAnswered(q) ==
  /\ q.hits # None /\ q.permissions # None
  /\ calls' = [calls EXCEPT !.lists = @ \ {q}]
  /\ IF q.current
     THEN \E active \in Active(ParseFolders(q)) :
            /\ page' = [page EXCEPT !.active = active, !.list =
                 [status |-> "success", data |-> ParseFolders(q), fresh |-> q.since]]
            /\ store' = [store EXCEPT !.persisted =
                 IF active = page.active /\ active # None THEN @ ELSE active]
     ELSE UNCHANGED <<page, store>>

FoldersFail(q) ==
  /\ calls' = [calls EXCEPT !.lists = @ \ {q}]
  /\ page' = IF q.current THEN [page EXCEPT !.list = [status |-> "error"]] ELSE page
  /\ UNCHANGED store

\* Fault: the request under way still counts until the effect has run.
RefreshLater(rest) ==
  /\ page' = [page EXCEPT !.list = [status |-> "loading"], !.due = TRUE]
  /\ calls' = rest

\* refreshFolders: the request under way no longer counts; the effect will send another.
RefreshFolders(rest) ==
  /\ page' = [page EXCEPT !.list = [status |-> "loading"], !.due = TRUE]
  /\ calls' = [rest EXCEPT !.lists = {[q EXCEPT !.current = FALSE] : q \in @}]

\* The effect gives up the request it sent before and sends another.
EffectRuns ==
  /\ page.due
  /\ page' = [page EXCEPT !.due = FALSE]
  /\ calls' = [calls EXCEPT !.lists = {ListRequest}]
  /\ UNCHANGED store

\* The tab is loaded again: the folder of the storage, one of the old name, or the default.
Mount ==
  /\ \E active \in Uids :
       /\ active = IF store.persisted # None THEN store.persisted
                   ELSE IF store.legacy # None THEN store.legacy ELSE Default
       /\ page' = [list |-> [status |-> "loading"], active |-> active, due |-> TRUE, open |-> FALSE]
  /\ calls' = [lists |-> {}, requests |-> {}]
  /\ store' = [store EXCEPT !.persisted = IF @ = None THEN store.legacy ELSE @]

-----------------------------------------------------------------------------
(* FolderDropdown.                                                         *)

ToggleDropdown ==
  /\ page' = [page EXCEPT !.open = ~@]
  /\ UNCHANGED <<calls, store>>

\* A choice closes the dropdown; only a folder of the list is taken.
Choose ==
  /\ page.open /\ Showing
  /\ \E f \in DOMAIN page.list.data :
       /\ page' = [page EXCEPT !.open = FALSE, !.active = f]
       /\ store' = [store EXCEPT !.persisted = f]
  /\ UNCHANGED calls

PressRefresh ==
  /\ page.open
  /\ RefreshFolders(calls)
  /\ UNCHANGED store

-----------------------------------------------------------------------------
(* ResourceClient.                                                         *)

\* What a request of each kind can end with.
Outcomes(kind) ==
  {"data", "cancelled", "problem", "refused"} \cup (IF kind = "requestVoid" THEN {} ELSE {"invalid"})

Request ==
  /\ ActiveFolder # None
  /\ Cardinality(calls.requests) < MaxRequests
  /\ calls' = [calls EXCEPT !.requests = @ \cup {ActiveFolder}]
  /\ UNCHANGED <<page, store>>

\* The page hears of its request for the folder r; a refusal is reported to the shell first, which asks for
\* the folders if it is about the active one.
Ends(r) ==
  LET rest == [calls EXCEPT !.requests = @ \ {r}]
  IN  /\ r \in calls.requests
      /\ UNCHANGED store
      /\ \E kind \in Kinds : \E outcome \in Outcomes(kind) :
           IF outcome = "refused" /\ r = page.active
           THEN RefreshFolders([rest EXCEPT !.lists = {[q EXCEPT !.since = FALSE] : q \in @}])
           ELSE calls' = rest /\ UNCHANGED page

-----------------------------------------------------------------------------
\* Grafana: an administrator changes what there is and what the user may do.
GrafanaChanges ==
  /\ \E f \in Folders :
       \/ \E permission \in Permissions : store' = [store EXCEPT !.permission[f] = permission]
       \/ store' = [store EXCEPT !.folders = IF f \in @ THEN @ \ {f} ELSE @ \cup {f}]
  /\ UNCHANGED <<page, calls>>

Init ==
  /\ \E persisted, legacy \in Uids \cup {None} :
       store = [folders |-> Folders, permission |-> [f \in Folders |-> "Edit"],
                persisted |-> persisted, legacy |-> legacy]
  /\ page = [list |-> [status |-> "loading"], active |-> None, due |-> FALSE, open |-> FALSE]
  /\ calls = [lists |-> {}, requests |-> {}]

Next ==
  \/ Mount \/ EffectRuns \/ ToggleDropdown \/ Choose \/ PressRefresh \/ Request
  \/ \E q \in calls.lists :
       SearchServed(q) \/ PermissionsServed(q) \/ FoldersAnswered(q) \/ FoldersFail(q)
  \/ \E r \in calls.requests : Ends(r)
  \/ GrafanaChanges

Spec == Init /\ [][Next]_vars

-----------------------------------------------------------------------------
(* Properties.                                                             *)

\* The active folder is one the list shows, and the storage has no other.
TypeOK ==
  /\ page.active \in Uids \cup {None}
  /\ page.list.status \in {"loading", "success", "error"}
  /\ Showing =>
       /\ ActiveFolder = None => DOMAIN page.list.data = {}
       /\ store.persisted \in {page.active, None}
  /\ page.due \in BOOLEAN /\ page.open \in BOOLEAN
  /\ calls.requests \subseteq Folders
  /\ store.folders \subseteq Folders /\ store.permission \in [Folders -> Permissions]

\* After a refusal for the active folder the shell shows only folders it has asked for since:
\* an older answer, under way when the refusal came, does not bring the permissions back.
ShownAfterRefusal == Showing => page.list.fresh

=============================================================================
