--------------------------- MODULE GovernancePages ---------------------------
(***************************************************************************)
(* The pages of approvals and of the audit log (features/approvals and     *)
(* features/audit) over their fixture gateways, which keep their data in   *)
(* the storage of the browser tab: one key for the resources that are to   *)
(* be shared, one for the approvals and one for the audit log.             *)
(*                                                                         *)
(* A request is a delay that reads the storage when it is over; one that   *)
(* is aborted never does.  A decision writes three keys one after another  *)
(* and puts the old values back when the storage is full; these take no    *)
(* more room than what is there, so putting them back succeeds.  Titles,   *)
(* drafts, the preview, the type of a resource, the summary and the        *)
(* content of an exported file are left out.                               *)
(***************************************************************************)
EXTENDS Naturals, FiniteSets

CONSTANTS
  Folders,   \* the folders of the user
  Admins,    \* those he is Admin of
  Items,     \* the approvals, each for a resource of its own
  Target,    \* the folder an approval is for
  None

\* What the constants must be (assumed in PluginPages).
Parameters ==
  /\ Admins \subseteq Folders
  /\ Target \in [Items -> Folders]
  /\ None \notin Folders \cup Items

VARIABLES
  page,   \* the state of the components on the page
  calls,  \* the unanswered requests
  store   \* the storage, by its keys

vars == <<page, calls, store>>

Queries == [status: {None, "pending", "approved", "rejected"}, folder: Folders \cup {None}]
AuditQueries == {None, "ok", "rejected"}

Loading == [status |-> "loading"]
Failed == [status |-> "error"]
Showing == page.at = "approvals" /\ page.list.status = "success"

Matches(i, q) ==
  /\ q.status # None => store.approvals[i].status = q.status
  /\ q.folder # None => Target[i] = q.folder

\* effectiveQuery: a folder the user no longer has is no filter.
Effective(query, folders) ==
  IF query.folder \in folders THEN query ELSE [query EXCEPT !.folder = None]

Asked == Effective(page.query, page.folders)

-----------------------------------------------------------------------------
(* The list of approvals.                                                  *)

\* A load of the effect is aborted with its query; the one after a decision is not.
Invalidated(lists) == {[q EXCEPT !.current = FALSE] : q \in {l \in lists : l.decided}}

\* The scope of the page becomes another one: its dialog is closed.
Rescope(query, folders) ==
  LET same == Effective(query, folders) = Asked
      next == [page EXCEPT !.query = query, !.folders = folders]
  IN  /\ page' = IF same THEN next
                 ELSE [next EXCEPT !.timer = TRUE, !.rejecting = None]
      /\ calls' = IF same THEN calls ELSE [calls EXCEPT !.lists = Invalidated(@)]
      /\ UNCHANGED store

SelectQuery ==
  /\ Showing
  /\ \E query \in Queries :
       /\ query # page.query
       /\ query.folder \in page.folders \cup {None}
       /\ Rescope(query, page.folders)

FoldersChange ==
  /\ page.at = "approvals"
  /\ \E folders \in SUBSET Folders : folders # page.folders /\ Rescope(page.query, folders)

Request(query, decided) == [current |-> TRUE, query |-> query, decided |-> decided]

\* load: another request makes those before it old.
Older(lists) == {[q EXCEPT !.current = FALSE] : q \in lists}

\* The timer of the effect, or the button after an error.
LoadApprovals ==
  /\ page.at = "approvals"
  /\ page.timer \/ page.list.status = "error"
  /\ page' = [page EXCEPT !.list = Loading, !.timer = FALSE]
  /\ calls' = [calls EXCEPT !.lists = Older(@) \cup {Request(Asked, FALSE)}]
  /\ UNCHANGED store

\* The decision that waits for its list is over with it.
ApprovalsAnswered(q) ==
  LET found == {[id |-> i, version |-> store.approvals[i].version,
                 status |-> store.approvals[i].status] : i \in {j \in Items : Matches(j, q.query)}}
      shown == [status |-> "success", query |-> q.query, data |-> found]
  IN  /\ q \in calls.lists
      /\ \E list \in {shown, Failed} :
           page' = [page EXCEPT !.list = IF q.current THEN list ELSE @,
                                !.busy = IF q.decided THEN None ELSE @]
      /\ calls' = [calls EXCEPT !.lists = @ \ {q}]
      /\ UNCHANGED store

-----------------------------------------------------------------------------
(* Decisions.                                                              *)

MayDecide(item) ==
  /\ page.busy = None
  /\ Target[item.id] \in Admins \cap page.folders

Decide(item, as) ==
  /\ MayDecide(item)
  /\ page' = [page EXCEPT !.busy = item.id]
  /\ calls' = [calls EXCEPT !.decision = [item |-> item, as |-> as, query |-> Asked]]
  /\ UNCHANGED store

\* The cards of the list and the dialog that asks for a reason.
OnApprovals ==
  /\ Showing
  /\ \/ \E item \in page.list.data :
          /\ item.status = "pending"
          /\ \/ Decide(item, "approved")
             \/ /\ MayDecide(item)
                /\ page' = [page EXCEPT !.rejecting = item]
                /\ UNCHANGED <<calls, store>>
     \/ page.rejecting # None /\ Decide(page.rejecting, "rejected")
     \/ /\ page.rejecting # None
        /\ page' = [page EXCEPT !.rejecting = None]
        /\ UNCHANGED <<calls, store>>

\* The approval is as the page had it, and an approved resource is still private.
Acceptable(d) ==
  /\ store.approvals[d.item.id].status = "pending"
  /\ store.approvals[d.item.id].version = d.item.version
  /\ Target[d.item.id] \in Admins
  /\ d.as = "approved" => store.resources[d.item.id] = "private"

\* The keys that a decision writes, in this order.
KeysOf(d) ==
  IF d.as = "approved" THEN <<"resources", "approvals", "audit">> ELSE <<"approvals", "audit">>

Decided(d) ==
  [resources |-> IF d.as = "approved" THEN [store.resources EXCEPT ![d.item.id] = "shared"]
                 ELSE store.resources,
   approvals |-> [store.approvals EXCEPT ![d.item.id] =
                    [status |-> d.as, version |-> d.item.version + 1]],
   audit |-> store.audit \cup {[item |-> d.item.id, outcome |-> d.as]}]

\* The first n keys are written.
WrittenUpTo(d, n) ==
  LET keys == {KeysOf(d)[k] : k \in 1 .. n}
  IN  [key \in DOMAIN store |-> IF key \in keys THEN Decided(d)[key] ELSE store[key]]

\* Fault: the resource is not among the values that are kept.
RestoredPartly(now, d) ==
  [key \in DOMAIN now |-> IF key \in {"approvals", "audit"} THEN store[key] ELSE now[key]]

Restored(now, d) ==
  LET keys == {KeysOf(d)[k] : k \in DOMAIN KeysOf(d)}
  IN  [key \in DOMAIN now |-> IF key \in keys THEN store[key] ELSE now[key]]

\* Fault: the list that is asked for is the one of the click.
ReloadOfClick(d) == d.query

\* The list that is asked for is the one of the query there is now.
Reload(d) == Asked

DecisionAnswered ==
  LET d == calls.decision
  IN  /\ d # None
      /\ Acceptable(d)
      /\ store' = Decided(d)
      /\ page' = [page EXCEPT !.list = Loading,
                              !.rejecting = IF d.as = "rejected" THEN None ELSE @]
      /\ calls' = [calls EXCEPT !.decision = None,
                                !.lists = Older(@) \cup {Request(Reload(d), TRUE)}]

\* The decision is refused, or the storage is full at one of its keys.
DecisionFails ==
  LET d == calls.decision
  IN  /\ d # None
      /\ \/ ~Acceptable(d) /\ UNCHANGED store
         \/ /\ Acceptable(d)
            /\ \E n \in 0 .. 2 :
                 /\ n \in 0 .. Cardinality(DOMAIN KeysOf(d)) - 1
                 /\ store' = Restored(WrittenUpTo(d, n), d)
      /\ page' = [page EXCEPT !.busy = None]
      /\ calls' = [calls EXCEPT !.decision = None]

-----------------------------------------------------------------------------
(* The audit log.                                                          *)

SelectAudit ==
  /\ page.at = "audit"
  /\ \E query \in AuditQueries \ {page.search} :
       page' = [page EXCEPT !.search = query, !.timer = TRUE]
  /\ calls' = [calls EXCEPT !.audit = FALSE]
  /\ UNCHANGED store

Found(query) == {e \in store.audit : query # None => (e.outcome = "approved") = (query = "ok")}

\* The timer of the effect, or the button beside an error; the table stays until the answer.
LoadAudit ==
  /\ page.at = "audit"
  /\ page.timer \/ page.failed
  /\ page' = [page EXCEPT !.timer = FALSE]
  /\ calls' = [calls EXCEPT !.audit = TRUE]
  /\ UNCHANGED store

AuditAnswered ==
  /\ calls.audit
  /\ \/ page' = [page EXCEPT !.table = [events |-> Found(page.search), query |-> page.search],
                              !.failed = FALSE]
     \/ page' = [page EXCEPT !.failed = TRUE]
  /\ calls' = [calls EXCEPT !.audit = FALSE]
  /\ UNCHANGED store

\* One export at a time, of the query of the click.
ExportCsv ==
  /\ page.at = "audit"
  /\ calls.export = None
  /\ page' = [page EXCEPT !.failed = FALSE]
  /\ calls' = [calls EXCEPT !.export = [query |-> page.search]]
  /\ UNCHANGED store

ExportAnswered ==
  /\ calls.export # None
  /\ \E failed \in {page.failed, TRUE} : page' = [page EXCEPT !.failed = failed]
  /\ calls' = [calls EXCEPT !.export = None]
  /\ UNCHANGED store

-----------------------------------------------------------------------------
Fresh(at) ==
  [at |-> at, folders |-> Folders, query |-> [status |-> "pending", folder |-> None],
   list |-> Loading, timer |-> TRUE, busy |-> None, rejecting |-> None,
   search |-> None, table |-> None, failed |-> FALSE]

NoCalls == [lists |-> {}, decision |-> None, audit |-> FALSE, export |-> None]

\* The other page is mounted; what this one has asked is aborted.
GoTo ==
  /\ page' = Fresh(IF page.at = "audit" THEN "approvals" ELSE "audit")
  /\ calls' = NoCalls
  /\ UNCHANGED store

\* A resource may have been shared or deleted by its own page.
Init ==
  /\ page = Fresh("approvals")
  /\ calls = NoCalls
  /\ \E resources \in [Items -> {"private", "gone"}] :
       store = [resources |-> resources,
                approvals |-> [i \in Items |-> [status |-> "pending", version |-> 1]],
                audit |-> {}]

Next ==
  \/ SelectQuery \/ FoldersChange \/ LoadApprovals
  \/ \E q \in calls.lists : ApprovalsAnswered(q)
  \/ OnApprovals \/ DecisionAnswered \/ DecisionFails
  \/ SelectAudit \/ LoadAudit \/ AuditAnswered \/ ExportCsv \/ ExportAnswered
  \/ GoTo

Spec == Init /\ [][Next]_vars

-----------------------------------------------------------------------------
(* Properties.                                                             *)

TypeOK ==
  /\ page.at \in {"approvals", "audit"}
  /\ page.query \in Queries /\ page.folders \subseteq Folders
  /\ page.list.status \in {"loading", "error", "success"}
  /\ page.busy \in Items \cup {None}
  /\ calls.decision # None => page.busy = calls.decision.item.id
  /\ \A i \in Items : store.approvals[i].status \in {"pending", "approved", "rejected"}

\* The list on the page is the one of its filters, whatever decision was under way when the
\* filters or the folders of the user changed.
ListIsOfQuery ==
  Showing /\ ~page.timer => page.list.query = Asked

\* A decision is made as a whole or not at all, wherever the storage fails: the resource is
\* shared just when its approval was approved, and the audit log has just what was decided.
DecisionIsWhole ==
  /\ \A i \in Items : store.resources[i] = "shared" <=> store.approvals[i].status = "approved"
  /\ store.audit = {[item |-> i, outcome |-> store.approvals[i].status] :
                      i \in {j \in Items : store.approvals[j].status # "pending"}}

\* The comment above the effect of ApprovalsPage: a dialog is closed with its scope, "so a
\* user cannot submit an item from the previous Folder/status view".
RejectingIsOfScope ==
  Showing /\ ~page.timer /\ page.rejecting # None => page.rejecting \in page.list.data

=============================================================================
