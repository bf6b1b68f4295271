--------------------------- MODULE FixtureKnowledge --------------------------
(***************************************************************************)
(* The knowledge page without a Control Plane: LegacyKnowledgePage and     *)
(* useKnowledgeController over fixtureKnowledgeGateway, which keeps        *)
(* services, runbooks, documents and import tasks in the session storage.  *)
(*                                                                         *)
(* Every call of the gateway waits the same time before it works on the    *)
(* storage at one stroke, so calls are answered in the order they were     *)
(* made: calls is a queue.  An import goes on by itself, in steps of equal *)
(* length.  The controller tells what still counts by numbers it raises;   *)
(* here a call carries the outcome of the comparison: live while its       *)
(* mutation is the last one of the folder, fresh while its snapshot is the *)
(* last one asked for.                                                     *)
(*                                                                         *)
(* Runbooks and documents are items that may name a service.  Texts,       *)
(* search and the folders one may only view, where nothing can be written, *)
(* are left out; so is the retry of a failed task, since no import of this *)
(* gateway fails.                                                          *)
(***************************************************************************)
EXTENDS Naturals, Sequences, FiniteSets

CONSTANTS
  Folders,     \* the folders the user may write to
  MaxServices, \* bound: services ever created
  MaxItems,    \* bound: runbooks and documents ever created
  MaxTasks,    \* bound: import tasks ever created
  MaxVersion,  \* bound: saves of one record
  MaxCalls,    \* bound: calls waiting when the user makes another one
  None

\* What the constants must be (assumed in PluginPages).
Parameters ==
  /\ {MaxServices, MaxItems, MaxTasks, MaxCalls} \subseteq Nat
  /\ MaxVersion \in Nat \ {0}
  /\ None \notin Folders

VARIABLES
  page,  \* the state and the refs of the page and its controller
  calls, \* the calls of the gateway, in their order
  store  \* the session storage

vars == <<page, calls, store>>

Services == 1 .. MaxServices
Items == 1 .. MaxItems
Tasks == 1 .. MaxTasks

Absent == [is |-> "none", folder |-> None, version |-> 0, service |-> None]
New(is, f, service) == [is |-> is, folder |-> f, version |-> 1, service |-> service]

\* snapshot(): what the storage has of a folder.
View(at, f) ==
  [folder |-> f,
   service |-> {[id |-> s, version |-> at.service[s].version] :
                  s \in {s \in Services : at.service[s].folder = f}},
   item |-> {[id |-> i, version |-> at.item[i].version, is |-> at.item[i].is] :
               i \in {i \in Items : at.item[i].folder = f}},
   task |-> [t \in {t \in Tasks : at.task[t].folder = f} |-> at.task[t].status]]

Call(kind, id, version, service) ==
  [kind |-> kind, id |-> id, version |-> version, service |-> service,
   live |-> TRUE, fresh |-> TRUE]

Stale(q) == [i \in DOMAIN q |-> [q[i] EXCEPT !.fresh = FALSE]]
Dead(q) == [i \in DOMAIN q |-> [q[i] EXCEPT !.live = FALSE]]
Calm == Len(calls) < MaxCalls

Showing == page.snapshot.status = "success" /\ page.snapshot.data.folder = page.folder
Shown == page.snapshot.data

\* No event of the imports under way is shown any more.
Mute(streams) == [i \in DOMAIN streams |-> [streams[i] EXCEPT !.live = FALSE]]

Without(q, i) == [j \in 1 .. Len(q) - 1 |-> q[IF j < i THEN j ELSE j + 1]]

\* At most one snapshot is under way, and one stream is held: the others are broken off.
Aborted(q) ==
  LET at == {i \in DOMAIN q : q[i].kind = "snapshot"}
  IN  IF at = {} THEN q ELSE Without(q, CHOOSE i \in at : TRUE)
Released(streams) ==
  LET at == {i \in DOMAIN streams : streams[i].held}
  IN  IF at = {} THEN streams ELSE Without(streams, CHOOSE i \in at : TRUE)
Disowned(streams) == [i \in DOMAIN streams |-> [streams[i] EXCEPT !.own = FALSE]]

-----------------------------------------------------------------------------
(* The controller.                                                         *)

\* Another folder: everything under way is given up, and a snapshot asked for.
SelectFolder(f) ==
  /\ f # page.folder
  /\ Calm
  /\ page' = [page EXCEPT !.folder = f, !.snapshot = [status |-> "loading"],
                !.mutation = "idle", !.importing = FALSE, !.dialog = None, !.reading = 0,
                !.streams = Disowned(Mute(Released(@)))]
  /\ calls' = Append(Dead(Stale(Aborted(calls))), Call("snapshot", f, 0, None))
  /\ UNCHANGED store

\* mutate: the number of the call is the last one from now on.
Mutate(p, c) ==
  /\ Calm
  /\ page' = [p EXCEPT !.mutation = "loading", !.streams = Mute(@)]
  /\ calls' = Append(Dead(calls), c)
  /\ UNCHANGED store

\* The operation of mutate has ended well; if it still counts the snapshot is read again.
Written(c) ==
  IF c.live
  THEN /\ page' = [page EXCEPT !.snapshot = [status |-> "loading"]]
       /\ calls' = Append(Stale(Tail(calls)),
                          Call(IF c.kind \in {"cancel task", "delete task"}
                               THEN "load" ELSE "load for dialog", page.folder, 0, None))
  ELSE UNCHANGED page /\ calls' = Tail(calls)

Refused(c) ==
  /\ page' = IF c.live THEN [page EXCEPT !.mutation = "error"] ELSE page
  /\ calls' = Tail(calls)
  /\ UNCHANGED store

\* load, alone or at the end of a mutation, which then closes its dialog.
LoadAnswered ==
  LET c == Head(calls)
      p == IF c.fresh
           THEN [page EXCEPT !.snapshot = [status |-> "success", data |-> View(store, c.id)]]
           ELSE page
  IN  /\ calls # <<>>
      /\ c.kind \in {"snapshot", "load", "load for dialog"}
      /\ page' = CASE c.kind = "load" /\ c.live -> [p EXCEPT !.mutation = "success"]
                   [] c.kind = "load for dialog" /\ c.live ->
                        [p EXCEPT !.mutation = "success", !.dialog = None]
                   [] OTHER -> p
      /\ calls' = Tail(calls)
      /\ UNCHANGED store

\* resetMutation: the cross of the message.
ResetMutation ==
  /\ page.mutation = "error"
  /\ page' = [page EXCEPT !.mutation = "idle", !.streams = Mute(@)]
  /\ calls' = Dead(calls)
  /\ UNCHANGED store

-----------------------------------------------------------------------------
(* Dialogs.  While a mutation is under way they can be neither sent nor    *)
(* closed.  A dialog keeps the record, with its version, it was opened on, *)
(* and one that creates a record the folder.                               *)

DialogsOn(kind, records, service) ==
  {Call(kind, r.id, r.version, service) : r \in records}

ServiceDialogs ==
  {Call("create service", page.folder, 0, None)}
    \cup DialogsOn("save service", Shown.service, None)
    \cup DialogsOn("delete service", Shown.service, None)

RunbookDialogs(service) ==
  LET runbooks == {i \in Shown.item : i.is = "runbook"}
  IN  {Call("create runbook", page.folder, 0, service)}
        \cup DialogsOn("save runbook", runbooks, service)
        \cup DialogsOn("delete runbook", runbooks, service)

DocumentDialogs(service) ==
  LET documents == {i \in Shown.item : i.is = "document"}
  IN  DialogsOn("save document", documents, service)
        \cup DialogsOn("delete document", documents, service)

ReviewDialogs(service) ==
  {Call("confirm task", t, 0, service) :
     t \in {t \in DOMAIN Shown.task : Shown.task[t] = "reviewing"}}

OpenDialog ==
  /\ Showing /\ page.dialog = None
  /\ \E service \in {None} \cup {s.id : s \in Shown.service} :
       \E d \in ServiceDialogs \cup RunbookDialogs(service) \cup DocumentDialogs(service)
                \cup ReviewDialogs(service) :
         page' = [page EXCEPT !.dialog = d]
  /\ UNCHANGED <<calls, store>>

CloseDialog ==
  /\ page.dialog # None
  /\ page.mutation # "loading"
  /\ page' = [page EXCEPT !.dialog = None]
  /\ UNCHANGED <<calls, store>>

SubmitDialog ==
  /\ page.dialog # None
  /\ page.mutation # "loading"
  /\ Mutate(page, page.dialog)

-----------------------------------------------------------------------------
(* The gateway.                                                            *)

Unused(records) == {r \in DOMAIN records : records[r] = Absent}
First(ids) == {r \in ids : \A q \in ids : r <= q}

\* A save or a deletion is for a record that is there, in the version it was seen in.
Fits(record, c) == record # Absent /\ record.version = c.version

\* createService: a name that is taken, or not a name, is refused.
CreateService(c) ==
  /\ c.kind = "create service"
  /\ \/ /\ \E s \in First(Unused(store.service)) : store' = [store EXCEPT !.service[s] = New("service", c.id, None)]
        /\ Written(c)
     \/ Refused(c)

UpdateService(c) ==
  /\ c.kind = "save service"
  /\ \/ /\ Fits(store.service[c.id], c)
        /\ store' = [store EXCEPT !.service[c.id].version = @ + 1]
        /\ Written(c)
     \/ Refused(c)

Unlinked(items, s) ==
  [i \in Items |-> IF items[i].service = s THEN [items[i] EXCEPT !.service = None] ELSE items[i]]

DeleteService(c) ==
  /\ c.kind = "delete service"
  /\ IF Fits(store.service[c.id], c)
     THEN /\ store' = [store EXCEPT !.service[c.id].folder = None,
                                    !.item = Unlinked(@, c.id)]
          /\ Written(c)
     ELSE Refused(c)

\* The service is taken as it comes.
CreateRunbook(c) ==
  /\ c.kind = "create runbook"
  /\ \/ /\ \E i \in First(Unused(store.item)) :
             store' = [store EXCEPT !.item[i] = New("runbook", c.id, c.service)]
        /\ Written(c)
     \/ Refused(c)

SaveItem(c) ==
  \/ /\ Fits(store.item[c.id], c)
     /\ store' = [store EXCEPT !.item[c.id].version = @ + 1, !.item[c.id].service = c.service]
     /\ Written(c)
  \/ Refused(c)

RemoveItem(c) ==
  IF Fits(store.item[c.id], c)
  THEN /\ store' = [store EXCEPT !.item[c.id].folder = None, !.item[c.id].service = None]
       /\ Written(c)
  ELSE Refused(c)

UpdateRunbook(c) == c.kind = "save runbook" /\ SaveItem(c)
DeleteRunbook(c) == c.kind = "delete runbook" /\ RemoveItem(c)
UpdateDocument(c) == c.kind = "save document" /\ SaveItem(c)
DeleteDocument(c) == c.kind = "delete document" /\ RemoveItem(c)

\* confirmImport: every file that could be read becomes a document (here one at most).
ConfirmImport(c) ==
  /\ c.kind = "confirm task"
  /\ IF store.task[c.id].status = "reviewing"
     THEN /\ \/ store' = [store EXCEPT !.task[c.id].status = "done"]
             \/ \E i \in First(Unused(store.item)) :
                  store' = [store EXCEPT !.task[c.id].status = "done",
                              !.item[i] = New("document", store.task[c.id].folder, c.service)]
          /\ Written(c)
     ELSE Refused(c)

\* cancelImport: whatever the task is doing.
CancelImport(c) ==
  /\ c.kind = "cancel task"
  /\ IF store.task[c.id].folder # None
     THEN store' = [store EXCEPT !.task[c.id].status = "cancelled"] /\ Written(c)
     ELSE Refused(c)

DeleteImportTask(c) ==
  /\ c.kind = "delete task"
  /\ IF store.task[c.id].folder # None /\ store.task[c.id].status # "parsing"
     THEN store' = [store EXCEPT !.task[c.id].folder = None] /\ Written(c)
     ELSE Refused(c)

Answered ==
  /\ calls # <<>>
  /\ LET c == Head(calls)
     IN  \/ CreateService(c) \/ UpdateService(c) \/ DeleteService(c)
         \/ CreateRunbook(c) \/ UpdateRunbook(c) \/ DeleteRunbook(c)
         \/ UpdateDocument(c) \/ DeleteDocument(c)
         \/ ConfirmImport(c) \/ CancelImport(c) \/ DeleteImportTask(c)

-----------------------------------------------------------------------------
(* Imports.                                                                *)

\* beginImport: the files are read first.  Nothing stops the user from choosing more files.
BeginImport ==
  /\ Showing /\ page.dialog = None
  /\ ~page.importing
  /\ page.reading < 2
  /\ page' = [page EXCEPT !.reading = @ + 1]
  /\ UNCHANGED <<calls, store>>

\* publishImportTask
Publish(snapshot, t, f, status) ==
  IF snapshot.status = "success" /\ snapshot.data.folder = f
  THEN [snapshot EXCEPT !.data.task =
          [u \in DOMAIN @ \cup {t} |-> IF u = t THEN status ELSE @[u]]]
  ELSE snapshot

\* startImport; importing was false when the files were chosen.
StartImport(t) ==
  /\ page.reading > 0
  /\ store.task[t].status = "none"
  /\ \A u \in 1 .. t - 1 : store.task[u].status # "none"
  /\ store' = [store EXCEPT !.task[t] = [folder |-> page.folder, status |-> "parsing"]]
  /\ page' = [page EXCEPT !.reading = @ - 1, !.importing = TRUE, !.mutation = "loading",
                !.snapshot = Publish(@, t, page.folder, "parsing"),
                !.streams = Append(
                  [i \in DOMAIN @ |-> [@[i] EXCEPT !.live = FALSE, !.own = FALSE, !.held = FALSE]],
                  [task |-> t, folder |-> page.folder, at |-> 10,
                   own |-> TRUE, live |-> TRUE, held |-> TRUE])]
  /\ calls' = Dead(calls)

\* progressImport: a step of a task takes as long as that of another.
Next45(i) ==
  /\ page.streams[i].at = 10
  /\ \A j \in 1 .. i - 1 : page.streams[j].at # 10
  /\ page' = [page EXCEPT !.streams[i].at = 45]
  /\ store' = [store EXCEPT !.task[page.streams[i].task] =
                 [folder |-> page.streams[i].folder, status |-> "parsing"]]
  /\ UNCHANGED calls

\* The finally block of startImport.
Settle(p, s) == IF s.own THEN [p EXCEPT !.importing = FALSE] ELSE p

\* The last event, and the end of the loop.
Reviewing(i) ==
  LET s == page.streams[i]
      p == [page EXCEPT !.streams = Without(@, i),
              !.snapshot = IF s.own /\ s.live THEN Publish(@, s.task, s.folder, "reviewing") ELSE @,
              !.mutation = IF s.own /\ s.live THEN "success" ELSE @]
  IN  /\ s.at = 45
      /\ \A j \in 1 .. i - 1 : page.streams[j].at # 45
      /\ page' = Settle(p, s)
      /\ store' = [store EXCEPT !.task[s.task] = [folder |-> s.folder, status |-> "reviewing"]]
      /\ UNCHANGED calls

\* The button of a task shown as parsing while the page knows of no import: one a change
\* of folder has broken off.  stopImport goes first.
CancelTask(t) ==
  /\ Showing /\ page.dialog = None
  /\ t \in DOMAIN Shown.task /\ Shown.task[t] = "parsing"
  /\ ~page.importing
  /\ Mutate([page EXCEPT !.streams = Disowned(Released(@))], Call("cancel task", t, 0, None))

DeleteTask(t) ==
  /\ Showing /\ page.dialog = None
  /\ t \in DOMAIN Shown.task /\ Shown.task[t] # "parsing"
  /\ Mutate(page, Call("delete task", t, 0, None))

-----------------------------------------------------------------------------
Init ==
  \E f \in Folders :
    /\ page = [folder |-> f, snapshot |-> [status |-> "loading"], mutation |-> "idle",
               importing |-> FALSE, dialog |-> None, reading |-> 0, streams |-> <<>>]
    /\ calls = <<Call("snapshot", f, 0, None)>>
    /\ store = [service |-> [s \in Services |->
                  IF s = 1 THEN New("service", f, None) ELSE Absent],
                item |-> [i \in Items |-> Absent],
                task |-> [t \in Tasks |-> [folder |-> None, status |-> "none"]]]

Bounded ==
  /\ \A s \in Services : store'.service[s].version <= MaxVersion
  /\ \A i \in Items : store'.item[i].version <= MaxVersion

Next ==
  \/ \E f \in Folders : SelectFolder(f)
  \/ LoadAnswered \/ ResetMutation
  \/ OpenDialog \/ CloseDialog \/ SubmitDialog
  \/ Answered /\ Bounded
  \/ BeginImport
  \/ \E t \in Tasks : StartImport(t) \/ CancelTask(t) \/ DeleteTask(t)
  \/ \E i \in DOMAIN page.streams : Next45(i) \/ Reviewing(i)

Spec == Init /\ [][Next]_vars

-----------------------------------------------------------------------------
(* Properties.                                                             *)

TypeOK ==
  /\ page.folder \in Folders
  /\ page.snapshot.status \in {"loading", "success"}
  /\ page.mutation \in {"idle", "loading", "success", "error"}
  /\ page.importing \in BOOLEAN
  /\ \A s \in Services : store.service[s].version \in 0 .. MaxVersion
  /\ \A t \in Tasks :
       store.task[t].status \in {"none", "parsing", "reviewing", "done", "cancelled"}

\* A dialog can only be sent when the page shows what the storage has, so a save is never
\* refused for a version the user could not have seen.  This is so until an import begins:
\* one whose files were chosen before takes the write of a dialog off the page.
SavesFit ==
  /\ calls # <<>>
  /\ \A t \in Tasks : store.task[t].status = "none"
  => /\ Head(calls).kind = "save service" => Fits(store.service[Head(calls).id], Head(calls))
     /\ Head(calls).kind \in {"save runbook", "save document"} =>
          Fits(store.item[Head(calls).id], Head(calls))

\* What names a service names one that is there, although no call that writes a runbook, a
\* document or an import looks whether its service still exists; again until an import begins.
LinksAreThere ==
  \A i \in Items : (\A t \in Tasks : store.task[t].status = "none") /\ store.item[i].service # None =>
    store.service[store.item[i].service].folder # None

\* A page that says an import is running has one, whose end it will notice.
ImportingHasStream ==
  page.importing => \E i \in DOMAIN page.streams : page.streams[i].own

=============================================================================
