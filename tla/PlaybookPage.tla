---------------------------- MODULE PlaybookPage ----------------------------
(***************************************************************************)
(* The pages of playbooks and of their runs (features/playbooks), over the *)
(* gateway to the Control Plane (resourcePlaybookCrudGateway).             *)
(*                                                                         *)
(* What one route of the page has asked dies with it: its reads are        *)
(* aborted and its writes no longer concern a component (mine).  A list of *)
(* playbooks is only invalidated: a gateway may answer it although it was  *)
(* aborted.  A write that was sent takes effect when it is answered, or    *)
(* when its answer is lost; the deletion and the migration navigate        *)
(* wherever the user is by then.  A read takes its data when it is sent.   *)
(* A render and its effects are immediate.  Dagu and the Control Plane are *)
(* external.  The user is Admin of every folder; the reload of the folder  *)
(* list, the history of the browser, the DAG preview and the values of     *)
(* parameters are left out.                                                *)
(***************************************************************************)
EXTENDS Naturals, Sequences, FiniteSets

CONSTANTS
  Folders,     \* the folders of the user
  MaxKeys,     \* bound: playbooks created in a folder by this page
  MaxEditors,  \* bound: times the editor of a new playbook is opened
  MaxRuns,     \* bound: runs ever started
  MaxCalls,    \* bound: requests under way when the user makes another one
  None

\* What the constants must be (assumed in PluginPages).
Parameters ==
  /\ MaxKeys \in Nat /\ MaxEditors \in 0 .. MaxKeys /\ MaxRuns \in Nat /\ MaxCalls \in Nat
  /\ Folders # {} /\ None \notin Folders \cup {"create"}

VARIABLES
  page,   \* the state of the components on the page
  calls,  \* the unanswered requests, by what they are for
  store   \* Control Plane: the playbooks and the runs

vars == <<page, calls, store>>

Keys == 0 .. MaxKeys
Ids == Folders \X Keys        \* an identifier is made of the folder and the key
Runs == 1 .. MaxRuns
Sources == {"first", "second"}
Terminal == {"succeeded", "failed"}   \* a cancelled run may be retried, like a failed one

Loading == [status |-> "loading"]
Failed == [status |-> "error"]
Shown(data) == [status |-> "success", data |-> data]

Listed(f) == {id \in Ids : id[1] = f /\ store.playbook[id].status \in {"active", "legacy"}}
Readable(id) == id \in Listed(page.folder)

-----------------------------------------------------------------------------
(* Routes.                                                                 *)

\* Fault: the effect of the list does not count its cleanup as a request.
StillCurrent(lists) == lists

\* The cleanup of the effect and the next load both take the number away.
Invalidated(lists) == {[q EXCEPT !.current = FALSE] : q \in lists}

NotMine(writes) == {[w EXCEPT !.mine = FALSE] : w \in writes}

NewEditor(key) == [key |-> key, source |-> "first", saving |-> FALSE]
OldEditor(source) == [key |-> None, source |-> source, saving |-> FALSE]

\* Leave the components of the route and mount those of the next one, if it is another.
Go(p, at, id, writes) ==
  LET editors == p.editors + IF at = "new" THEN 1 ELSE 0
      stays == page.route = at /\ page.id = id /\ page.folder = p.folder
  IN  /\ page' = IF stays THEN p ELSE
           [folder |-> p.folder, route |-> at, id |-> id, editors |-> editors,
            list |-> Loading, timer |-> at = "list", document |-> Loading,
            editor |-> IF at = "new" THEN NewEditor(editors) ELSE None,
            deleting |-> FALSE, migrating |-> FALSE, panel |-> None]
      /\ calls' = IF stays THEN [calls EXCEPT !.writes = writes] ELSE
           [lists |-> Invalidated(calls.lists), writes |-> NotMine(writes),
            document |-> at \in {"detail", "edit"}]

Calm ==
  Cardinality(calls.lists) + Cardinality(calls.writes) < MaxCalls

\* Another folder: the list keeps its data until its timer has run, a new playbook its
\* text; a playbook that was open is asked for in the new folder.
SelectFolder(f) ==
  /\ f # page.folder
  /\ UNCHANGED store
  /\ CASE page.route = "list" ->
            /\ page' = [page EXCEPT !.folder = f, !.timer = TRUE]
            /\ calls' = [calls EXCEPT !.lists = Invalidated(@)]
       [] page.route = "new" -> page' = [page EXCEPT !.folder = f] /\ UNCHANGED calls
       [] OTHER -> Go([page EXCEPT !.folder = f], page.route, page.id, calls.writes)

ToList ==
  /\ page.route # "list"
  /\ UNCHANGED store
  /\ Go(page, "list", None, calls.writes)

\* load: the request carries what the folder has.
Load ==
  /\ \/ page.timer
     \/ page.route = "list" /\ page.list.status = "error" /\ Calm
  /\ page' = [page EXCEPT !.timer = FALSE, !.list = Loading]
  /\ calls' = [calls EXCEPT !.lists =
       Invalidated(@) \cup {[current |-> TRUE, data |-> Listed(page.folder)]}]
  /\ UNCHANGED store

ListAnswered(q) ==
  /\ q \in calls.lists
  /\ calls' = [calls EXCEPT !.lists = @ \ {q}]
  /\ UNCHANGED store
  /\ IF q.current
     THEN \/ page' = [page EXCEPT !.list = Shown(q.data)]
          \/ page' = [page EXCEPT !.list = Failed]
     ELSE UNCHANGED page

OnList == page.route = "list" /\ page.list.status = "success"

OpenPlaybook(id) ==
  /\ OnList
  /\ id \in page.list.data
  /\ UNCHANGED store
  /\ Go(page, "detail", id, calls.writes)

NewPlaybook ==
  /\ OnList
  /\ page.editors < MaxEditors
  /\ UNCHANGED store
  /\ Go(page, "new", None, calls.writes)

\* usePlaybook: the playbook of the route, in the folder of the page.
DocumentAnswered ==
  /\ calls.document
  /\ calls' = [calls EXCEPT !.document = FALSE]
  /\ UNCHANGED store
  /\ \/ /\ Readable(page.id)
        /\ LET playbook == store.playbook[page.id]
           IN  page' = [page EXCEPT !.document = Shown(playbook),
                 !.editor = IF page.route = "edit" THEN OldEditor(playbook.source) ELSE None]
     \/ page' = [page EXCEPT !.document = Failed]

RetryDocument ==
  /\ page.document.status = "error"
  /\ page' = [page EXCEPT !.document = Loading]
  /\ calls' = [calls EXCEPT !.document = TRUE]
  /\ UNCHANGED store

OnDetail == page.route = "detail" /\ page.document.status = "success"
Mutable == OnDetail /\ page.document.data.status = "active"

EditPlaybook ==
  /\ Mutable
  /\ UNCHANGED store
  /\ Go(page, "edit", page.id, calls.writes)

\* The editor goes back to where it was opened.
CancelEdit ==
  /\ page.editor # None
  /\ UNCHANGED store
  /\ IF page.route = "new" THEN Go(page, "list", None, calls.writes)
     ELSE Go(page, "detail", page.id, calls.writes)

-----------------------------------------------------------------------------
(* Writes.                                                                 *)

Write(kind, id) ==
  [kind |-> kind, stage |-> "write", mine |-> TRUE, id |-> id, run |-> None,
   source |-> None, status |-> None]

Edit ==
  /\ page.editor # None
  /\ \E s \in Sources \ {page.editor.source} : page' = [page EXCEPT !.editor.source = s]
  /\ UNCHANGED <<calls, store>>

\* save asks for the validation of the text of the click and then saves that text.
Save ==
  /\ page.editor # None
  /\ ~page.editor.saving
  /\ Calm
  /\ page' = [page EXCEPT !.editor.saving = TRUE]
  /\ calls' = [calls EXCEPT !.writes = @ \cup
       {[(IF page.route = "new" THEN Write("create", <<page.folder, page.editor.key>>)
          ELSE Write("update", page.id))
            EXCEPT !.stage = "validate", !.source = page.editor.source]}]
  /\ UNCHANGED store

Saving(w) == w \in calls.writes /\ w.kind \in {"create", "update"}

Validated(w) ==
  /\ Saving(w) /\ w.stage = "validate" /\ w.mine
  /\ calls' = [calls EXCEPT !.writes = (@ \ {w}) \cup {[w EXCEPT !.stage = "write"]}]
  /\ UNCHANGED <<page, store>>

\* The finally block of the save that is not superseded; the key is kept.
SaveEnds(p) == [p EXCEPT !.editor.saving = FALSE]

\* Fault: a save that fails takes another key.
RekeyedSaveEnds(p) ==
  [p EXCEPT !.editor.saving = FALSE,
            !.editor.key = IF @ = None \/ @ = MaxKeys THEN @ ELSE @ + 1]

SaveFailed(p) == SaveEnds(p)

\* A key names one playbook of a folder: its repetition is accepted only with its text.
Accepted(w) ==
  LET playbook == store.playbook[w.id]
      status == store.run[w.run].status
  IN  CASE w.kind = "create" ->
             playbook.status = "active" => playbook.source = w.source
        [] w.kind = "migrate" -> playbook.status = "legacy"
        [] w.kind \in {"update", "delete", "start"} -> playbook.status = "active"
        [] w.kind = "retry" -> status = "failed"
        [] w.kind = "cancel" -> status \notin Terminal
        [] w.kind = "complete" -> status = "waiting_for_input"
        [] w.kind \in {"approve", "reject", "rewind"} -> status = "waiting_for_approval"

FreshRun ==
  {r \in Runs : store.run[r].status = "none" /\ \A s \in 1 .. r - 1 : store.run[s].status # "none"}

FreshKeys(f) == {id \in Ids : id[1] = f /\ id[2] > MaxEditors /\ store.playbook[id].status = "none"}

\* What the Control Plane has after a write it accepted.
Written(w) ==
  CASE w.kind \in {"create", "update"} ->
         {[store EXCEPT !.playbook[w.id].status = "active", !.playbook[w.id].source = w.source,
                        !.playbook[w.id].by = IF w.kind = "create" THEN w.kind ELSE @]}
    [] w.kind = "migrate" ->
         {[store EXCEPT !.playbook[id] = [status |-> "active", source |-> "first", by |-> w.kind]] :
            id \in FreshKeys(w.id[1])}
    [] w.kind = "delete" -> {[store EXCEPT !.playbook[w.id].status = "deleted"]}
    [] w.kind \in {"start", "retry"} ->
         {[store EXCEPT !.run[r] = [of |-> w.id, status |-> "running"]] : r \in FreshRun}
    [] w.kind \in {"cancel", "reject"} -> {[store EXCEPT !.run[w.run].status = "failed"]}
    [] OTHER -> {[store EXCEPT !.run[w.run].status = "running"]}

Rest(w) == calls.writes \ {w}

SaveAnswered(w) ==
  /\ Saving(w) /\ w.stage = "write"
  /\ Accepted(w)
  /\ store' \in Written(w)
  /\ IF w.mine THEN Go(page, "detail", w.id, Rest(w))
     ELSE calls' = [calls EXCEPT !.writes = Rest(w)] /\ UNCHANGED page

\* Invalid, refused, or done and the answer lost; or aborted with its editor.
SaveFails(w) ==
  /\ Saving(w)
  /\ \/ UNCHANGED store
     \/ w.stage = "write" /\ Accepted(w) /\ store' \in Written(w)
  /\ page' = IF w.mine THEN SaveFailed(page) ELSE page
  /\ calls' = [calls EXCEPT !.writes = Rest(w)]

Delete ==
  /\ Mutable
  /\ ~page.deleting
  /\ Calm
  /\ page' = [page EXCEPT !.deleting = TRUE]
  /\ calls' = [calls EXCEPT !.writes = @ \cup {Write("delete", page.id)}]
  /\ UNCHANGED store

Migrate ==
  /\ OnDetail /\ page.document.data.status = "legacy"
  /\ ~page.migrating
  /\ Calm
  /\ page' = [page EXCEPT !.migrating = TRUE]
  /\ calls' = [calls EXCEPT !.writes = @ \cup {Write("migrate", page.id)}]
  /\ UNCHANGED store

\* The navigation that follows is not tied to the playbook that was open.
DetailWriteAnswered(w) ==
  /\ w \in calls.writes /\ w.kind \in {"delete", "migrate"}
  /\ Accepted(w)
  /\ store' \in Written(w)
  /\ IF w.kind = "delete" THEN Go(page, "list", None, Rest(w))
     ELSE LET new == CHOOSE id \in Ids : store'.playbook[id] # store.playbook[id]
          IN  Go(page, "detail", new, Rest(w))

DetailWriteFails(w) ==
  /\ w \in calls.writes /\ w.kind \in {"delete", "migrate"}
  /\ \/ UNCHANGED store
     \/ Accepted(w) /\ store' \in Written(w)
  /\ page' = IF ~w.mine THEN page
             ELSE IF w.kind = "delete" THEN [page EXCEPT !.deleting = FALSE]
             ELSE [page EXCEPT !.migrating = FALSE]
  /\ calls' = [calls EXCEPT !.writes = Rest(w)]

-----------------------------------------------------------------------------
(* The panel of runs.                                                      *)

Record(r, status) == [id |-> r, status |-> status]

\* The runs of a playbook, the latest first.
RunsOf(id) ==
  SelectSeq([i \in Runs |-> LET r == MaxRuns + 1 - i IN Record(r, store.run[r].status)],
            LAMBDA x : store.run[x.id].of = id)

\* The first run that has not ended is the one that is followed.
Active(runs) ==
  IF \E i \in DOMAIN runs : runs[i].status \notin Terminal
  THEN (SelectSeq(runs, LAMBDA x : x.status \notin Terminal))[1] ELSE None
ActiveId(runs) == IF Active(runs) = None THEN None ELSE Active(runs).id

Follow(r) == [run |-> r, stage |-> IF r = None THEN "done" ELSE "open", status |-> None]

\* The runs on the panel, with the effects of another active run and another latest one.
ShowRuns(panel, runs) ==
  [panel EXCEPT !.runs = runs,
    !.stream = IF ActiveId(runs) = ActiveId(panel.runs) THEN @ ELSE Follow(ActiveId(runs)),
    !.asking = runs # <<>> /\ runs[1].status \in Terminal]

\* upsertRun
Upsert(panel, run) ==
  ShowRuns(panel, <<run>> \o SelectSeq(panel.runs, LAMBDA x : x.id # run.id))

OpenRuns ==
  /\ OnDetail
  /\ page.panel = None
  /\ Calm
  /\ page' = [page EXCEPT !.panel =
       [runs |-> <<>>, listing |-> RunsOf(page.id), loading |-> TRUE, busy |-> FALSE, actionBusy |-> FALSE,
        stream |-> Follow(None), asking |-> FALSE]]
  /\ UNCHANGED <<calls, store>>

RunWrites == {w \in calls.writes : w.kind \notin {"create", "update", "delete", "migrate"}}

\* Another tab: the panel is unmounted, and with it everything it has asked.
CloseRuns ==
  /\ page.panel # None
  /\ page' = [page EXCEPT !.panel = None]
  /\ calls' = [calls EXCEPT !.writes = (@ \ RunWrites) \cup NotMine(RunWrites)]
  /\ UNCHANGED store

RunsAnswered ==
  /\ page.panel # None
  /\ page.panel.loading
  /\ UNCHANGED <<calls, store>>
  /\ \/ page' = [page EXCEPT !.panel =
          [ShowRuns(page.panel, page.panel.listing) EXCEPT !.loading = FALSE, !.listing = <<>>]]
     \/ page' = [page EXCEPT !.panel.loading = FALSE, !.panel.listing = <<>>]

Stage(stage, status) ==
  page' = [page EXCEPT !.panel.stream.stage = stage, !.panel.stream.status = status]

\* The stream of the active run: an event asks for a snapshot; a stream that ends or
\* breaks is followed by one more read, and by nothing.
StreamMoves ==
  /\ page.panel # None
  /\ UNCHANGED <<calls, store>>
  /\ LET stream == page.panel.stream
         now == store.run[stream.run].status
     IN  \/ stream.stage = "open" /\ Stage("snapshot", now)
         \/ stream.stage = "open" /\ \E last \in {"last", "fallback"} : Stage(last, now)
         \/ stream.stage \in {"snapshot", "last"} /\ Stage("fallback", now)
         \/ stream.stage = "fallback" /\ Stage("done", None)

SnapshotAnswered ==
  /\ page.panel # None
  /\ page.panel.stream.stage \in {"snapshot", "last", "fallback"}
  /\ UNCHANGED <<calls, store>>
  /\ LET stream == page.panel.stream
         ends == stream.stage # "snapshot" \/ stream.status \in Terminal
         panel == [page.panel EXCEPT !.stream.stage = IF ends THEN "done" ELSE "open",
                                     !.stream.status = None]
     IN  page' = [page EXCEPT !.panel = Upsert(panel, Record(stream.run, stream.status))]

\* What the latest run left behind, once it has ended; or the message that it failed.
ArtifactsAnswered ==
  /\ page.panel # None
  /\ page.panel.asking
  /\ page' = [page EXCEPT !.panel.asking = FALSE]
  /\ UNCHANGED <<calls, store>>

Waiting == {"complete", "approve", "reject", "rewind"}

RunWrite(kind, r) ==
  /\ Calm
  /\ page' = IF kind \in Waiting THEN [page EXCEPT !.panel.actionBusy = TRUE]
             ELSE [page EXCEPT !.panel.busy = TRUE]
  /\ calls' = [calls EXCEPT !.writes = @ \cup {[Write(kind, page.id) EXCEPT !.run = r]}]
  /\ UNCHANGED store

\* The buttons of the panel.
OnRuns ==
  /\ page.panel # None
  /\ LET panel == page.panel
         active == Active(panel.runs)
     IN  \/ /\ Mutable /\ ~panel.busy
            /\ \/ active = None /\ RunWrite("start", None)
               \/ active # None /\ RunWrite("cancel", active.id)
               \/ /\ panel.runs # <<>> /\ panel.runs[1].status = "failed"
                  /\ RunWrite("retry", panel.runs[1].id)
         \/ /\ Mutable /\ ~panel.actionBusy /\ active # None
            /\ \/ active.status = "waiting_for_input" /\ RunWrite("complete", active.id)
               \/ /\ active.status = "waiting_for_approval"
                  /\ \E decision \in {"approve", "reject", "rewind"} : RunWrite(decision, active.id)

Released(panel, w) ==
  IF w.kind \in Waiting THEN [panel EXCEPT !.actionBusy = FALSE] ELSE [panel EXCEPT !.busy = FALSE]

\* A start or a retry answers with its run; the others are followed by a read of theirs.
RunWriteAnswered(w) ==
  /\ w \in RunWrites /\ w.stage = "write"
  /\ Accepted(w)
  /\ store' \in Written(w)
  /\ IF w.kind \in {"start", "retry"}
     THEN LET new == CHOOSE r \in Runs : store'.run[r] # store.run[r]
          IN  /\ calls' = [calls EXCEPT !.writes = Rest(w)]
              /\ page' = IF w.mine
                         THEN [page EXCEPT !.panel = Upsert(Released(@, w), Record(new, "running"))]
                         ELSE page
     ELSE /\ calls' = [calls EXCEPT !.writes = Rest(w) \cup
               {[w EXCEPT !.stage = "read", !.status = store'.run[w.run].status]}]
          /\ UNCHANGED page

RunReadAnswered(w) ==
  /\ w \in RunWrites /\ w.stage = "read"
  /\ page' = IF w.mine
             THEN [page EXCEPT !.panel = Upsert(Released(@, w), Record(w.run, w.status))]
             ELSE page
  /\ calls' = [calls EXCEPT !.writes = Rest(w)]
  /\ UNCHANGED store

RunWriteFails(w) ==
  /\ w \in RunWrites
  /\ \/ UNCHANGED store
     \/ w.stage = "write" /\ Accepted(w) /\ store' \in Written(w)
  /\ page' = IF w.mine THEN [page EXCEPT !.panel = Released(@, w)] ELSE page
  /\ calls' = [calls EXCEPT !.writes = Rest(w)]

\* Dagu runs: a run waits for a person, ends, and then stays as it is.
RunMoves(r) ==
  /\ store.run[r].status = "running"
  /\ \E status \in {"waiting_for_input", "waiting_for_approval"} \cup Terminal :
       store' = [store EXCEPT !.run[r].status = status]
  /\ UNCHANGED <<page, calls>>

-----------------------------------------------------------------------------
\* The first folder has one playbook, of this kind or of the one without a folder.
Init ==
  /\ page = [folder |-> CHOOSE f \in Folders : TRUE, route |-> "list", id |-> None, editors |-> 0,
             list |-> Loading, timer |-> TRUE, document |-> Loading, editor |-> None,
             deleting |-> FALSE, migrating |-> FALSE, panel |-> None]
  /\ calls = [lists |-> {}, document |-> FALSE, writes |-> {}]
  /\ \E kind \in {"active", "legacy"} :
       store = [playbook |-> [id \in Ids |->
                  IF id = <<CHOOSE f \in Folders : TRUE, 0>>
                  THEN [status |-> kind, source |-> "first", by |-> None]
                  ELSE [status |-> "none", source |-> None, by |-> None]],
                run |-> [r \in Runs |-> [of |-> None, status |-> "none"]]]

Next ==
  \/ \E f \in Folders : SelectFolder(f)
  \/ ToList \/ Load \/ NewPlaybook \/ DocumentAnswered \/ RetryDocument \/ EditPlaybook \/ CancelEdit
  \/ \E q \in calls.lists : ListAnswered(q)
  \/ \E id \in Ids : OpenPlaybook(id)
  \/ Edit \/ Save \/ Delete \/ Migrate
  \/ \E w \in calls.writes :
       \/ Validated(w) \/ SaveAnswered(w) \/ SaveFails(w)
       \/ DetailWriteAnswered(w) \/ DetailWriteFails(w)
       \/ RunWriteAnswered(w) \/ RunReadAnswered(w) \/ RunWriteFails(w)
  \/ OpenRuns \/ CloseRuns \/ RunsAnswered \/ StreamMoves \/ SnapshotAnswered
  \/ ArtifactsAnswered \/ OnRuns
  \/ \E r \in Runs : RunMoves(r)

Spec == Init /\ [][Next]_vars

-----------------------------------------------------------------------------
(* Properties.                                                             *)

TypeOK ==
  /\ page.folder \in Folders
  /\ page.route \in {"list", "new", "detail", "edit"}
  /\ page.id \in Ids \cup {None}
  /\ page.list.status \in {"loading", "error", "success"}
  /\ page.document.status \in {"loading", "error", "success"}
  /\ page.deleting \in BOOLEAN /\ page.migrating \in BOOLEAN
  /\ \A w \in calls.writes : w.stage \in {"validate", "write", "read"}

\* The editor of a new playbook makes one of a folder at most, however often its save is
\* pressed again after an answer that was lost.
SavedOnce ==
  \A f \in Folders :
    Cardinality({k \in Keys : store.playbook[<<f, k>>].by = "create"}) <= page.editors

\* A list that appears is the one of the folder now selected, whatever older request is
\* answered between the choice of the folder and the timer that loads its list.
AppearsForFolder ==
  page'.list.status = "success" /\ page.list.status # "success" =>
    \A id \in page'.list.data : id[1] = page'.folder

ListAppearsForFolder == [][AppearsForFolder]_vars

\* The header of the panel: while a run goes on, its state on the panel is refreshed.
ActiveIsFollowed ==
  page.panel # None /\ ActiveId(page.panel.runs) # None => page.panel.stream.stage # "done"

=============================================================================
