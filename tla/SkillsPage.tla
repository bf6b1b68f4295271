----------------------------- MODULE SkillsPage -----------------------------
(***************************************************************************)
(* The page of skills (features/skills): the list, the editor, the dialog  *)
(* that runs a skill, and fixtureSkillGateway, which keeps skills and runs *)
(* in the storage of the browser tab and plays the runs itself.            *)
(*                                                                         *)
(* A request of the gateway is a delay that reads the storage when it is   *)
(* over; one that is aborted never does.  The page aborts what its effect  *)
(* loads and what the dialog does, but neither a save nor a deletion: they *)
(* go on after their component is unmounted, with the reload and the       *)
(* navigation that follow.  While a list is loaded nothing of the page is  *)
(* mounted, and AppShell mounts the whole page anew for another path.  A   *)
(* list of the effect that was aborted is not modelled, for it shows       *)
(* nothing.  Text, parameters, revisions and the search are left     *)
(* out, and a reload never fails.  A deletion reloads the page, so no      *)
(* dialog is open on a skill that is gone.                                 *)
(***************************************************************************)
EXTENDS Naturals, Sequences, FiniteSets

CONSTANTS
  Folders,    \* the folders of the user
  Writable,   \* those he may write to
  Tools,      \* the tools a skill may call, in order: "read" or "write"
  MaxSkills,  \* bound: skills ever made
  MaxVersion, \* bound: updates of a skill
  MaxRuns,    \* bound: runs ever started
  MaxCalls,   \* bound: requests under way when the user makes another one
  None

\* What the constants must be (assumed in PluginPages).
Parameters ==
  /\ Writable \subseteq Folders
  /\ Tools \in Seq({"read", "write"})
  /\ MaxSkills \in Nat \ {0} /\ MaxVersion \in Nat \ {0}
  /\ MaxRuns \in Nat /\ MaxCalls \in Nat
  /\ None \notin Folders \cup [saving : BOOLEAN]

VARIABLES
  page,   \* the state of the components on the page
  calls,  \* the unanswered requests of the list, the editor and the detail
  store   \* the storage: skills, the last updated first, and runs

vars == <<page, calls, store>>

Ids == 1 .. MaxSkills
Runs == 1 .. MaxRuns
Ended == {"success", "cancelled"}   \* no run of this gateway fails

Loading == [status |-> "loading"]
Shown(data) == [status |-> "success", data |-> data]
Showing == page.list.status = "success"

Has(skills, id) == \E i \in DOMAIN skills : skills[i].id = id
Get(skills, id) == skills[CHOOSE i \in DOMAIN skills : skills[i].id = id]
Without(skills, id) == SelectSeq(skills, LAMBDA s : s.id # id)

\* canEditVisibleResource: a private skill is the user's own.
MayEdit(skill, folders) == skill.folder = None \/ skill.folder \in Writable \cap folders

\* listSkills: the private skills and those of the folders asked for.
ListSkills(folders) ==
  SelectSeq(store.skills, LAMBDA s : s.folder = None \/ s.folder \in folders)

Calm == Cardinality(calls.lists) + Cardinality(calls.writes) < MaxCalls

-----------------------------------------------------------------------------
(* What is mounted.                                                        *)

\* The editor of the route, if there is something to edit and the user may.
EditorOf(p) ==
  IF p.list.status # "success" THEN None
  ELSE IF p.route = "new" THEN [saving |-> FALSE]
  ELSE IF p.route = "edit" /\ Has(p.list.data, p.id) /\ MayEdit(Get(p.list.data, p.id), p.folders)
  THEN [saving |-> FALSE]
  ELSE None

\* Other components: what the old ones had is gone.
Mount(p) == [p EXCEPT !.editor = EditorOf(p), !.deleting = FALSE, !.dialog = None]

NotMine(writes) == {[w EXCEPT !.mine = FALSE] : w \in writes}
Invalidated(lists) == {[q EXCEPT !.current = FALSE] : q \in lists}

\* AppShell mounts the page anew under another path, with a list that is to come.
Relocated(p, at, id) ==
  Mount([p EXCEPT !.route = at, !.id = id, !.list = Loading, !.timer = TRUE])

\* The old page aborts what its effect loads; the rest goes on without it.
Left(c) ==
  [lists |-> Invalidated({q \in c.lists : q.then # None}),
   writes |-> {[w EXCEPT !.here = FALSE] : w \in NotMine(c.writes)}]

Navigate(at, id) ==
  /\ page.route # at \/ page.id # id
  /\ page' = Relocated(page, at, id)
  /\ calls' = Left(calls)

\* load as the component of the write knows it: of its page, with the folders of its
\* render; then is where it goes once the list is there.
LoadAfter(w, then) ==
  LET request == [current |-> w.here, folders |-> w.folders, then |-> then]
  IN  IF w.here
      THEN /\ page' = Mount([page EXCEPT !.list = Loading])
           /\ calls' = [lists |-> Invalidated(calls.lists) \cup {request},
                        writes |-> NotMine(calls.writes \ {w})]
      ELSE /\ page' = page
           /\ calls' = [lists |-> calls.lists \cup {request}, writes |-> calls.writes \ {w}]

\* The folder list changes: the effect gives up its load and sets a timer for another; who
\* may or may no longer edit the skill of the route has the editor or the detail instead.
FoldersChange ==
  \E folders \in SUBSET Folders :
    LET p == [page EXCEPT !.folders = folders, !.timer = TRUE]
        stays == EditorOf(p) = None <=> page.editor = None
    IN  /\ folders # page.folders
        /\ page' = IF stays THEN p ELSE Mount(p)
        /\ calls' = [lists |-> Invalidated({q \in calls.lists : q.then # None}),
                     writes |-> IF stays THEN calls.writes ELSE NotMine(calls.writes)]
        /\ UNCHANGED store

TimerLoads ==
  /\ page.timer
  /\ page' = Mount([page EXCEPT !.list = Loading, !.timer = FALSE])
  /\ calls' = [lists |-> Invalidated(calls.lists) \cup
                           {[current |-> TRUE, folders |-> page.folders, then |-> None]},
               writes |-> NotMine(calls.writes)]
  /\ UNCHANGED store

\* A list that counts is shown; what waited for it goes on in any case.
ListAnswered(q) ==
  LET seen == IF q.current THEN Mount([page EXCEPT !.list = Shown(ListSkills(q.folders))])
              ELSE page
      rest == [calls EXCEPT !.lists = @ \ {q}]
  IN  /\ q \in calls.lists
      /\ UNCHANGED store
      /\ IF q.then = None \/ (q.then.route = page.route /\ q.then.id = page.id)
         THEN page' = seen /\ calls' = rest
         ELSE page' = Relocated(seen, q.then.route, q.then.id) /\ calls' = Left(rest)

\* The skill whose detail is on the page: that of the route, or the first one.
Selected ==
  IF ~Showing \/ page.editor # None THEN None
  ELSE IF page.id # None
  THEN IF Has(page.list.data, page.id) THEN Get(page.list.data, page.id) ELSE None
  ELSE IF page.list.data = <<>> THEN None ELSE page.list.data[1]

CanEdit == Selected # None /\ MayEdit(Selected, page.folders)

\* The links of the page; a dialog covers them.
Walk ==
  /\ Showing
  /\ page.dialog = None
  /\ UNCHANGED store
  /\ \/ Navigate("list", None)
     \/ page.editor = None /\ Navigate("new", None)
     \/ page.editor = None /\ \E i \in DOMAIN page.list.data : Navigate("detail", page.list.data[i].id)
     \/ CanEdit /\ Navigate("edit", Selected.id)

-----------------------------------------------------------------------------
(* The editor and the deletion.                                            *)

Write(kind, id, version, folder) ==
  [kind |-> kind, id |-> id, version |-> version, folder |-> folder,
   folders |-> page.folders, mine |-> TRUE, here |-> TRUE]

Save ==
  /\ page.editor # None
  /\ ~page.editor.saving
  /\ Calm
  /\ page' = [page EXCEPT !.editor.saving = TRUE]
  /\ \E folder \in (Writable \cap page.folders) \cup {None} :
       calls' = [calls EXCEPT !.writes = @ \cup
         {IF page.route = "new" THEN Write("create", page.id, 0, folder)
          ELSE Write("update", page.id, Get(page.list.data, page.id).version, folder)}]
  /\ UNCHANGED store

Delete ==
  /\ CanEdit
  /\ page.dialog = None
  /\ ~page.deleting
  /\ Calm
  /\ page' = [page EXCEPT !.deleting = TRUE]
  /\ calls' = [calls EXCEPT !.writes = @ \cup
       {Write("delete", Selected.id, Selected.version, None)}]
  /\ UNCHANGED store

\* The skill is there, and in the version the page had of it.
Fits(w) == Has(store.skills, w.id) /\ Get(store.skills, w.id).version = w.version

NewId == {id \in Ids : \A i \in 1 .. id : i < id <=> i \in store.made}

\* The storage after a write; runs go with their skill.
Created(w, id) ==
  [store EXCEPT !.skills = <<[id |-> id, version |-> 1, folder |-> w.folder]>> \o @,
                !.made = @ \cup {id}]
Updated(w) ==
  [store EXCEPT !.skills =
     <<[id |-> w.id, version |-> w.version + 1, folder |-> w.folder]>> \o Without(@, w.id)]
Deleted(w) ==
  [store EXCEPT !.skills = Without(@, w.id),
                !.run = [r \in Runs |-> IF @[r].of = w.id THEN [@[r] EXCEPT !.status = "gone"] ELSE @[r]]]

SaveAnswered(w) ==
  /\ w \in calls.writes
  /\ \/ /\ w.kind = "create"
        /\ \E id \in NewId :
             /\ store' = Created(w, id)
             /\ LoadAfter(w, [route |-> "detail", id |-> id])
     \/ /\ w.kind = "update" /\ Fits(w) /\ w.version < MaxVersion
        /\ store' = Updated(w)
        /\ LoadAfter(w, [route |-> "detail", id |-> w.id])

DeleteAnswered(w) ==
  /\ w \in calls.writes
  /\ w.kind = "delete" /\ Fits(w)
  /\ store' = Deleted(w)
  /\ LoadAfter(w, [route |-> "list", id |-> None])

\* Invalid, or another version, or gone: the component may try again, if it is still there.
WriteFails(w) ==
  /\ w \in calls.writes
  /\ page' = IF ~w.mine THEN page
             ELSE IF w.kind = "delete" THEN [page EXCEPT !.deleting = FALSE]
             ELSE [page EXCEPT !.editor.saving = FALSE]
  /\ calls' = [calls EXCEPT !.writes = @ \ {w}]
  /\ UNCHANGED store

-----------------------------------------------------------------------------
(* Runs.                                                                   *)

Stored(r) == [id |-> r, status |-> store.run[r].status]

RunsOf(id) == {r \in Runs : store.run[r].of = id /\ store.run[r].status # "gone"}

\* The calls of a run that are left to do, and the first of them.
Pending(r) == {i \in DOMAIN Tools : store.run[r].call[i] = "pending"}
NextCall(r) == CHOOSE i \in Pending(r) : \A j \in Pending(r) : i <= j

\* continueRun goes on to the next call that is pending, or the run is over.
Continued(run) ==
  IF \E i \in DOMAIN Tools : run.call[i] = "pending" THEN run ELSE [run EXCEPT !.status = "success"]

OnRun == page.dialog # None /\ ~page.dialog.loading
Follows == OnRun /\ page.dialog.stream # None
Quiet == OnRun /\ page.dialog.stream = None /\ ~page.dialog.cancelling

\* The stream has written a run: it is shown, and the stream waits or is over.
Play(r, run, stage) ==
  /\ store' = [store EXCEPT !.run[r] = run]
  /\ page' = [page EXCEPT !.dialog.run = [id |-> r, status |-> run.status],
                          !.dialog.stream = IF run.status # "running" THEN None
                                            ELSE [run |-> r, stage |-> stage]]
  /\ UNCHANGED calls

OpenRun ==
  /\ Selected # None
  /\ page.dialog = None
  /\ page' = [page EXCEPT !.dialog =
       [skill |-> Selected.id, run |-> None, loading |-> TRUE, stream |-> None, cancelling |-> FALSE]]
  /\ UNCHANGED <<calls, store>>

\* The dialog aborts whatever it was doing.
CloseRun ==
  /\ page.dialog # None
  /\ page' = [page EXCEPT !.dialog = None]
  /\ UNCHANGED <<calls, store>>

\* listRuns: the latest run of the skill; or an error, and no run.
RunsAnswered ==
  /\ page.dialog # None
  /\ page.dialog.loading
  /\ LET runs == RunsOf(page.dialog.skill)
     IN  page' = [page EXCEPT !.dialog.loading = FALSE, !.dialog.run =
           IF runs = {} THEN None ELSE Stored(CHOOSE r \in runs : \A q \in runs : q <= r)]
  /\ UNCHANGED <<calls, store>>

StartDryRun ==
  /\ Quiet
  /\ page.dialog.run = None
  /\ Has(store.skills, page.dialog.skill)
  /\ \E r \in Runs :
       /\ store.run[r].status = "none" /\ \A q \in 1 .. r - 1 : store.run[q].status # "none"
       /\ Play(r, Continued([of |-> page.dialog.skill, status |-> "running",
                             call |-> [i \in DOMAIN Tools |-> "pending"]]), "pause")

\* A pause is over: the next call begins, or ends; a writing one first asks the user.
StreamMoves ==
  /\ Follows
  /\ LET r == page.dialog.stream.run
         run == store.run[r]
         running == {i \in DOMAIN Tools : run.call[i] = "running"}
     IN  IF page.dialog.stream.stage = "pause"
         THEN Play(r, [run EXCEPT !.call[NextCall(r)] = "running"], "call")
         ELSE \E i \in running :
                IF Tools[i] = "write"
                THEN Play(r, [run EXCEPT !.status = "waiting"], "pause")
                ELSE Play(r, Continued([run EXCEPT !.call[i] = "success"]), "pause")

\* Approved or skipped, the call is over and the stream goes on.
ResolveRun ==
  /\ Quiet
  /\ page.dialog.run # None
  /\ LET r == page.dialog.run.id
         run == store.run[r]
         asked == {i \in DOMAIN Tools : run.call[i] = "running"}
     IN  /\ page.dialog.run.status = "waiting"
         /\ run.status = "waiting"
         /\ \E i \in asked, decided \in {"success", "skipped"} :
              /\ decided = "success" => CanEdit
              /\ Play(r, Continued([run EXCEPT !.status = "running", !.call[i] = decided]), "pause")

\* Fault: the stream of the run is left to itself.
CancelBesideStream ==
  /\ OnRun
  /\ page.dialog.run # None
  /\ page.dialog.run.status \notin Ended
  /\ ~page.dialog.cancelling
  /\ page' = [page EXCEPT !.dialog.cancelling = TRUE]
  /\ UNCHANGED <<calls, store>>

\* The stream is aborted before the cancellation is asked for.
Cancel ==
  /\ OnRun
  /\ page.dialog.run # None
  /\ page.dialog.run.status \notin Ended
  /\ ~page.dialog.cancelling
  /\ page' = [page EXCEPT !.dialog.cancelling = TRUE, !.dialog.stream = None]
  /\ UNCHANGED <<calls, store>>

\* A run that has ended stays as it is.
CancelAnswered ==
  /\ page.dialog # None
  /\ page.dialog.cancelling
  /\ LET r == page.dialog.run.id
         to == IF store.run[r].status \in Ended THEN store.run[r].status ELSE "cancelled"
     IN  /\ store' = [store EXCEPT !.run[r].status = to]
         /\ page' = [page EXCEPT !.dialog.cancelling = FALSE, !.dialog.run.status = to]
  /\ UNCHANGED calls

NewRun ==
  /\ OnRun
  /\ page.dialog.run # None
  /\ page.dialog.run.status \in Ended
  /\ page' = [page EXCEPT !.dialog.run = None]
  /\ UNCHANGED <<calls, store>>

-----------------------------------------------------------------------------
\* The tab opens the list, or the editor of the one skill it has.
Init ==
  /\ \E folder \in Folders \cup {None} :
       store = [skills |-> <<[id |-> 1, version |-> 1, folder |-> folder]>>, made |-> {1},
                run |-> [r \in Runs |-> [of |-> None, status |-> "none",
                                         call |-> [i \in DOMAIN Tools |-> "pending"]]]]
  /\ page \in {[folders |-> Folders, route |-> at, id |-> IF at = "list" THEN None ELSE 1,
                list |-> Loading, timer |-> TRUE, editor |-> None, deleting |-> FALSE,
                dialog |-> None] : at \in {"list", "edit"}}
  /\ calls = [lists |-> {}, writes |-> {}]

Next ==
  \/ FoldersChange \/ TimerLoads \/ Walk \/ Save \/ Delete
  \/ \E q \in calls.lists : ListAnswered(q)
  \/ \E w \in calls.writes : SaveAnswered(w) \/ DeleteAnswered(w) \/ WriteFails(w)
  \/ OpenRun \/ CloseRun \/ RunsAnswered \/ StartDryRun \/ StreamMoves
  \/ ResolveRun \/ Cancel \/ CancelAnswered \/ NewRun

Spec == Init /\ [][Next]_vars

-----------------------------------------------------------------------------
(* Properties.                                                             *)

TypeOK ==
  /\ page.folders \subseteq Folders
  /\ page.route \in {"list", "new", "edit", "detail"}
  /\ page.list.status \in {"loading", "success"}
  /\ \A w \in calls.writes : w.mine =>
       IF w.kind = "delete" THEN page.deleting ELSE page.editor # None
  /\ page.dialog # None => Showing
  /\ \A r \in Runs : store.run[r].status \in {"none", "running", "waiting", "gone"} \cup Ended

\* A run the user has cancelled is not taken up again by the stream that was playing it, nor
\* by a decision on the call it was waiting for.
StaysCancelled ==
  \A r \in Runs :
    store.run[r].status = "cancelled" => store'.run[r].status \in {"cancelled", "gone"}

CancelledStays == [][StaysCancelled]_vars

\* The comment in useSkillsController: the old request is invalidated "before the next
\* scheduled load can publish stale data".  What is shown is a list of the folders there are.
ListIsOfFolders ==
  Showing /\ ~page.timer =>
    \A i \in DOMAIN page.list.data : page.list.data[i].folder \in page.folders \cup {None}

=============================================================================
