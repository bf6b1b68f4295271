-------------------------- MODULE WorkbenchDialogs --------------------------
(***************************************************************************)
(* What the workbench takes its orders with (WorkbenchPage, HITLModal,     *)
(* DeleteSessionModal, Composer, the menu of ChatPane): the dialogs that   *)
(* create and delete a session and answer a request for approval, and the  *)
(* line a message is written in, over useWorkbenchController, which has    *)
(* one stream, one creation and one deletion under way.                    *)
(*                                                                         *)
(* A dialog keeps the focus: the page beneath it is not used until it is   *)
(* closed, but an event of the stream may open another over it, and Escape *)
(* is heard by every dialog that is open.  Texts are blank or not.  What   *)
(* the orders do is in WorkbenchTurns and WorkbenchSessions.               *)
(***************************************************************************)
EXTENDS Naturals, FiniteSets

CONSTANTS
  Requests,        \* the requests for approval of a session
  MaxAttachments,  \* bound: files of a message
  Fixture,         \* runtimeMode is fixture: files may be attached
  None

\* What the constants must be (assumed in PluginPages).
Parameters ==
  /\ MaxAttachments \in Nat
  /\ Fixture \in BOOLEAN
  /\ None \notin Requests

VARIABLES
  page,   \* the dialogs, the menu, the composer, and what the user may do in the request's folder
  calls,  \* the stream and the changes of the session that are under way
  store   \* the session: whether it is archived, and the requests it has made

vars == <<page, calls, store>>

\* None: the folder of the request is not the active one.
Permissions == {"View", "Edit", None}

\* The dialog of a request, as it is when that request is first shown.
Hitl(request) ==
  [request |-> request, visible |-> request # None, rejecting |-> FALSE, reason |-> FALSE]

NewPage(permission) ==
  [create |-> [open |-> FALSE, titled |-> FALSE], delete |-> FALSE, hitl |-> Hitl(None),
   menu |-> [open |-> FALSE, renaming |-> FALSE, titled |-> FALSE],
   draft |-> [typed |-> FALSE, files |-> 0, mentions |-> FALSE], permission |-> permission]

Idle == [stream |-> "none", request |-> None, create |-> FALSE, delete |-> FALSE, archive |-> FALSE]

DialogOpen == page.create.open \/ page.delete \/ page.hitl.visible
Streaming == calls.stream # "none"

-----------------------------------------------------------------------------
(* The dialogs that create and delete a session.                           *)

\* resetCreate: the title of the last time is gone.
OpenCreateModal ==
  /\ ~DialogOpen /\ ~calls.create
  /\ page' = [page EXCEPT !.create = [open |-> TRUE, titled |-> FALSE]]
  /\ UNCHANGED <<calls, store>>

TypeTitle ==
  /\ page.create.open /\ ~calls.create
  /\ page' = [page EXCEPT !.create.titled = ~@]
  /\ UNCHANGED <<calls, store>>

SubmitCreate ==
  /\ page.create.open /\ ~calls.create /\ page.create.titled
  /\ calls' = [calls EXCEPT !.create = TRUE]
  /\ UNCHANGED <<page, store>>

CreateFails ==
  /\ calls.create
  /\ calls' = [calls EXCEPT !.create = FALSE]
  /\ UNCHANGED <<page, store>>

OpenDeleteModal ==
  /\ page.menu.open /\ ~DialogOpen /\ ~Streaming
  /\ page' = [page EXCEPT !.menu.open = FALSE, !.delete = TRUE]
  /\ UNCHANGED <<calls, store>>

ConfirmDelete ==
  /\ page.delete /\ ~calls.delete /\ ~Streaming
  /\ calls' = [calls EXCEPT !.delete = TRUE]
  /\ UNCHANGED <<page, store>>

DeleteFails ==
  /\ calls.delete
  /\ calls' = [calls EXCEPT !.delete = FALSE]
  /\ UNCHANGED <<page, store>>

\* A session that was created is opened, and one that was deleted left: the page is mounted anew.
AnotherSession ==
  /\ calls.create \/ calls.delete
  /\ page' = NewPage(page.permission)
  /\ calls' = Idle
  /\ \E archived \in BOOLEAN : store' = [archived |-> archived, made |-> {}]

\* The buttons of the dialogs, which wait for the answer of what was ordered.
CloseDialog ==
  /\ \/ page.create.open /\ ~calls.create /\ page' = [page EXCEPT !.create.open = FALSE]
     \/ page.delete /\ ~calls.delete /\ page' = [page EXCEPT !.delete = FALSE]
     \/ page.hitl.visible /\ page' = [page EXCEPT !.hitl.visible = FALSE]
  /\ UNCHANGED <<calls, store>>

\* useDialogA11y: every dialog that is open listens.
Escape ==
  /\ DialogOpen
  /\ page' = [page EXCEPT !.create.open = @ /\ calls.create, !.delete = @ /\ calls.delete,
                          !.hitl.visible = FALSE]
  /\ UNCHANGED <<calls, store>>

-----------------------------------------------------------------------------
(* HITLModal.                                                              *)

ShowHITL ==
  /\ page.hitl.request # None /\ ~DialogOpen
  /\ page' = [page EXCEPT !.hitl.visible = TRUE]
  /\ UNCHANGED <<calls, store>>

ToggleRejecting ==
  /\ page.hitl.visible
  /\ page' = [page EXCEPT !.hitl.rejecting = ~@]
  /\ UNCHANGED <<calls, store>>

TypeReason ==
  /\ page.hitl.visible /\ page.hitl.rejecting
  /\ page' = [page EXCEPT !.hitl.reason = ~@]
  /\ UNCHANGED <<calls, store>>

\* The folder of the request is the active one, and the user may do more than look.
CanApprove == page.permission = "Edit"

\* resolveHITL, which does nothing while a stream runs: the dialog is gone, with its texts, while
\* the decision is carried out.
Decide ==
  /\ page.hitl.visible /\ ~Streaming
  /\ IF page.hitl.rejecting THEN page.hitl.reason ELSE CanApprove
  /\ page' = [page EXCEPT !.hitl = Hitl(None)]
  /\ calls' = [calls EXCEPT !.stream = "resolve", !.request = page.hitl.request]
  /\ UNCHANGED store

-----------------------------------------------------------------------------
(* Composer and the menu.                                                  *)

Disabled == page.hitl.request # None \/ store.archived

\* The line is cleared whatever becomes of the message.
Send ==
  /\ ~DialogOpen
  /\ page.draft.typed /\ ~Disabled /\ ~Streaming
  /\ page' = [page EXCEPT !.draft = [typed |-> FALSE, files |-> 0, mentions |-> FALSE]]
  /\ calls' = [calls EXCEPT !.stream = "message"]
  /\ UNCHANGED store

\* A quick action is sent as it is, and the banner sends the last message again.
SendOther ==
  /\ ~DialogOpen
  /\ ~Disabled /\ ~Streaming
  /\ calls' = [calls EXCEPT !.stream = "message"]
  /\ UNCHANGED <<page, store>>

Type ==
  /\ ~DialogOpen
  /\ ~Disabled \/ Streaming
  /\ page' = [page EXCEPT !.draft.typed = ~@]
  /\ UNCHANGED <<calls, store>>

\* The services are offered, and one of them added to the line, or not.
ToggleMentions ==
  /\ ~DialogOpen
  /\ \E typed \in {page.draft.typed, page.draft.typed \/ page.draft.mentions} :
       page' = [page EXCEPT !.draft.mentions = ~@, !.draft.typed = typed]
  /\ UNCHANGED <<calls, store>>

AttachFiles ==
  /\ ~DialogOpen /\ Fixture
  /\ \E n \in (0..MaxAttachments) \ {page.draft.files} :
       page' = [page EXCEPT !.draft.files = n]
  /\ UNCHANGED <<calls, store>>

\* A name that was begun is there when the menu is opened again.
ToggleMenu ==
  /\ ~DialogOpen
  /\ page' = [page EXCEPT !.menu.open = ~@]
  /\ UNCHANGED <<calls, store>>

StartRenaming ==
  /\ page.menu.open /\ ~page.menu.renaming /\ ~DialogOpen /\ ~Streaming
  /\ page' = [page EXCEPT !.menu = [open |-> TRUE, renaming |-> TRUE, titled |-> FALSE]]
  /\ UNCHANGED <<calls, store>>

TypeName ==
  /\ page.menu.open /\ page.menu.renaming /\ ~DialogOpen
  /\ page' = [page EXCEPT !.menu.titled = ~@]
  /\ UNCHANGED <<calls, store>>

\* The form is closed also when a stream runs and the name is not taken.
SubmitName ==
  /\ page.menu.open /\ page.menu.renaming /\ page.menu.titled /\ ~DialogOpen
  /\ page' = [page EXCEPT !.menu.open = FALSE, !.menu.renaming = FALSE]
  /\ UNCHANGED <<calls, store>>

ArchiveSession ==
  /\ page.menu.open /\ ~DialogOpen
  /\ ~Streaming /\ ~store.archived
  /\ page' = [page EXCEPT !.menu.open = FALSE]
  /\ calls' = [calls EXCEPT !.archive = TRUE]
  /\ UNCHANGED store

ArchiveAnswered ==
  /\ calls.archive
  /\ calls' = [calls EXCEPT !.archive = FALSE]
  /\ \E archived \in {store.archived, TRUE} : store' = [store EXCEPT !.archived = archived]
  /\ UNCHANGED page

-----------------------------------------------------------------------------
(* The stream, and the folder.                                             *)

\* The agent asks for an approval.
Interrupts ==
  /\ Streaming
  /\ \E r \in Requests \ store.made :
       /\ page' = [page EXCEPT !.hitl = Hitl(r)]
       /\ store' = [store EXCEPT !.made = @ \cup {r}]
  /\ UNCHANGED calls

\* It ends, or is stopped.
StreamEnds ==
  /\ Streaming
  /\ calls' = [calls EXCEPT !.stream = "none", !.request = None]
  /\ UNCHANGED <<page, store>>

\* The request that could not be decided is shown again.
ResolutionFails ==
  /\ calls.stream = "resolve"
  /\ page' = [page EXCEPT !.hitl = Hitl(calls.request)]
  /\ calls' = [calls EXCEPT !.stream = "none", !.request = None]
  /\ UNCHANGED store

\* Another folder, or other permissions in it.
FolderChanges ==
  /\ \E permission \in Permissions \ {page.permission} :
       page' = [page EXCEPT !.permission = permission]
  /\ UNCHANGED <<calls, store>>

-----------------------------------------------------------------------------
Init ==
  /\ \E permission \in Permissions : page = NewPage(permission)
  /\ calls = Idle
  /\ \E archived \in BOOLEAN : store = [archived |-> archived, made |-> {}]

Next ==
  \/ OpenCreateModal \/ TypeTitle \/ SubmitCreate \/ CreateFails \/ AnotherSession
  \/ OpenDeleteModal \/ ConfirmDelete \/ DeleteFails \/ CloseDialog \/ Escape
  \/ ShowHITL \/ ToggleRejecting \/ TypeReason \/ Decide
  \/ Send \/ SendOther \/ Type \/ ToggleMentions \/ AttachFiles
  \/ ToggleMenu \/ StartRenaming \/ TypeName \/ SubmitName \/ ArchiveSession \/ ArchiveAnswered
  \/ Interrupts \/ StreamEnds \/ ResolutionFails \/ FolderChanges

Spec == Init /\ [][Next]_vars

-----------------------------------------------------------------------------
(* Properties.                                                             *)

\* The dialog of what is ordered stays until the answer is there; a request has a dialog to be
\* shown in; files are attached where they can be sent.
TypeOK ==
  /\ calls.create => page.create.open
  /\ calls.delete => page.delete
  /\ page.hitl.visible => page.hitl.request \in store.made
  /\ page.draft.files > 0 => Fixture
  /\ page.permission \in Permissions
  /\ calls.stream \in {"none", "message", "resolve"}
  /\ calls.request \in store.made \cup {None}

\* While a session is being deleted no turn of it runs: the controller refuses to delete while one
\* does, but would start one while it deletes.
DeletionIsAlone == calls.delete => ~Streaming

=============================================================================
