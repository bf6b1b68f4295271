---------------------------- MODULE PluginPages ----------------------------
(***************************************************************************)
(* The pages of the plugin, as AppShell shows them: one at a time.  Each   *)
(* page is an instance of its module; a behaviour is one of the page that  *)
(* is mounted, and the variables of the others say None.  The sessions and *)
(* the canvas, which have variables of their own, are taken with their     *)
(* theorems; SinglePages has the other pages.                              *)
(***************************************************************************)
EXTENDS SinglePages

CONSTANT Pages  \* the pages that may be mounted

VARIABLES
  mounted,  \* the page
  route, folder, opened, reads, list, lists, timer, creating, creates,
  archives, archiveError, deleting, deletes, remote, known,  \* of WorkbenchSessions
  shown, streaming, news, reading, edit, stored, seen, unseen  \* of WorkbenchCanvas

pageVars == <<page, calls, store>>
sessionVars == <<route, folder, opened, reads, list, lists, timer, creating, creates,
                 archives, archiveError, deleting, deletes, remote, known>>
canvasVars == <<shown, streaming, news, reading, edit, stored, seen, unseen>>
vars == <<mounted, pageVars, sessionVars, canvasVars>>

-----------------------------------------------------------------------------
(* The pages with variables of their own.                                  *)

\* A page that stays when the route changes, and one that is mounted anew.
Sessions ==
  INSTANCE WorkbenchSessionsProofs WITH
    Folders <- FoldersOf["sessions"], MaxSessions <- Most.sessions, MaxCalls <- Most.sessionCalls,
    Keyed <- FALSE
KeyedSessions ==
  INSTANCE WorkbenchSessionsProofs WITH
    Folders <- FoldersOf["sessions"], MaxSessions <- Most.sessions, MaxCalls <- Most.sessionCalls,
    Keyed <- TRUE

\* One for the charts of the agent, and one for the edits of the user.
Canvas == INSTANCE WorkbenchCanvasProofs WITH MaxCharts <- Most.charts, MaxEdits <- Most.edits
EditedCanvas ==
  INSTANCE WorkbenchCanvasProofs WITH MaxCharts <- Most.editedCharts, MaxEdits <- Most.chartEdits

ASSUME PagesAssumption ==
  /\ Sessions!Parameters /\ KeyedSessions!Parameters /\ Canvas!Parameters
  /\ EditedCanvas!Parameters /\ Panels!Parameters
  /\ Drawer!Parameters /\ Frame!Parameters /\ Dialogs!Parameters /\ Fixture!Parameters
  /\ Shell!Parameters /\ Knowledge!Parameters /\ Legacy!Parameters
  /\ Playbooks!Parameters /\ PlaybookRuns!Parameters /\ Skills!Parameters
  /\ Governance!Parameters /\ Alerts!Parameters

-----------------------------------------------------------------------------
(* The page that is mounted takes the steps.                               *)

NoPage == page = None /\ calls = None /\ store = None

NoSessions ==
  /\ route = None /\ folder = None /\ opened = None /\ reads = None /\ list = None /\ lists = None
  /\ timer = None /\ creating = None /\ creates = None /\ archives = None /\ archiveError = None
  /\ deleting = None /\ deletes = None /\ remote = None /\ known = None

NoCanvas ==
  /\ shown = None /\ streaming = None /\ news = None /\ reading = None /\ edit = None
  /\ stored = None /\ seen = None /\ unseen = None

PageInit ==
  \/ mounted = "panels" /\ Panels!Init
  \/ mounted = "drawer" /\ Drawer!Init
  \/ mounted = "frame" /\ Frame!Init
  \/ mounted = "dialogs" /\ Dialogs!Init
  \/ mounted = "fixture" /\ Fixture!Init
  \/ mounted = "shell" /\ Shell!Init
  \/ mounted = "knowledge" /\ Knowledge!Init
  \/ mounted = "fixture knowledge" /\ Legacy!Init
  \/ mounted = "playbooks" /\ Playbooks!Init
  \/ mounted = "runs" /\ PlaybookRuns!Init
  \/ mounted = "skills" /\ Skills!Init
  \/ mounted = "governance" /\ Governance!Init
  \/ mounted = "alerts" /\ Alerts!Init

Init ==
  /\ mounted \in Pages
  /\ \/ mounted = "sessions" /\ Sessions!Init /\ NoPage /\ NoCanvas
     \/ mounted = "keyed sessions" /\ KeyedSessions!Init /\ NoPage /\ NoCanvas
     \/ mounted = "canvas" /\ Canvas!Init /\ NoPage /\ NoSessions
     \/ mounted = "edited canvas" /\ EditedCanvas!Init /\ NoPage /\ NoSessions
     \/ PageInit /\ NoSessions /\ NoCanvas

\* Everything but the three variables of a page.
OnPage(p) == mounted = p /\ UNCHANGED <<mounted, sessionVars, canvasVars>>
OnSessions(p) == mounted = p /\ UNCHANGED <<mounted, pageVars, canvasVars>>
OnCanvas(p) == mounted = p /\ UNCHANGED <<mounted, pageVars, sessionVars>>

Next ==
  \/ OnSessions("sessions") /\ Sessions!Next
  \/ OnSessions("keyed sessions") /\ KeyedSessions!Next
  \/ OnCanvas("canvas") /\ Canvas!Next
  \/ OnCanvas("edited canvas") /\ EditedCanvas!Next
  \/ OnPage("panels") /\ Panels!Next
  \/ OnPage("drawer") /\ Drawer!Next
  \/ OnPage("frame") /\ Frame!Next
  \/ OnPage("dialogs") /\ Dialogs!Next
  \/ OnPage("fixture") /\ Fixture!Next
  \/ OnPage("shell") /\ Shell!Next
  \/ OnPage("knowledge") /\ Knowledge!Next
  \/ OnPage("fixture knowledge") /\ Legacy!Next
  \/ OnPage("playbooks") /\ Playbooks!Next
  \/ OnPage("runs") /\ PlaybookRuns!Next
  \/ OnPage("skills") /\ Skills!Next
  \/ OnPage("governance") /\ Governance!Next
  \/ OnPage("alerts") /\ Alerts!Next

Spec == Init /\ [][Next]_vars

-----------------------------------------------------------------------------
(* Properties, of the page that is mounted.                                *)

\* Every page keeps to its types, and to the invariants that its module states there.
TypeOK ==
  /\ mounted = "sessions" => Sessions!TypeOK
  /\ mounted = "keyed sessions" => KeyedSessions!TypeOK
  /\ mounted = "canvas" => Canvas!TypeOK
  /\ mounted = "edited canvas" => EditedCanvas!TypeOK
  /\ mounted = "panels" => Panels!TypeOK
  /\ mounted = "drawer" => Drawer!TypeOK
  /\ mounted = "frame" => Frame!TypeOK
  /\ mounted = "dialogs" => Dialogs!TypeOK
  /\ mounted = "fixture" => Fixture!TypeOK
  /\ mounted = "shell" => Shell!TypeOK
  /\ mounted = "knowledge" => Knowledge!TypeOK /\ Knowledge!BusyHasWrite
  /\ mounted = "fixture knowledge" =>
       /\ Legacy!TypeOK /\ Legacy!SavesFit
       /\ Legacy!LinksAreThere /\ Legacy!ImportingHasStream
  /\ mounted = "playbooks" => Playbooks!TypeOK
  /\ mounted = "runs" => PlaybookRuns!TypeOK
  /\ mounted = "skills" => Skills!TypeOK
  /\ mounted = "governance" => Governance!TypeOK
  /\ mounted = "alerts" => Alerts!TypeOK

\* loadSessions, invalidateSessions: a list of sessions that is being loaded will be there; every
\* change of a session gives up the request under way.
ListIsComing ==
  /\ mounted = "sessions" => Sessions!ListIsComing
  /\ mounted = "keyed sessions" => KeyedSessions!ListIsComing

\* deleteCurrentSession, on both hosts: a session whose deletion the page on the screen knows of
\* is not offered again, whatever list was under way and wherever the user has gone since.
DeletedIsNotListed ==
  /\ mounted = "sessions" => Sessions!DeletedIsNotListed
  /\ mounted = "keyed sessions" => KeyedSessions!DeletedIsNotListed

\* updateCanvas and its conflicts: an edit that the store accepts removes no chart the user had
\* not had before his eyes.
NothingDroppedUnseen ==
  /\ mounted = "canvas" => Canvas!NothingDroppedUnseen
  /\ mounted = "edited canvas" => EditedCanvas!NothingDroppedUnseen

\* usePanelQuery and the queries that are shared: a view shows what its own query said last.
ShowsOwnQuery == mounted = "panels" => Panels!ShowsOwnQuery

\* refreshFolders: after a refusal the shell shows only folders asked for since.
ShownAfterRefusal == mounted = "shell" => Shell!ShownAfterRefusal

\* RealKnowledgePage: the documents shown are those of the selected base.
DocumentsAreOfSelected == mounted = "knowledge" => Knowledge!DocumentsAreOfSelected

\* PlaybookEditor: a save that is repeated after a lost answer makes no second playbook.
SavedOnce == mounted = "playbooks" => Playbooks!SavedOnce

\* usePlaybooksController: a list that appears is the one of the folder now selected.
ListAppearsForFolder == [][mounted = "playbooks" => Playbooks!AppearsForFolder]_vars

\* The fixtures: a run of a skill that was cancelled is not taken up again by the stream that was
\* playing it, and a session that was deleted does not come back with the answer of another call.
EndedStays ==
  [][/\ mounted = "skills" => Skills!StaysCancelled
     /\ mounted = "fixture" => Fixture!StaysDeleted]_vars

\* Lists that depend on a choice: the approvals are those of the filters, and the context in the
\* drawer that of the active folder, in whatever order the answers arrive.
ShownIsOfChoice ==
  /\ mounted = "governance" => Governance!ListIsOfQuery
  /\ mounted = "drawer" => Drawer!ContextIsOfFolder

\* fixtureApprovalGateway: a decision is made as a whole or not at all.
DecisionIsWhole == mounted = "governance" => Governance!DecisionIsWhole

=============================================================================
