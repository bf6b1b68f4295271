------------------------- MODULE WorkbenchSessions -------------------------
(***************************************************************************)
(* The sessions of the Workbench: the list at the left, the session the    *)
(* route names, and the calls that create, rename, archive and delete one. *)
(* The module models the part of useWorkbenchController (features/         *)
(* workbench/application) that works on sessions, with the pages that call *)
(* it; WorkbenchTurns has the messages and WorkbenchCanvas the canvas.     *)
(*                                                                         *)
(* Every request is a record in a set until its answer arrives.  The code  *)
(* counts its requests and compares numbers; here a request carries the    *)
(* outcome of that comparison: current for the last list or session asked  *)
(* for, still while the route has not moved since the call was made.       *)
(* What a request read is taken when it is sent, so an answer may be old;  *)
(* a call that fails may have been carried out, and its answer lost.       *)
(* A render is immediate.  A session is a number, a later one is greater,  *)
(* and a list is the set of its sessions, shown with the newest first.     *)
(*                                                                         *)
(* The hook is written, and tested, for a host that keeps it mounted while *)
(* the route changes; its request numbers and its routeVersionRef work on  *)
(* that.  AppShell does not: it mounts the page anew for another path, and *)
(* the calls of the old page go on with refs of their own.  Keyed tells    *)
(* the two hosts apart.                                                    *)
(***************************************************************************)
EXTENDS Naturals, FiniteSets, FiniteSetsExt

CONSTANTS
  MaxSessions,  \* bound: sessions ever created
  Folders,      \* the folders of the user
  MaxCalls,     \* bound: requests under way when the page makes another one
  Keyed,        \* another path mounts the page anew, as in AppShell
  None

\* What the constants must be (assumed in PluginPages).
Parameters ==
  /\ MaxSessions \in Nat \ {0}
  /\ MaxCalls \in Nat \ {0}
  /\ Keyed \in BOOLEAN
  /\ None \notin Folders

Ids == 1 .. MaxSessions

VARIABLES
  route,      \* the session in the URL, None for the bare page
  folder,     \* the uid of activeFolder
  opened,     \* openedSession: its status, and the session when it is "success"
  reads,      \* the openSession requests that are unanswered
  list,       \* sessions: its status, and the sessions in it
  lists,      \* the listSessions requests that are unanswered
  timer,      \* sessionsRefreshTimeoutRef is set
  creating,   \* the status of creating
  creates,    \* the createSession requests that are unanswered
  archives,   \* the archiveSession and renameSession requests that are unanswered
  archiveError, \* archiveError is shown
  deleting,   \* the status of deleting
  deletes,    \* the deleteSession requests that are unanswered
  remote,     \* the sessions the agent provider keeps
  known       \* history: the deleted sessions the page on the screen knows of: it was
              \* told, or it was mounted when they were deleted already

pageVars == <<route, folder, opened, list, timer, creating, archiveError, deleting>>
callVars == <<reads, lists, creates, archives, deletes>>
vars == <<pageVars, callVars, remote, known>>

Idle == [status |-> "idle"]
Loading == [status |-> "loading"]
Failed == [status |-> "error"]

Exists(s) == remote[s] \in {"active", "archived"}

\* listSessions: every page of the sessions.
ListSessions(at) == {s \in Ids : at[s] \in {"active", "archived"}}

Calm ==
  Cardinality(reads) + Cardinality(lists) + Cardinality(creates) +
  Cardinality(archives) + Cardinality(deletes) < MaxCalls

Deleted(at) == {s \in Ids : at[s] = "deleted"}

Old(requests) == {[q EXCEPT !.current = FALSE] : q \in requests}

\* The page is no longer where it made these calls; a page that is gone hears nothing.
Moved(calls) == {[c EXCEPT !.still = FALSE, !.here = @ /\ ~Keyed] : c \in calls}

-----------------------------------------------------------------------------
(* The list.                                                               *)

LoadSessions ==
  /\ timer' = FALSE
  /\ list' = Loading
  /\ lists' = Old(lists) \cup {[current |-> TRUE, data |-> ListSessions(remote')]}

\* Fault: the request is given up and none is sent in its place.
InvalidateForGood ==
  /\ lists' = Old(lists)
  /\ UNCHANGED timer

\* invalidateSessions: an answer under way is old; a page that waits asks again soon.
InvalidateSessions ==
  /\ lists' = Old(lists)
  /\ timer' = (timer \/ list.status = "loading")

\* The timer of the page, or of invalidateSessions, or the button after an error.
ReloadSessions ==
  /\ timer \/ list.status = "error"
  /\ Calm
  /\ UNCHANGED <<route, folder, opened, creating, archiveError, deleting, reads,
                 creates, archives, deletes, remote, known>>
  /\ LoadSessions

\* Fault: whatever list arrives is shown.
ListAnyAnswer(q) ==
  /\ lists' = lists \ {q}
  /\ \/ list' = [status |-> "success", data |-> q.data]
     \/ list' = Failed

ListAnswered(q) ==
  /\ lists' = lists \ {q}
  /\ IF q.current
     THEN \/ list' = [status |-> "success", data |-> q.data]
          \/ list' = Failed
     ELSE UNCHANGED list

SessionsAnswered ==
  /\ \E q \in lists : ListAnswered(q)
  /\ UNCHANGED <<route, folder, opened, timer, creating, archiveError, deleting,
                 reads, creates, archives, deletes, remote, known>>

-----------------------------------------------------------------------------
(* The route and the session it names.                                     *)

OpenRequest(s) ==
  IF s = None THEN Old(reads)
  ELSE Old(reads) \cup {[current |-> TRUE, session |-> s, found |-> remote'[s]]}

\* Another route is rendered: the session is dropped and the new one asked for.
Arrive(s) ==
  /\ route' = s
  /\ opened' = IF s = None THEN Idle ELSE Loading
  /\ reads' = OpenRequest(s)
  /\ archives' = Moved(archives)
  /\ archiveError' = FALSE

\* A new page waits for its list, which cannot have a session that is deleted by now.
MountAnew ==
  /\ Keyed
  /\ known' = Deleted(remote')
  /\ list' = Loading /\ timer' = TRUE /\ lists' = Old(lists)
  /\ creating' = "idle" /\ deleting' = "idle"

\* The effects of the old route give up a session that is being created.
GiveUpCreate ==
  /\ ~Keyed
  /\ creating' = IF creating = "loading" THEN "idle" ELSE creating

MoveTo(s) ==
  /\ UNCHANGED <<folder, remote>>
  /\ Arrive(s)
  /\ creates' = Moved(creates) /\ deletes' = Moved(deletes)
  /\ MountAnew \/ (GiveUpCreate /\ UNCHANGED <<list, lists, timer, deleting, known>>)

\* A click in the list, a link, or the browser's back button.
Navigate == Calm /\ \E s \in Ids \cup {None} : s # route /\ MoveTo(s)

\* The bare page goes on to the first session of the list.
NavigateToFirst ==
  /\ route = None
  /\ list.status = "success"
  /\ list.data # {}
  /\ Calm
  /\ MoveTo(Max(list.data))

OpenAgain ==
  /\ opened.status = "error"
  /\ Calm
  /\ opened' = Loading
  /\ UNCHANGED <<route, folder, list, timer, creating, archiveError, deleting,
                 lists, creates, archives, deletes, remote, known>>
  /\ reads' = OpenRequest(route)

\* Fault: the answer is shown whichever session the route names by now.
AnyRead(q) == TRUE

IsForRoute(q) == q.current /\ q.session = route

SessionAnswered(q) ==
  /\ q \in reads
  /\ reads' = reads \ {q}
  /\ IF IsForRoute(q)
     THEN \/ /\ q.found \in {"active", "archived"}
             /\ opened' = [status |-> "success", session |-> q.session, is |-> q.found]
          \/ opened' = Failed
     ELSE UNCHANGED opened
  /\ UNCHANGED <<route, folder, list, timer, creating, archiveError, deleting,
                 lists, creates, archives, deletes, remote, known>>

\* publishOpened for a summary: the page, and its entry of the list.
PublishSummary(s, is) ==
  /\ opened' = [status |-> "success", session |-> s, is |-> is]
  /\ InvalidateSessions
  /\ UNCHANGED list

-----------------------------------------------------------------------------
(* createSession.                                                          *)

SelectFolder ==
  /\ \E f \in Folders : f # folder /\ folder' = f
  /\ UNCHANGED <<route, opened, list, timer, creating, archiveError, deleting,
                 callVars, remote, known>>

\* The dialog lets one call through at a time.
CreateSession ==
  /\ creating # "loading"
  /\ Calm
  /\ creating' = "loading"
  /\ creates' = Moved(creates) \cup
       {[route |-> route, folder |-> folder, still |-> TRUE, here |-> TRUE]}
  /\ UNCHANGED <<route, folder, opened, list, timer, archiveError, deleting,
                 reads, lists, archives, deletes, remote, known>>

InScope(c) == c.still /\ c.route = route /\ c.folder = folder

\* The provider has one more session.
Created(s) ==
  /\ remote[s] = "none"
  /\ \A t \in 1 .. s - 1 : remote[t] # "none"
  /\ remote' = [remote EXCEPT ![s] = "active"]

\* The session is there; the page follows it if it is still where the call was made.
CreateAnswered(c) ==
  \E s \in Ids :
    /\ c \in creates
    /\ Created(s)
    /\ IF InScope(c)
       THEN /\ Arrive(s)
            /\ \/ MountAnew
               \/ /\ ~Keyed
                  /\ InvalidateSessions
                  /\ list' = [status |-> "success",
                       data |-> {s} \cup (IF list.status = "success" THEN list.data ELSE {})]
                  /\ creating' = "success" /\ UNCHANGED <<deleting, known>>
            /\ creates' = Moved(creates \ {c})
            /\ deletes' = Moved(deletes)
       ELSE /\ creates' = creates \ {c}
            /\ creating' = IF c.still THEN "idle" ELSE creating
            /\ UNCHANGED <<route, opened, list, timer, archiveError, deleting, reads,
                           lists, archives, deletes, known>>
    /\ UNCHANGED folder

CreateFails(c) ==
  /\ c \in creates
  /\ creates' = creates \ {c}
  /\ creating' = IF InScope(c) THEN "error" ELSE IF c.still THEN "idle" ELSE creating
  /\ UNCHANGED remote \/ \E s \in Ids : Created(s)
  /\ UNCHANGED <<route, folder, opened, list, timer, archiveError, deleting,
                 reads, lists, archives, deletes, known>>

-----------------------------------------------------------------------------
(* renameCurrentSession and archiveCurrentSession.                         *)

Open == opened.status = "success"

Change(to) ==
  /\ Open
  /\ Calm
  /\ archives' = archives \cup
       {[session |-> route, to |-> to, still |-> TRUE, here |-> TRUE]}
  /\ archiveError' = (to = "renamed" /\ archiveError)
  /\ UNCHANGED <<route, folder, opened, list, timer, creating, deleting,
                 reads, lists, creates, deletes, remote, known>>

ArchiveSession == Open /\ opened.is = "active" /\ Change("archived")
RenameSession == Change("renamed")

\* What the provider has of the session after the call; the summary tells the page.
After(c) == IF c.to = "archived" THEN "archived" ELSE remote[c.session]

ArchiveAnswered(c) ==
  /\ c.here /\ c.to = "archived"
  /\ IF c.still /\ Open
     THEN PublishSummary(c.session, After(c))
     ELSE LoadSessions /\ UNCHANGED opened

\* A rename that arrives for the session on the page is followed by a new list.
RenameAnswered(c) ==
  /\ c.here /\ c.to = "renamed"
  /\ IF Open /\ opened.session = c.session
     THEN /\ opened' = [opened EXCEPT !.is = After(c)]
          /\ LoadSessions
     ELSE UNCHANGED <<opened, list, lists, timer>>

\* The provider carries the call out.
Changed(c) ==
  /\ Exists(c.session)
  /\ remote' = [remote EXCEPT ![c.session] = After(c)]

ChangeAnswered(c) ==
  /\ c \in archives
  /\ Changed(c)
  /\ archives' = archives \ {c}
  /\ \/ ArchiveAnswered(c) \/ RenameAnswered(c)
     \/ ~c.here /\ UNCHANGED <<opened, list, lists, timer>>
  /\ UNCHANGED <<route, folder, creating, archiveError, deleting, reads, creates,
                 deletes, known>>

\* Only a failed archive names its session, without which no error is shown.
ChangeFails(c) ==
  /\ c \in archives
  /\ archives' = archives \ {c}
  /\ archiveError' = (archiveError \/ (c.to = "archived" /\ c.still))
  /\ UNCHANGED remote \/ Changed(c)
  /\ UNCHANGED <<route, folder, opened, list, timer, creating, deleting, reads,
                 lists, creates, deletes, known>>

-----------------------------------------------------------------------------
(* deleteCurrentSession.                                                   *)

\* The function keeps the list of the render it was made in.
DeleteSession ==
  /\ Open
  /\ deleting # "loading"
  /\ Calm
  /\ deleting' = "loading"
  /\ deletes' = deletes \cup {[session |-> route, still |-> TRUE, here |-> TRUE,
       seen |-> IF list.status = "success" THEN list.data ELSE {}]}
  /\ UNCHANGED <<route, folder, opened, list, timer, creating, archiveError,
                 reads, lists, creates, archives, remote, known>>

Remaining(c) == c.seen \ {c.session}

\* The session that takes the place of the deleted one, or the last one; the first one if the
\* deleted one was not in the list.
Neighbour(c) ==
  LET left == Remaining(c)
      older == {s \in left : s < c.session}
  IN  IF left = {} THEN None
      ELSE IF c.session \notin c.seen THEN Max(left)
      ELSE IF older # {} THEN Max(older) ELSE Min(left)

\* The page is still on the session: it goes on to the neighbour.
LeaveDeleted(c) ==
  /\ c.still /\ Open
  /\ Arrive(Neighbour(c))
  /\ \/ MountAnew
     \/ /\ GiveUpCreate
        /\ InvalidateSessions
        /\ list' = [status |-> "success", data |-> Remaining(c)]
        /\ deleting' = "success"
        /\ known' = known \cup {c.session}
  /\ creates' = Moved(creates)
  /\ deletes' = Moved(deletes \ {c})

\* The page has moved: only the list is asked for anew.
RefreshAfterDelete(c) ==
  /\ c.here /\ ~(c.still /\ Open)
  /\ LoadSessions
  /\ deleting' = "success"
  /\ known' = known \cup {c.session}
  /\ deletes' = deletes \ {c}
  /\ UNCHANGED <<route, opened, reads, creates, creating, archives, archiveError>>

\* The page that made the call is gone and finds itself where it was: it goes on to the
\* neighbour, wherever the user is by now.  If he is there already nothing is mounted, and
\* the page he sees does not hear of the deletion.
NavigateFromTheDead(c) ==
  /\ ~c.here
  /\ IF Neighbour(c) = route
     THEN /\ deletes' = deletes \ {c}
          /\ UNCHANGED <<route, opened, reads, creates, creating, archives, archiveError,
                         list, lists, timer, deleting, known>>
     ELSE /\ Arrive(Neighbour(c))
          /\ MountAnew
          /\ creates' = Moved(creates)
          /\ deletes' = Moved(deletes \ {c})

\* The provider deletes the session.
Removed(c) ==
  /\ Exists(c.session)
  /\ remote' = [remote EXCEPT ![c.session] = "deleted"]

DeleteAnswered(c) ==
  /\ c \in deletes
  /\ Removed(c)
  /\ LeaveDeleted(c) \/ RefreshAfterDelete(c) \/ NavigateFromTheDead(c)
  /\ UNCHANGED folder

\* The page keeps what it shows, also when the provider has deleted the session and only
\* its answer was lost.
DeleteFails(c) ==
  /\ c \in deletes
  /\ deletes' = deletes \ {c}
  /\ deleting' = IF c.here THEN "error" ELSE deleting
  /\ UNCHANGED remote \/ Removed(c)
  /\ UNCHANGED <<route, folder, opened, list, timer, creating, archiveError,
                 reads, lists, creates, archives, known>>

-----------------------------------------------------------------------------
\* One session is there; the URL may name any session.
Init ==
  /\ route \in {1, None}
  /\ folder \in Folders
  /\ remote = [s \in Ids |-> IF s = 1 THEN "active" ELSE "none"]
  /\ opened = IF route = None THEN Idle ELSE Loading
  /\ reads = IF route = None THEN {}
             ELSE {[current |-> TRUE, session |-> route, found |-> remote[route]]}
  /\ list = Loading
  /\ lists = {[current |-> TRUE, data |-> ListSessions(remote)]}
  /\ timer = FALSE
  /\ creating = "idle" /\ creates = {}
  /\ archiveError = FALSE /\ archives = {}
  /\ deleting = "idle" /\ deletes = {}
  /\ known = {}

Next ==
  \/ ReloadSessions \/ SessionsAnswered
  \/ Navigate \/ NavigateToFirst \/ OpenAgain \/ SelectFolder
  \/ CreateSession \/ ArchiveSession \/ RenameSession \/ DeleteSession
  \/ \E q \in reads : SessionAnswered(q)
  \/ \E c \in creates : CreateAnswered(c) \/ CreateFails(c)
  \/ \E c \in archives : ChangeAnswered(c) \/ ChangeFails(c)
  \/ \E c \in deletes : DeleteAnswered(c) \/ DeleteFails(c)

Spec == Init /\ [][Next]_vars

-----------------------------------------------------------------------------
(* Properties.                                                             *)

TypeOK ==
  /\ route \in Ids \cup {None} /\ folder \in Folders
  /\ opened.status \in {"idle", "loading", "error", "success"}
  /\ Open => opened.session = route
  /\ list.status \in {"loading", "error", "success"}
  /\ list.status = "success" => list.data \subseteq Ids
  /\ timer \in BOOLEAN /\ archiveError \in BOOLEAN
  /\ creating \in {"idle", "loading", "error", "success"}
  /\ deleting \in {"idle", "loading", "error", "success"}
  /\ remote \in [Ids -> {"none", "active", "archived", "deleted"}]
  /\ known \subseteq Deleted(remote)

\* A list that is being loaded will be there: a request whose answer counts is under way, or
\* a timer will send one.  Every change of a session gives up the request under way.
ListIsComing ==
  list.status = "loading" => timer \/ \E q \in lists : q.current

\* A session whose deletion the page on the screen knows of is not offered in its list again,
\* whatever list was under way when it was deleted and wherever the page has gone since.  A
\* page knows of a deletion when it is told, and of all that came before it was mounted.
DeletedIsNotListed ==
  list.status = "success" => list.data \cap known = {}

\* The same for every session the provider has deleted.  The code does not see to it: the
\* answer may be lost, or, where the page is mounted anew for another path, be given to a
\* page that is gone and goes on to the path the user is already at.
NothingDeletedIsListed ==
  list.status = "success" => list.data \cap Deleted(remote) = {}

\* The test "does not let a late delete response take over a newer Session route": a
\* deletion that is answered when the user has gone elsewhere leaves him there.
LateDeleteStaysHere ==
  \A c \in deletes : DeleteAnswered(c) /\ ~c.still => UNCHANGED route

LateDeleteStays == [][LateDeleteStaysHere]_vars

=============================================================================
