-------------------------- MODULE WorkbenchContext --------------------------
(***************************************************************************)
(* The context of the active folder (its services, skills and playbooks),  *)
(* which useWorkbenchController reads for the drawer of the workbench and  *)
(* for the mentions of the composer.                                       *)
(*                                                                         *)
(* A render and the effects it causes are one step.  The gateway serves a  *)
(* request at any time, or never.                                          *)
(***************************************************************************)
EXTENDS Naturals, FiniteSets

CONSTANTS
  Folders,   \* the folders that may be active
  MaxCalls,  \* bound: requests under way
  None

\* What the constants must be (assumed in PluginPages).
Parameters == MaxCalls \in Nat /\ None \notin Folders

VARIABLES
  page,   \* the active folder, its context, the folder it was asked for, the drawer
  calls,  \* the unanswered requests
  store   \* nothing: the page keeps no context

vars == <<page, calls, store>>

-----------------------------------------------------------------------------
\* What the page is given: nothing of another folder, before the new one is asked for.
VisibleContext ==
  IF page.folder = None THEN [status |-> "idle"]
  ELSE IF page.asked # page.folder THEN [status |-> "loading"]
  ELSE page.context

\* Fault: what arrives is shown.
CountsAlways(q) == TRUE

\* An answer counts for the last request, and for the folder that is still active.
Counts(q) == q.current /\ q.folder = page.folder

GivenUp == {[q EXCEPT !.current = FALSE] : q \in calls}

LoadContext(p) ==
  /\ Cardinality(GivenUp \cup {[folder |-> page.folder, current |-> TRUE]}) <= MaxCalls
  /\ page' = [p EXCEPT !.asked = page.folder, !.context = [status |-> "loading"]]
  /\ calls' = GivenUp \cup {[folder |-> page.folder, current |-> TRUE]}
  /\ UNCHANGED store

\* Another folder is active: the request under way is given up, and a timer sends the next.
FolderChanges ==
  /\ \E f \in (Folders \cup {None}) \ {page.folder} :
       page' = [page EXCEPT !.folder = f, !.timer = f # None,
                            !.asked = IF f = None THEN None ELSE @]
  /\ calls' = GivenUp
  /\ UNCHANGED store

TimerLoads ==
  /\ page.timer
  /\ LoadContext([page EXCEPT !.timer = FALSE])

RetryContext ==
  /\ page.drawer /\ VisibleContext.status = "error"
  /\ LoadContext(page)

ContextAnswered(q) ==
  /\ calls' = calls \ {q}
  /\ page' = IF Counts(q)
             THEN [page EXCEPT !.context = [status |-> "success", of |-> q.folder]] ELSE page
  /\ UNCHANGED store

ContextFails(q) ==
  /\ calls' = calls \ {q}
  /\ page' = IF Counts(q) THEN [page EXCEPT !.context = [status |-> "error"]] ELSE page
  /\ UNCHANGED store

\* The button of the pane, or Escape.
ToggleContext ==
  /\ page' = [page EXCEPT !.drawer = ~@]
  /\ UNCHANGED <<calls, store>>

-----------------------------------------------------------------------------
Init ==
  /\ \E folder \in Folders \cup {None} :
       page = [folder |-> folder, context |-> [status |-> "idle"], asked |-> None,
               timer |-> folder # None, drawer |-> FALSE]
  /\ calls = {}
  /\ store = None

Next ==
  \/ FolderChanges \/ TimerLoads \/ RetryContext \/ ToggleContext
  \/ \E q \in calls : ContextAnswered(q) \/ ContextFails(q)

Spec == Init /\ [][Next]_vars

-----------------------------------------------------------------------------
(* Properties.                                                             *)

\* A timer is set for a folder, and at most one request counts.
TypeOK ==
  /\ page.folder \in Folders \cup {None} /\ page.asked \in Folders \cup {None}
  /\ page.timer => page.folder # None
  /\ Cardinality({q \in calls : q.current}) <= 1
  /\ store = None

\* The drawer shows the services and skills of the active folder and of no other, in whatever
\* order the answers for the folders that were active arrive.
ContextIsOfFolder ==
  VisibleContext.status = "success" => VisibleContext.of = page.folder

=============================================================================
