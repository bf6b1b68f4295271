--------------------------- MODULE WorkbenchFrame ---------------------------
(***************************************************************************)
(* The frame of the workbench page (WorkbenchPage, SplitHandle): the pane  *)
(* of sessions, and the widths of the panes, which are dragged, set with   *)
(* keys, and kept in the storage of the browser.                           *)
(*                                                                         *)
(* A render and the effects it causes are one step.  Pixels are small      *)
(* numbers, and every key moves by one.  Another tab may write the stored  *)
(* widths, and the browser may refuse to store any.                        *)
(***************************************************************************)
EXTENDS Integers

CONSTANTS
  Minimum, Default, Maximum,  \* of the widths
  None

\* What the constants must be (assumed in PluginPages).
Parameters ==
  /\ Minimum \in Int /\ Maximum \in Int /\ Default \in Minimum..Maximum
  /\ None \notin Int

VARIABLES
  page,   \* the panes, the widths and what is dragged
  calls,  \* none: the frame asks for nothing
  store   \* the stored widths

vars == <<page, calls, store>>

Handles == {"history", "conversation"}

\* The handle of a pane that is not there is not there either.
Shown(h) == IF h = "history" THEN page.history ELSE page.opened

-----------------------------------------------------------------------------
(* Panes.                                                                  *)

\* A handle that goes away while it is dragged lets go without a commit.
Undragged(p) ==
  [p EXCEPT !.drag = [h \in Handles |->
     IF (h = "history" /\ ~p.history) \/ (h = "conversation" /\ ~p.opened) THEN None ELSE @[h]]]

ToggleHistory ==
  /\ page' = Undragged([page EXCEPT !.history = ~@])
  /\ UNCHANGED <<calls, store>>

\* The page becomes narrow or wide; the first measurement counts as a change.
Measure ==
  /\ \E compact \in BOOLEAN \ {page.compact} :
       page' = Undragged([page EXCEPT !.compact = compact, !.history = ~compact])
  /\ UNCHANGED <<calls, store>>

SessionOpens ==
  /\ page' = Undragged([page EXCEPT !.opened = ~@])
  /\ UNCHANGED <<calls, store>>

-----------------------------------------------------------------------------
(* Widths.                                                                 *)

Clamp(w) == IF w < Minimum THEN Minimum ELSE IF w > Maximum THEN Maximum ELSE w

\* boundedWidth: what is not a number is the default.
BoundedWidth(w) == IF w = None THEN Default ELSE Clamp(w)

ReadSplitLayout(stored) == [h \in Handles |-> BoundedWidth(stored[h])]

\* The storage takes it or not.
PersistSplitLayout(layout) == store' = layout \/ UNCHANGED store

\* onChange: the widths change, and the effect sets the timer anew.
Changed(p, h, w) == [p EXCEPT !.widths[h] = w, !.saving = TRUE]

\* onCommit stores at once, with the width of the other pane as it is.
Commit(h, w) == PersistSplitLayout([page.widths EXCEPT ![h] = w])

\* Enter, a double click, and the keys.
SetWidth(h) ==
  /\ Shown(h)
  /\ \E w \in {Default, Minimum, Maximum, Clamp(page.widths[h] - 1), Clamp(page.widths[h] + 1)} :
       page' = Changed(page, h, w) /\ Commit(h, w)
  /\ UNCHANGED calls

PointerDown(h) ==
  /\ Shown(h)
  /\ page' = [page EXCEPT !.drag[h] = [start |-> page.widths[h], current |-> page.widths[h]]]
  /\ UNCHANGED <<calls, store>>

PointerMove(h) ==
  /\ page.drag[h] # None
  /\ \E w \in Minimum..Maximum :
       page' = Changed([page EXCEPT !.drag[h].current = w], h, w)
  /\ UNCHANGED <<calls, store>>

\* The pointer is lifted, cancelled or taken away: where it was last is stored.
FinishDragging(h) ==
  /\ page.drag[h] # None
  /\ page' = [page EXCEPT !.drag[h] = None]
  /\ Commit(h, page.drag[h].current)
  /\ UNCHANGED calls

TimerStores ==
  /\ page.saving
  /\ page' = [page EXCEPT !.saving = FALSE]
  /\ PersistSplitLayout(page.widths)
  /\ UNCHANGED calls

-----------------------------------------------------------------------------
(* The page.                                                               *)

\* The widths are stored, the timer is not waited for.
LeaveStored == PersistSplitLayout(page.widths)

NewPage(widths) ==
  [opened |-> FALSE, history |-> TRUE, compact |-> None, widths |-> widths,
   drag |-> [h \in Handles |-> None], saving |-> TRUE]

\* Another path, or another session: the page is left, and mounted anew.
Remount ==
  /\ LeaveStored
  /\ page' = NewPage(ReadSplitLayout(store'))
  /\ UNCHANGED calls

AnotherTab ==
  /\ store' \in [Handles -> (Minimum - 1)..(Maximum + 1) \cup {None}]
  /\ UNCHANGED <<page, calls>>

Init ==
  /\ store = [h \in Handles |-> None]
  /\ page = NewPage(ReadSplitLayout(store))
  /\ calls = {}

Next ==
  \/ ToggleHistory \/ Measure \/ SessionOpens
  \/ \E h \in Handles : SetWidth(h) \/ PointerDown(h) \/ PointerMove(h) \/ FinishDragging(h)
  \/ TimerStores \/ Remount \/ AnotherTab

Spec == Init /\ [][Next]_vars

-----------------------------------------------------------------------------
(* Properties.                                                             *)

\* The widths are within their bounds whatever is stored, and a handle that is dragged is shown.
TypeOK ==
  /\ page.widths \in [Handles -> Minimum..Maximum]
  /\ \A h \in Handles : page.drag[h] # None => Shown(h)
  /\ calls = {}

=============================================================================
