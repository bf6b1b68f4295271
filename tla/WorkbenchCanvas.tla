--------------------------- MODULE WorkbenchCanvas ---------------------------
(***************************************************************************)
(* The canvas of the session on the page: edits that are shown at once and *)
(* sent afterwards, canvas events of a running turn that read it anew, and *)
(* the charts the page draws by itself from the queries of the turn.  The  *)
(* module models updateCanvas and the canvas part of runCommand in         *)
(* useWorkbenchController with the rules of workbenchReducer, CanvasStrip, *)
(* and getCanvas and updateCanvas of resourceWorkbenchGateway.             *)
(*                                                                         *)
(* The store behind the gateway is the one of CanvasStore; what is needed  *)
(* of it here is its revision and its charts.  The code compares canvas    *)
(* objects by identity: by is the edit that made the object on the page,   *)
(* 0 for an object that came from anywhere else.                           *)
(***************************************************************************)
EXTENDS Naturals, Sequences, FiniteSets, SequencesExt

CONSTANTS
  MaxCharts,  \* bound: charts the agent publishes
  MaxEdits    \* bound: edits of the user

\* What the constants must be (assumed in PluginPages).
Parameters == MaxCharts \in Nat \ {0} /\ MaxEdits \in Nat \ {0}

EditIds == 1 .. MaxEdits

VARIABLES
  shown,      \* openedRef.canvas: the object, its revision and its charts
  streaming,  \* a turn is running
  news,       \* canvas events of the turn that were not looked at yet
  reading,    \* getCanvas for an event, or the read at the end of the turn
  edit,       \* the calls of updateCanvas
  stored,     \* the store: revision, charts, and how many were published
  seen,       \* history: the charts the page has shown
  unseen      \* history: the charts an accepted edit dropped that were never shown

vars == <<shown, streaming, news, reading, edit, stored, seen, unseen>>

\* The chart that chartFromPrometheusCall makes up; the store does not know it.
PreviewChart == 0

NoRead == [pc |-> "none"]
NoEdit == [pc |-> "none"]

\* An object with the state the store answered.
Fresh(answer) == [by |-> 0, revision |-> answer.revision, charts |-> answer.charts]

\* publishOpened with another canvas.
Show(canvas) ==
  /\ shown' = canvas
  /\ seen' = seen \cup ToSet(canvas.charts)

-----------------------------------------------------------------------------
(* The turn.                                                               *)

SendTurn ==
  /\ ~streaming
  /\ reading = NoRead
  /\ streaming' = TRUE
  /\ UNCHANGED <<shown, seen, news, reading, edit, stored, unseen>>

\* The agent publishes a chart, and the browser will hear of it.
PublishChart ==
  /\ streaming
  /\ \E c \in 1 .. MaxCharts :
       /\ c = stored.published + 1
       /\ stored' = [revision |-> stored.revision + 1, published |-> c,
                     charts |-> Append(stored.charts, c)]
  /\ news' = news + 1
  /\ UNCHANGED <<shown, seen, streaming, reading, edit, unseen>>

\* canvas_updated: the stream waits for the read.
CanvasUpdated ==
  /\ streaming
  /\ news > 0
  /\ reading = NoRead
  /\ news' = news - 1
  /\ reading' = [pc |-> "sent"]
  /\ UNCHANGED <<shown, seen, streaming, edit, stored, unseen>>

\* The end of the stream: openSession reads the canvas with the messages.
EndTurn ==
  /\ streaming
  /\ reading = NoRead
  /\ streaming' = FALSE
  /\ news' = 0
  /\ reading' = [pc |-> "sent"]
  /\ UNCHANGED <<shown, seen, edit, stored, unseen>>

ServeRead ==
  /\ reading.pc = "sent"
  /\ reading' = [pc |-> "served", revision |-> stored.revision, charts |-> stored.charts]
  /\ UNCHANGED <<shown, seen, streaming, news, edit, stored, unseen>>

\* The answer is published over whatever the page shows by then.
ReadArrives ==
  /\ reading.pc = "served"
  /\ Show(Fresh(reading))
  /\ reading' = NoRead
  /\ UNCHANGED <<streaming, news, edit, stored, unseen>>

\* A read that fails ends the stream; at its end it leaves the page alone.
ReadFails ==
  /\ reading # NoRead
  /\ reading' = NoRead
  /\ streaming' = FALSE
  /\ news' = 0
  /\ UNCHANGED <<shown, seen, edit, stored, unseen>>

\* tool_result of a Prometheus query: a chart of the page's own.
ToolResult ==
  /\ streaming
  /\ reading = NoRead
  /\ Show([shown EXCEPT !.by = 0,
            !.charts = IF Contains(@, PreviewChart) THEN @ ELSE Append(@, PreviewChart)])
  /\ UNCHANGED <<streaming, news, reading, edit, stored, unseen>>

\* message_end merges no charts, into a new object.
MessageEnd ==
  /\ streaming
  /\ reading = NoRead
  /\ Show([shown EXCEPT !.by = 0])
  /\ UNCHANGED <<streaming, news, reading, edit, stored, unseen>>

\* The user leaves the session and comes back to a page that is mounted anew: what the
\* store has yet to hear of the old one is sent for nobody.
Reopen ==
  /\ Show(Fresh(stored))
  /\ streaming' = FALSE
  /\ news' = 0
  /\ reading' = NoRead
  /\ edit' = [k \in EditIds |->
       CASE edit[k].pc = "none" -> NoEdit
         [] edit[k].pc \in {"put", "orphan"} -> [edit[k] EXCEPT !.pc = "orphan"]
         [] OTHER -> [edit[k] EXCEPT !.pc = "done"]]
  /\ UNCHANGED <<stored, unseen>>

-----------------------------------------------------------------------------
(* updateCanvas.                                                           *)

\* What CanvasStrip offers: to delete a chart or to change places with a neighbour.
Edited(charts) ==
  {RemoveAt(charts, i) : i \in DOMAIN charts} \cup
  {[charts EXCEPT ![i] = charts[i + 1], ![i + 1] = charts[i]] : i \in 1 .. Len(charts) - 1}

\* The edit is on the page at once and sent with the revision of the page.
UpdateCanvas(k) ==
  /\ edit[k] = NoEdit
  /\ \A j \in EditIds : j < k => edit[j] # NoEdit
  /\ \E charts \in Edited(shown.charts) :
       /\ Show([shown EXCEPT !.by = k, !.charts = charts])
       /\ edit' = [edit EXCEPT ![k] =
            [pc |-> "put", revision |-> shown.revision, charts |-> charts, before |-> shown]]
  /\ UNCHANGED <<streaming, news, reading, stored, unseen>>

\* Store.UpdateLayout: the revision must be the one of the row, the charts must be known.
Acceptable(e) ==
  /\ e.revision = stored.revision
  /\ \A i \in DOMAIN e.charts : Contains(stored.charts, e.charts[i])

\* Nobody waits for the answer to an orphan.
Heard(e, answer) == IF e.pc = "orphan" THEN "done" ELSE answer

ServePut(k) ==
  LET e == edit[k]
  IN  /\ e.pc \in {"put", "orphan"}
      /\ IF Acceptable(e)
         THEN /\ stored' = [stored EXCEPT !.revision = @ + 1, !.charts = e.charts]
              /\ unseen' = unseen \cup ((ToSet(stored.charts) \ ToSet(e.charts)) \ seen)
              /\ edit' = [edit EXCEPT ![k] = [@ EXCEPT !.pc = Heard(e, "accepted"),
                                                       !.revision = e.revision + 1]]
         ELSE /\ edit' = [edit EXCEPT ![k].pc = Heard(e, "failed")]
              /\ UNCHANGED <<stored, unseen>>
      /\ UNCHANGED <<shown, seen, streaming, news, reading>>

\* The answer of a PUT is lost, whether or not the store had it.
LosePut(k) ==
  /\ edit[k].pc \in {"put", "accepted"}
  /\ edit' = [edit EXCEPT ![k].pc = "failed"]
  /\ UNCHANGED <<shown, seen, streaming, news, reading, stored, unseen>>

\* The answer is adopted if the page still shows the object of this edit.
AdoptAnswer(k) ==
  /\ edit[k].pc = "accepted"
  /\ Show(IF shown.by = k THEN Fresh(edit[k]) ELSE shown)
  /\ edit' = [edit EXCEPT ![k].pc = "done"]
  /\ UNCHANGED <<streaming, news, reading, stored, unseen>>

\* A failed PUT of the edit on the page reads the canvas again.
PutFailed(k) ==
  /\ edit[k].pc = "failed"
  /\ edit' = [edit EXCEPT ![k].pc = IF shown.by = k THEN "get" ELSE "done"]
  /\ UNCHANGED <<shown, seen, streaming, news, reading, stored, unseen>>

ServeGet(k) ==
  /\ edit[k].pc = "get"
  /\ edit' = [edit EXCEPT ![k] = [@ EXCEPT !.pc = "read", !.revision = stored.revision,
                                           !.charts = stored.charts]]
  /\ UNCHANGED <<shown, seen, streaming, news, reading, stored, unseen>>

\* Fault: the page keeps its charts and takes the revision of what was read.
RebaseEdit(k) ==
  /\ edit[k].pc = "read"
  /\ Show([shown EXCEPT !.revision = edit[k].revision])
  /\ edit' = [edit EXCEPT ![k].pc = "done"]
  /\ UNCHANGED <<streaming, news, reading, stored, unseen>>

\* What was read is shown, whatever the page shows by now.
GetAnswered(k) ==
  /\ edit[k].pc = "read"
  /\ Show(Fresh(edit[k]))
  /\ edit' = [edit EXCEPT ![k].pc = "done"]
  /\ UNCHANGED <<streaming, news, reading, stored, unseen>>

\* The read fails as well: back to the canvas before the edit.
GetFails(k) ==
  /\ edit[k].pc \in {"get", "read"}
  /\ Show(IF shown.by = k THEN edit[k].before ELSE shown)
  /\ edit' = [edit EXCEPT ![k].pc = "done"]
  /\ UNCHANGED <<streaming, news, reading, stored, unseen>>

-----------------------------------------------------------------------------
Init ==
  /\ stored = [revision |-> 0, charts |-> <<>>, published |-> 0]
  /\ shown = Fresh(stored)
  /\ streaming = FALSE
  /\ news = 0
  /\ reading = NoRead
  /\ edit = [k \in EditIds |-> NoEdit]
  /\ seen = {} /\ unseen = {}

Next ==
  \/ SendTurn \/ PublishChart \/ CanvasUpdated \/ EndTurn \/ ServeRead \/ ReadArrives
  \/ ReadFails \/ ToolResult \/ MessageEnd \/ Reopen
  \/ \E k \in EditIds :
       \/ UpdateCanvas(k) \/ ServePut(k) \/ LosePut(k) \/ AdoptAnswer(k) \/ PutFailed(k)
       \/ ServeGet(k) \/ GetAnswered(k) \/ GetFails(k)

Spec == Init /\ [][Next]_vars

-----------------------------------------------------------------------------
(* Properties.                                                             *)

TypeOK ==
  /\ shown.by \in 0 .. MaxEdits
  /\ shown.revision \in Nat /\ shown.charts \in Seq(0 .. MaxCharts)
  /\ streaming \in BOOLEAN /\ news \in Nat
  /\ reading.pc \in {"none", "sent", "served"}
  /\ \A k \in EditIds :
       edit[k].pc \in {"none", "put", "orphan", "accepted", "failed", "get", "read", "done"}
  /\ stored.revision \in Nat /\ stored.charts \in Seq(1 .. MaxCharts)
  /\ stored.published \in 0 .. MaxCharts
  /\ seen \subseteq 0 .. MaxCharts /\ unseen \subseteq 1 .. MaxCharts

\* The page never claims a state of the store that it does not have, so that an edit which
\* the store accepts removes no chart that the user had not had before his eyes.
NothingDroppedUnseen == unseen = {}

\* The test "preserves a canvas edit made while a response is streaming": an edit the store
\* has accepted and the page has taken over is not undone on the page by an older answer.
EditIsPreserved == [][shown'.revision >= shown.revision]_vars

=============================================================================
