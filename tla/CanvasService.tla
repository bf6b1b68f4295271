---------------------------- MODULE CanvasService ----------------------------
(***************************************************************************)
(* Everything that reaches a canvas: the service that checks the agent's   *)
(* session before it calls the store (application/canvas/service.go), the  *)
(* removal of the canvas with its session (httpserver/agents.go), the MCP  *)
(* tool an agent publishes with (canvasmcp/handler.go), and the event      *)
(* stream that tells a browser to read the canvas again.                   *)
(*                                                                         *)
(* Calls run at once.  A call asks the provider for the session, runs its  *)
(* transaction, and reads the canvas back in two statements of their own,  *)
(* the row first and then the items; anything may happen between two of    *)
(* these steps, and any of them may fail.                                  *)
(*                                                                         *)
(* The agent provider is external: it is the state of the session.  The    *)
(* browser is modelled by what it does on an event: it reads the canvas,   *)
(* one event after the other, and a read that fails ends its stream.       *)
(***************************************************************************)
EXTENDS CanvasStore

CONSTANTS
  Calls,       \* calls served at once, with the clients that make them
  QueueLimit   \* events a subscription holds

ASSUME ServiceAssumption == QueueLimit \in Nat \ {0}

VARIABLES
  session,  \* the provider's session; "deleted": and the client was told so
  call,     \* the calls in progress
  stream    \* the event stream of a browser

vars == <<tables, session, call, stream>>

-----------------------------------------------------------------------------
(* A view is what a call has read of the canvas: the revision and the      *)
(* active chart come from the row, the charts from the items.              *)

View == [revision : 0 .. MaxRevision, active : ChartIds \cup {None}, shown : SUBSET ChartIds]
NoView == [revision |-> 0, active |-> None, shown |-> {}]

CallState ==
  [pc : {"idle", "publish", "row", "items", "notify", "holding", "update", "remove"},
   key : Keys \cup {None}, hash : Hashes \cup {None}, view : View]

Idle == [pc |-> "idle", key |-> None, hash |-> None, view |-> NoView]

StreamState ==
  [open : BOOLEAN, pending : 0 .. QueueLimit, reading : {"no", "row", "items"},
   shown : 0 .. MaxRevision, due : 0 .. MaxRevision]

\* pending: events on their way; reading: what the browser is to read next for one of them;
\* shown: the revision it read last; due: the newest revision it was to be told of.
Closed == [open |-> FALSE, pending |-> 0, reading |-> "no", shown |-> 0, due |-> 0]

SessionExists == session \in {"active", "archived"}

Goto(t, pc) == call' = [call EXCEPT ![t].pc = pc]
End(t) == call' = [call EXCEPT ![t] = Idle]

-----------------------------------------------------------------------------
(* Reading.  readProjection stops at the row when there is none.           *)

BeginGet(t) ==
  /\ call[t].pc \in {"idle", "holding"} /\ SessionExists
  /\ call' = [call EXCEPT ![t] = [Idle EXCEPT !.pc = "row"]]
  /\ UNCHANGED <<tables, session, stream>>

\* Whoever publishes goes on to tell; whoever reads or edits holds what it read.
AfterRead(t) == IF call[t].key = None THEN "holding" ELSE "notify"

\* Fault: the items are read before the row.
ReadItemsFirst(t) ==
  /\ \/ /\ call[t].pc = "row"
        /\ call' = [call EXCEPT ![t].pc = "items", ![t].view = [NoView EXCEPT !.shown = DOMAIN items]]
     \/ /\ call[t].pc = "items"
        /\ call' = [call EXCEPT ![t].pc = AfterRead(t),
                                ![t].view = [revision |-> canvas.revision, active |-> canvas.active,
                                             shown |-> call[t].view.shown]]
  /\ UNCHANGED <<tables, session, stream>>

ReadRow(t) ==
  /\ call[t].pc = "row"
  /\ call' = [call EXCEPT ![t].pc = IF canvas.revision = 0 THEN AfterRead(t) ELSE "items",
                          ![t].view = [revision |-> canvas.revision, active |-> canvas.active,
                                       shown |-> {}]]

ReadItems(t) ==
  /\ call[t].pc = "items"
  /\ call' = [call EXCEPT ![t].pc = AfterRead(t), ![t].view.shown = DOMAIN items]

ReadProjection(t) ==
  /\ ReadRow(t) \/ ReadItems(t)
  /\ UNCHANGED <<tables, session, stream>>

-----------------------------------------------------------------------------
(* Publishing, and telling the subscribers.                                *)

BeginPublish(t, key, hash) ==
  /\ call[t].pc = "idle" /\ session = "active"
  /\ call' = [call EXCEPT ![t] = [Idle EXCEPT !.pc = "publish", !.key = key, !.hash = hash]]
  /\ UNCHANGED <<tables, session, stream>>

\* A repetition reads the canvas inside its transaction.
StorePublish(t) ==
  /\ call[t].pc = "publish"
  /\ \/ PublishNewChart(call[t].key, call[t].hash) /\ Goto(t, "row")
     \/ /\ PublishAgain(call[t].key, call[t].hash)
        /\ call' = [call EXCEPT ![t].pc = "notify",
                      ![t].view = [revision |-> canvas.revision, active |-> canvas.active,
                                   shown |-> DOMAIN items]]
  /\ UNCHANGED <<session, stream>>

\* Fault: the channel has no buffer, so an event is lost unless the browser waits for it.
EventUnbuffered(revision) ==
  stream' = [stream EXCEPT !.pending = IF stream.reading = "no" /\ @ = 0 THEN 1 ELSE @,
                           !.due = IF @ < revision THEN revision ELSE @]

\* Fault: no event is dropped, however many are on their way.
EventUnbounded(revision) ==
  stream' = [stream EXCEPT !.pending = @ + 1, !.due = IF @ < revision THEN revision ELSE @]

\* publishEvent: the event is dropped when the subscription is full.
PublishEvent(revision) ==
  stream' = [stream EXCEPT !.pending = IF @ < QueueLimit THEN @ + 1 ELSE @,
                           !.due = IF @ < revision THEN revision ELSE @]

\* No event is sent where the canvas that was read back has no active chart.
Notify(t) ==
  /\ call[t].pc = "notify"
  /\ IF call[t].view.active # None /\ stream.open
       THEN PublishEvent(call[t].view.revision)
       ELSE UNCHANGED stream
  /\ End(t)
  /\ UNCHANGED <<tables, session>>

-----------------------------------------------------------------------------
(* Editing: a client that holds a view sends the revision it read and any  *)
(* arrangement of charts it saw, with any of them as the active one.       *)

BeginUpdate(t) ==
  /\ call[t].pc = "holding" /\ session = "active"
  /\ Goto(t, "update")
  /\ UNCHANGED <<tables, session, stream>>

StoreUpdate(t) ==
  /\ call[t].pc = "update"
  /\ \E set \in SUBSET call[t].view.shown : \E order \in Arrangements(set) :
       \E active \in call[t].view.shown \cup {None} : UpdateLayout(call[t].view.revision, order, active)
  /\ Goto(t, "row")
  /\ UNCHANGED <<session, stream>>

\* A transaction is refused or fails, a statement fails, or the client goes away.
Fail(t) ==
  /\ call[t].pc \notin {"idle", "notify"}
  /\ End(t)
  /\ UNCHANGED <<tables, session, stream>>

-----------------------------------------------------------------------------
(* The session.  Deleting it is a call to the provider, which may find it  *)
(* gone already, and then one to the store.                                *)

Archive == session = "active" /\ session' = "archived" /\ UNCHANGED <<tables, call, stream>>
Unarchive == session = "archived" /\ session' = "active" /\ UNCHANGED <<tables, call, stream>>

BeginDelete(t) ==
  /\ call[t].pc = "idle"
  /\ session' = IF SessionExists THEN "gone" ELSE session
  /\ Goto(t, "remove")
  /\ UNCHANGED <<tables, stream>>

FinishDelete(t) ==
  /\ call[t].pc = "remove"
  /\ DeleteCanvas
  /\ session' = "deleted"
  /\ End(t)
  /\ UNCHANGED stream

-----------------------------------------------------------------------------
(* The stream of a turn.                                                   *)

OpenStream ==
  /\ ~stream.open /\ session = "active"
  /\ stream' = [Closed EXCEPT !.open = TRUE]
  /\ UNCHANGED <<tables, session, call>>

TakeEvent ==
  /\ stream.open /\ stream.reading = "no" /\ stream.pending > 0
  /\ stream' = [stream EXCEPT !.pending = @ - 1, !.reading = "row"]
  /\ UNCHANGED <<tables, session, call>>

ShowRow ==
  /\ stream.reading = "row"
  /\ stream' = IF SessionExists THEN [stream EXCEPT !.reading = "items", !.shown = canvas.revision]
               ELSE Closed
  /\ UNCHANGED <<tables, session, call>>

ShowItems ==
  /\ stream.reading = "items"
  /\ stream' = [stream EXCEPT !.reading = "no"]
  /\ UNCHANGED <<tables, session, call>>

\* The turn is over, the browser leaves, or its read of the canvas fails.
CloseStream ==
  /\ stream.open
  /\ stream' = Closed
  /\ UNCHANGED <<tables, session, call>>

-----------------------------------------------------------------------------
(* The specification.                                                      *)

Init ==
  /\ StoreInit
  /\ session = "active"
  /\ call = [t \in Calls |-> Idle]
  /\ stream = Closed

CallStep(t) ==
  \/ BeginGet(t)
  \/ ReadProjection(t)
  \/ \E key \in Keys, hash \in Hashes : BeginPublish(t, key, hash)
  \/ StorePublish(t)
  \/ Notify(t)
  \/ BeginUpdate(t)
  \/ StoreUpdate(t)
  \/ BeginDelete(t)
  \/ FinishDelete(t)
  \/ Fail(t)

Next ==
  \/ \E t \in Calls : CallStep(t)
  \/ Archive
  \/ Unarchive
  \/ OpenStream
  \/ TakeEvent
  \/ ShowRow
  \/ ShowItems
  \/ CloseStream

Spec == Init /\ [][Next]_vars

\* The stream's loop and the browser go on as long as there are events; nobody has to
\* publish, to edit or to end the stream.
Fairness == WF_vars(TakeEvent) /\ WF_vars(ShowRow) /\ WF_vars(ShowItems)

FairSpec == Spec /\ Fairness

-----------------------------------------------------------------------------
(* Properties.                                                             *)

\* Every variable holds rows, calls and streams of the declared kinds.
TypeOK ==
  /\ StoreTypeOK
  /\ session \in {"active", "archived", "gone", "deleted"}
  /\ call \in [Calls -> CallState]
  /\ stream \in StreamState

\* An edit is only ever accepted over exactly the charts its sender saw, although a view is
\* read in two statements with publications in between: nothing is dropped or moved blindly.
EditsAreNotBlind ==
  [][\A t \in Calls :
       SessionExists /\ call[t].pc = "update" /\ call'[t].pc = "row"
         => call[t].view.shown = DOMAIN items]_vars

\* While the browser shows less than it was to be told of, an event is on its way or being
\* acted on: that events are dropped from a full subscription loses no publication.
UpdateIsComing ==
  stream.open /\ stream.shown < stream.due => stream.pending > 0 \/ stream.reading = "row"

\* A browser that keeps its stream open gets to see every publication it was to be told of.
NotificationsSuffice ==
  \A r \in 1 .. MaxRevision :
    (stream.open /\ stream.due >= r) ~> (~stream.open \/ stream.shown >= r)

\* A publication is answered with the chart of its own key (canvas.publish_query_chart
\* returns the active chart of the canvas it read).
AnswerIsOwnChart ==
  \A t \in Calls : call[t].pc = "notify" /\ call[t].view.active \in DOMAIN charts
                     => charts[call[t].view.active].key = call[t].key

\* Once the client was told that the session is deleted, no canvas is left behind.
DeletedWithSession ==
  session = "deleted" /\ (\A t \in Calls : call[t].pc = "idle") => canvas = NoCanvas

=============================================================================
