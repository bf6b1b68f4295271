----------------------------- MODULE CodexEvents -----------------------------
(***************************************************************************)
(* The events of Codex turns (codex/events.go) and the calls that open     *)
(* their streams (StartTurn and ResolveApproval of codex/provider.go, as   *)
(* the HTTP handlers use them).                                            *)
(*                                                                         *)
(* One loop, the hub, takes notifications and requests from the client and *)
(* dispatches them to the stream of their turn.  A turn without a stream   *)
(* has its notifications kept, to be dispatched again by the handler that  *)
(* registers a stream for it, beside the hub; a turn whose reader has left *)
(* is detached and has them dropped.  The tables of the hub are read and   *)
(* written under a lock, the streams are written outside it: each          *)
(* dispatcher therefore works through a list of steps, and everything may  *)
(* happen between two of them.                                             *)
(*                                                                         *)
(* A stream is a bounded channel that only its reader closes.  What is     *)
(* written to a full one waits for the reader.                             *)
(***************************************************************************)
EXTENDS CodexClient

CONSTANTS
  Handlers,    \* HTTP requests served at once
  Hub,         \* the dispatcher that is no handler
  MaxEarly,    \* notifications kept for a turn without a stream (256)
  MaxStreams   \* streams opened over the life of the provider

ASSUME EventsAssumption == Hub \notin Handlers /\ {MaxEarly, MaxStreams} \subseteq Nat \ {0}

VARIABLES
  hub,      \* the tables of eventHub, and whether its loop runs
  stream,   \* the streams by number
  todo,     \* what each dispatcher has still to do
  handler,  \* the handlers
  known     \* requests for approval that have reached a reader

vars == <<transport, hub, stream, todo, handler, known>>

Dispatchers == Handlers \cup {Hub}
Streams == 1 .. MaxStreams
Capacity == MaxEarly + 1

\* What a stream carries: messages, the decision taken, the errors and the end; LastItems end it
\* for its reader.
LastItems == {"invalid", "stopped", "eof"}
Item == Message \cup [kind : {"resolved", "stopped", "eof"}, turn : Turns, n : {0}]

Step(op, s, m) == [op |-> op, stream |-> s, item |-> m]
Steps ==
  [op : {"dispatch"}, stream : {0}, item : Message]
    \cup [op : {"emit", "remove", "end", "reply", "detach"}, stream : Streams, item : Item]

\* A handler that neither calls nor has a stream.
Resting(pc, t, approval) ==
  [pc |-> pc, method |-> "start", call |-> 0, turn |-> t, approval |-> approval, stream |-> 0]
Idle == Resting("idle", None, None)
Free(s) == stream[s].turn = None
IsNextFree(s) == Free(s) /\ \A r \in Streams : Free(r) => s <= r

Init ==
  /\ ClientInit
  /\ hub = [streams |-> [t \in Turns |-> 0], early |-> [t \in Turns |-> <<>>],
            detached |-> {}, approvals |-> {}, running |-> TRUE]
  /\ stream = [s \in Streams |-> [turn |-> None, items |-> <<>>, closed |-> FALSE, ended |-> FALSE]]
  /\ todo = [d \in Dispatchers |-> <<>>]
  /\ handler = [h \in Handlers |-> Idle]
  /\ known = {}

Does(d, op) == todo[d] # <<>> /\ Head(todo[d]).op = op
Current(d) == Head(todo[d])
Proceed(d, steps) == todo' = [todo EXCEPT ![d] = steps \o Tail(@)]
Goto(h, pc) == handler' = [handler EXCEPT ![h].pc = pc]
Finish(h) == handler' = [handler EXCEPT ![h] = Idle]

-----------------------------------------------------------------------------
(* The calls of a handler.  StartTurn makes two, thread/resume and         *)
(* turn/start; the other operations keep nothing between theirs, nor once  *)
(* they are answered, and stand for one call each.                         *)

BeginCall(h, method) ==
  /\ Register
  /\ handler' = [handler EXCEPT ![h].pc = "write", ![h].method = method, ![h].call = issued + 1]

\* Bound: calls begin while there are numbers left for those that are to follow.
NumbersLeft(n) ==
  issued + n + Cardinality({h \in Handlers : handler[h].method = "resume"}) <= MaxCalls

StartTurn(h) ==
  /\ handler[h].pc = "idle" /\ NumbersLeft(2) /\ BeginCall(h, "resume")
  /\ UNCHANGED <<wire, server, hub, stream, todo, known>>

OtherCall(h) ==
  /\ handler[h].pc = "idle" /\ NumbersLeft(1) /\ BeginCall(h, "other")
  /\ UNCHANGED <<wire, server, hub, stream, todo, known>>

WriteCall(h) ==
  /\ handler[h].pc = "write"
  /\ IF CanWrite
       THEN Send(handler[h].call, handler[h].method) /\ Goto(h, "wait") /\ UNCHANGED client
       ELSE Forget(handler[h].call) /\ Finish(h) /\ UNCHANGED server
  /\ UNCHANGED <<wire, hub, stream, todo, known>>

TakeAnswer(h) ==
  LET answer == result[handler[h].call]
  IN  /\ handler[h].pc = "wait" /\ answer.kind # "none"
      /\ \/ /\ answer.kind = "error" \/ handler[h].method = "other"
            /\ Finish(h) /\ UNCHANGED client
         \/ answer.kind = "answer" /\ handler[h].method = "resume" /\ BeginCall(h, "start")
         \/ /\ answer.kind = "answer" /\ handler[h].method = "start"
            /\ handler' = [handler EXCEPT ![h] = Resting("check", answer.turn, None)]
            /\ UNCHANGED client
      /\ UNCHANGED <<wire, server, hub, stream, todo, known>>

\* The context of the request ends while it waits.
GiveUp(h) ==
  /\ handler[h].pc = "wait" /\ Forget(handler[h].call) /\ Finish(h)
  /\ UNCHANGED <<wire, server, hub, stream, todo, known>>

\* resolveApproval with a rejection; an approval is refused before it gets here, and what
\* another handler has resolved is not found.
ResolveApproval(h, a) ==
  /\ handler[h].pc = "idle" /\ a \in known \cap hub.approvals
  /\ hub' = [hub EXCEPT !.approvals = @ \ {a}]
  /\ handler' = [handler EXCEPT ![h] = Resting("check", a.turn, a)]
  /\ UNCHANGED <<transport, stream, todo, known>>

-----------------------------------------------------------------------------
(* register: the client is found alive, the stream is entered, and what    *)
(* was kept is dispatched.  ResolveApproval then tells the reader and the  *)
(* server of the decision.                                                 *)

Check(h) ==
  /\ handler[h].pc = "check"
  /\ IF phase = "done" THEN Finish(h) ELSE Goto(h, "subscribe")
  /\ UNCHANGED <<transport, hub, stream, todo, known>>

Conflict(h) ==
  /\ handler[h].pc = "subscribe" /\ hub.streams[handler[h].turn] # 0
  /\ Finish(h)
  /\ UNCHANGED <<transport, hub, stream, todo, known>>

Dispatches(queue) == [i \in DOMAIN queue |-> Step("dispatch", 0, queue[i])]

\* After the replay.
Decide(h, s) ==
  LET a == handler[h].approval
      item == [kind |-> "resolved", turn |-> handler[h].turn, n |-> 0]
  IN  IF a = None THEN <<>> ELSE <<Step("emit", s, item), Step("reply", s, item)>>

\* Fault: what was kept stays in the table.
EnteredKeepingEarly(t, s) ==
  [hub EXCEPT !.streams[t] = s, !.detached = @ \ {t}]

\* The tables once stream s is entered for turn t.
Entered(t, s) ==
  [hub EXCEPT !.streams[t] = s, !.early[t] = <<>>, !.detached = @ \ {t}]

Subscribe(h) ==
  LET t == handler[h].turn
  IN  /\ handler[h].pc = "subscribe" /\ hub.streams[t] = 0
      /\ \E s \in Streams :
           /\ IsNextFree(s)
           /\ hub' = Entered(t, s)
           /\ stream' = [stream EXCEPT ![s].turn = t]
           /\ todo' = [todo EXCEPT ![h] = Dispatches(hub.early[t]) \o Decide(h, s)]
           /\ handler' = [handler EXCEPT ![h].pc = "open", ![h].stream = s]
      /\ UNCHANGED <<transport, known>>

-----------------------------------------------------------------------------
(* dispatch, finish, emit and detach, step by step, by any dispatcher.     *)

\* Under the lock: the stream of the turn, or where the message is kept.
Keep(m) ==
  IF m.turn \notin hub.detached /\ Len(hub.early[m.turn]) < MaxEarly
    THEN [hub EXCEPT !.early[m.turn] = Append(@, m)] ELSE hub

\* projectNotification: what ends or pauses the turn also finishes the stream.
Projected(m, s) ==
  IF m.kind = "delta" THEN <<Step("emit", s, m)>>
  ELSE <<Step("emit", s, m), Step("remove", s, m), Step("end", s, m)>>

Dispatch(d) ==
  LET m == Current(d).item
      s == hub.streams[m.turn]
  IN  /\ Does(d, "dispatch")
      /\ IF s = 0 THEN hub' = Keep(m) /\ Proceed(d, <<>>)
                  ELSE Proceed(d, Projected(m, s)) /\ UNCHANGED hub
      /\ UNCHANGED <<transport, stream, handler, known>>

\* The select of emit: a closed stream takes nothing, or something still if it has room.
Offer(s, item) ==
  \/ Len(stream[s].items) < Capacity /\ stream' = [stream EXCEPT ![s].items = Append(@, item)]
  \/ stream[s].closed /\ UNCHANGED stream

Emit(d) ==
  /\ Does(d, "emit") /\ Offer(Current(d).stream, Current(d).item)
  /\ Proceed(d, <<>>)
  /\ UNCHANGED <<transport, hub, handler, known>>

RemoveStream(d) ==
  LET m == Current(d).item
      over == m.kind # "ask"
  IN  /\ Does(d, "remove")
      /\ hub' = [hub EXCEPT
           !.streams[m.turn] = IF @ = Current(d).stream THEN 0 ELSE @,
           !.early[m.turn] = IF over THEN <<>> ELSE @,
           !.detached = IF over THEN @ \ {m.turn} ELSE @]
      /\ Proceed(d, <<>>)
      /\ UNCHANGED <<transport, stream, handler, known>>

\* finishOnce: one end per stream; who comes second waits for the first.
EndStream(d) ==
  LET s == Current(d).stream
      eof == [kind |-> "eof", turn |-> stream[s].turn, n |-> 0]
  IN  /\ Does(d, "end")
      /\ \/ stream[s].ended /\ UNCHANGED stream
         \/ /\ ~stream[s].ended
            /\ \/ /\ Len(stream[s].items) < Capacity
                  /\ stream' = [stream EXCEPT ![s].items = Append(@, eof), ![s].ended = TRUE]
               \/ stream[s].closed /\ stream' = [stream EXCEPT ![s].ended = TRUE]
      /\ Proceed(d, <<>>)
      /\ UNCHANGED <<transport, hub, handler, known>>

\* Fault: whatever stream the turn has by now.
DetachedUnseen(s) ==
  LET t == stream[s].turn
  IN  [hub EXCEPT !.streams[t] = 0, !.detached = @ \cup {t}]

\* detach: only while the turn is still that of the stream.
Detached(s) ==
  LET t == stream[s].turn
  IN  IF hub.streams[t] = s THEN [hub EXCEPT !.streams[t] = 0, !.detached = @ \cup {t}] ELSE hub

Reply(h) ==
  LET s == Current(h).stream
  IN  /\ Does(h, "reply")
      /\ IF CanWrite
           THEN Decline(handler[h].turn) /\ Proceed(h, <<>>) /\ UNCHANGED handler
           ELSE /\ Proceed(h, <<Step("detach", s, Current(h).item), Step("end", s, Current(h).item)>>)
                /\ Goto(h, "failed") /\ UNCHANGED server
      /\ UNCHANGED <<client, wire, hub, stream, known>>

DetachFailed(h) ==
  /\ Does(h, "detach") /\ hub' = Detached(Current(h).stream)
  /\ Proceed(h, <<>>)
  /\ UNCHANGED <<transport, stream, handler, known>>

Fails(h) ==
  /\ handler[h].pc = "failed" /\ todo[h] = <<>> /\ Finish(h)
  /\ UNCHANGED <<transport, hub, stream, todo, known>>

-----------------------------------------------------------------------------
(* The loop of the hub.                                                    *)

HubIsFree == hub.running /\ todo[Hub] = <<>>

TakeNotification ==
  /\ HubIsFree /\ notifications # <<>>
  /\ todo' = [todo EXCEPT ![Hub] = <<Step("dispatch", 0, Head(notifications))>>]
  /\ notifications' = Tail(notifications)
  /\ UNCHANGED <<client, line, requests, server, hub, stream, handler, known>>

\* handleRequest: the approval can be resolved before it is dispatched.
HandleRequest ==
  /\ HubIsFree /\ requests # <<>>
  /\ hub' = [hub EXCEPT !.approvals = @ \cup {Head(requests)}]
  /\ todo' = [todo EXCEPT ![Hub] = <<Step("dispatch", 0, Head(requests))>>]
  /\ requests' = Tail(requests)
  /\ UNCHANGED <<client, line, notifications, server, stream, handler, known>>

\* The streams of a set in the order a map of them is walked in, which is any.
Orders(S) == {f \in [1 .. Cardinality(S) -> S] : \A s \in S : \E i \in DOMAIN f : f[i] = s}

\* Each stream is told that the hub stops, and then ends.
Farewells(order) ==
  [i \in 1 .. 2 * Len(order) |->
     LET s == order[(i + 1) \div 2]
     IN  Step(IF i % 2 = 1 THEN "emit" ELSE "end", s,
              [kind |-> "stopped", turn |-> stream[s].turn, n |-> 0])]

StopAll ==
  LET open == {hub.streams[t] : t \in Turns} \ {0}
  IN  /\ HubIsFree /\ phase = "done"
      /\ hub' = [hub EXCEPT !.streams = [t \in Turns |-> 0], !.early = [t \in Turns |-> <<>>],
                            !.approvals = {}, !.running = FALSE]
      /\ \E order \in Orders(open) : todo' = [todo EXCEPT ![Hub] = Farewells(order)]
      /\ UNCHANGED <<transport, stream, handler, known>>

-----------------------------------------------------------------------------
(* The reader: streamSSE reads until the end, an error or the end of its   *)
(* request, and closes the stream in any case.                             *)

Reads(h) == handler[h].pc = "open" /\ todo[h] = <<>>

Read(h) ==
  LET s == handler[h].stream
      item == Head(stream[s].items)
  IN  /\ Reads(h) /\ stream[s].items # <<>>
      /\ stream' = [stream EXCEPT ![s].items = Tail(@)]
      /\ IF item.kind \in LastItems THEN Goto(h, "close") ELSE UNCHANGED handler
      /\ known' = IF item.kind = "ask" THEN known \cup {item} ELSE known
      /\ UNCHANGED <<transport, hub, todo>>

Leave(h) ==
  /\ Reads(h) /\ Goto(h, "close")
  /\ UNCHANGED <<transport, hub, stream, todo, known>>

DetachClosed(h) ==
  /\ handler[h].pc = "close" /\ hub' = Detached(handler[h].stream) /\ Goto(h, "detached")
  /\ UNCHANGED <<transport, stream, todo, known>>

CloseLocal(h) ==
  /\ handler[h].pc = "detached"
  /\ stream' = [stream EXCEPT ![handler[h].stream].closed = TRUE]
  /\ Finish(h)
  /\ UNCHANGED <<transport, hub, todo, known>>

-----------------------------------------------------------------------------

Calling(h) == WriteCall(h) \/ TakeAnswer(h)

Handle(h) ==
  \/ StartTurn(h) \/ OtherCall(h) \/ Calling(h) \/ GiveUp(h)
  \/ \E a \in known : ResolveApproval(h, a)
  \/ Check(h) \/ Conflict(h) \/ Subscribe(h) \/ Reply(h) \/ DetachFailed(h) \/ Fails(h)
  \/ Read(h) \/ Leave(h) \/ DetachClosed(h) \/ CloseLocal(h)

Transport ==
  /\ ReadLoop \/ CloseWithError \/ AppServer
  /\ UNCHANGED <<hub, stream, todo, handler, known>>

Next ==
  \/ Transport
  \/ \E h \in Handlers : Handle(h)
  \/ \E d \in Dispatchers : Dispatch(d) \/ Emit(d) \/ RemoveStream(d) \/ EndStream(d)
  \/ TakeNotification \/ HandleRequest \/ StopAll

Spec == Init /\ [][Next]_vars

\* Go schedules every goroutine that can run: a closing client finishes closing, and a
\* handler goes on once its call has an answer or can be written.
FairSpec ==
  /\ Spec
  /\ WF_vars((Drain \/ CloseDone) /\ UNCHANGED <<wire, server, hub, stream, todo, handler, known>>)
  /\ \A h \in Handlers : WF_vars(Calling(h))

-----------------------------------------------------------------------------

Hubs ==
  [streams : [Turns -> 0 .. MaxStreams], early : [Turns -> Seq(Message)],
   detached : SUBSET Turns, approvals : SUBSET Message, running : BOOLEAN]
StreamStates ==
  [turn : Turns \cup {None}, items : Seq(Item), closed : BOOLEAN, ended : BOOLEAN]
HandlerStates ==
  [pc : {"idle", "write", "wait", "check", "subscribe", "open", "failed", "close", "detached"},
   method : {"resume", "start", "other"}, call : 0 .. MaxCalls, turn : Turns \cup {None},
   approval : Message \cup {None}, stream : 0 .. MaxStreams]

\* Every table, channel and goroutine is of its kind, and no channel holds more than it can.
TypeOK ==
  /\ ClientTypeOK
  /\ hub \in Hubs /\ \A t \in Turns : Len(hub.early[t]) <= MaxEarly
  /\ stream \in [Streams -> StreamStates]
  /\ \A s \in Streams : Len(stream[s].items) <= Capacity
  /\ todo \in [Dispatchers -> Seq(Steps)]
  /\ handler \in [Handlers -> HandlerStates]
  /\ \A h \in Handlers : handler[h].call <= issued
  /\ known \in SUBSET Message

\* A stream in the table of the hub has a handler that reads it, is about to, or is about to
\* take it out.
StreamsHaveReaders ==
  \A t \in Turns : hub.streams[t] # 0 =>
    \E h \in Handlers : handler[h].stream = hub.streams[t]

\* A stream that is waited on is entered for its turn, is being finished, or holds its end.  A
\* stream that was registered after stopAll counts as entered: the client is asked whether it is
\* alive before the lock, the hub writes nothing into that stream, and its reader waits until it
\* leaves.
EndAhead(s) ==
  \E d \in Dispatchers : \E i \in DOMAIN todo[d] : todo[d][i].op = "end" /\ todo[d][i].stream = s
IsServed(s) == hub.streams[stream[s].turn] = s \/ stream[s].ended \/ EndAhead(s)

ReadersAreServed == \A h \in Handlers : Reads(h) => IsServed(handler[h].stream)

\* The table of the hub and the handlers stay together: whatever the close of one stream, the pause
\* for an approval, the registration of the next stream of the turn and the stop of the hub do to
\* each other, no stream is left in the table that no handler holds, and no stream that a handler
\* reads is out of the table without its end being there or on its way.  It does not say that the
\* hub runs while a stream is in the table (see IsServed), nor that a stream whose reader has
\* closed it takes nothing any more: the select of emit may still find room.
StreamsMeetReaders == StreamsHaveReaders /\ ReadersAreServed

\* Where a message is: its places in the channels of the client, in the table of what was kept,
\* among what a dispatcher has to do, in the streams and with the readers.
At(queue, m) == {i \in DOMAIN queue : queue[i] = m}
Carries(steps, m) ==
  {i \in DOMAIN steps : steps[i].op \in {"dispatch", "emit"} /\ steps[i].item = m}
Places(m) ==
  {<<"client", "notifications", i>> : i \in At(notifications, m)}
    \cup {<<"client", "requests", i>> : i \in At(requests, m)}
    \cup (UNION {{<<"kept", t, i>> : i \in At(hub.early[t], m)} : t \in Turns})
    \cup (UNION {{<<"todo", d, i>> : i \in Carries(todo[d], m)} : d \in Dispatchers})
    \cup (UNION {{<<"stream", s, i>> : i \in At(stream[s].items, m)} : s \in Streams})
    \cup {<<"client", "known", 0>> : k \in {m} \cap known}

\* No message of a turn is in two places on its way to a reader, nor on its way again to one
\* that has had the request: what is kept is dispatched again by one handler, while the hub
\* dispatches what follows.
NothingTwice == \A m \in Message : \A p, q \in Places(m) : p = q

\* Once the client closes, no call waits for ever, whenever it was made.
CallsEnd == \A h \in Handlers :
  (phase # "open" /\ handler[h].pc \in {"write", "wait"})
    ~> (handler[h].pc \notin {"write", "wait"})

=============================================================================
