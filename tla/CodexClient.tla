----------------------------- MODULE CodexClient -----------------------------
(***************************************************************************)
(* The JSON-RPC client of the Codex App Server (codex/client.go) and, as   *)
(* its environment, the App Server itself.  Calls are numbered and wait    *)
(* for the answer with their number; one loop reads what the server        *)
(* writes, line by line, and hands answers to the calls, notifications and *)
(* requests to two bounded channels.  It waits for room, and the lines     *)
(* behind wait with it.  The client closes in three steps, while calls go  *)
(* on: it closes the pipes, fails the calls that wait, and closes done.    *)
(*                                                                         *)
(* A message is a kind, a turn and a number: that of the call for an       *)
(* answer, that of the message in its turn for what the server sends of    *)
(* its own accord.                                                         *)
(***************************************************************************)
EXTENDS Naturals, Sequences, FiniteSets

CONSTANTS
  Turns,         \* the turns the App Server may start
  MaxCalls,      \* calls made over the life of the client
  MaxMessages,   \* messages of a turn
  QueueLimit,    \* notifications the client holds (128)
  RequestLimit,  \* requests the client holds (32)
  None

ASSUME ClientAssumption ==
  /\ None \notin Turns /\ Turns \cap {"none", "resume", "start", "other"} = {}
  /\ {MaxCalls, MaxMessages} \subseteq Nat /\ {QueueLimit, RequestLimit} \subseteq Nat \ {0}

VARIABLES
  phase,          \* how far closeWithError has got
  issued,         \* calls made so far
  pending,        \* calls the client remembers
  result,         \* what the channel of a call holds
  line,           \* the line the read loop holds
  notifications, requests,
  server          \* the App Server: calls it has to answer, turns, messages sent

client == <<phase, issued, pending, result>>
wire == <<line, notifications, requests>>
transport == <<client, wire, server>>

CallIds == 1 .. MaxCalls
NoteKinds == {"delta", "completed", "invalid"}
Message == [kind : NoteKinds \cup {"ask"}, turn : Turns, n : 1 .. MaxMessages]
Answer == [kind : {"answer", "error"}, turn : Turns \cup {None}, n : CallIds]

Msg(kind, turn, n) == [kind |-> kind, turn |-> turn, n |-> n]
NoAnswer == [kind |-> "none", turn |-> None]

ClientInit ==
  /\ phase = "open" /\ issued = 0 /\ pending = {}
  /\ result = [id \in CallIds |-> NoAnswer]
  /\ line = None /\ notifications = <<>> /\ requests = <<>>
  /\ server = [calls |-> [id \in CallIds |-> "none"],
               turns |-> [t \in Turns |-> "new"], sent |-> [t \in Turns |-> 0]]

ClientTypeOK ==
  /\ phase \in {"open", "closing", "drained", "done"}
  /\ issued \in 0 .. MaxCalls /\ pending \subseteq 1 .. issued
  /\ result \in [CallIds -> [kind : {"none", "answer", "error"}, turn : Turns \cup {None}]]
  /\ \A id \in pending : result[id] = NoAnswer  \* its channel has room for one answer
  /\ line \in Message \cup Answer \cup {None}
  /\ notifications \in Seq(Message) /\ Len(notifications) <= QueueLimit
  /\ requests \in Seq(Message) /\ Len(requests) <= RequestLimit
  /\ server \in [calls : [CallIds -> {"none", "resume", "start", "other"} \cup Turns],
                 turns : [Turns -> {"new", "running", "waiting", "over"}],
                 sent : [Turns -> 0 .. MaxMessages]]

-----------------------------------------------------------------------------
(* The steps of Call.  A write finds its pipe closed from the first step   *)
(* of closing on.                                                          *)

\* Fault: closing fails the waiting calls before it closes the pipes.
CanWriteUntilDone == phase # "done"

CanWrite == phase = "open"

Register == /\ issued < MaxCalls /\ issued' = issued + 1
            /\ pending' = pending \cup {issued + 1}
            /\ UNCHANGED <<phase, result>>

Forget(id) == pending' = pending \ {id} /\ UNCHANGED <<phase, issued, result>>

Send(id, method) == server' = [server EXCEPT !.calls[id] = method]

-----------------------------------------------------------------------------
(* readLoop.                                                               *)

\* Fault: a call that was answered stays in the table.
DeliverAndKeep ==
  /\ line.kind \in {"answer", "error"}
  /\ IF line.n \in pending
       THEN result' = [result EXCEPT ![line.n] = [kind |-> line.kind, turn |-> line.turn]]
       ELSE UNCHANGED result
  /\ UNCHANGED <<phase, issued, pending, notifications, requests>>

\* deliver: an answer to a call that was given up is dropped.
Deliver ==
  /\ line.kind \in {"answer", "error"}
  /\ IF line.n \in pending
       THEN result' = [result EXCEPT ![line.n] = [kind |-> line.kind, turn |-> line.turn]]
       ELSE UNCHANGED result
  /\ pending' = pending \ {line.n}
  /\ UNCHANGED <<phase, issued, notifications, requests>>

HandOverRequest ==
  /\ line.kind = "ask" /\ Len(requests) < RequestLimit
  /\ requests' = Append(requests, line)
  /\ UNCHANGED <<client, notifications>>

HandOverNotification ==
  /\ line.kind \in NoteKinds /\ Len(notifications) < QueueLimit
  /\ notifications' = Append(notifications, line)
  /\ UNCHANGED <<client, requests>>

\* Once done is closed, the loop may end instead of waiting for room.
Abandon == line.kind \in NoteKinds \cup {"ask"} /\ phase = "done"
           /\ UNCHANGED <<client, notifications, requests>>

ReadLoop ==
  /\ line # None /\ line' = None
  /\ Deliver \/ HandOverRequest \/ HandOverNotification \/ Abandon
  /\ UNCHANGED server

-----------------------------------------------------------------------------
(* closeWithError, called once: by the read loop, by the watch over the    *)
(* process or at shutdown.                                                 *)

ClosePipes == phase = "open" /\ phase' = "closing" /\ UNCHANGED <<issued, pending, result>>

Drain ==
  /\ phase = "closing" /\ phase' = "drained"
  /\ result' = [id \in CallIds |-> IF id \in pending THEN [kind |-> "error", turn |-> None]
                                                     ELSE result[id]]
  /\ pending' = {} /\ UNCHANGED issued

CloseDone == phase = "drained" /\ phase' = "done" /\ UNCHANGED <<issued, pending, result>>

CloseWithError == (ClosePipes \/ Drain \/ CloseDone) /\ UNCHANGED <<wire, server>>

-----------------------------------------------------------------------------
(* The App Server.  It starts a turn before it answers the call, writes    *)
(* the messages of a turn in their order, and waits for the decision it    *)
(* asked for.                                                              *)

StartsTurn(id, t) ==
  /\ server.calls[id] = "start" /\ server.turns[t] = "new"
  /\ server' = [server EXCEPT !.calls[id] = t, !.turns[t] = "running"]
  /\ UNCHANGED line

Answers(id) ==
  /\ line = None /\ server.calls[id] # "none"
  /\ server' = [server EXCEPT !.calls[id] = "none"]
  /\ \/ server.calls[id] \in {"resume", "other"} /\ line' = Msg("answer", None, id)
     \/ server.calls[id] \in {"resume", "start", "other"} /\ line' = Msg("error", None, id)
     \/ \E t \in Turns : server.calls[id] = t /\ line' = Msg("answer", t, id)

Tells(t, kind) ==
  /\ line = None /\ server.turns[t] = "running" /\ server.sent[t] < MaxMessages
  /\ line' = Msg(kind, t, server.sent[t] + 1)
  /\ server' = [server EXCEPT
       !.sent[t] = @ + 1,
       !.turns[t] = CASE kind = "completed" -> "over" [] kind = "ask" -> "waiting"
                      [] OTHER -> "running"]

AppServer ==
  /\ phase = "open"
  /\ \/ \E id \in CallIds : Answers(id) \/ \E t \in Turns : StartsTurn(id, t)
     \/ \E t \in Turns, kind \in NoteKinds \cup {"ask"} : Tells(t, kind)
  /\ UNCHANGED <<client, notifications, requests>>

\* The decision on what turn t asked for reaches the server.
Decline(t) == server' = [server EXCEPT !.turns[t] = "running"]

=============================================================================
