-------------------------- MODULE CodexEventsProofs --------------------------
(***************************************************************************)
(* The safety of the streams of Codex turns, for any number of handlers,   *)
(* turns, calls and messages and any capacity of the channels.  The        *)
(* argument has three layers.  The types need to know that calls and       *)
(* answers, handlers and their streams, and the steps of a dispatcher fit  *)
(* each other.  Upon them, who holds a stream settles that streams and     *)
(* readers do not lose each other; and where a message is settles that it  *)
(* is not delivered twice.                                                 *)
(***************************************************************************)
EXTENDS CodexEvents, SequenceTheorems, FiniteSetTheorems, TLAPS

Calls(h) == handler[h].pc \in {"write", "wait"}
Opened(h) == handler[h].pc \in {"open", "failed", "close", "detached"}
IsAnswer == line # None /\ line.kind \in {"answer", "error"}

\* A call is made once, by one handler, and only a started turn answers turn/start.
CallsFit ==
  /\ \A id \in CallIds : id > issued =>
       result[id] = NoAnswer /\ server.calls[id] = "none" /\ ~(IsAnswer /\ line.n = id)
  /\ \A h \in Handlers : Calls(h) => handler[h].call \in 1 .. issued
  /\ \A g, h \in Handlers : Calls(g) /\ Calls(h) /\ handler[g].call = handler[h].call => g = h
  /\ \A h \in Handlers : handler[h].pc = "write" =>
       /\ server.calls[handler[h].call] = "none" /\ ~(IsAnswer /\ line.n = handler[h].call)
       /\ result[handler[h].call].kind # "answer"
  /\ \A h \in Handlers : handler[h].pc = "wait" /\ handler[h].method = "start" =>
       /\ server.calls[handler[h].call] \in {"none", "start"} \cup Turns
       /\ line # None /\ line.kind = "answer" /\ line.n = handler[h].call => line.turn \in Turns
       /\ result[handler[h].call].kind = "answer" => result[handler[h].call].turn \in Turns

\* A handler has its turn once it is known and its stream once it is entered, and works through
\* steps only while it has a stream.
HandlersFit ==
  \A h \in Handlers :
    /\ Opened(h) => /\ handler[h].stream \in Streams
                    /\ stream[handler[h].stream].turn = handler[h].turn
    /\ ~Opened(h) => handler[h].stream = 0
    /\ Opened(h) \/ handler[h].pc \in {"check", "subscribe"} => handler[h].turn \in Turns
    /\ todo[h] # <<>> => handler[h].pc \in {"open", "failed"}

\* A stream is entered, and written, for its turn only.
StreamsFit ==
  /\ \A t \in Turns : hub.streams[t] # 0 => stream[hub.streams[t]].turn = t
  /\ \A d \in Dispatchers : \A i \in DOMAIN todo[d] : todo[d][i].op # "dispatch" =>
       stream[todo[d][i].stream].turn = todo[d][i].item.turn

TypeInv == TypeOK /\ CallsFit /\ HandlersFit /\ StreamsFit

\* A handler that is about to take its stream out of the table of the hub, and one that has.
AboutToDetach(h) == todo[h] # <<>> /\ Head(todo[h]).op = "detach"
HasDetached(h) == handler[h].pc = "detached" \/ (handler[h].pc = "failed" /\ ~AboutToDetach(h))

\* What is removed is then ended; what a handler does after its replay, it does to its own
\* stream; the reply comes last, and the detachment of a failed handler first.
StepsInOrder ==
  \A d \in Dispatchers : \A i \in DOMAIN todo[d] :
    /\ todo[d][i].op = "remove" =>
         /\ i + 1 \in DOMAIN todo[d]
         /\ todo[d][i + 1].op = "end" /\ todo[d][i + 1].stream = todo[d][i].stream
    /\ todo[d][i].op = "reply" =>
         /\ d \in Handlers /\ handler[d].pc = "open" /\ i = Len(todo[d])
         /\ todo[d][i].stream = handler[d].stream
    /\ todo[d][i].op = "detach" =>
         /\ d \in Handlers /\ handler[d].pc = "failed" /\ i = 1
         /\ todo[d][i].stream = handler[d].stream

\* Who holds a stream: one handler, until it has taken it out of the table; and what an open
\* handler is to read is served.
StreamsHeld ==
  /\ \A g, h \in Handlers : Opened(g) /\ Opened(h) /\ handler[g].stream = handler[h].stream => g = h
  /\ \A h \in Handlers : HasDetached(h) => \A t \in Turns : hub.streams[t] # handler[h].stream
  /\ \A h \in Handlers : handler[h].pc = "open" => IsServed(handler[h].stream)

HeldInv == TypeInv /\ StepsInOrder /\ StreamsHeld /\ StreamsHaveReaders

\* Where a message is, as in Places, and before it reaches a channel, too.
InClient(m, a, i) ==
  \/ a = "line" /\ i = 0 /\ line = m /\ line # None
  \/ a = "notifications" /\ i \in DOMAIN notifications /\ notifications[i] = m
  \/ a = "requests" /\ i \in DOMAIN requests /\ requests[i] = m
  \/ a = "known" /\ i = 0 /\ m \in known
IsKept(m, t, i) == t \in Turns /\ i \in DOMAIN hub.early[t] /\ hub.early[t][i] = m
IsCarried(m, d, i) == /\ d \in Dispatchers /\ i \in DOMAIN todo[d]
                      /\ todo[d][i].op \in {"dispatch", "emit"} /\ todo[d][i].item = m
IsStreamed(m, s, i) == s \in Streams /\ i \in DOMAIN stream[s].items /\ stream[s].items[i] = m
Lies(m, k, a, i) ==
  \/ k = "client" /\ InClient(m, a, i)
  \/ k = "kept" /\ IsKept(m, a, i)
  \/ k = "todo" /\ IsCarried(m, a, i)
  \/ k = "stream" /\ IsStreamed(m, a, i)

\* No message is in two places, and what the server has yet to send is in none.
IsOnce(m) ==
  /\ \A k, a, i, l, b, j : Lies(m, k, a, i) /\ Lies(m, l, b, j) => k = l /\ a = b /\ i = j
  /\ \A k, a, i : Lies(m, k, a, i) => m.n <= server.sent[m.turn]
SentOnce == \A m \in Message : IsOnce(m)

OnceInv == TypeInv /\ SentOnce

-----------------------------------------------------------------------------
(* Queues, and the constants.                                              *)

\* What a dispatcher has to do once it has taken a step: the steps put in its place, and the rest.
LEMMA ProceedQueue ==
  ASSUME todo \in [Dispatchers -> Seq(Steps)], NEW d \in Dispatchers, todo[d] # <<>>,
         NEW steps \in Seq(Steps), Proceed(d, steps)
  PROVE  /\ todo' \in [Dispatchers -> Seq(Steps)]
         /\ \A e \in Dispatchers \ {d} : todo'[e] = todo[e]
         /\ DOMAIN todo'[d] = 1 .. (Len(steps) + Len(todo[d]) - 1)
         /\ \A i \in DOMAIN todo'[d] :
              todo'[d][i] = IF i <= Len(steps) THEN steps[i] ELSE todo[d][i - Len(steps) + 1]
<1>1. todo[d] \in Seq(Steps) /\ Len(todo[d]) \in Nat \ {0} /\ Len(steps) \in Nat
  BY EmptySeq
<1>2. /\ Tail(todo[d]) \in Seq(Steps) /\ Len(Tail(todo[d])) = Len(todo[d]) - 1
      /\ \A i \in 1 .. Len(Tail(todo[d])) : Tail(todo[d])[i] = todo[d][i + 1]
  BY <1>1, HeadTailProperties
<1>3. /\ todo'[d] = steps \o Tail(todo[d])
      /\ \A e \in Dispatchers \ {d} : todo'[e] = todo[e]
      /\ todo' = [e \in Dispatchers |-> IF e = d THEN steps \o Tail(todo[d]) ELSE todo[e]]
  BY DEF Proceed
<1>4. /\ todo'[d] \in Seq(Steps) /\ Len(todo'[d]) = Len(steps) + Len(todo[d]) - 1
      /\ \A i \in 1 .. Len(todo'[d]) :
           todo'[d][i] = IF i <= Len(steps) THEN steps[i] ELSE Tail(todo[d])[i - Len(steps)]
  BY <1>1, <1>2, <1>3, ConcatProperties
<1>5. ASSUME NEW i \in DOMAIN todo'[d]
      PROVE  todo'[d][i] = IF i <= Len(steps) THEN steps[i] ELSE todo[d][i - Len(steps) + 1]
  <2>1. i \in 1 .. Len(todo'[d])
    BY <1>4, LenProperties
  <2>2. CASE i <= Len(steps)
    BY <1>4, <2>1, <2>2
  <2>3. CASE ~(i <= Len(steps))
    <3>1. i - Len(steps) \in 1 .. Len(Tail(todo[d]))
      BY <1>1, <1>2, <1>4, <2>1, <2>3
    <3>2. Tail(todo[d])[i - Len(steps)] = todo[d][(i - Len(steps)) + 1]
      BY <1>2, <3>1
    <3> QED  BY <1>4, <2>1, <2>3, <3>2
  <2> QED  BY <2>2, <2>3
<1> QED  BY <1>3, <1>4, <1>5, LenProperties

\* The steps a dispatcher puts in the place of one it has taken.
LEMMA FewSteps ==
  /\ <<>> \in Seq(Steps) /\ Len(<<>>) = 0
  /\ \A a \in Steps : <<a>> \in Seq(Steps) /\ Len(<<a>>) = 1 /\ <<a>>[1] = a
  /\ \A a, b \in Steps : /\ <<a, b>> \in Seq(Steps) /\ Len(<<a, b>>) = 2
                         /\ <<a, b>>[1] = a /\ <<a, b>>[2] = b
  /\ \A a, b, c \in Steps : /\ <<a, b, c>> \in Seq(Steps) /\ Len(<<a, b, c>>) = 3
                            /\ <<a, b, c>>[1] = a /\ <<a, b, c>>[2] = b /\ <<a, b, c>>[3] = c
OBVIOUS

\* A queue of a channel that grows at its end or loses its head.
LEMMA QueueGrows ==
  ASSUME NEW S, NEW q \in Seq(S), NEW m \in S
  PROVE  /\ Append(q, m) \in Seq(S) /\ Len(Append(q, m)) = Len(q) + 1
         /\ \A i \in DOMAIN Append(q, m) : /\ i \in DOMAIN q \cup {Len(q) + 1}
                                          /\ Append(q, m)[i] = IF i \in DOMAIN q THEN q[i] ELSE m
BY AppendProperties, LenProperties

LEMMA QueueShrinks ==
  ASSUME NEW S, NEW q \in Seq(S), q # <<>>
  PROVE  /\ Head(q) \in S /\ Head(q) = q[1] /\ 1 \in DOMAIN q
         /\ Tail(q) \in Seq(S) /\ Len(Tail(q)) = Len(q) - 1 /\ Len(q) \in Nat \ {0}
         /\ \A i \in DOMAIN Tail(q) : i + 1 \in DOMAIN q /\ Tail(q)[i] = q[i + 1]
<1>1. Len(q) \in Nat \ {0} /\ DOMAIN q = 1 .. Len(q)
  BY EmptySeq, LenProperties
<1>2. Head(q) \in S /\ Head(q) = q[1]
  BY <1>1, ElementOfSeq
<1>3. /\ Tail(q) \in Seq(S) /\ Len(Tail(q)) = Len(q) - 1
      /\ \A i \in 1 .. Len(Tail(q)) : Tail(q)[i] = q[i + 1]
  BY <1>1, HeadTailProperties
<1> QED  BY <1>1, <1>2, <1>3, LenProperties

-----------------------------------------------------------------------------
(* The client and the App Server keep the types.                           *)

LEMMA Numbers ==
  /\ CallIds = 1 .. MaxCalls /\ MaxCalls \in Nat /\ MaxMessages \in Nat
  /\ QueueLimit \in Nat \ {0} /\ RequestLimit \in Nat \ {0}
  /\ MaxEarly \in Nat \ {0} /\ MaxStreams \in Nat \ {0} /\ Capacity \in Nat
  /\ Hub \in Dispatchers /\ Handlers \subseteq Dispatchers /\ Hub \notin Handlers
  /\ None \notin Turns /\ Turns \cap {"none", "resume", "start", "other"} = {}
BY ClientAssumption, EventsAssumption DEF CallIds, Capacity, Dispatchers

\* A step of the client or of the server changes nothing of the hub and the handlers.
LEMMA TransportFrame ==
  ASSUME TypeInv, ClientTypeOK', CallsFit', issued' = issued,
         UNCHANGED <<hub, stream, todo, handler, known>>
  PROVE  TypeInv'
BY DEF TypeInv, TypeOK, HandlersFit, StreamsFit, Opened

\* What is read is delivered to the call that waits for it, or to a channel with room.
LEMMA ReadLoopType ==
  ASSUME TypeInv, ReadLoop, UNCHANGED <<hub, stream, todo, handler, known>>
  PROVE  TypeInv'
<1>1. /\ line # None /\ line' = None /\ server' = server
      /\ line \in Message \cup Answer
  BY DEF ReadLoop, TypeInv, TypeOK, ClientTypeOK
<1>2. CASE Deliver
  <2>1. line \in Answer /\ IsAnswer
    BY <1>1, <1>2 DEF Deliver, Message, NoteKinds, IsAnswer
  <2>2. /\ line.n \in CallIds /\ line.turn \in Turns \cup {None} /\ line.kind \in {"answer", "error"}
        /\ line.kind = "answer" \/ line.kind = "error"
    BY <2>1 DEF Answer
  <2>3. ClientTypeOK'
    <3>1. \A id \in pending' : result'[id] = NoAnswer
      <4>1. pending \subseteq CallIds
        BY Numbers DEF TypeInv, TypeOK, ClientTypeOK
      <4> QED  BY <1>2, <2>2, <4>1 DEF Deliver, TypeInv, TypeOK, ClientTypeOK
    <3>2. result' \in [CallIds -> [kind : {"none", "answer", "error"}, turn : Turns \cup {None}]]
      BY <1>2, <2>2 DEF Deliver, TypeInv, TypeOK, ClientTypeOK
    <3> QED
      BY <1>1, <1>2, <3>1, <3>2 DEF Deliver, TypeInv, TypeOK, ClientTypeOK
  <2>4. CallsFit'
    <3>1. issued' = issued /\ handler' = handler /\ ~IsAnswer'
      BY <1>1, <1>2 DEF Deliver, IsAnswer
    <3>2. \A id \in CallIds : \/ result'[id] = result[id]
                              \/ id = line.n /\ result'[id] = [kind |-> line.kind, turn |-> line.turn]
      BY <1>2, <2>2 DEF Deliver, TypeInv, TypeOK, ClientTypeOK
    <3>3. \A h \in Handlers : Calls(h) => handler[h].call \in CallIds
      BY Numbers DEF TypeInv, TypeOK, ClientTypeOK, CallsFit, CallIds
    <3> QED  BY <1>1, <2>1, <2>2, <3>1, <3>2, <3>3 DEF TypeInv, CallsFit, Calls
  <2> QED  BY <1>2, <2>3, <2>4, TransportFrame DEF Deliver
<1>3. CASE HandOverRequest \/ HandOverNotification \/ Abandon
  <2>1. client' = client /\ ~IsAnswer'
    BY <1>1, <1>3 DEF HandOverRequest, HandOverNotification, Abandon, IsAnswer, client
  <2>2. CallsFit'
    BY <1>1, <2>1 DEF TypeInv, CallsFit, Calls, client
  <2>3. CASE HandOverRequest
    <3>1. line \in Message
      BY <1>1, <2>3 DEF HandOverRequest, Answer
    <3>2. requests' \in Seq(Message) /\ Len(requests') <= RequestLimit
      BY <2>3, <3>1, Numbers, QueueGrows, EmptySeq DEF HandOverRequest, TypeInv, TypeOK, ClientTypeOK
    <3> QED
      BY <1>1, <2>1, <2>2, <2>3, <3>2, TransportFrame
         DEF HandOverRequest, TypeInv, TypeOK, ClientTypeOK, client
  <2>4. CASE HandOverNotification
    <3>1. line \in Message
      BY <1>1, <2>4 DEF HandOverNotification, Answer, NoteKinds
    <3>2. notifications' \in Seq(Message) /\ Len(notifications') <= QueueLimit
      BY <2>4, <3>1, Numbers, QueueGrows, EmptySeq
         DEF HandOverNotification, TypeInv, TypeOK, ClientTypeOK
    <3> QED
      BY <1>1, <2>1, <2>2, <2>4, <3>2, TransportFrame
         DEF HandOverNotification, TypeInv, TypeOK, ClientTypeOK, client
  <2>5. CASE Abandon
    BY <1>1, <2>1, <2>2, <2>5, TransportFrame DEF Abandon, TypeInv, TypeOK, ClientTypeOK, client
  <2> QED  BY <1>3, <2>3, <2>4, <2>5
<1> QED  BY <1>2, <1>3 DEF ReadLoop

\* Closing answers the calls that wait with an error.
LEMMA CloseType ==
  ASSUME TypeInv, CloseWithError, UNCHANGED <<hub, stream, todo, handler, known>>
  PROVE  TypeInv'
<1>1. UNCHANGED <<line, notifications, requests, server>> /\ issued' = issued
  BY DEF CloseWithError, ClosePipes, Drain, CloseDone, wire
<1>2. CASE Drain
  <2>1. /\ pending' = {} /\ phase' = "drained"
        /\ result' = [id \in CallIds |-> IF id \in pending THEN [kind |-> "error", turn |-> None]
                                                           ELSE result[id]]
    BY <1>2 DEF Drain
  <2>2. ClientTypeOK'
    BY <1>1, <2>1 DEF TypeInv, TypeOK, ClientTypeOK
  <2>3. \A id \in CallIds : result'[id] = result[id] \/ (id \in pending /\ result'[id].kind = "error")
    BY <2>1
  <2>4. \A h \in Handlers : Calls(h) => handler[h].call \in CallIds
    BY Numbers DEF TypeInv, TypeOK, ClientTypeOK, CallsFit, CallIds
  <2>5. \A id \in CallIds : id > issued => id \notin pending
    BY Numbers DEF TypeInv, TypeOK, ClientTypeOK
  <2>6. CallsFit'
    BY <1>1, <2>3, <2>4, <2>5 DEF TypeInv, CallsFit, Calls, IsAnswer
  <2> QED  BY <1>1, <2>2, <2>6, TransportFrame
<1>3. CASE ClosePipes \/ CloseDone
  <2>1. phase' \in {"closing", "done"} /\ UNCHANGED <<issued, pending, result>>
    BY <1>3 DEF ClosePipes, CloseDone
  <2>2. ClientTypeOK'
    BY <1>1, <2>1 DEF TypeInv, TypeOK, ClientTypeOK
  <2>3. CallsFit'
    BY <1>1, <2>1 DEF TypeInv, CallsFit, Calls, IsAnswer
  <2> QED  BY <1>1, <2>2, <2>3, TransportFrame
<1> QED  BY <1>2, <1>3 DEF CloseWithError

\* The server answers a call that was made, once, and numbers its messages.
LEMMA AppServerType ==
  ASSUME TypeInv, AppServer, UNCHANGED <<hub, stream, todo, handler, known>>
  PROVE  TypeInv'
<1>1. UNCHANGED <<client, notifications, requests>>
  BY DEF AppServer
<1>2. \A h \in Handlers : Calls(h) => handler[h].call \in CallIds
  BY Numbers DEF TypeInv, TypeOK, ClientTypeOK, CallsFit, CallIds
<1>3. ASSUME NEW id \in CallIds, Answers(id) PROVE TypeInv'
  <2>1. /\ server' = [server EXCEPT !.calls[id] = "none"] /\ server.calls[id] # "none"
        /\ line = None
    BY <1>3 DEF Answers
  <2>2. /\ line' \in Answer /\ line'.n = id
        /\ line'.kind = "answer" /\ server.calls[id] \in {"start"} \cup Turns => line'.turn \in Turns
    BY <1>3, Numbers DEF Answers, Msg, Answer, IsAnswer
  <2>3. ClientTypeOK'
    <3>1. server' \in [calls : [CallIds -> {"none", "resume", "start", "other"} \cup Turns],
                       turns : [Turns -> {"new", "running", "waiting", "over"}],
                       sent : [Turns -> 0 .. MaxMessages]]
      BY <2>1 DEF TypeInv, TypeOK, ClientTypeOK
    <3> QED  BY <1>1, <2>2, <3>1 DEF TypeInv, TypeOK, ClientTypeOK, client
  <2>4. id <= issued
    BY <2>1, Numbers DEF TypeInv, TypeOK, ClientTypeOK, CallsFit
  <2>5. \A i \in CallIds : i # id => server'.calls[i] = server.calls[i]
    BY <2>1 DEF TypeInv, TypeOK, ClientTypeOK
  <2>6. server'.calls[id] = "none"
    BY <2>1 DEF TypeInv, TypeOK, ClientTypeOK
  <2>7. /\ UNCHANGED <<issued, result, handler>>
        /\ \A i \in CallIds : i > issued => i # id
    BY <1>1, <2>4, Numbers DEF client, TypeInv, TypeOK, ClientTypeOK
  <2>8. \A i \in CallIds : IsAnswer' /\ line'.n = i => i = id
    BY <2>2
  <2>9. \A h \in Handlers : handler[h].pc = "write" => handler[h].call # id
    BY <2>1 DEF TypeInv, CallsFit
  <2>10. \A h \in Handlers : handler[h].pc = "wait" /\ handler[h].method = "start" =>
           /\ server'.calls[handler[h].call] \in {"none", "start"} \cup Turns
           /\ line' # None /\ line'.kind = "answer" /\ line'.n = handler[h].call =>
                line'.turn \in Turns
    <3> SUFFICES ASSUME NEW h \in Handlers, handler[h].pc = "wait", handler[h].method = "start"
                 PROVE  /\ server'.calls[handler[h].call] \in {"none", "start"} \cup Turns
                        /\ line'.kind = "answer" /\ line'.n = handler[h].call => line'.turn \in Turns
      OBVIOUS
    <3>1. handler[h].call \in CallIds
      BY <1>2 DEF Calls
    <3>2. server.calls[handler[h].call] \in {"none", "start"} \cup Turns
      BY DEF TypeInv, CallsFit
    <3> QED  BY <2>1, <2>2, <2>5, <2>6, <3>1, <3>2
  <2>11. CallsFit'
    BY <1>2, <2>1, <2>5, <2>7, <2>8, <2>9, <2>10 DEF TypeInv, CallsFit, Calls, IsAnswer
  <2> QED  BY <1>1, <2>3, <2>11, TransportFrame DEF client
<1>4. ASSUME NEW id \in CallIds, NEW t \in Turns, StartsTurn(id, t) PROVE TypeInv'
  <2>1. /\ server' = [server EXCEPT !.calls[id] = t, !.turns[t] = "running"] /\ line' = line
        /\ server.calls[id] = "start"
    BY <1>4 DEF StartsTurn
  <2>2. ClientTypeOK'
    BY <1>1, <2>1 DEF TypeInv, TypeOK, ClientTypeOK, client
  <2>3. \A i \in CallIds : server'.calls[i] = IF i = id THEN t ELSE server.calls[i]
    BY <2>1 DEF TypeInv, TypeOK, ClientTypeOK
  <2>4. CallsFit'
    BY <1>1, <1>2, <2>1, <2>3, Numbers DEF TypeInv, CallsFit, Calls, IsAnswer, client
  <2> QED  BY <1>1, <2>2, <2>4, TransportFrame DEF client
<1>5. ASSUME NEW t \in Turns, NEW kind \in NoteKinds \cup {"ask"}, Tells(t, kind) PROVE TypeInv'
  <2>1. /\ line = None /\ line' = Msg(kind, t, server.sent[t] + 1)
        /\ server.sent[t] \in 0 .. MaxMessages /\ server.sent[t] < MaxMessages
    BY <1>5 DEF Tells, TypeInv, TypeOK, ClientTypeOK
  <2>2. line' \in Message /\ ~IsAnswer'
    BY <2>1, Numbers DEF Msg, Message, IsAnswer, NoteKinds
  <2>3. PICK state \in {"over", "waiting", "running"} :
          server' = [server EXCEPT !.sent[t] = @ + 1, !.turns[t] = state]
    BY <1>5 DEF Tells
  <2>4. ClientTypeOK'
    <3>1. server.sent[t] + 1 \in 0 .. MaxMessages
      BY <2>1, Numbers
    <3>2. server' \in [calls : [CallIds -> {"none", "resume", "start", "other"} \cup Turns],
                       turns : [Turns -> {"new", "running", "waiting", "over"}],
                       sent : [Turns -> 0 .. MaxMessages]]
      BY <2>3, <3>1 DEF TypeInv, TypeOK, ClientTypeOK
    <3> QED  BY <1>1, <2>2, <3>2 DEF TypeInv, TypeOK, ClientTypeOK, client
  <2>5. server'.calls = server.calls
    BY <2>3 DEF TypeInv, TypeOK, ClientTypeOK
  <2>6. line'.kind # "answer"
    BY <2>1 DEF Msg, NoteKinds
  <2>7. CallsFit'
    BY <1>1, <2>2, <2>5, <2>6 DEF TypeInv, CallsFit, Calls, client
  <2> QED  BY <1>1, <2>4, <2>7, TransportFrame DEF client
<1> QED  BY <1>3, <1>4, <1>5 DEF AppServer

-----------------------------------------------------------------------------
(* The calls of the handlers keep the types.                               *)

\* A handler without a stream goes on without one.
LEMMA CallFrame ==
  ASSUME TypeInv, ClientTypeOK', CallsFit', handler' \in [Handlers -> HandlerStates],
         \A g \in Handlers : handler'[g].call <= issued',
         \A g \in Handlers :
           \/ handler'[g] = handler[g]
           \/ /\ ~Opened(g) /\ ~Opened(g)' /\ handler'[g].stream = 0
              /\ handler'[g].pc \in {"check", "subscribe"} => handler'[g].turn \in Turns,
         UNCHANGED <<hub, stream, todo, known>>
  PROVE  TypeInv'
<1>1. HandlersFit'
  BY DEF TypeInv, HandlersFit, Opened
<1>2. StreamsFit'
  BY DEF TypeInv, StreamsFit
<1> QED  BY <1>1, <1>2 DEF TypeInv, TypeOK

\* A handler that makes no call leaves those of the others to them.
LEMMA CallsFrame ==
  ASSUME TypeInv, NEW h \in Handlers, handler' \in [Handlers -> HandlerStates],
         \A g \in Handlers \ {h} : handler'[g] = handler[g],
         ~Calls(h)', handler'[h].call <= issued,
         UNCHANGED <<issued, result, line>>, server'.calls = server.calls
  PROVE  CallsFit' /\ \A g \in Handlers : handler'[g].call <= issued'
<1>1. \A g \in Handlers : handler'[g].call <= issued'
  BY DEF TypeInv, TypeOK
<1>2. \A g \in Handlers : g # h => handler'[g] = handler[g]
  OBVIOUS
<1>3. CallsFit'
  BY <1>2 DEF TypeInv, CallsFit, Calls, IsAnswer
<1> QED  BY <1>1, <1>3

\* A handler that is done is idle, and so is one that has settled on its turn.
LEMMA FinishType ==
  ASSUME TypeInv, NEW h \in Handlers, Finish(h)
  PROVE  /\ handler' \in [Handlers -> HandlerStates] /\ handler'[h] = Idle
         /\ \A g \in Handlers \ {h} : handler'[g] = handler[g]
         /\ ~Calls(h)' /\ ~Opened(h)' /\ handler'[h].stream = 0 /\ handler'[h].call <= issued
         /\ handler'[h].pc = "idle"
<1>1. Idle \in HandlerStates /\ issued \in Nat
  BY Numbers DEF Idle, Resting, HandlerStates, TypeInv, TypeOK, ClientTypeOK
<1> QED  BY <1>1 DEF TypeInv, TypeOK, Finish, Calls, Opened, Idle, Resting

LEMMA GotoType ==
  ASSUME TypeInv, NEW h \in Handlers,
         NEW pc \in {"wait", "subscribe", "failed", "close", "detached"}, Goto(h, pc)
  PROVE  /\ handler' \in [Handlers -> HandlerStates]
         /\ \A g \in Handlers \ {h} : handler'[g] = handler[g]
         /\ handler'[h].pc = pc
         /\ UNCHANGED <<handler[h].method, handler[h].call, handler[h].turn,
                        handler[h].approval, handler[h].stream>>
<1>1. handler \in [Handlers -> HandlerStates] /\ handler[h] \in HandlerStates
  BY DEF TypeInv, TypeOK
<1>2. [handler[h] EXCEPT !.pc = pc] \in HandlerStates
  BY <1>1 DEF HandlerStates
<1> QED  BY <1>1, <1>2 DEF Goto, HandlerStates

\* A handler gives up, without a call that is under way.
LEMMA FinishFits ==
  ASSUME TypeInv, NEW h \in Handlers, Finish(h), ~Opened(h),
         pending' \subseteq pending, UNCHANGED <<phase, issued, result>>,
         UNCHANGED <<wire, server, hub, stream, todo, known>>
  PROVE  TypeInv'
<1>1. CallsFit' /\ \A g \in Handlers : handler'[g].call <= issued'
  BY FinishType, CallsFrame DEF wire
<1>2. ClientTypeOK'
  BY DEF TypeInv, TypeOK, ClientTypeOK, wire
<1> QED  BY <1>1, <1>2, FinishType, CallFrame

\* A call gets the next number, and nothing answers it before it is written.
LEMMA BeginCallType ==
  ASSUME TypeInv, NEW h \in Handlers, NEW method \in {"resume", "start", "other"},
         BeginCall(h, method), handler[h].pc \in {"idle", "wait"},
         UNCHANGED <<wire, server, hub, stream, todo, known>>
  PROVE  TypeInv'
<1>1. /\ issued \in Nat /\ issued < MaxCalls /\ issued' = issued + 1
      /\ pending' = pending \cup {issued + 1}
      /\ issued + 1 \in CallIds
      /\ UNCHANGED <<phase, result, line, notifications, requests, server>>
  BY Numbers DEF BeginCall, Register, TypeInv, TypeOK, ClientTypeOK, wire
<1>2. /\ handler' \in [Handlers -> HandlerStates]
      /\ \A g \in Handlers \ {h} : handler'[g] = handler[g]
      /\ handler'[h].pc = "write" /\ handler'[h].call = issued + 1
      /\ handler'[h].stream = handler[h].stream
  <2>1. handler \in [Handlers -> HandlerStates] /\ handler[h] \in HandlerStates
    BY DEF TypeInv, TypeOK
  <2>2. issued + 1 \in 0 .. MaxCalls
    BY <1>1, Numbers
  <2>3. [handler[h] EXCEPT !.pc = "write", !.method = method, !.call = issued + 1] \in HandlerStates
    BY <2>1, <2>2 DEF HandlerStates
  <2> QED  BY <2>1, <2>3 DEF BeginCall, HandlerStates
<1>3. result[issued + 1] = NoAnswer /\ server.calls[issued + 1] = "none"
      /\ ~(IsAnswer /\ line.n = issued + 1)
  BY <1>1 DEF TypeInv, CallsFit
<1>4. ClientTypeOK'
  BY <1>1, <1>3, Numbers DEF TypeInv, TypeOK, ClientTypeOK
<1>5. /\ \A id \in CallIds : id > issued + 1 => id > issued
      /\ \A g \in Handlers : Calls(g) => handler[g].call \in 1 .. issued
      /\ \A g \in Handlers \ {h} : Calls(g)' => handler'[g].call \in 1 .. issued
      /\ \A n \in 1 .. issued : n \in 1 .. issued + 1 /\ n # issued + 1
      /\ issued + 1 \in 1 .. issued + 1
      /\ NoAnswer.kind # "answer"
  BY <1>1, <1>2, Numbers DEF TypeInv, CallsFit, Calls, NoAnswer
<1>6. CallsFit'
  <2>1. \A id \in CallIds : id > issued' =>
          result'[id] = NoAnswer /\ server'.calls[id] = "none" /\ ~(IsAnswer' /\ line'.n = id)
    BY <1>1, <1>5 DEF TypeInv, CallsFit, IsAnswer
  <2>2. \A g \in Handlers : Calls(g)' => handler'[g].call \in 1 .. issued'
    BY <1>1, <1>2, <1>5
  <2>3. \A f, g \in Handlers : Calls(f)' /\ Calls(g)' /\ handler'[f].call = handler'[g].call => f = g
    BY <1>2, <1>5 DEF TypeInv, CallsFit, Calls
  <2>4. \A g \in Handlers : handler'[g].pc = "write" =>
          /\ server'.calls[handler'[g].call] = "none" /\ ~(IsAnswer' /\ line'.n = handler'[g].call)
          /\ result'[handler'[g].call].kind # "answer"
    BY <1>1, <1>2, <1>3, <1>5 DEF TypeInv, CallsFit, IsAnswer
  <2>5. \A g \in Handlers : handler'[g].pc = "wait" /\ handler'[g].method = "start" =>
          /\ server'.calls[handler'[g].call] \in {"none", "start"} \cup Turns
          /\ line' # None /\ line'.kind = "answer" /\ line'.n = handler'[g].call =>
               line'.turn \in Turns
          /\ result'[handler'[g].call].kind = "answer" => result'[handler'[g].call].turn \in Turns
    BY <1>1, <1>2 DEF TypeInv, CallsFit
  <2> QED  BY <2>1, <2>2, <2>3, <2>4, <2>5 DEF CallsFit
<1>7. \A g \in Handlers : handler'[g].call <= issued'
  <2>1. \A g \in Handlers : handler[g].call \in Nat /\ handler[g].call <= issued
    BY Numbers DEF TypeInv, TypeOK, HandlerStates
  <2> QED  BY <1>1, <1>2, <2>1
<1>8. ~Opened(h) /\ ~Opened(h)'
  BY <1>2 DEF Opened
<1>9. handler'[h].stream = 0
  BY <1>2, <1>8 DEF TypeInv, HandlersFit
<1> QED  BY <1>2, <1>4, <1>6, <1>7, <1>8, <1>9, CallFrame

\* A call is written as long as the pipe is open, and given up otherwise.
LEMMA WriteCallType ==
  ASSUME TypeInv, NEW h \in Handlers, WriteCall(h)
  PROVE  TypeInv'
<1>1. ~Opened(h) /\ Calls(h) /\ handler[h].pc = "write"
  BY DEF WriteCall, Opened, Calls
<1>2. CASE CanWrite
  <2>1. /\ Send(handler[h].call, handler[h].method) /\ Goto(h, "wait")
        /\ UNCHANGED <<client, wire, hub, stream, todo, known>>
    BY <1>2 DEF WriteCall
  <2> DEFINE call == handler[h].call
  <2>2. call \in CallIds /\ handler[h].method \in {"resume", "start", "other"} /\ call <= issued
    BY <1>1, Numbers DEF TypeInv, TypeOK, ClientTypeOK, HandlerStates, CallsFit
  <2>3. /\ server' \in [calls : [CallIds -> {"none", "resume", "start", "other"} \cup Turns],
                       turns : [Turns -> {"new", "running", "waiting", "over"}],
                       sent : [Turns -> 0 .. MaxMessages]]
        /\ \A id \in CallIds : server'.calls[id] = IF id = call THEN handler[h].method
                                                   ELSE server.calls[id]
    BY <2>1, <2>2 DEF Send, TypeInv, TypeOK, ClientTypeOK
  <2>4. ClientTypeOK'
    BY <2>1, <2>3 DEF TypeInv, TypeOK, ClientTypeOK, client, wire
  <2>5. /\ handler' \in [Handlers -> HandlerStates]
        /\ \A g \in Handlers \ {h} : handler'[g] = handler[g]
        /\ handler'[h].pc = "wait"
        /\ UNCHANGED <<handler[h].method, handler[h].call, handler[h].stream>>
    BY <2>1, GotoType
  <2>6. ~(IsAnswer /\ line.n = call) /\ result[call].kind # "answer"
    BY <1>1 DEF TypeInv, CallsFit
  <2>7. \A g \in Handlers \ {h} : Calls(g) => handler[g].call # call /\ handler[g].call \in CallIds
    BY <1>1, Numbers DEF TypeInv, TypeOK, ClientTypeOK, CallsFit
  <2>8. \A g \in Handlers : /\ Calls(g)' => Calls(g)
                            /\ handler'[g].call = handler[g].call
                            /\ handler'[g].method = handler[g].method
    BY <1>1, <2>5 DEF Calls
  <2>9. UNCHANGED <<issued, result, line>>
    BY <2>1 DEF client, wire
  <2>10. CallsFit'
    <3>1. \A id \in CallIds : id > issued' =>
            result'[id] = NoAnswer /\ server'.calls[id] = "none" /\ ~(IsAnswer' /\ line'.n = id)
      <4>1. \A id \in CallIds : id > issued => id # call
        BY <2>2, Numbers DEF TypeInv, TypeOK, ClientTypeOK
      <4> QED  BY <2>3, <2>9, <4>1 DEF TypeInv, CallsFit, IsAnswer
    <3>2. \A g \in Handlers : Calls(g)' => handler'[g].call \in 1 .. issued'
      BY <2>8, <2>9 DEF TypeInv, CallsFit
    <3>3. \A f, g \in Handlers : Calls(f)' /\ Calls(g)' /\ handler'[f].call = handler'[g].call => f = g
      BY <2>8 DEF TypeInv, CallsFit
    <3>4. \A g \in Handlers : handler'[g].pc = "write" =>
            /\ server'.calls[handler'[g].call] = "none" /\ ~(IsAnswer' /\ line'.n = handler'[g].call)
            /\ result'[handler'[g].call].kind # "answer"
      BY <2>3, <2>5, <2>7, <2>9 DEF TypeInv, CallsFit, IsAnswer, Calls
    <3>5. \A g \in Handlers : handler'[g].pc = "wait" /\ handler'[g].method = "start" =>
            /\ server'.calls[handler'[g].call] \in {"none", "start"} \cup Turns
            /\ line' # None /\ line'.kind = "answer" /\ line'.n = handler'[g].call =>
                 line'.turn \in Turns
            /\ result'[handler'[g].call].kind = "answer" => result'[handler'[g].call].turn \in Turns
      <4> SUFFICES ASSUME NEW g \in Handlers, handler'[g].pc = "wait", handler'[g].method = "start"
                   PROVE  /\ server'.calls[handler'[g].call] \in {"none", "start"} \cup Turns
                          /\ line' # None /\ line'.kind = "answer" /\ line'.n = handler'[g].call =>
                               line'.turn \in Turns
                          /\ result'[handler'[g].call].kind = "answer" =>
                               result'[handler'[g].call].turn \in Turns
        OBVIOUS
      <4>1. CASE g = h
        BY <2>2, <2>3, <2>5, <2>6, <2>9, <4>1 DEF IsAnswer
      <4>2. CASE g # h
        BY <2>3, <2>5, <2>7, <2>9, <4>2 DEF TypeInv, CallsFit, Calls
      <4> QED  BY <4>1, <4>2
    <3> QED  BY <3>1, <3>2, <3>3, <3>4, <3>5 DEF CallsFit
  <2>11. \A g \in Handlers : handler'[g].call <= issued'
    BY <2>8, <2>9 DEF TypeInv, TypeOK
  <2>12. ~Opened(h)' /\ handler'[h].stream = 0
    BY <1>1, <2>5 DEF TypeInv, HandlersFit, Opened
  <2> QED  BY <1>1, <2>1, <2>4, <2>5, <2>10, <2>11, <2>12, CallFrame
<1>3. CASE ~CanWrite
  <2>1. /\ Forget(handler[h].call) /\ Finish(h)
        /\ UNCHANGED <<wire, server, hub, stream, todo, known>>
    BY <1>3 DEF WriteCall
  <2> QED  BY <1>1, <2>1, FinishFits DEF Forget
<1> QED  BY <1>2, <1>3

\* An answer moves its handler on: to the next call, to the end, or to the stream of its turn.
LEMMA TakeAnswerType ==
  ASSUME TypeInv, NEW h \in Handlers, TakeAnswer(h)
  PROVE  TypeInv'
<1> DEFINE answer == result[handler[h].call]
<1>1. /\ handler[h].pc = "wait" /\ ~Opened(h)
      /\ UNCHANGED <<wire, server, hub, stream, todo, known>>
  BY DEF TakeAnswer, Opened
<1>2. CASE Finish(h) /\ UNCHANGED client
  BY <1>1, <1>2, FinishFits DEF client
<1>3. CASE BeginCall(h, "start")
  BY <1>1, <1>3, BeginCallType
<1>4. CASE /\ answer.kind = "answer" /\ handler[h].method = "start"
           /\ handler' = [handler EXCEPT ![h] = Resting("check", answer.turn, None)]
           /\ UNCHANGED client
  <2>1. answer.turn \in Turns
    BY <1>1, <1>4 DEF TypeInv, CallsFit
  <2>2. Resting("check", answer.turn, None) \in HandlerStates
    <3>1. 0 \in 0 .. MaxCalls /\ 0 \in 0 .. MaxStreams
      BY Numbers
    <3> HIDE DEF answer
    <3> QED  BY <2>1, <3>1 DEF Resting, HandlerStates
  <2>3. /\ handler' \in [Handlers -> HandlerStates]
        /\ \A g \in Handlers \ {h} : handler'[g] = handler[g]
        /\ handler'[h].pc = "check" /\ handler'[h].stream = 0 /\ handler'[h].turn \in Turns
        /\ handler'[h].call = 0
    BY <1>4, <2>1, <2>2 DEF TypeInv, TypeOK, Resting
  <2>4. /\ UNCHANGED <<issued, result, line>> /\ server'.calls = server.calls
        /\ ClientTypeOK' /\ 0 <= issued
    BY <1>1, <1>4, Numbers DEF client, wire, TypeInv, TypeOK, ClientTypeOK
  <2>5. ~Calls(h)' /\ ~Opened(h)'
    BY <2>3 DEF Calls, Opened
  <2>6. CallsFit' /\ \A g \in Handlers : handler'[g].call <= issued'
    BY <2>3, <2>4, <2>5, CallsFrame
  <2> QED  BY <1>1, <2>3, <2>4, <2>5, <2>6, CallFrame
<1> QED  BY <1>2, <1>3, <1>4 DEF TakeAnswer

\* The other steps of a handler up to its stream.
LEMMA CallingType ==
  ASSUME TypeInv, NEW h \in Handlers,
         \/ StartTurn(h) \/ OtherCall(h) \/ Calling(h) \/ GiveUp(h)
         \/ \E a \in known : ResolveApproval(h, a)
         \/ Check(h) \/ Conflict(h)
  PROVE  TypeInv'
<1>1. CASE StartTurn(h) \/ OtherCall(h)
  BY <1>1, BeginCallType DEF StartTurn, OtherCall
<1>2. CASE Calling(h)
  BY <1>2, WriteCallType, TakeAnswerType DEF Calling
<1>3. CASE GiveUp(h)
  BY <1>3, FinishFits DEF GiveUp, Forget, Opened
<1>4. ASSUME NEW a \in known, ResolveApproval(h, a) PROVE TypeInv'
  <2>1. /\ a \in Message /\ a.turn \in Turns /\ handler[h].pc = "idle"
        /\ hub' = [hub EXCEPT !.approvals = @ \ {a}]
        /\ handler' = [handler EXCEPT ![h] = Resting("check", a.turn, a)]
        /\ UNCHANGED <<transport, stream, todo, known>>
    BY <1>4 DEF ResolveApproval, TypeInv, TypeOK, Message
  <2>2. Resting("check", a.turn, a) \in HandlerStates
    <3>1. 0 \in 0 .. MaxCalls /\ 0 \in 0 .. MaxStreams
      BY Numbers
    <3> QED  BY <2>1, <3>1 DEF Resting, HandlerStates
  <2>3. /\ handler' \in [Handlers -> HandlerStates]
        /\ \A g \in Handlers \ {h} : handler'[g] = handler[g]
        /\ handler'[h].pc = "check" /\ handler'[h].stream = 0 /\ handler'[h].turn \in Turns
        /\ handler'[h].call = 0
    BY <2>1, <2>2 DEF TypeInv, TypeOK, Resting
  <2>4. /\ UNCHANGED <<issued, result, line, server>>
        /\ ClientTypeOK' /\ 0 <= issued
    BY <2>1, Numbers DEF transport, client, wire, TypeInv, TypeOK, ClientTypeOK
  <2>5. ~Calls(h)' /\ ~Opened(h)' /\ ~Opened(h)
    BY <2>1, <2>3 DEF Calls, Opened
  <2>6. CallsFit' /\ \A g \in Handlers : handler'[g].call <= issued'
    BY <2>3, <2>4, <2>5, CallsFrame
  <2>7. /\ hub' \in Hubs /\ hub'.streams = hub.streams /\ hub'.early = hub.early
    BY <2>1 DEF Hubs, TypeInv, TypeOK
  <2>8. TypeOK'
    BY <2>1, <2>3, <2>4, <2>6, <2>7 DEF TypeInv, TypeOK
  <2>9. HandlersFit'
    BY <2>1, <2>3, <2>5 DEF TypeInv, HandlersFit, Opened
  <2>10. StreamsFit'
    BY <2>1, <2>7 DEF TypeInv, StreamsFit
  <2> QED  BY <2>6, <2>8, <2>9, <2>10 DEF TypeInv
<1>5. CASE Check(h) \/ Conflict(h)
  <2>1. handler[h].pc \in {"check", "subscribe"} /\ ~Opened(h) /\ handler[h].turn \in Turns
    BY <1>5 DEF Check, Conflict, Opened, TypeInv, HandlersFit
  <2>2. UNCHANGED <<transport, hub, stream, todo, known>>
    BY <1>5 DEF Check, Conflict
  <2>3. CASE Finish(h)
    BY <2>1, <2>2, <2>3, FinishFits DEF transport, client
  <2>4. CASE Goto(h, "subscribe")
    <3>1. /\ handler' \in [Handlers -> HandlerStates]
          /\ \A g \in Handlers \ {h} : handler'[g] = handler[g]
          /\ handler'[h].pc = "subscribe" /\ handler'[h].turn = handler[h].turn
          /\ handler'[h].stream = handler[h].stream /\ handler'[h].call = handler[h].call
      BY <2>4, GotoType
    <3>2. ~Calls(h)' /\ ~Opened(h)' /\ handler'[h].stream = 0 /\ handler'[h].call <= issued
      BY <2>1, <3>1 DEF Calls, Opened, TypeInv, TypeOK, HandlersFit
    <3>3. UNCHANGED <<issued, result, line, server>> /\ ClientTypeOK'
      BY <2>2 DEF transport, client, wire, TypeInv, TypeOK, ClientTypeOK
    <3>4. CallsFit' /\ \A g \in Handlers : handler'[g].call <= issued'
      BY <3>1, <3>2, <3>3, CallsFrame
    <3> QED  BY <2>1, <2>2, <3>1, <3>2, <3>3, <3>4, CallFrame
  <2> QED  BY <1>5, <2>3, <2>4 DEF Check, Conflict
<1> QED  BY <1>1, <1>2, <1>3, <1>4, <1>5

-----------------------------------------------------------------------------
(* The hub and the streams keep the types.                                 *)

\* What the client holds does not change, but for the channels that the hub empties.
LEMMA HubFrame ==
  ASSUME TypeInv, UNCHANGED <<client, line, server>>,
         notifications' \in Seq(Message), Len(notifications') <= QueueLimit,
         requests' \in Seq(Message), Len(requests') <= RequestLimit
  PROVE  ClientTypeOK' /\ (handler' = handler => CallsFit')
<1>1. UNCHANGED <<phase, issued, pending, result, line, server>>
  BY DEF client
<1>2. ClientTypeOK'
  BY <1>1 DEF TypeInv, TypeOK, ClientTypeOK
<1>3. handler' = handler => CallsFit'
  BY <1>1 DEF TypeInv, CallsFit, Calls, IsAnswer
<1> QED  BY <1>2, <1>3

\* A dispatcher that has taken a step still works for the streams it worked for.
LEMMA ProceedFits ==
  ASSUME TypeInv, NEW d \in Dispatchers, todo[d] # <<>>, NEW steps \in Seq(Steps),
         Proceed(d, steps),
         \A i \in 1 .. Len(steps) :
           steps[i].op # "dispatch" => stream[steps[i].stream].turn = steps[i].item.turn,
         \A h \in Handlers :
           /\ handler'[h].pc = handler[h].pc \/ {handler'[h].pc, handler[h].pc} \subseteq {"open", "failed"}
           /\ UNCHANGED <<handler[h].turn, handler[h].stream>>,
         \A s \in Streams : stream'[s].turn = stream[s].turn,
         \A t \in Turns : hub'.streams[t] \in {0, hub.streams[t]}
  PROVE  HandlersFit' /\ StreamsFit' /\ todo' \in [Dispatchers -> Seq(Steps)]
<1>1. /\ todo' \in [Dispatchers -> Seq(Steps)]
      /\ \A e \in Dispatchers \ {d} : todo'[e] = todo[e]
      /\ DOMAIN todo'[d] = 1 .. (Len(steps) + Len(todo[d]) - 1)
      /\ \A i \in DOMAIN todo'[d] :
           todo'[d][i] = IF i <= Len(steps) THEN steps[i] ELSE todo[d][i - Len(steps) + 1]
  BY ProceedQueue DEF TypeInv, TypeOK
<1>2. /\ \A e \in Dispatchers : \A i \in DOMAIN todo'[e] :
           todo'[e][i].op # "dispatch" => todo'[e][i].stream \in Streams
      /\ todo[d] \in Seq(Steps) /\ DOMAIN todo[d] = 1 .. Len(todo[d])
      /\ Len(todo[d]) \in Nat /\ Len(steps) \in Nat
  <2>1. ASSUME NEW e \in Dispatchers, NEW i \in DOMAIN todo'[e], todo'[e][i].op # "dispatch"
        PROVE  todo'[e][i].stream \in Streams
    <3>1. todo'[e][i] \in Steps
      BY <1>1, <2>1, LenProperties, ElementOfSeq
    <3> QED  BY <2>1, <3>1 DEF Steps
  <2> QED  BY <2>1, LenProperties DEF TypeInv, TypeOK
<1>3. HandlersFit'
  <2>1. \A h \in Handlers : Opened(h) => handler[h].stream \in Streams
    BY DEF TypeInv, HandlersFit
  <2>2. \A h \in Handlers : todo'[h] # <<>> => todo[h] # <<>>
    BY <1>1, Numbers
  <2>3. \A h \in Handlers : /\ Opened(h)' <=> Opened(h)
                            /\ handler'[h].pc = handler[h].pc \/ handler'[h].pc \in {"open", "failed"}
    BY DEF Opened
  <2> QED  BY <2>1, <2>2, <2>3 DEF TypeInv, HandlersFit, Opened
<1>4. \A e \in Dispatchers : \A i \in DOMAIN todo'[e] : todo'[e][i].op # "dispatch" =>
        stream[todo'[e][i].stream].turn = todo'[e][i].item.turn
  <2> SUFFICES ASSUME NEW e \in Dispatchers, NEW i \in DOMAIN todo'[e], todo'[e][i].op # "dispatch"
               PROVE  stream[todo'[e][i].stream].turn = todo'[e][i].item.turn
    OBVIOUS
  <2>1. CASE e # d
    BY <1>1, <2>1 DEF TypeInv, StreamsFit
  <2>2. CASE e = d /\ i <= Len(steps)
    BY <1>1, <1>2, <2>2
  <2>3. CASE e = d /\ ~(i <= Len(steps))
    <3>1. i - Len(steps) + 1 \in DOMAIN todo[d] /\ todo'[e][i] = todo[d][i - Len(steps) + 1]
      BY <1>1, <1>2, <2>3
    <3> QED  BY <3>1 DEF TypeInv, StreamsFit
  <2> QED  BY <2>1, <2>2, <2>3
<1>5. StreamsFit'
  <2>1. \A t \in Turns : hub.streams[t] \in 0 .. MaxStreams
    BY DEF TypeInv, TypeOK, Hubs
  <2>2. \A t \in Turns : hub.streams[t] # 0 => hub.streams[t] \in Streams
    BY <2>1, Numbers DEF Streams
  <2> QED  BY <1>2, <1>4, <2>2 DEF TypeInv, StreamsFit
<1> QED  BY <1>1, <1>3, <1>5

LEMMA ProceedOn ==
  ASSUME TypeInv, NEW d \in Dispatchers, todo[d] # <<>>, Proceed(d, <<>>),
         handler' = handler, \A s \in Streams : stream'[s].turn = stream[s].turn,
         \A t \in Turns : hub'.streams[t] \in {0, hub.streams[t]}
  PROVE  HandlersFit' /\ StreamsFit' /\ todo' \in [Dispatchers -> Seq(Steps)]
<1>1. <<>> \in Seq(Steps) /\ 1 .. Len(<<>>) = {}
  BY FewSteps
<1> QED  BY <1>1, ProceedFits

\* The steps of a dispatcher are steps, and those that are no dispatch have a stream.
LEMMA StepType ==
  ASSUME TypeInv, NEW d \in Dispatchers, NEW i \in DOMAIN todo[d]
  PROVE  /\ todo[d][i] \in Steps /\ i \in 1 .. Len(todo[d]) /\ Len(todo[d]) \in Nat
         /\ todo[d] # <<>> /\ Head(todo[d]) = todo[d][1]
         /\ todo[d][i].item.turn \in Turns
         /\ todo[d][i].op = "dispatch" => todo[d][i].item \in Message
         /\ todo[d][i].op # "dispatch" =>
              /\ todo[d][i].stream \in Streams /\ todo[d][i].item \in Item
              /\ stream[todo[d][i].stream].turn = todo[d][i].item.turn
<1>1. todo[d] \in Seq(Steps) /\ DOMAIN todo[d] = 1 .. Len(todo[d]) /\ Len(todo[d]) \in Nat
  BY LenProperties DEF TypeInv, TypeOK
<1>2. todo[d][i] \in Steps /\ todo[d] # <<>> /\ Head(todo[d]) = todo[d][1]
  BY <1>1, ElementOfSeq, EmptySeq
<1>3. todo[d][i].op # "dispatch" => stream[todo[d][i].stream].turn = todo[d][i].item.turn
  BY DEF TypeInv, StreamsFit
<1> QED  BY <1>1, <1>2, <1>3 DEF Steps, Message, Item

\* The step a dispatcher is at.
LEMMA CurrentType ==
  ASSUME TypeInv, NEW d \in Dispatchers, NEW op, Does(d, op)
  PROVE  /\ todo[d] # <<>> /\ 1 \in DOMAIN todo[d] /\ Current(d) = todo[d][1]
         /\ Current(d) \in Steps /\ Current(d).op = op /\ Current(d).item.turn \in Turns
         /\ op = "dispatch" => Current(d).item \in Message
         /\ op # "dispatch" => /\ Current(d).stream \in Streams /\ Current(d).item \in Item
                               /\ stream[Current(d).stream].turn = Current(d).item.turn
<1>1. 1 \in DOMAIN todo[d]
  BY EmptySeq, LenProperties DEF Does, TypeInv, TypeOK
<1> QED  BY <1>1, StepType DEF Does, Current

\* A message is an item of a stream.
LEMMA MessageIsItem == Message \subseteq Item
BY DEF Item

\* A turn whose message is dispatched: kept, dropped or written.
LEMMA DispatchType ==
  ASSUME TypeInv, NEW d \in Dispatchers, Dispatch(d)
  PROVE  TypeInv'
<1> DEFINE m == Current(d).item
           s == hub.streams[m.turn]
<1>1. /\ todo[d] # <<>> /\ m \in Message /\ m.turn \in Turns
      /\ UNCHANGED <<transport, stream, handler, known>>
  BY CurrentType DEF Dispatch
<1>2. ClientTypeOK' /\ CallsFit'
  BY <1>1, HubFrame DEF transport, wire, TypeInv, TypeOK, ClientTypeOK
<1>3. CASE s = 0
  <2>1. hub' = Keep(m) /\ Proceed(d, <<>>)
    BY <1>3 DEF Dispatch
  <2>2. hub' \in Hubs /\ hub'.streams = hub.streams /\ \A t \in Turns : Len(hub'.early[t]) <= MaxEarly
    <3>1. CASE hub' = hub
      BY <3>1 DEF TypeInv, TypeOK
    <3>2. CASE hub' = [hub EXCEPT !.early[m.turn] = Append(@, m)] /\ Len(hub.early[m.turn]) < MaxEarly
      <4>1. /\ hub.early[m.turn] \in Seq(Message) /\ Append(hub.early[m.turn], m) \in Seq(Message)
            /\ Len(Append(hub.early[m.turn], m)) <= MaxEarly
        BY <1>1, <3>2, Numbers, QueueGrows, LenProperties DEF TypeInv, TypeOK, Hubs
      <4> QED  BY <1>1, <3>2, <4>1 DEF TypeInv, TypeOK, Hubs
    <3> QED  BY <2>1, <3>1, <3>2 DEF Keep
  <2>3. HandlersFit' /\ StreamsFit' /\ todo' \in [Dispatchers -> Seq(Steps)]
    BY <1>1, <2>1, <2>2, ProceedOn
  <2> QED  BY <1>1, <1>2, <2>2, <2>3 DEF TypeInv, TypeOK, transport, client
<1>4. CASE s # 0
  <2>1. hub' = hub /\ Proceed(d, Projected(m, s))
    BY <1>4 DEF Dispatch
  <2>2. s \in Streams /\ stream[s].turn = m.turn
    BY <1>1, <1>4, Numbers DEF TypeInv, TypeOK, Hubs, StreamsFit, Streams
  <2>3. Step("emit", s, m) \in Steps /\ Step("remove", s, m) \in Steps /\ Step("end", s, m) \in Steps
    BY <1>1, <2>2, MessageIsItem DEF Step, Steps
  <2>4. /\ Projected(m, s) \in Seq(Steps)
        /\ \A i \in 1 .. Len(Projected(m, s)) :
             Projected(m, s)[i].stream = s /\ Projected(m, s)[i].item = m
    BY <2>3, FewSteps DEF Projected, Step
  <2>5. HandlersFit' /\ StreamsFit' /\ todo' \in [Dispatchers -> Seq(Steps)]
    BY <1>1, <2>1, <2>2, <2>4, ProceedFits
  <2> QED  BY <1>1, <1>2, <2>1, <2>5 DEF TypeInv, TypeOK, transport, client
<1> QED  BY <1>3, <1>4

\* What is written to a stream fits it; a closed one may drop it.
LEMMA OfferType ==
  ASSUME TypeInv, NEW s \in Streams, NEW item \in Item, Offer(s, item)
  PROVE  /\ stream' \in [Streams -> StreamStates]
         /\ \A r \in Streams : /\ Len(stream'[r].items) <= Capacity
                               /\ stream'[r].turn = stream[r].turn
<1>1. CASE UNCHANGED stream
  BY <1>1 DEF TypeInv, TypeOK
<1>2. CASE Len(stream[s].items) < Capacity /\ stream' = [stream EXCEPT ![s].items = Append(@, item)]
  <2>1. /\ Append(stream[s].items, item) \in Seq(Item)
        /\ Len(Append(stream[s].items, item)) <= Capacity
    BY <1>2, Numbers, QueueGrows, LenProperties DEF TypeInv, TypeOK, StreamStates
  <2> QED  BY <1>2, <2>1 DEF TypeInv, TypeOK, StreamStates
<1> QED  BY <1>1, <1>2 DEF Offer

\* The steps that follow a dispatch.
LEMMA WorkType ==
  ASSUME TypeInv, NEW d \in Dispatchers, Emit(d) \/ RemoveStream(d) \/ EndStream(d)
  PROVE  TypeInv'
<1> DEFINE m == Current(d).item
           s == Current(d).stream
<1>1. /\ todo[d] # <<>> /\ m \in Item /\ m.turn \in Turns /\ s \in Streams
      /\ stream[s].turn = m.turn /\ Proceed(d, <<>>) /\ UNCHANGED <<transport, handler, known>>
  BY CurrentType DEF Emit, RemoveStream, EndStream
<1>2. ClientTypeOK' /\ CallsFit'
  BY <1>1, HubFrame DEF transport, wire, TypeInv, TypeOK, ClientTypeOK
<1>3. CASE Emit(d)
  <2>1. hub' = hub /\ Offer(s, m)
    BY <1>3 DEF Emit
  <2>2. /\ stream' \in [Streams -> StreamStates]
        /\ \A r \in Streams : Len(stream'[r].items) <= Capacity /\ stream'[r].turn = stream[r].turn
    BY <1>1, <2>1, OfferType
  <2>3. HandlersFit' /\ StreamsFit' /\ todo' \in [Dispatchers -> Seq(Steps)]
    BY <1>1, <2>1, <2>2, ProceedOn
  <2> QED  BY <1>1, <1>2, <2>1, <2>2, <2>3 DEF TypeInv, TypeOK, transport, client
<1>4. CASE RemoveStream(d)
  <2>1. /\ hub' \in Hubs /\ stream' = stream
        /\ \A t \in Turns : /\ Len(hub'.early[t]) <= MaxEarly
                            /\ hub'.streams[t] \in {0, hub.streams[t]}
    <3>1. <<>> \in Seq(Message) /\ Len(<<>>) <= MaxEarly /\ 0 \in 0 .. MaxStreams
      BY Numbers
    <3> QED  BY <1>1, <1>4, <3>1 DEF RemoveStream, TypeInv, TypeOK, Hubs
  <2>2. HandlersFit' /\ StreamsFit' /\ todo' \in [Dispatchers -> Seq(Steps)]
    BY <1>1, <2>1, ProceedOn
  <2> QED  BY <1>1, <1>2, <2>1, <2>2 DEF TypeInv, TypeOK, transport, client
<1>5. CASE EndStream(d)
  <2>1. [kind |-> "eof", turn |-> stream[s].turn, n |-> 0] \in Item
    BY <1>1, Numbers DEF Item
  <2>2. /\ hub' = hub /\ stream' \in [Streams -> StreamStates]
        /\ \A r \in Streams : Len(stream'[r].items) <= Capacity /\ stream'[r].turn = stream[r].turn
    <3>1. CASE UNCHANGED stream
      BY <1>5, <3>1 DEF EndStream, TypeInv, TypeOK
    <3>2. CASE stream' = [stream EXCEPT ![s].ended = TRUE]
      BY <1>5, <3>2 DEF EndStream, TypeInv, TypeOK, StreamStates
    <3>3. CASE /\ Len(stream[s].items) < Capacity
               /\ stream' = [stream EXCEPT
                    ![s].items = Append(@, [kind |-> "eof", turn |-> stream[s].turn, n |-> 0]),
                    ![s].ended = TRUE]
      <4> DEFINE items == Append(stream[s].items, [kind |-> "eof", turn |-> stream[s].turn, n |-> 0])
      <4>1. items \in Seq(Item) /\ Len(items) <= Capacity
        BY <1>1, <2>1, <3>3, Numbers, QueueGrows, LenProperties DEF TypeInv, TypeOK, StreamStates
      <4> HIDE DEF items
      <4>2. stream' = [stream EXCEPT ![s].items = items, ![s].ended = TRUE]
        BY <3>3 DEF items
      <4>3. [stream[s] EXCEPT !.items = items, !.ended = TRUE] \in StreamStates
        BY <1>1, <4>1 DEF TypeInv, TypeOK, StreamStates
      <4>4. /\ stream' \in [Streams -> StreamStates]
            /\ stream'[s].items = items /\ stream'[s].turn = stream[s].turn
            /\ \A r \in Streams \ {s} : stream'[r] = stream[r]
        BY <1>1, <4>2, <4>3 DEF TypeInv, TypeOK, StreamStates
      <4> QED  BY <1>5, <4>1, <4>4 DEF EndStream, TypeInv, TypeOK
    <3> QED  BY <1>5, <3>1, <3>2, <3>3 DEF EndStream
  <2>3. HandlersFit' /\ StreamsFit' /\ todo' \in [Dispatchers -> Seq(Steps)]
    BY <1>1, <2>2, ProceedOn
  <2> QED  BY <1>1, <1>2, <2>2, <2>3 DEF TypeInv, TypeOK, transport, client
<1> QED  BY <1>3, <1>4, <1>5

-----------------------------------------------------------------------------
(* The steps around a stream keep the types.                               *)

\* What was kept for a turn is dispatched again, and then a decision told, upon a new stream.
Replays(steps, queue, h, s) ==
  /\ steps \in Seq(Steps)
  /\ Len(queue) \in Nat /\ queue \in Seq(Message) /\ DOMAIN queue = 1 .. Len(queue)
  /\ DOMAIN steps = 1 .. Len(steps) /\ Len(steps) \in Nat /\ Len(queue) <= Len(steps)
  /\ \A i \in 1 .. Len(queue) : steps[i] = Step("dispatch", 0, queue[i])
  /\ \A i \in DOMAIN steps : i > Len(queue) =>
       /\ steps[i].op \in {"emit", "reply"} /\ steps[i].stream = s
       /\ steps[i].item = [kind |-> "resolved", turn |-> handler[h].turn, n |-> 0]
       /\ steps[i].op = "reply" => i = Len(steps)

LEMMA ReplaySteps ==
  ASSUME TypeInv, NEW h \in Handlers, NEW s \in Streams, handler[h].turn \in Turns
  PROVE  LET queue == hub.early[handler[h].turn]
         IN  Replays(Dispatches(queue) \o Decide(h, s), queue, h, s)
<1> DEFINE queue == hub.early[handler[h].turn]
           first == Dispatches(queue)
           last == Decide(h, s)
           item == [kind |-> "resolved", turn |-> handler[h].turn, n |-> 0]
<1>1. queue \in Seq(Message) /\ Len(queue) \in Nat /\ DOMAIN queue = 1 .. Len(queue)
  BY LenProperties DEF TypeInv, TypeOK, Hubs
<1>2. /\ first \in Seq(Steps) /\ Len(first) = Len(queue)
      /\ \A i \in 1 .. Len(queue) : first[i] = Step("dispatch", 0, queue[i])
  <2>1. \A i \in 1 .. Len(queue) : Step("dispatch", 0, queue[i]) \in Steps
    BY <1>1, ElementOfSeq DEF Step, Steps
  <2>2. first = [i \in 1 .. Len(queue) |-> Step("dispatch", 0, queue[i])]
    BY <1>1 DEF Dispatches
  <2>3. first \in [1 .. Len(queue) -> Steps]
    BY <2>1, <2>2
  <2> HIDE DEF first
  <2>4. first \in Seq(Steps)
    BY <1>1, <2>3, SeqDef
  <2> QED  BY <1>1, <2>2, <2>3, <2>4, LenProperties
<1>3. /\ last \in Seq(Steps) /\ Len(last) \in Nat
      /\ \A i \in 1 .. Len(last) : /\ last[i].op \in {"emit", "reply"} /\ last[i].stream = s
                                   /\ last[i].item = item
                                   /\ last[i].op = "reply" => i = Len(last)
  <2>1. Step("emit", s, item) \in Steps /\ Step("reply", s, item) \in Steps
    BY Numbers DEF Step, Steps, Item
  <2>2. CASE last = <<>>
    BY <2>2, FewSteps
  <2>3. CASE last = <<Step("emit", s, item), Step("reply", s, item)>>
    <3>1. last \in Seq(Steps) /\ Len(last) = 2
          /\ last[1] = Step("emit", s, item) /\ last[2] = Step("reply", s, item)
      BY <2>1, <2>3, FewSteps
    <3>2. last[1].op # "reply" /\ last[1].op = "emit" /\ last[2].op = "reply"
          /\ \A i \in {1, 2} : last[i].stream = s /\ last[i].item = item
      BY <3>1 DEF Step
    <3> HIDE DEF last
    <3> QED  BY <3>1, <3>2
  <2> QED  BY <2>2, <2>3 DEF Decide
<1> DEFINE steps == first \o last
<1> HIDE DEF queue, first, last, item
<1>4. /\ steps \in Seq(Steps) /\ Len(steps) = Len(queue) + Len(last)
      /\ \A i \in 1 .. Len(queue) + Len(last) :
           steps[i] = IF i <= Len(queue) THEN first[i] ELSE last[i - Len(queue)]
  <2>1. /\ steps \in Seq(Steps) /\ Len(steps) = Len(first) + Len(last)
        /\ \A i \in 1 .. Len(first) + Len(last) :
             steps[i] = IF i <= Len(first) THEN first[i] ELSE last[i - Len(first)]
    BY <1>2, <1>3, ConcatProperties, Zenon
  <2> HIDE DEF steps
  <2> QED  BY <1>2, <2>1
<1>5. DOMAIN steps = 1 .. Len(steps) /\ Len(steps) \in Nat
  BY <1>4, LenProperties
<1> HIDE DEF steps
<1>6. \A i \in 1 .. Len(queue) : steps[i] = Step("dispatch", 0, queue[i])
  BY <1>1, <1>2, <1>3, <1>4
<1>7. ASSUME NEW i \in DOMAIN steps, i > Len(queue)
      PROVE  /\ steps[i].op \in {"emit", "reply"} /\ steps[i].stream = s
             /\ steps[i].item = item
             /\ steps[i].op = "reply" => i = Len(steps)
  <2>1. i - Len(queue) \in 1 .. Len(last) /\ steps[i] = last[i - Len(queue)]
    BY <1>1, <1>3, <1>4, <1>5, <1>7
  <2> QED  BY <1>1, <1>3, <1>4, <2>1
<1>8. Len(queue) <= Len(steps)
  BY <1>1, <1>3, <1>4
<1>9. Replays(steps, queue, h, s)
  BY <1>1, <1>4, <1>5, <1>6, <1>7, <1>8 DEF Replays, item
<1> QED  BY <1>9, Zenon DEF queue, first, last, steps

\* A new stream is that of its handler and its turn.
LEMMA SubscribeType ==
  ASSUME TypeInv, NEW h \in Handlers, Subscribe(h)
  PROVE  TypeInv'
<1> DEFINE t == handler[h].turn
<1>1. PICK s \in Streams :
        /\ IsNextFree(s) /\ hub' = Entered(t, s) /\ stream' = [stream EXCEPT ![s].turn = t]
        /\ todo' = [todo EXCEPT ![h] = Dispatches(hub.early[t]) \o Decide(h, s)]
        /\ handler' = [handler EXCEPT ![h].pc = "open", ![h].stream = s]
  BY DEF Subscribe
<1>2. /\ handler[h].pc = "subscribe" /\ hub.streams[t] = 0 /\ t \in Turns /\ ~Opened(h)
      /\ stream[s].turn = None /\ UNCHANGED <<transport, known>>
  BY <1>1 DEF Subscribe, TypeInv, HandlersFit, Opened, IsNextFree, Free
<1>3. /\ handler' \in [Handlers -> HandlerStates]
      /\ \A g \in Handlers \ {h} : handler'[g] = handler[g]
      /\ handler'[h].pc = "open" /\ handler'[h].stream = s /\ handler'[h].turn = t
      /\ handler'[h].call = handler[h].call
  <2>1. s \in 0 .. MaxStreams /\ handler[h] \in HandlerStates
    BY Numbers DEF Streams, TypeInv, TypeOK
  <2>2. [handler[h] EXCEPT !.pc = "open", !.stream = s] \in HandlerStates
    BY <2>1 DEF HandlerStates
  <2> QED  BY <1>1, <2>1, <2>2 DEF TypeInv, TypeOK, HandlerStates
<1>4. /\ hub' \in Hubs /\ \A u \in Turns : Len(hub'.early[u]) <= MaxEarly
      /\ hub'.streams[t] = s /\ \A u \in Turns \ {t} : hub'.streams[u] = hub.streams[u]
  <2>1. <<>> \in Seq(Message) /\ Len(<<>>) <= MaxEarly /\ s \in 0 .. MaxStreams
    BY Numbers DEF Streams
  <2> QED  BY <1>1, <1>2, <2>1 DEF Entered, TypeInv, TypeOK, Hubs
<1>5. /\ stream' \in [Streams -> StreamStates] /\ stream'[s].turn = t
      /\ \A r \in Streams : stream'[r].items = stream[r].items
      /\ \A r \in Streams \ {s} : stream'[r] = stream[r]
  BY <1>1, <1>2 DEF TypeInv, TypeOK, StreamStates
<1>6. /\ todo' \in [Dispatchers -> Seq(Steps)] /\ \A d \in Dispatchers \ {h} : todo'[d] = todo[d]
      /\ \A i \in DOMAIN todo'[h] : todo'[h][i].op # "dispatch" =>
           todo'[h][i].stream = s /\ todo'[h][i].item.turn = t
  <2> DEFINE steps == Dispatches(hub.early[t]) \o Decide(h, s)
  <2>1. /\ steps \in Seq(Steps)
        /\ \A i \in DOMAIN steps : steps[i].op # "dispatch" => steps[i].stream = s /\ steps[i].item.turn = t
    <3>1. /\ steps \in Seq(Steps) /\ DOMAIN steps = 1 .. Len(steps) /\ Len(steps) \in Nat
          /\ Len(hub.early[t]) \in Nat
          /\ \A i \in 1 .. Len(hub.early[t]) : steps[i] = Step("dispatch", 0, hub.early[t][i])
          /\ \A i \in DOMAIN steps : i > Len(hub.early[t]) =>
               /\ steps[i].stream = s
               /\ steps[i].item = [kind |-> "resolved", turn |-> handler[h].turn, n |-> 0]
      <4>1. Replays(steps, hub.early[t], h, s)
        BY <1>2, ReplaySteps
      <4> HIDE DEF steps
      <4> QED  BY <4>1 DEF Replays
    <3> HIDE DEF steps
    <3>2. ASSUME NEW i \in DOMAIN steps, steps[i].op # "dispatch"
          PROVE  steps[i].stream = s /\ steps[i].item.turn = t
      <4>1. CASE i \in 1 .. Len(hub.early[t])
        <5>1. steps[i] = Step("dispatch", 0, hub.early[t][i])
          BY <3>1, <4>1
        <5>2. Step("dispatch", 0, hub.early[t][i]).op = "dispatch"
          BY DEF Step
        <5> QED  BY <3>2, <5>1, <5>2
      <4>2. CASE i > Len(hub.early[t])
        BY <3>1, <4>2
      <4> QED  BY <3>1, <4>1, <4>2
    <3> QED  BY <3>1, <3>2
  <2> HIDE DEF steps
  <2>2. todo' = [todo EXCEPT ![h] = steps] /\ h \in Dispatchers
    BY <1>1, Numbers DEF steps
  <2> QED  BY <2>1, <2>2 DEF TypeInv, TypeOK
<1>7. /\ ~Calls(h)' /\ Opened(h)' /\ handler'[h].call <= issued
      /\ UNCHANGED <<issued, result, line, server>> /\ ClientTypeOK'
  BY <1>2, <1>3 DEF Calls, Opened, transport, client, wire, TypeInv, TypeOK, ClientTypeOK
<1>8. CallsFit' /\ \A g \in Handlers : handler'[g].call <= issued'
  BY <1>3, <1>7, CallsFrame
<1>9. HandlersFit'
  <2>1. \A g \in Handlers : Opened(g) => handler[g].stream \in Streams \ {s}
    BY <1>2, Numbers DEF TypeInv, HandlersFit
  <2>2. \A g \in Handlers \ {h} : todo'[g] = todo[g] /\ (Opened(g)' <=> Opened(g))
    BY <1>3, <1>6, Numbers DEF Opened
  <2> QED  BY <1>2, <1>3, <1>5, <1>7, <2>1, <2>2 DEF TypeInv, HandlersFit
<1>10. StreamsFit'
  <2>1. \A u \in Turns \ {t} : hub.streams[u] # 0 =>
          hub.streams[u] \in Streams \ {s} /\ stream[hub.streams[u]].turn = u
    <3>1. \A u \in Turns : hub.streams[u] \in 0 .. MaxStreams
      BY DEF TypeInv, TypeOK, Hubs
    <3> QED  BY <1>2, <3>1, Numbers DEF Streams, TypeInv, StreamsFit
  <2>2. \A d \in Dispatchers \ {h} : \A i \in DOMAIN todo[d] : todo[d][i].op # "dispatch" =>
          /\ todo[d][i].stream \in Streams \ {s}
          /\ stream[todo[d][i].stream].turn = todo[d][i].item.turn
    BY <1>2, StepType, Numbers
  <2>3. \A u \in Turns : hub'.streams[u] # 0 => stream'[hub'.streams[u]].turn = u
    BY <1>4, <1>5, <2>1
  <2>4. \A d \in Dispatchers : \A i \in DOMAIN todo'[d] : todo'[d][i].op # "dispatch" =>
          stream'[todo'[d][i].stream].turn = todo'[d][i].item.turn
    BY <1>5, <1>6, <2>2
  <2> QED  BY <2>3, <2>4 DEF StreamsFit
<1> QED
  BY <1>2, <1>3, <1>4, <1>5, <1>6, <1>7, <1>8, <1>9, <1>10 DEF TypeInv, TypeOK

\* The decision reaches the server, or its handler fails: it takes its stream out and ends it.
LEMMA ReplyType ==
  ASSUME TypeInv, NEW h \in Handlers, Reply(h)
  PROVE  TypeInv'
<1> DEFINE m == Current(h).item
           s == Current(h).stream
<1>1. /\ todo[h] # <<>> /\ m \in Item /\ s \in Streams /\ h \in Dispatchers
      /\ stream[s].turn = m.turn /\ UNCHANGED <<client, wire, hub, stream, known>>
  BY CurrentType, Numbers DEF Reply
<1>2. handler[h].pc \in {"open", "failed"} /\ handler[h].turn \in Turns /\ Opened(h)
  BY <1>1 DEF TypeInv, HandlersFit, Opened
<1>3. UNCHANGED <<phase, issued, pending, result, line, notifications, requests>>
  BY <1>1 DEF client, wire
<1>4. CASE CanWrite
  <2>1. Decline(handler[h].turn) /\ Proceed(h, <<>>) /\ UNCHANGED handler
    BY <1>4 DEF Reply
  <2>2. /\ server' \in [calls : [CallIds -> {"none", "resume", "start", "other"} \cup Turns],
                        turns : [Turns -> {"new", "running", "waiting", "over"}],
                        sent : [Turns -> 0 .. MaxMessages]]
        /\ server'.calls = server.calls
    BY <1>2, <2>1 DEF Decline, TypeInv, TypeOK, ClientTypeOK
  <2>3. ClientTypeOK'
    BY <1>3, <2>2 DEF TypeInv, TypeOK, ClientTypeOK
  <2>4. CallsFit'
    BY <1>3, <2>1, <2>2 DEF TypeInv, CallsFit, Calls, IsAnswer
  <2>5. HandlersFit' /\ StreamsFit' /\ todo' \in [Dispatchers -> Seq(Steps)]
    BY <1>1, <2>1, ProceedOn
  <2> QED  BY <1>1, <1>3, <2>1, <2>3, <2>4, <2>5 DEF TypeInv, TypeOK
<1>5. CASE ~CanWrite
  <2>1. /\ Proceed(h, <<Step("detach", s, m), Step("end", s, m)>>)
        /\ Goto(h, "failed") /\ UNCHANGED server
    BY <1>5 DEF Reply
  <2>2. Step("detach", s, m) \in Steps /\ Step("end", s, m) \in Steps
    BY <1>1 DEF Step, Steps
  <2> DEFINE steps == <<Step("detach", s, m), Step("end", s, m)>>
  <2>3. /\ steps \in Seq(Steps)
        /\ \A i \in 1 .. Len(steps) : steps[i].stream = s /\ steps[i].item = m
    BY <2>2, FewSteps DEF Step
  <2>4. /\ handler' \in [Handlers -> HandlerStates]
        /\ \A g \in Handlers \ {h} : handler'[g] = handler[g]
        /\ handler'[h].pc = "failed"
        /\ UNCHANGED <<handler[h].turn, handler[h].stream, handler[h].call>>
    BY <2>1, GotoType
  <2>5. ~Calls(h)' /\ handler'[h].call <= issued
    BY <2>4 DEF Calls, TypeInv, TypeOK
  <2>6. CallsFit' /\ \A g \in Handlers : handler'[g].call <= issued'
    BY <1>3, <2>1, <2>4, <2>5, CallsFrame
  <2>7. HandlersFit' /\ StreamsFit' /\ todo' \in [Dispatchers -> Seq(Steps)]
    <3> HIDE DEF m, s, steps
    <3>1. Proceed(h, steps)
      BY <2>1 DEF steps
    <3> QED  BY <1>1, <1>2, <2>3, <2>4, <3>1, ProceedFits
  <2> QED  BY <1>1, <1>3, <2>1, <2>4, <2>6, <2>7 DEF TypeInv, TypeOK, ClientTypeOK
<1> QED  BY <1>4, <1>5

\* A handler takes its stream, and no other, out of the table of the hub.
LEMMA DetachedType ==
  ASSUME TypeInv, NEW s \in Streams, stream[s].turn \in Turns, hub' = Detached(s)
  PROVE  /\ hub' \in Hubs /\ hub'.early = hub.early
         /\ \A t \in Turns : hub'.streams[t] = IF hub.streams[t] = s THEN 0 ELSE hub.streams[t]
<1> DEFINE t == stream[s].turn
<1>1. hub \in Hubs /\ 0 \in 0 .. MaxStreams
  BY Numbers DEF TypeInv, TypeOK
<1>2. \A u \in Turns : hub.streams[u] = s => u = t
  BY Numbers DEF TypeInv, StreamsFit, Streams
<1>3. CASE hub.streams[t] = s
  <2>1. hub' = [hub EXCEPT !.streams[t] = 0, !.detached = @ \cup {t}]
    BY <1>3 DEF Detached
  <2> HIDE DEF t
  <2>2. t \in Turns
    BY DEF t
  <2>3. hub' \in Hubs /\ hub'.early = hub.early
    BY <1>1, <2>1, <2>2 DEF Hubs
  <2>4. \A u \in Turns : hub'.streams[u] = IF u = t THEN 0 ELSE hub.streams[u]
    BY <1>1, <2>1, <2>2 DEF Hubs
  <2> QED  BY <1>2, <1>3, <2>3, <2>4
<1>4. CASE hub.streams[t] # s
  BY <1>1, <1>2, <1>4 DEF Detached
<1> QED  BY <1>3, <1>4

\* A reader that goes on to its next step, or leaves its stream.
LEMMA ReaderFrame ==
  ASSUME TypeInv, NEW h \in Handlers, Opened(h), todo[h] = <<>>,
         Finish(h) \/ \E pc \in {"close", "detached"} : Goto(h, pc),
         UNCHANGED <<transport, todo>>, hub' \in Hubs, hub'.early = hub.early,
         \A t \in Turns : hub'.streams[t] \in {0, hub.streams[t]},
         stream' \in [Streams -> StreamStates],
         \A s \in Streams : Len(stream'[s].items) <= Capacity /\ stream'[s].turn = stream[s].turn,
         known' \in SUBSET Message
  PROVE  TypeInv'
<1>1. /\ handler' \in [Handlers -> HandlerStates]
      /\ \A g \in Handlers \ {h} : handler'[g] = handler[g]
      /\ handler'[h].call <= issued /\ ~Calls(h)'
      /\ \/ ~Opened(h)' /\ handler'[h].stream = 0 /\ handler'[h].pc = "idle"
         \/ /\ Opened(h)' /\ UNCHANGED <<handler[h].turn, handler[h].stream>>
  <2>1. CASE Finish(h)
    BY <2>1, FinishType
  <2>2. ASSUME NEW pc \in {"close", "detached"}, Goto(h, pc)
        PROVE  /\ handler' \in [Handlers -> HandlerStates]
               /\ \A g \in Handlers \ {h} : handler'[g] = handler[g]
               /\ handler'[h].call <= issued /\ ~Calls(h)' /\ Opened(h)'
               /\ UNCHANGED <<handler[h].turn, handler[h].stream>>
    BY <2>2, GotoType DEF Calls, Opened, TypeInv, TypeOK
  <2> QED  BY <2>1, <2>2
<1>2. ClientTypeOK' /\ UNCHANGED <<issued, result, line, server>>
  BY DEF transport, client, wire, TypeInv, TypeOK, ClientTypeOK
<1>3. CallsFit' /\ \A g \in Handlers : handler'[g].call <= issued'
  BY <1>1, <1>2, CallsFrame
<1>4. HandlersFit'
  <2>1. \A g \in Handlers \ {h} : Opened(g)' <=> Opened(g)
    BY <1>1 DEF Opened
  <2>2. \A g \in Handlers : Opened(g) => handler[g].stream \in Streams
    BY DEF TypeInv, HandlersFit
  <2> QED  BY <1>1, <2>1, <2>2 DEF TypeInv, HandlersFit
<1>5. StreamsFit'
  <2>1. \A t \in Turns : hub.streams[t] # 0 => hub.streams[t] \in Streams
    <3>1. \A t \in Turns : hub.streams[t] \in 0 .. MaxStreams
      BY DEF TypeInv, TypeOK, Hubs
    <3> QED  BY <3>1, Numbers DEF Streams
  <2>2. \A d \in Dispatchers : \A i \in DOMAIN todo[d] :
          todo[d][i].op # "dispatch" => todo[d][i].stream \in Streams
    BY StepType
  <2> QED  BY <2>1, <2>2 DEF TypeInv, StreamsFit
<1> QED  BY <1>1, <1>2, <1>3, <1>4, <1>5 DEF TypeInv, TypeOK

\* The steps of a handler that has its stream, after its replay.
LEMMA ReadingType ==
  ASSUME TypeInv, NEW h \in Handlers,
         DetachFailed(h) \/ Fails(h) \/ Read(h) \/ Leave(h) \/ DetachClosed(h) \/ CloseLocal(h)
  PROVE  TypeInv'
<1> DEFINE s == handler[h].stream
<1>1. Opened(h) => s \in Streams /\ stream[s].turn = handler[h].turn /\ handler[h].turn \in Turns
  BY DEF TypeInv, HandlersFit
<1>2. CASE DetachFailed(h)
  <2>1. /\ todo[h] # <<>> /\ Current(h).stream \in Streams
        /\ stream[Current(h).stream].turn \in Turns
        /\ hub' = Detached(Current(h).stream) /\ Proceed(h, <<>>)
        /\ UNCHANGED <<transport, stream, handler, known>>
    BY <1>2, Numbers, CurrentType DEF DetachFailed
  <2>2. /\ hub' \in Hubs /\ hub'.early = hub.early
        /\ \A t \in Turns : hub'.streams[t] \in {0, hub.streams[t]}
    BY <2>1, DetachedType
  <2>3. HandlersFit' /\ StreamsFit' /\ todo' \in [Dispatchers -> Seq(Steps)]
    BY <2>1, <2>2, Numbers, ProceedOn
  <2>4. ClientTypeOK' /\ CallsFit'
    BY <2>1, HubFrame DEF transport, wire, TypeInv, TypeOK, ClientTypeOK
  <2> QED  BY <2>1, <2>2, <2>3, <2>4 DEF TypeInv, TypeOK, transport, client
<1>3. CASE Fails(h)
  <2>1. Opened(h) /\ todo[h] = <<>> /\ Finish(h) /\ UNCHANGED <<transport, hub, stream, todo, known>>
    BY <1>3 DEF Fails, Opened
  <2> QED  BY <2>1, ReaderFrame DEF TypeInv, TypeOK
<1>4. CASE Leave(h)
  <2>1. /\ Opened(h) /\ todo[h] = <<>> /\ Goto(h, "close")
        /\ UNCHANGED <<transport, hub, stream, todo, known>>
    BY <1>4 DEF Leave, Reads, Opened
  <2> QED  BY <2>1, ReaderFrame DEF TypeInv, TypeOK
<1>5. CASE DetachClosed(h)
  <2>1. /\ Opened(h) /\ todo[h] = <<>> /\ Goto(h, "detached") /\ hub' = Detached(s)
        /\ UNCHANGED <<transport, stream, todo, known>>
    BY <1>5 DEF DetachClosed, Opened, TypeInv, HandlersFit
  <2>2. /\ hub' \in Hubs /\ hub'.early = hub.early
        /\ \A t \in Turns : hub'.streams[t] \in {0, hub.streams[t]}
    BY <1>1, <2>1, DetachedType
  <2> QED  BY <2>1, <2>2, ReaderFrame DEF TypeInv, TypeOK
<1>6. CASE CloseLocal(h)
  <2>1. /\ Opened(h) /\ todo[h] = <<>> /\ Finish(h)
        /\ stream' = [stream EXCEPT ![s].closed = TRUE]
        /\ UNCHANGED <<transport, hub, todo, known>>
    BY <1>6 DEF CloseLocal, Opened, TypeInv, HandlersFit
  <2>2. /\ stream' \in [Streams -> StreamStates]
        /\ \A r \in Streams : Len(stream'[r].items) <= Capacity /\ stream'[r].turn = stream[r].turn
    BY <1>1, <2>1 DEF TypeInv, TypeOK, StreamStates
  <2> QED  BY <2>1, <2>2, ReaderFrame DEF TypeInv, TypeOK
<1>7. CASE Read(h)
  <2> DEFINE item == Head(stream[s].items)
  <2>1. /\ Opened(h) /\ todo[h] = <<>> /\ stream[s].items # <<>>
        /\ stream' = [stream EXCEPT ![s].items = Tail(@)]
        /\ Goto(h, "close") \/ UNCHANGED handler
        /\ known' = IF item.kind = "ask" THEN known \cup {item} ELSE known
        /\ UNCHANGED <<transport, hub, todo>>
    BY <1>7 DEF Read, Reads, Opened
  <2>2. /\ stream[s] \in StreamStates /\ stream[s].items \in Seq(Item)
        /\ Len(stream[s].items) <= Capacity /\ Len(stream[s].items) \in Nat
    BY <1>1, <2>1, LenProperties DEF TypeInv, TypeOK, StreamStates
  <2>3. /\ item \in Item /\ Tail(stream[s].items) \in Seq(Item)
        /\ Len(Tail(stream[s].items)) = Len(stream[s].items) - 1
    BY <2>1, <2>2, QueueShrinks
  <2>4. /\ stream' \in [Streams -> StreamStates]
        /\ \A r \in Streams : Len(stream'[r].items) <= Capacity /\ stream'[r].turn = stream[r].turn
    <3>1. Len(Tail(stream[s].items)) <= Capacity
      BY <2>2, <2>3, Numbers
    <3> QED  BY <1>1, <2>1, <2>2, <2>3, <3>1 DEF TypeInv, TypeOK, StreamStates
  <2>5. known' \in SUBSET Message
    <3>1. item.kind = "ask" => item \in Message
      BY <2>3 DEF Item
    <3> QED  BY <2>1, <3>1 DEF TypeInv, TypeOK
  <2>6. CASE Goto(h, "close")
    BY <2>1, <2>4, <2>5, <2>6, ReaderFrame DEF TypeInv, TypeOK
  <2>7. CASE UNCHANGED handler
    <3>1. ClientTypeOK' /\ CallsFit'
      BY <2>1, <2>7, HubFrame DEF transport, wire, TypeInv, TypeOK, ClientTypeOK
    <3>2. HandlersFit' /\ StreamsFit'
      BY <2>1, <2>4, <2>7, StepType DEF TypeInv, TypeOK, HandlersFit, StreamsFit, Opened
    <3> QED  BY <2>1, <2>4, <2>5, <2>7, <3>1, <3>2 DEF TypeInv, TypeOK, transport, client
  <2> QED  BY <2>1, <2>6, <2>7
<1> QED  BY <1>2, <1>3, <1>4, <1>5, <1>6, <1>7

-----------------------------------------------------------------------------
(* The loop of the hub keeps the types.                                    *)

\* The hub begins new work once it has none.
LEMMA HubWork ==
  ASSUME TypeInv, NEW steps \in Seq(Steps), todo' = [todo EXCEPT ![Hub] = steps],
         UNCHANGED <<stream, handler>>,
         \A t \in Turns : hub'.streams[t] \in {0, hub.streams[t]},
         \A i \in DOMAIN steps : steps[i].op # "dispatch" =>
           steps[i].stream \in Streams /\ stream[steps[i].stream].turn = steps[i].item.turn
  PROVE  /\ todo' \in [Dispatchers -> Seq(Steps)] /\ todo'[Hub] = steps
         /\ \A d \in Handlers : todo'[d] = todo[d]
         /\ HandlersFit' /\ StreamsFit'
<1>1. /\ todo' \in [Dispatchers -> Seq(Steps)] /\ todo'[Hub] = steps
      /\ \A d \in Dispatchers \ {Hub} : todo'[d] = todo[d]
      /\ \A d \in Handlers : todo'[d] = todo[d]
  BY Numbers DEF TypeInv, TypeOK
<1>2. HandlersFit'
  BY <1>1 DEF TypeInv, HandlersFit, Opened
<1>3. \A d \in Dispatchers : \A i \in DOMAIN todo'[d] : todo'[d][i].op # "dispatch" =>
        stream[todo'[d][i].stream].turn = todo'[d][i].item.turn
  BY <1>1 DEF TypeInv, StreamsFit
<1>4. \A t \in Turns : hub'.streams[t] # 0 => stream[hub'.streams[t]].turn = t
  BY DEF TypeInv, StreamsFit
<1> QED  BY <1>1, <1>2, <1>3, <1>4 DEF StreamsFit

\* What the client holds is taken out one by one.
LEMMA TakeType ==
  ASSUME TypeInv, TakeNotification \/ HandleRequest
  PROVE  TypeInv'
<1>1. PICK m \in Message :
        /\ todo' = [todo EXCEPT ![Hub] = <<Step("dispatch", 0, m)>>]
        /\ hub' \in Hubs /\ hub'.streams = hub.streams /\ hub'.early = hub.early
        /\ notifications' \in Seq(Message) /\ Len(notifications') <= QueueLimit
        /\ requests' \in Seq(Message) /\ Len(requests') <= RequestLimit
        /\ UNCHANGED <<client, line, server, stream, handler, known>>
  <2>1. CASE TakeNotification
    <3>1. /\ notifications \in Seq(Message) /\ notifications # <<>> /\ Len(notifications) <= QueueLimit
          /\ notifications' = Tail(notifications)
          /\ todo' = [todo EXCEPT ![Hub] = <<Step("dispatch", 0, Head(notifications))>>]
          /\ UNCHANGED <<client, line, requests, server, hub, stream, handler, known>>
      BY <2>1 DEF TakeNotification, TypeInv, TypeOK, ClientTypeOK
    <3>2. /\ Head(notifications) \in Message /\ notifications' \in Seq(Message)
          /\ Len(notifications') <= QueueLimit
      BY <3>1, QueueShrinks, Numbers
    <3> QED  BY <3>1, <3>2 DEF TypeInv, TypeOK, ClientTypeOK
  <2>2. CASE HandleRequest
    <3>1. /\ requests \in Seq(Message) /\ requests # <<>> /\ Len(requests) <= RequestLimit
          /\ requests' = Tail(requests)
          /\ hub' = [hub EXCEPT !.approvals = @ \cup {Head(requests)}]
          /\ todo' = [todo EXCEPT ![Hub] = <<Step("dispatch", 0, Head(requests))>>]
          /\ UNCHANGED <<client, line, notifications, server, stream, handler, known>>
      BY <2>2 DEF HandleRequest, TypeInv, TypeOK, ClientTypeOK
    <3>2. /\ Head(requests) \in Message /\ requests' \in Seq(Message)
          /\ Len(requests') <= RequestLimit
      BY <3>1, QueueShrinks, Numbers
    <3>3. hub' \in Hubs /\ hub'.streams = hub.streams /\ hub'.early = hub.early
      BY <3>1, <3>2 DEF TypeInv, TypeOK, Hubs
    <3> QED  BY <3>1, <3>2, <3>3 DEF TypeInv, TypeOK, ClientTypeOK
  <2> QED  BY <2>1, <2>2
<1>2. Step("dispatch", 0, m) \in Steps /\ Step("dispatch", 0, m).op = "dispatch"
  BY DEF Step, Steps
<1> DEFINE steps == <<Step("dispatch", 0, m)>>
<1>3. /\ steps \in Seq(Steps)
      /\ \A i \in DOMAIN steps : steps[i].op = "dispatch"
  BY <1>2, FewSteps
<1> HIDE DEF steps
<1>4. HandlersFit' /\ StreamsFit' /\ todo' \in [Dispatchers -> Seq(Steps)]
  <2>1. todo' = [todo EXCEPT ![Hub] = steps]
    BY <1>1 DEF steps
  <2> QED  BY <1>1, <1>3, <2>1, HubWork
<1>5. ClientTypeOK' /\ CallsFit'
  BY <1>1, HubFrame
<1> QED  BY <1>1, <1>4, <1>5 DEF TypeInv, TypeOK, client

\* Half of what is told each stream comes first, and half of it second.
LEMMA Halves ==
  ASSUME NEW n \in Nat, NEW i \in 1 .. 2 * n
  PROVE  (i + 1) \div 2 \in 1 .. n /\ i % 2 \in {0, 1}
         /\ i % 2 = 1 => i + 1 \in 1 .. 2 * n /\ (i + 1) % 2 = 0 /\ (i + 2) \div 2 = (i + 1) \div 2
<1>1. i \in Nat /\ i >= 1 /\ i <= 2 * n
  OBVIOUS
<1>2. (i + 1) \div 2 \in 1 .. n /\ i % 2 \in {0, 1}
  BY <1>1
<1>3. ASSUME i % 2 = 1
      PROVE  i + 1 \in 1 .. 2 * n /\ (i + 1) % 2 = 0 /\ (i + 2) \div 2 = (i + 1) \div 2
  BY <1>1, <1>3
<1> QED  BY <1>2, <1>3

\* The streams in the table of the hub.
OpenStreams == {hub.streams[t] : t \in Turns} \ {0}

\* Each of them is told that the hub stops, and ended.
LEMMA FarewellSteps ==
  ASSUME TypeInv, NEW order \in Orders(OpenStreams)
  PROVE  /\ Farewells(order) \in Seq(Steps)
         /\ \A i \in DOMAIN Farewells(order) :
              /\ Farewells(order)[i].op \in {"emit", "end"}
              /\ Farewells(order)[i].stream \in OpenStreams
              /\ Farewells(order)[i].item.kind = "stopped"
              /\ Farewells(order)[i].item.turn = stream[Farewells(order)[i].stream].turn
         /\ \A s \in OpenStreams : \E i \in DOMAIN Farewells(order) :
              Farewells(order)[i].op = "end" /\ Farewells(order)[i].stream = s
         /\ OpenStreams \subseteq Streams
<1> DEFINE n == Cardinality(OpenStreams)
           f == Farewells(order)
<1>1. OpenStreams \subseteq Streams /\ \A s \in OpenStreams : stream[s].turn \in Turns
  <2>1. \A t \in Turns : hub.streams[t] \in 0 .. MaxStreams
    BY DEF TypeInv, TypeOK, Hubs
  <2> QED  BY <2>1, Numbers DEF OpenStreams, Streams, TypeInv, StreamsFit
<1>2. n \in Nat
  <2>1. IsFiniteSet(OpenStreams)
    <3>1. IsFiniteSet(1 .. MaxStreams)
      BY Numbers, FS_Interval
    <3> QED  BY <1>1, <3>1, FS_Subset DEF Streams
  <2> QED  BY <2>1, FS_CardinalityType
<1>3. /\ order \in [1 .. n -> OpenStreams] /\ \A s \in OpenStreams : \E k \in 1 .. n : order[k] = s
      /\ Len(order) = n
  <2>1. order \in [1 .. n -> OpenStreams] /\ \A s \in OpenStreams : \E k \in DOMAIN order : order[k] = s
    BY DEF Orders
  <2>2. order \in Seq(OpenStreams)
    BY <1>2, <2>1, SeqDef
  <2> QED  BY <1>2, <2>1, <2>2, LenProperties
<1> HIDE DEF n
<1>4. ASSUME NEW i \in 1 .. 2 * n
      PROVE  /\ f[i] \in Steps /\ f[i].op \in {"emit", "end"}
             /\ i % 2 # 1 => f[i].op = "end"
             /\ f[i].stream = order[(i + 1) \div 2] /\ f[i].stream \in OpenStreams
             /\ f[i].item.kind = "stopped" /\ f[i].item.turn = stream[f[i].stream].turn
  <2> DEFINE s == order[(i + 1) \div 2]
             item == [kind |-> "stopped", turn |-> stream[s].turn, n |-> 0]
  <2>1. (i + 1) \div 2 \in 1 .. n
    BY <1>2, Halves
  <2>2. s \in OpenStreams /\ s \in Streams /\ stream[s].turn \in Turns
    BY <1>1, <1>3, <2>1
  <2>3. f[i] = Step(IF i % 2 = 1 THEN "emit" ELSE "end", s, item)
    BY <1>3 DEF Farewells
  <2>4. item \in Item /\ item.kind = "stopped" /\ item.turn = stream[s].turn
    BY <2>2 DEF Item
  <2> HIDE DEF f, s, item
  <2>5. /\ f[i].op = IF i % 2 = 1 THEN "emit" ELSE "end"
        /\ f[i].stream = s /\ f[i].item = item
    BY <2>3 DEF Step
  <2>6. f[i] \in Steps
    BY <2>2, <2>3, <2>4 DEF Step, Steps
  <2> QED  BY <2>2, <2>4, <2>5, <2>6 DEF s
<1>5. f \in Seq(Steps) /\ DOMAIN f = 1 .. 2 * n
  <2>1. DOMAIN f = 1 .. 2 * n /\ f = [i \in 1 .. 2 * n |-> f[i]]
    BY <1>3 DEF Farewells
  <2> HIDE DEF f
  <2>2. f \in [1 .. 2 * n -> Steps] /\ 2 * n \in Nat
    BY <1>2, <1>4, <2>1
  <2> QED  BY <2>1, <2>2, SeqDef
<1>6. ASSUME NEW s \in OpenStreams
      PROVE  \E i \in DOMAIN f : f[i].op = "end" /\ f[i].stream = s
  <2>1. PICK k \in 1 .. n : order[k] = s
    BY <1>3
  <2>2. k \in Nat /\ k >= 1 /\ k <= n
    BY <1>2
  <2>3. 2 * k \in 1 .. 2 * n /\ (2 * k) % 2 # 1 /\ (2 * k + 1) \div 2 = k
    BY <1>2, <2>2
  <2> HIDE DEF f
  <2>4. f[2 * k].op = "end" /\ f[2 * k].stream = s
    BY <1>4, <2>1, <2>3
  <2> QED  BY <1>5, <2>3, <2>4
<1> HIDE DEF f
<1>7. \A i \in DOMAIN f : /\ f[i].op \in {"emit", "end"} /\ f[i].stream \in OpenStreams
                         /\ f[i].item.kind = "stopped" /\ f[i].item.turn = stream[f[i].stream].turn
  BY <1>4, <1>5
<1> QED  BY <1>1, <1>5, <1>6, <1>7 DEF f

\* When the hub stops, it holds no stream any more and has them all to end.
LEMMA StopAllType ==
  ASSUME TypeInv, StopAll
  PROVE  TypeInv'
<1>1. PICK order \in Orders(OpenStreams) : todo' = [todo EXCEPT ![Hub] = Farewells(order)]
  BY DEF StopAll, OpenStreams
<1>2. /\ hub' = [hub EXCEPT !.streams = [t \in Turns |-> 0], !.early = [t \in Turns |-> <<>>],
                            !.approvals = {}, !.running = FALSE]
      /\ UNCHANGED <<transport, stream, handler, known>>
  BY DEF StopAll
<1>3. /\ hub' \in Hubs /\ \A t \in Turns : Len(hub'.early[t]) <= MaxEarly /\ hub'.streams[t] = 0
  <2>1. <<>> \in Seq(Message) /\ Len(<<>>) <= MaxEarly /\ 0 \in 0 .. MaxStreams
    BY Numbers
  <2>2. [t \in Turns |-> 0] \in [Turns -> 0 .. MaxStreams] /\ [t \in Turns |-> <<>>] \in [Turns -> Seq(Message)]
    BY <2>1
  <2> QED  BY <1>2, <2>1, <2>2 DEF TypeInv, TypeOK, Hubs
<1> DEFINE steps == Farewells(order)
<1>4. /\ steps \in Seq(Steps)
      /\ \A i \in DOMAIN steps :
           steps[i].stream \in Streams /\ stream[steps[i].stream].turn = steps[i].item.turn
  BY FarewellSteps
<1> HIDE DEF steps
<1>5. HandlersFit' /\ StreamsFit' /\ todo' \in [Dispatchers -> Seq(Steps)]
  <2>1. todo' = [todo EXCEPT ![Hub] = steps]
    BY <1>1 DEF steps
  <2> QED  BY <1>2, <1>3, <1>4, <2>1, HubWork
<1>6. ClientTypeOK' /\ CallsFit'
  BY <1>2, HubFrame DEF transport, wire, TypeInv, TypeOK, ClientTypeOK
<1> QED  BY <1>2, <1>3, <1>5, <1>6 DEF TypeInv, TypeOK, transport, client

-----------------------------------------------------------------------------
(* The types hold.                                                         *)

LEMMA TypeInit == Init => TypeInv
<1> SUFFICES ASSUME Init PROVE TypeInv
  OBVIOUS
<1>1. /\ \A t \in Turns : <<>> \in Seq(Message) /\ Len(<<>>) <= MaxEarly
      /\ <<>> \in Seq(Steps) /\ <<>> \in Seq(Item) /\ Len(<<>>) <= Capacity
      /\ 0 \in 0 .. MaxCalls /\ 0 \in 0 .. MaxStreams /\ 0 \in 0 .. MaxMessages
      /\ 1 .. 0 = {} /\ DOMAIN <<>> = {} /\ Len(<<>>) <= QueueLimit /\ Len(<<>>) <= RequestLimit
  BY Numbers DEF Capacity
<1>2. ClientTypeOK
  <2>1. NoAnswer \in [kind : {"none", "answer", "error"}, turn : Turns \cup {None}]
    BY DEF NoAnswer
  <2>2. /\ phase = "open" /\ issued = 0 /\ pending = {}
        /\ result = [id \in CallIds |-> NoAnswer]
        /\ line = None /\ notifications = <<>> /\ requests = <<>>
        /\ server = [calls |-> [id \in CallIds |-> "none"],
                     turns |-> [t \in Turns |-> "new"], sent |-> [t \in Turns |-> 0]]
    BY DEF Init, ClientInit
  <2>3. server \in [calls : [CallIds -> {"none", "resume", "start", "other"} \cup Turns],
                    turns : [Turns -> {"new", "running", "waiting", "over"}],
                    sent : [Turns -> 0 .. MaxMessages]]
    BY <1>1, <2>2
  <2>4. result \in [CallIds -> [kind : {"none", "answer", "error"}, turn : Turns \cup {None}]]
    BY <2>1, <2>2
  <2>5. notifications \in Seq(Message) /\ requests \in Seq(Message)
    BY <2>2
  <2> QED  BY <1>1, <2>2, <2>3, <2>4, <2>5 DEF ClientTypeOK
<1>3. Idle \in HandlerStates /\ Idle.call = 0 /\ Idle.pc = "idle" /\ Idle.stream = 0
  BY <1>1 DEF Idle, Resting, HandlerStates
<1>4. hub \in Hubs /\ \A t \in Turns : Len(hub.early[t]) <= MaxEarly /\ hub.streams[t] = 0
  BY <1>1 DEF Init, Hubs
<1>5. /\ stream \in [Streams -> StreamStates] /\ \A s \in Streams : Len(stream[s].items) <= Capacity
      /\ todo \in [Dispatchers -> Seq(Steps)] /\ \A d \in Dispatchers : todo[d] = <<>>
      /\ handler = [h \in Handlers |-> Idle] /\ known = {}
  BY <1>1 DEF Init, StreamStates
<1>6. TypeOK
  <2>1. issued = 0 /\ 0 <= 0
    BY DEF Init, ClientInit
  <2>2. handler \in [Handlers -> HandlerStates] /\ \A h \in Handlers : handler[h].call <= issued
    BY <1>3, <1>5, <2>1
  <2>3. known \in SUBSET Message
    BY <1>5
  <2> QED  BY <1>2, <1>4, <1>5, <2>2, <2>3 DEF TypeOK
<1>7. CallsFit
  <2>1. \A h \in Handlers : ~Calls(h) /\ handler[h].pc = "idle"
    BY <1>3, <1>5 DEF Calls
  <2>2. \A id \in CallIds : result[id] = NoAnswer /\ server.calls[id] = "none" /\ ~IsAnswer
    BY DEF Init, ClientInit, IsAnswer
  <2> QED  BY <2>1, <2>2 DEF CallsFit
<1>8. HandlersFit /\ StreamsFit
  BY <1>1, <1>3, <1>4, <1>5, Numbers DEF HandlersFit, StreamsFit, Opened
<1> QED  BY <1>6, <1>7, <1>8 DEF TypeInv

LEMMA TypeStep == TypeInv /\ [Next]_vars => TypeInv'
<1> SUFFICES ASSUME TypeInv, [Next]_vars PROVE TypeInv'
  OBVIOUS
<1>1. CASE Transport
  BY <1>1, ReadLoopType, CloseType, AppServerType DEF Transport
<1>2. ASSUME NEW h \in Handlers, Handle(h) PROVE TypeInv'
  BY <1>2, CallingType, SubscribeType, ReplyType, ReadingType DEF Handle
<1>3. ASSUME NEW d \in Dispatchers, Dispatch(d) \/ Emit(d) \/ RemoveStream(d) \/ EndStream(d)
      PROVE  TypeInv'
  BY <1>3, DispatchType, WorkType
<1>4. CASE TakeNotification \/ HandleRequest \/ StopAll
  BY <1>4, TakeType, StopAllType
<1>5. CASE UNCHANGED vars
  <2>1. UNCHANGED <<hub, stream, todo, handler, known>> /\ UNCHANGED <<client, line, notifications, requests, server>>
    BY <1>5 DEF vars, transport, wire
  <2>2. ClientTypeOK' /\ CallsFit' /\ issued' = issued
    BY <2>1, HubFrame DEF client, TypeInv, TypeOK, ClientTypeOK
  <2> QED  BY <2>1, <2>2, TransportFrame
<1> QED  BY <1>1, <1>2, <1>3, <1>4, <1>5 DEF Next

\* Every table, channel and goroutine is of its kind, and no channel holds more than it can: a
\* call has room for its answer, a stream for what is written to it, the table of the hub keeps
\* no more notifications of a turn than it may, and a handler is only where its call, its turn
\* and its stream are known.
THEOREM EventsTypeCorrect == Spec => []TypeOK
<1>1. TypeInv => TypeOK
  BY DEF TypeInv
<1> QED  BY <1>1, TypeInit, TypeStep, PTL DEF Spec

-----------------------------------------------------------------------------
(* Streams and readers: the steps of a dispatcher.                         *)

\* Steps that are put in the place of one that is taken keep the order, and only the end that is
\* taken is not ahead any more.
LEMMA ProceedInOrder ==
  ASSUME TypeInv, StepsInOrder, NEW d \in Dispatchers, todo[d] # <<>>, NEW steps \in Seq(Steps),
         Proceed(d, steps), handler' = handler,
         \A i \in 1 .. Len(steps) :
           /\ steps[i].op \notin {"reply", "detach"}
           /\ steps[i].op = "remove" =>
                /\ i + 1 \in 1 .. Len(steps)
                /\ steps[i + 1].op = "end" /\ steps[i + 1].stream = steps[i].stream
  PROVE  /\ StepsInOrder'
         /\ \A s : EndAhead(s) => EndAhead(s)' \/ (todo[d][1].op = "end" /\ todo[d][1].stream = s)
         /\ \A h \in Handlers : todo'[h] # <<>> /\ Head(todo'[h]).op = "detach" =>
              h # d /\ AboutToDetach(h)
         /\ \A h \in Handlers : AboutToDetach(h) => h = d \/ AboutToDetach(h)'
<1>1. /\ todo' \in [Dispatchers -> Seq(Steps)]
      /\ \A e \in Dispatchers \ {d} : todo'[e] = todo[e]
      /\ DOMAIN todo'[d] = 1 .. (Len(steps) + Len(todo[d]) - 1)
      /\ \A i \in DOMAIN todo'[d] :
           todo'[d][i] = IF i <= Len(steps) THEN steps[i] ELSE todo[d][i - Len(steps) + 1]
  BY ProceedQueue DEF TypeInv, TypeOK
<1>2. /\ todo[d] \in Seq(Steps) /\ DOMAIN todo[d] = 1 .. Len(todo[d])
      /\ Len(todo[d]) \in Nat \ {0} /\ Len(steps) \in Nat
  BY EmptySeq, LenProperties DEF TypeInv, TypeOK
<1>3. Len(todo'[d]) = Len(steps) + Len(todo[d]) - 1
  BY <1>1, <1>2, LenProperties
<1>4. ASSUME NEW i \in DOMAIN todo'[d], i > Len(steps)
      PROVE  /\ i - Len(steps) + 1 \in DOMAIN todo[d] /\ i - Len(steps) + 1 > 1
             /\ todo'[d][i] = todo[d][i - Len(steps) + 1]
  BY <1>1, <1>2, <1>4
<1>5. ASSUME NEW i \in DOMAIN todo[d], i # 1
      PROVE  i + Len(steps) - 1 \in DOMAIN todo'[d] /\ todo'[d][i + Len(steps) - 1] = todo[d][i]
  <2>1. i + Len(steps) - 1 \in DOMAIN todo'[d] /\ ~(i + Len(steps) - 1 <= Len(steps))
    BY <1>1, <1>2, <1>5
  <2>2. (i + Len(steps) - 1) - Len(steps) + 1 = i
    BY <1>2, <1>5
  <2> QED  BY <1>1, <2>1, <2>2
<1>6. ASSUME NEW i \in DOMAIN todo'[d]
      PROVE  /\ todo'[d][i].op = "remove" =>
                  /\ i + 1 \in DOMAIN todo'[d]
                  /\ todo'[d][i + 1].op = "end" /\ todo'[d][i + 1].stream = todo'[d][i].stream
             /\ todo'[d][i].op = "reply" =>
                  /\ d \in Handlers /\ handler[d].pc = "open" /\ i = Len(todo'[d])
                  /\ todo'[d][i].stream = handler[d].stream
             /\ todo'[d][i].op # "detach"
  <2>1. CASE i <= Len(steps)
    <3>1. i \in 1 .. Len(steps) /\ todo'[d][i] = steps[i]
      BY <1>1, <1>2, <2>1
    <3>2. steps[i].op \notin {"reply", "detach"}
      BY <3>1
    <3>3. ASSUME steps[i].op = "remove"
          PROVE  /\ i + 1 \in DOMAIN todo'[d]
                 /\ todo'[d][i + 1].op = "end" /\ todo'[d][i + 1].stream = todo'[d][i].stream
      <4>1. /\ i + 1 \in 1 .. Len(steps)
            /\ steps[i + 1].op = "end" /\ steps[i + 1].stream = steps[i].stream
        BY <3>1, <3>3
      <4>2. i + 1 \in DOMAIN todo'[d] /\ todo'[d][i + 1] = steps[i + 1]
        BY <1>1, <1>2, <4>1
      <4> QED  BY <3>1, <4>1, <4>2
    <3> QED  BY <3>1, <3>2, <3>3
  <2>2. CASE ~(i <= Len(steps))
    <3> DEFINE j == i - Len(steps) + 1
    <3>1. j \in DOMAIN todo[d] /\ j > 1 /\ j \in Nat /\ todo'[d][i] = todo[d][j]
      BY <1>1, <1>2, <1>4, <2>2
    <3>2. todo[d][j].op # "detach"
      BY <3>1 DEF StepsInOrder
    <3>3. ASSUME todo[d][j].op = "reply"
          PROVE  /\ d \in Handlers /\ handler[d].pc = "open" /\ i = Len(todo'[d])
                 /\ todo[d][j].stream = handler[d].stream
      <4>1. /\ d \in Handlers /\ handler[d].pc = "open" /\ j = Len(todo[d])
            /\ todo[d][j].stream = handler[d].stream
        BY <3>1, <3>3 DEF StepsInOrder
      <4>2. i \in Nat
        BY <1>1
      <4> QED  BY <1>2, <1>3, <4>1, <4>2
    <3>4. ASSUME todo[d][j].op = "remove"
          PROVE  /\ i + 1 \in DOMAIN todo'[d]
                 /\ todo'[d][i + 1].op = "end" /\ todo'[d][i + 1].stream = todo[d][j].stream
      <4>1. j + 1 \in DOMAIN todo[d] /\ todo[d][j + 1].op = "end"
            /\ todo[d][j + 1].stream = todo[d][j].stream
        BY <3>1, <3>4 DEF StepsInOrder
      <4>2. /\ (j + 1) + Len(steps) - 1 \in DOMAIN todo'[d] /\ i \in Nat
            /\ todo'[d][(j + 1) + Len(steps) - 1] = todo[d][j + 1]
        <5>1. j + 1 # 1 /\ i \in Nat
          BY <1>1, <3>1
        <5> QED  BY <1>5, <4>1, <5>1
      <4>3. (j + 1) + Len(steps) - 1 = i + 1
        BY <1>2, <4>2
      <4> QED  BY <4>1, <4>2, <4>3
    <3> HIDE DEF j
    <3> QED  BY <3>1, <3>2, <3>3, <3>4
  <2> QED  BY <2>1, <2>2
<1>7. StepsInOrder'
  <2> SUFFICES ASSUME NEW e \in Dispatchers, NEW i \in DOMAIN todo'[e]
               PROVE  /\ todo'[e][i].op = "remove" =>
                           /\ i + 1 \in DOMAIN todo'[e]
                           /\ todo'[e][i + 1].op = "end" /\ todo'[e][i + 1].stream = todo'[e][i].stream
                      /\ todo'[e][i].op = "reply" =>
                           /\ e \in Handlers /\ handler'[e].pc = "open" /\ i = Len(todo'[e])
                           /\ todo'[e][i].stream = handler'[e].stream
                      /\ todo'[e][i].op = "detach" =>
                           /\ e \in Handlers /\ handler'[e].pc = "failed" /\ i = 1
                           /\ todo'[e][i].stream = handler'[e].stream
    BY DEF StepsInOrder
  <2>1. CASE e = d
    BY <1>6, <2>1
  <2>2. CASE e # d
    BY <1>1, <2>2 DEF StepsInOrder
  <2> QED  BY <2>1, <2>2
<1>8. ASSUME NEW s, EndAhead(s)
      PROVE  EndAhead(s)' \/ (todo[d][1].op = "end" /\ todo[d][1].stream = s)
  <2> PICK e \in Dispatchers :
        \E i \in DOMAIN todo[e] : todo[e][i].op = "end" /\ todo[e][i].stream = s
    BY <1>8 DEF EndAhead
  <2>1. PICK i \in DOMAIN todo[e] : todo[e][i].op = "end" /\ todo[e][i].stream = s
    OBVIOUS
  <2>2. CASE e # d
    <3>1. i \in DOMAIN todo'[e] /\ todo'[e][i] = todo[e][i]
      BY <1>1, <2>2
    <3> QED  BY <2>1, <3>1 DEF EndAhead
  <2>3. CASE e = d /\ i # 1
    <3>1. i + Len(steps) - 1 \in DOMAIN todo'[d] /\ todo'[d][i + Len(steps) - 1] = todo[d][i]
      BY <1>5, <2>3
    <3> QED  BY <2>1, <2>3, <3>1 DEF EndAhead
  <2> QED  BY <2>1, <2>2, <2>3
<1>9. ASSUME NEW h \in Handlers, todo'[h] # <<>>, Head(todo'[h]).op = "detach"
      PROVE  h # d /\ AboutToDetach(h)
  <2>1. todo'[h] \in Seq(Steps) /\ 1 \in DOMAIN todo'[h] /\ Head(todo'[h]) = todo'[h][1]
    BY <1>1, <1>9, Numbers, QueueShrinks
  <2>2. h # d
    BY <1>6, <1>9, <2>1
  <2> QED  BY <1>1, <1>9, <2>2, Numbers DEF AboutToDetach
<1>10. \A h \in Handlers : AboutToDetach(h) => h = d \/ AboutToDetach(h)'
  BY <1>1, Numbers DEF AboutToDetach
<1> QED  BY <1>7, <1>8, <1>9, <1>10

\* What dispatchers do leaves the streams to the handlers that hold them, if the streams that
\* leave the table of the hub are going to be ended.
LEMMA DispatchersHeld ==
  ASSUME HeldInv, TypeInv', StepsInOrder', handler' = handler,
         \A h \in Handlers : AboutToDetach(h)' \/ ~AboutToDetach(h),
         \A t \in Turns : hub'.streams[t] \in {0, hub.streams[t]},
         \A s \in Streams : stream'[s].turn = stream[s].turn,
         \A s \in Streams : stream[s].turn \in Turns /\ IsServed(s) => IsServed(s)'
  PROVE  HeldInv'
<1>1. \A h \in Handlers : HasDetached(h)' => HasDetached(h)
  BY DEF HasDetached, AboutToDetach
<1>2. \A h \in Handlers : Opened(h)' <=> Opened(h)
  BY DEF Opened
<1>3. StreamsHaveReaders'
  BY DEF HeldInv, StreamsHaveReaders
<1>4. \A h \in Handlers : HasDetached(h) => handler[h].stream # 0
  BY Numbers DEF HasDetached, Opened, HeldInv, TypeInv, HandlersFit, Streams
<1>5. \A h \in Handlers : HasDetached(h)' => \A t \in Turns : hub'.streams[t] # handler'[h].stream
  BY <1>1, <1>4 DEF HeldInv, StreamsHeld
<1>6. \A h \in Handlers : (handler[h].pc = "open" => IsServed(handler[h].stream))'
  <2> SUFFICES ASSUME NEW h \in Handlers, handler[h].pc = "open" PROVE IsServed(handler[h].stream)'
    OBVIOUS
  <2> DEFINE s == handler[h].stream
  <2>1. IsServed(s) /\ s \in Streams /\ stream[s].turn \in Turns
    BY DEF HeldInv, StreamsHeld, TypeInv, HandlersFit, Opened
  <2>2. PICK r \in Streams : r = s
    BY <2>1
  <2>3. IsServed(r)'
    BY <2>1, <2>2
  <2> QED  BY <2>2, <2>3 DEF IsServed, EndAhead
<1>7. \A g, h \in Handlers : Opened(g)' /\ Opened(h)' /\ handler'[g].stream = handler'[h].stream => g = h
  BY <1>2 DEF HeldInv, StreamsHeld
<1>8. StreamsHeld'
  BY <1>5, <1>6, <1>7 DEF StreamsHeld
<1> QED  BY <1>3, <1>8 DEF HeldInv

\* Dispatch, emit, remove and end: what is removed is ended next.
LEMMA WorkHeld ==
  ASSUME HeldInv, NEW d \in Dispatchers,
         Dispatch(d) \/ Emit(d) \/ RemoveStream(d) \/ EndStream(d)
  PROVE  HeldInv'
<1> DEFINE m == Current(d).item
           s == Current(d).stream
<1>1. /\ TypeInv /\ StepsInOrder /\ TypeInv' /\ todo[d] # <<>> /\ 1 \in DOMAIN todo[d]
      /\ todo[d] \in Seq(Steps) /\ Current(d) = todo[d][1] /\ m.turn \in Turns
      /\ Current(d).op \in {"dispatch", "emit", "remove", "end"}
      /\ Dispatch(d) \/ (s \in Streams /\ stream[s].turn = m.turn)
      /\ UNCHANGED handler
  <2>1. TypeInv /\ StepsInOrder /\ TypeInv' /\ UNCHANGED handler
    BY DispatchType, WorkType DEF Dispatch, Emit, RemoveStream, EndStream, HeldInv
  <2>2. PICK op \in {"dispatch", "emit", "remove", "end"} :
          Does(d, op) /\ (op = "dispatch" <=> Dispatch(d))
    BY DEF Dispatch, Emit, RemoveStream, EndStream, Does
  <2>3. todo[d] \in Seq(Steps)
    BY <2>1 DEF TypeInv, TypeOK
  <2> QED  BY <2>1, <2>2, <2>3, CurrentType
<1>2. ~(d \in Handlers /\ AboutToDetach(d))
  BY <1>1 DEF AboutToDetach, Current
<1>3. ASSUME NEW steps \in Seq(Steps), Proceed(d, steps),
             steps = <<>> \/ \E r \in Streams : steps = Projected(m, r)
      PROVE  /\ StepsInOrder'
             /\ \A r : EndAhead(r) => EndAhead(r)' \/ (todo[d][1].op = "end" /\ todo[d][1].stream = r)
             /\ \A h \in Handlers : AboutToDetach(h)' \/ ~AboutToDetach(h)
  <2>1. \A i \in 1 .. Len(steps) :
          /\ steps[i].op \notin {"reply", "detach"}
          /\ steps[i].op = "remove" =>
               /\ i + 1 \in 1 .. Len(steps)
               /\ steps[i + 1].op = "end" /\ steps[i + 1].stream = steps[i].stream
    <3>1. CASE steps = <<>>
      BY <3>1, FewSteps
    <3>2. ASSUME NEW r \in Streams, steps = <<Step("emit", r, m)>>
          PROVE  \A i \in 1 .. Len(steps) : steps[i].op = "emit"
      BY <3>2 DEF Step
    <3>3. ASSUME NEW r \in Streams,
                 steps = <<Step("emit", r, m), Step("remove", r, m), Step("end", r, m)>>
          PROVE  /\ Len(steps) = 3 /\ steps[1].op = "emit" /\ steps[2].op = "remove"
                 /\ steps[3].op = "end" /\ steps[2].stream = r /\ steps[3].stream = r
      BY <3>3 DEF Step
    <3>4. ASSUME Len(steps) = 3, NEW i \in 1 .. Len(steps)
          PROVE  i \in {1, 2, 3}
      BY <3>4
    <3> QED  BY <1>3, <3>1, <3>2, <3>3, <3>4 DEF Projected
  <2> QED  BY <1>1, <1>2, <1>3, <2>1, ProceedInOrder
<1>4. CASE Dispatch(d)
  <2>1. PICK steps \in Seq(Steps) :
          Proceed(d, steps) /\ (steps = <<>> \/ \E r \in Streams : steps = Projected(m, r))
    <3>1. CASE Proceed(d, <<>>)
      BY <3>1, FewSteps
    <3>2. CASE /\ hub.streams[m.turn] # 0 /\ Proceed(d, Projected(m, hub.streams[m.turn]))
      <4>1. hub.streams[m.turn] \in Streams /\ m \in Item
        BY <1>1, <1>4, <3>2, Numbers, CurrentType, MessageIsItem
           DEF TypeInv, TypeOK, Hubs, Streams, Dispatch
      <4>2. \A r \in Streams : /\ Step("emit", r, m) \in Steps /\ Step("remove", r, m) \in Steps
                               /\ Step("end", r, m) \in Steps
        BY <4>1 DEF Step, Steps
      <4>3. Projected(m, hub.streams[m.turn]) \in Seq(Steps)
        BY <4>1, <4>2, FewSteps DEF Projected
      <4> QED  BY <3>2, <4>1, <4>3
    <3> QED  BY <1>4, <3>1, <3>2 DEF Dispatch
  <2>2. hub'.streams = hub.streams /\ stream' = stream /\ todo[d][1].op = "dispatch"
    BY <1>1, <1>4 DEF Dispatch, Keep, Does, Current, TypeInv, TypeOK, Hubs
  <2>3. \A r \in Streams : IsServed(r) => IsServed(r)'
    BY <1>3, <2>1, <2>2 DEF IsServed
  <2> QED  BY <1>1, <1>3, <2>1, <2>2, <2>3, DispatchersHeld
<1>5. CASE Emit(d)
  <2>1. /\ Proceed(d, <<>>) /\ <<>> \in Seq(Steps) /\ hub' = hub /\ todo[d][1].op = "emit"
        /\ \A r \in Streams : stream'[r].turn = stream[r].turn /\ stream'[r].ended = stream[r].ended
    <3>1. Proceed(d, <<>>) /\ hub' = hub /\ Offer(s, m) /\ todo[d][1].op = "emit"
      BY <1>1, <1>5 DEF Emit, Does
    <3>2. stream \in [Streams -> StreamStates]
      BY <1>1 DEF TypeInv, TypeOK
    <3> HIDE DEF m, s
    <3> QED  BY <3>1, <3>2, FewSteps DEF Offer, StreamStates
  <2>2. \A r \in Streams : IsServed(r) => IsServed(r)'
    BY <1>3, <2>1 DEF IsServed
  <2> QED  BY <1>1, <1>3, <2>1, <2>2, DispatchersHeld
<1>6. CASE RemoveStream(d)
  <2>1. /\ Proceed(d, <<>>) /\ <<>> \in Seq(Steps) /\ stream' = stream /\ todo[d][1].op = "remove"
        /\ s \in Streams /\ s # 0
        /\ \A t \in Turns : hub'.streams[t] = hub.streams[t] \/ (hub'.streams[t] = 0 /\ hub.streams[t] = s)
    <3>1. /\ Proceed(d, <<>>) /\ stream' = stream /\ todo[d][1].op = "remove" /\ s \in Streams
      <4>1. ~Dispatch(d)
        BY <1>6 DEF RemoveStream, Dispatch, Does
      <4> QED  BY <1>1, <1>6, <4>1 DEF RemoveStream, Does
    <3>2. \A t \in Turns : hub'.streams[t] = IF t = m.turn /\ hub.streams[t] = s THEN 0
                                                                               ELSE hub.streams[t]
      BY <1>1, <1>6 DEF RemoveStream, TypeInv, TypeOK, Hubs
    <3> QED  BY <3>1, <3>2, FewSteps, Numbers DEF Streams
  <2>2. ASSUME NEW r, r = s PROVE EndAhead(r)'
    <3>1. /\ 2 \in DOMAIN todo[d] /\ todo[d][2].op = "end" /\ todo[d][2].stream = s
      BY <1>1, <2>1 DEF StepsInOrder
    <3>2. EndAhead(r)
      BY <2>2, <3>1 DEF EndAhead
    <3> QED  BY <1>3, <2>1, <3>2
  <2>3. ASSUME NEW r \in Streams, stream[r].turn \in Turns, IsServed(r) PROVE IsServed(r)'
    <3>1. CASE r = s
      BY <2>2, <3>1 DEF IsServed
    <3>2. CASE r # s
      BY <1>3, <2>1, <2>3, <3>2 DEF IsServed
    <3> QED  BY <3>1, <3>2
  <2>4. \A t \in Turns : hub'.streams[t] \in {0, hub.streams[t]}
    BY <2>1
  <2>5. \A r \in Streams : stream'[r].turn = stream[r].turn
    BY <2>1
  <2> QED  BY <1>1, <1>3, <2>1, <2>3, <2>4, <2>5, DispatchersHeld
<1>7. CASE EndStream(d)
  <2>1. /\ Proceed(d, <<>>) /\ <<>> \in Seq(Steps) /\ hub' = hub /\ todo[d][1].op = "end"
        /\ todo[d][1].stream = s /\ s \in Streams /\ stream'[s].ended
        /\ \A r \in Streams : stream'[r].turn = stream[r].turn /\ (stream[r].ended => stream'[r].ended)
    <3>1. /\ Proceed(d, <<>>) /\ hub' = hub /\ todo[d][1].op = "end" /\ todo[d][1].stream = s
          /\ s \in Streams
      <4>1. ~Dispatch(d)
        BY <1>7 DEF EndStream, Dispatch, Does
      <4>2. Does(d, "end") /\ Proceed(d, <<>>) /\ hub' = hub
        BY <1>7 DEF EndStream
      <4>3. Current(d).op = "end"
        BY <4>2 DEF Does, Current
      <4> QED  BY <1>1, <4>1, <4>2, <4>3
    <3>2. stream \in [Streams -> StreamStates]
      BY <1>1 DEF TypeInv, TypeOK
    <3> DEFINE eof == [kind |-> "eof", turn |-> stream[s].turn, n |-> 0]
    <3>3. \/ stream[s].ended /\ UNCHANGED stream
          \/ stream' = [stream EXCEPT ![s].items = Append(@, eof), ![s].ended = TRUE]
          \/ stream' = [stream EXCEPT ![s].ended = TRUE]
      BY <1>7 DEF EndStream
    <3> HIDE DEF m, s, eof
    <3>4. /\ stream'[s].ended
          /\ \A r \in Streams : stream'[r].turn = stream[r].turn /\ (stream[r].ended => stream'[r].ended)
      <4>1. CASE stream[s].ended /\ UNCHANGED stream
        BY <4>1
      <4>2. CASE stream' = [stream EXCEPT ![s].items = Append(@, eof), ![s].ended = TRUE]
        <5> DEFINE items == Append(stream[s].items, eof)
        <5> HIDE DEF items
        <5>1. stream' = [stream EXCEPT ![s].items = items, ![s].ended = TRUE]
          BY <4>2 DEF items
        <5> QED  BY <3>1, <3>2, <5>1 DEF StreamStates
      <4>3. CASE stream' = [stream EXCEPT ![s].ended = TRUE]
        BY <3>1, <3>2, <4>3 DEF StreamStates
      <4> QED  BY <3>3, <4>1, <4>2, <4>3
    <3> QED  BY <3>1, <3>4, FewSteps
  <2>2. \A r \in Streams : IsServed(r) => IsServed(r)'
    BY <1>3, <2>1 DEF IsServed
  <2> QED  BY <1>1, <1>3, <2>1, <2>2, DispatchersHeld
<1> QED  BY <1>4, <1>5, <1>6, <1>7

-----------------------------------------------------------------------------
(* Streams and readers: the hub and the handlers.                          *)

\* Nothing that has to do with streams happens.
LEMMA QuietHeld ==
  ASSUME HeldInv, TypeInv', hub'.streams = hub.streams, UNCHANGED <<stream, todo>>,
         \A h \in Handlers : handler'[h] = handler[h] \/ (~Opened(h) /\ ~Opened(h)')
  PROVE  HeldInv'
<1>1. \A h \in Handlers : Opened(h) \/ Opened(h)' => handler'[h] = handler[h] /\ Opened(h) /\ Opened(h)'
  BY DEF Opened
<1>2. \A h \in Handlers : todo[h] # <<>> => Opened(h)
  BY DEF HeldInv, TypeInv, HandlersFit, Opened
<1>3. StepsInOrder'
  <2>1. \A d \in Handlers : \A i \in DOMAIN todo[d] : todo[d] # <<>>
    BY EmptySeq
  <2> QED  BY <1>1, <1>2, <2>1 DEF HeldInv, StepsInOrder
<1>4. StreamsHeld'
  <2>1. \A h \in Handlers : HasDetached(h)' => HasDetached(h) /\ handler'[h] = handler[h]
    BY <1>1 DEF HasDetached, AboutToDetach, Opened
  <2>2. \A h \in Handlers : handler'[h].pc = "open" => handler[h].pc = "open" /\ handler'[h] = handler[h]
    BY <1>1 DEF Opened
  <2>3. \A h \in Handlers : (handler[h].pc = "open" => IsServed(handler[h].stream))'
    BY <2>2 DEF HeldInv, StreamsHeld, IsServed, EndAhead
  <2> QED  BY <1>1, <2>1, <2>3 DEF HeldInv, StreamsHeld
<1>5. StreamsHaveReaders'
  <2>1. \A h \in Handlers : handler[h].stream # 0 => handler'[h] = handler[h]
    BY <1>1 DEF HeldInv, TypeInv, HandlersFit
  <2> QED  BY <2>1 DEF HeldInv, StreamsHaveReaders
<1> QED  BY <1>3, <1>4, <1>5 DEF HeldInv

\* The transport, and a handler that has no stream yet.
LEMMA CallingHeld ==
  ASSUME HeldInv, TypeInv',
         \/ Transport
         \/ \E h \in Handlers :
              \/ StartTurn(h) \/ OtherCall(h) \/ Calling(h) \/ GiveUp(h)
              \/ \E a \in known : ResolveApproval(h, a)
              \/ Check(h) \/ Conflict(h)
  PROVE  HeldInv'
<1>1. CASE Transport
  BY <1>1, QuietHeld DEF Transport
<1>2. ASSUME NEW h \in Handlers,
             \/ StartTurn(h) \/ OtherCall(h) \/ Calling(h) \/ GiveUp(h)
             \/ \E a \in known : ResolveApproval(h, a)
             \/ Check(h) \/ Conflict(h)
      PROVE  HeldInv'
  <2>1. handler[h].pc \in {"idle", "write", "wait", "check", "subscribe"} /\ ~Opened(h)
    BY <1>2 DEF StartTurn, OtherCall, Calling, WriteCall, TakeAnswer, GiveUp, ResolveApproval,
                Check, Conflict, Opened
  <2>2. /\ hub'.streams = hub.streams /\ UNCHANGED <<stream, todo>>
    BY <1>2 DEF StartTurn, OtherCall, Calling, WriteCall, TakeAnswer, GiveUp, ResolveApproval,
                Check, Conflict, HeldInv, TypeInv, TypeOK, Hubs
  <2>3. handler \in [Handlers -> HandlerStates]
    BY DEF HeldInv, TypeInv, TypeOK
  <2>4. /\ handler'[h].pc \in {"idle", "write", "wait", "check", "subscribe"}
        /\ \A g \in Handlers \ {h} : handler'[g] = handler[g]
    <3>1. ASSUME NEW pc \in {"wait", "subscribe"}, Goto(h, pc)
          PROVE  handler'[h].pc = pc /\ \A g \in Handlers \ {h} : handler'[g] = handler[g]
      BY <2>3, <3>1 DEF Goto, HandlerStates
    <3>2. ASSUME Finish(h)
          PROVE  handler'[h].pc = "idle" /\ \A g \in Handlers \ {h} : handler'[g] = handler[g]
      BY <2>3, <3>2 DEF Finish, Idle, Resting
    <3>3. ASSUME NEW method, BeginCall(h, method)
          PROVE  handler'[h].pc = "write" /\ \A g \in Handlers \ {h} : handler'[g] = handler[g]
      BY <2>3, <3>3 DEF BeginCall, HandlerStates
    <3>4. ASSUME NEW t, NEW a, handler' = [handler EXCEPT ![h] = Resting("check", t, a)]
          PROVE  handler'[h].pc = "check" /\ \A g \in Handlers \ {h} : handler'[g] = handler[g]
      BY <2>3, <3>4 DEF Resting
    <3> QED
      BY <1>2, <3>1, <3>2, <3>3, <3>4
         DEF StartTurn, OtherCall, Calling, WriteCall, TakeAnswer, GiveUp, ResolveApproval,
             Check, Conflict
  <2>5. ~Opened(h)'
    BY <2>4 DEF Opened
  <2> QED  BY <2>1, <2>2, <2>4, <2>5, QuietHeld
<1> QED  BY <1>1, <1>2

\* The hub, free of other work, begins to dispatch, or tells all streams that it stops.
LEMMA HubHeld ==
  ASSUME HeldInv, TypeInv', TakeNotification \/ HandleRequest \/ StopAll
  PROVE  HeldInv'
<1>1. PICK steps \in Seq(Steps) :
        /\ todo' = [todo EXCEPT ![Hub] = steps]
        /\ \A i \in DOMAIN steps : steps[i].op \in {"dispatch", "emit", "end"}
        /\ \A s \in Streams : stream[s].turn \in Turns /\ hub.streams[stream[s].turn] = s =>
             \/ hub'.streams[stream[s].turn] = s
             \/ \E i \in DOMAIN steps : steps[i].op = "end" /\ steps[i].stream = s
        /\ \A t \in Turns : hub'.streams[t] \in {0, hub.streams[t]}
  <2>1. ASSUME NEW m \in Message, todo' = [todo EXCEPT ![Hub] = <<Step("dispatch", 0, m)>>],
               hub'.streams = hub.streams
        PROVE  \E steps \in Seq(Steps) :
                 /\ todo' = [todo EXCEPT ![Hub] = steps]
                 /\ \A i \in DOMAIN steps : steps[i].op \in {"dispatch", "emit", "end"}
                 /\ hub'.streams = hub.streams
    <3> DEFINE steps == <<Step("dispatch", 0, m)>>
    <3>1. Step("dispatch", 0, m) \in Steps /\ Step("dispatch", 0, m).op = "dispatch"
      BY DEF Step, Steps
    <3>2. steps \in Seq(Steps) /\ \A i \in DOMAIN steps : steps[i].op = "dispatch"
      BY <3>1, FewSteps
    <3> QED  BY <2>1, <3>2
  <2>2. CASE TakeNotification
    <3>1. Head(notifications) \in Message
      BY <2>2, QueueShrinks DEF TakeNotification, HeldInv, TypeInv, TypeOK, ClientTypeOK
    <3> QED  BY <2>1, <2>2, <3>1 DEF TakeNotification
  <2>3. CASE HandleRequest
    <3>1. Head(requests) \in Message
      BY <2>3, QueueShrinks DEF HandleRequest, HeldInv, TypeInv, TypeOK, ClientTypeOK
    <3>2. hub'.streams = hub.streams
      BY <2>3 DEF HandleRequest, HeldInv, TypeInv, TypeOK, Hubs
    <3> QED  BY <2>1, <2>3, <3>1, <3>2 DEF HandleRequest
  <2>4. CASE StopAll
    <3>1. PICK order \in Orders(OpenStreams) : todo' = [todo EXCEPT ![Hub] = Farewells(order)]
      BY <2>4 DEF StopAll, OpenStreams
    <3>2. /\ Farewells(order) \in Seq(Steps)
          /\ \A i \in DOMAIN Farewells(order) : Farewells(order)[i].op \in {"emit", "end"}
          /\ \A s \in OpenStreams : \E i \in DOMAIN Farewells(order) :
               Farewells(order)[i].op = "end" /\ Farewells(order)[i].stream = s
      BY FarewellSteps DEF HeldInv
    <3>3. \A s \in Streams : stream[s].turn \in Turns /\ hub.streams[stream[s].turn] = s => s \in OpenStreams
      BY Numbers DEF OpenStreams, Streams
    <3>4. \A t \in Turns : hub'.streams[t] = 0
      BY <2>4 DEF StopAll, HeldInv, TypeInv, TypeOK, Hubs
    <3> QED  BY <3>1, <3>2, <3>3, <3>4
  <2> QED  BY <2>2, <2>3, <2>4
<1>2. /\ todo[Hub] = <<>> /\ UNCHANGED <<stream, handler>> /\ Hub \notin Handlers
      /\ todo \in [Dispatchers -> Seq(Steps)] /\ Hub \in Dispatchers
  BY Numbers DEF TakeNotification, HandleRequest, StopAll, HubIsFree, HeldInv, TypeInv, TypeOK
<1>3. todo'[Hub] = steps /\ \A d \in Dispatchers \ {Hub} : todo'[d] = todo[d]
  BY <1>1, <1>2
<1>4. StepsInOrder'
  <2>1. \A i \in DOMAIN todo'[Hub] : todo'[Hub][i].op \notin {"remove", "reply", "detach"}
    BY <1>1, <1>3
  <2>2. \A d \in Dispatchers : d # Hub => todo'[d] = todo[d]
    BY <1>3
  <2>3. handler' = handler
    BY <1>2
  <2> QED  BY <2>1, <2>2, <2>3 DEF HeldInv, StepsInOrder
<1>5. \A h \in Handlers : AboutToDetach(h)' \/ ~AboutToDetach(h)
  BY <1>2, <1>3, Numbers DEF AboutToDetach
<1>6. ASSUME NEW s, EndAhead(s) PROVE EndAhead(s)'
  <2>1. \A d \in Dispatchers : \A i \in DOMAIN todo[d] : d # Hub
    BY <1>2, EmptySeq
  <2> QED  BY <1>3, <1>6, <2>1 DEF EndAhead
<1>7. ASSUME NEW s \in Streams, stream[s].turn \in Turns, IsServed(s) PROVE IsServed(s)'
  <2>1. ASSUME NEW i \in DOMAIN steps, steps[i].op = "end", steps[i].stream = s PROVE EndAhead(s)'
    BY <1>2, <1>3, <2>1 DEF EndAhead
  <2> QED  BY <1>1, <1>2, <1>6, <1>7, <2>1 DEF IsServed
<1> QED  BY <1>1, <1>2, <1>4, <1>5, <1>7, DispatchersHeld

\* A stream that is entered has no other reader, and its handler replays what was kept for it.
LEMMA SubscribeHeld ==
  ASSUME HeldInv, TypeInv', NEW h \in Handlers, Subscribe(h)
  PROVE  HeldInv'
<1> DEFINE t == handler[h].turn
<1>1. PICK s \in Streams :
        /\ IsNextFree(s) /\ hub' = Entered(t, s) /\ stream' = [stream EXCEPT ![s].turn = t]
        /\ todo' = [todo EXCEPT ![h] = Dispatches(hub.early[t]) \o Decide(h, s)]
        /\ handler' = [handler EXCEPT ![h].pc = "open", ![h].stream = s]
  BY DEF Subscribe
<1>2. /\ TypeInv /\ handler[h].pc = "subscribe" /\ hub.streams[t] = 0 /\ t \in Turns /\ t # None
      /\ stream[s].turn = None /\ s # 0 /\ todo[h] = <<>> /\ handler[h].stream = 0
  <2>1. TypeInv /\ handler[h].pc = "subscribe" /\ hub.streams[t] = 0 /\ stream[s].turn = None
    BY <1>1 DEF Subscribe, IsNextFree, Free, HeldInv
  <2> QED  BY <2>1, Numbers DEF TypeInv, HandlersFit, Opened, Streams
<1>3. /\ handler'[h].pc = "open" /\ handler'[h].stream = s
      /\ \A g \in Handlers \ {h} : handler'[g] = handler[g]
  BY <1>1 DEF HeldInv, TypeInv, TypeOK, HandlerStates
<1>4. /\ hub'.streams[t] = s /\ \A u \in Turns \ {t} : hub'.streams[u] = hub.streams[u]
      /\ stream'[s].turn = t /\ \A r \in Streams \ {s} : stream'[r] = stream[r]
  BY <1>1, <1>2 DEF Entered, TypeInv, TypeOK, Hubs, StreamStates
<1>5. /\ \A d \in Dispatchers \ {h} : todo'[d] = todo[d]
      /\ \A i \in DOMAIN todo'[h] :
           /\ todo'[h][i].op \in {"dispatch", "emit", "reply"}
           /\ todo'[h][i].op = "reply" => i = Len(todo'[h]) /\ todo'[h][i].stream = s
      /\ todo'[h] \in Seq(Steps)
  <2> DEFINE steps == Dispatches(hub.early[t]) \o Decide(h, s)
  <2>1. /\ steps \in Seq(Steps) /\ DOMAIN steps = 1 .. Len(steps) /\ Len(steps) \in Nat
        /\ Len(hub.early[t]) \in Nat
        /\ \A i \in 1 .. Len(hub.early[t]) : steps[i] = Step("dispatch", 0, hub.early[t][i])
        /\ \A i \in DOMAIN steps : i > Len(hub.early[t]) =>
             /\ steps[i].op \in {"emit", "reply"} /\ steps[i].stream = s
             /\ steps[i].op = "reply" => i = Len(steps)
    <3>1. Replays(steps, hub.early[t], h, s)
      BY <1>2, ReplaySteps
    <3> HIDE DEF steps
    <3> QED  BY <3>1 DEF Replays
  <2> HIDE DEF steps
  <2>2. \A m : Step("dispatch", 0, m).op = "dispatch"
    BY DEF Step
  <2>3. \A i \in 1 .. Len(hub.early[t]) : steps[i].op = "dispatch"
    BY <2>1, <2>2
  <2>4. \A i \in DOMAIN steps : i > Len(hub.early[t]) \/ i \in 1 .. Len(hub.early[t])
    BY <2>1
  <2>5. \A i \in DOMAIN steps :
          /\ steps[i].op \in {"dispatch", "emit", "reply"}
          /\ steps[i].op = "reply" => i = Len(steps) /\ steps[i].stream = s
    BY <2>1, <2>3, <2>4
  <2>6. todo'[h] = steps /\ \A d \in Dispatchers \ {h} : todo'[d] = todo[d]
    BY <1>1, <1>2, Numbers DEF steps, TypeInv, TypeOK
  <2> QED  BY <2>1, <2>5, <2>6
<1>6. StepsInOrder'
  BY <1>3, <1>5 DEF HeldInv, StepsInOrder
<1>7. ASSUME NEW g \in Handlers, g # h
      PROVE  /\ handler'[g] = handler[g]
             /\ Opened(g)' <=> Opened(g)
             /\ HasDetached(g)' <=> HasDetached(g)
             /\ Opened(g) => handler[g].stream \in Streams /\ handler[g].stream # s
  <2>1. Opened(g) => handler[g].turn # None /\ handler[g].stream \in Streams
                     /\ stream[handler[g].stream].turn = handler[g].turn
    BY <1>2, Numbers DEF TypeInv, HandlersFit
  <2>2. handler'[g] = handler[g] /\ todo'[g] = todo[g]
    BY <1>3, <1>5, <1>7, Numbers
  <2>3. Opened(g) => handler[g].stream # s
    BY <1>2, <2>1
  <2> QED  BY <2>1, <2>2, <2>3 DEF Opened, HasDetached, AboutToDetach
<1>8. \A f, g \in Handlers : Opened(f)' /\ Opened(g)' /\ handler'[f].stream = handler'[g].stream => f = g
  <2>1. \A f, g \in Handlers : Opened(f) /\ Opened(g) /\ handler[f].stream = handler[g].stream => f = g
    BY DEF HeldInv, StreamsHeld
  <2> QED  BY <1>3, <1>7, <2>1
<1>9. \A g \in Handlers : HasDetached(g)' => \A u \in Turns : hub'.streams[u] # handler'[g].stream
  <2>1. ~HasDetached(h)'
    BY <1>3 DEF HasDetached
  <2>2. \A g \in Handlers : HasDetached(g) => Opened(g) /\ \A u \in Turns : hub.streams[u] # handler[g].stream
    BY DEF HasDetached, Opened, HeldInv, StreamsHeld
  <2> QED  BY <1>4, <1>7, <2>1, <2>2
<1>10. ASSUME NEW g \in Handlers, handler'[g].pc = "open" PROVE (IsServed(handler[g].stream))'
  <2>1. CASE g = h
    BY <1>3, <1>4, <2>1 DEF IsServed
  <2>2. CASE g # h
    <3>1. handler'[g] = handler[g] /\ handler[g].pc = "open" /\ Opened(g)
      BY <1>3, <1>10, <2>2 DEF Opened
    <3>2. PICK r \in Streams \ {s} : r = handler[g].stream /\ r # 0
      BY <1>7, <2>2, <3>1, Numbers DEF Streams
    <3>3. IsServed(r) /\ stream[r].turn \in Turns
      BY <3>1, <3>2 DEF HeldInv, StreamsHeld, TypeInv, HandlersFit
    <3>4. EndAhead(r) => EndAhead(r)'
      <4>1. \A d \in Dispatchers : \A i \in DOMAIN todo[d] : d # h
        BY <1>2, EmptySeq
      <4> QED  BY <1>5, <4>1 DEF EndAhead
    <3>5. IsServed(r)'
      BY <1>2, <1>4, <3>2, <3>3, <3>4 DEF IsServed
    <3> QED  BY <3>1, <3>2, <3>5 DEF IsServed, EndAhead
  <2> QED  BY <2>1, <2>2
<1>11. StreamsHaveReaders'
  <2>1. \A u \in Turns \ {t} : hub.streams[u] # 0 =>
          \E g \in Handlers \ {h} : handler[g].stream = hub.streams[u]
    BY <1>2 DEF HeldInv, StreamsHaveReaders
  <2> QED  BY <1>3, <1>4, <2>1 DEF StreamsHaveReaders
<1>12. StreamsHeld'
  BY <1>8, <1>9, <1>10 DEF StreamsHeld
<1> QED  BY <1>6, <1>11, <1>12 DEF HeldInv

\* A decision that cannot be told fails its handler, which takes its stream out and ends it.
LEMMA ReplyHeld ==
  ASSUME HeldInv, TypeInv', NEW h \in Handlers, Reply(h)
  PROVE  HeldInv'
<1> DEFINE m == Current(h).item
           s == Current(h).stream
<1>1. /\ TypeInv /\ StepsInOrder /\ h \in Dispatchers /\ todo[h] # <<>> /\ 1 \in DOMAIN todo[h]
      /\ Current(h) = todo[h][1] /\ todo[h][1].op = "reply" /\ todo[h] \in Seq(Steps)
      /\ s \in Streams /\ m \in Item
      /\ UNCHANGED <<hub, stream>>
  <2>1. TypeInv /\ h \in Dispatchers /\ Does(h, "reply")
    BY Numbers DEF Reply, HeldInv
  <2> QED  BY <2>1, CurrentType DEF Reply, HeldInv, TypeInv, TypeOK
<1>2. /\ handler[h].pc = "open" /\ 1 = Len(todo[h]) /\ s = handler[h].stream
  <2>1. \A i \in DOMAIN todo[h] : todo[h][i].op = "reply" =>
          handler[h].pc = "open" /\ i = Len(todo[h]) /\ todo[h][i].stream = handler[h].stream
    BY <1>1 DEF StepsInOrder
  <2> QED  BY <1>1, <2>1
<1>3. CASE CanWrite
  <2>1. Proceed(h, <<>>) /\ handler' = handler /\ <<>> \in Seq(Steps) /\ 1 .. Len(<<>>) = {}
    BY <1>3, FewSteps DEF Reply
  <2>2. /\ StepsInOrder'
        /\ \A r : EndAhead(r) => EndAhead(r)'
        /\ \A g \in Handlers : AboutToDetach(g) => g = h \/ AboutToDetach(g)'
    BY <1>1, <2>1, ProceedInOrder
  <2>3. ~AboutToDetach(h)
    BY <1>1 DEF AboutToDetach, Current
  <2>4. \A r \in Streams : IsServed(r) => IsServed(r)'
    BY <1>1, <2>2 DEF IsServed
  <2> QED  BY <1>1, <2>1, <2>2, <2>3, <2>4, DispatchersHeld
<1>4. CASE ~CanWrite
  <2> DEFINE steps == <<Step("detach", s, m), Step("end", s, m)>>
  <2>1. Proceed(h, steps) /\ Goto(h, "failed")
    BY <1>4 DEF Reply
  <2>2. /\ steps \in Seq(Steps) /\ Len(steps) = 2
        /\ steps[1].op = "detach" /\ steps[2].op = "end" /\ steps[1].stream = s
    <3>1. Step("detach", s, m) \in Steps /\ Step("end", s, m) \in Steps
      BY <1>1 DEF Step, Steps
    <3> QED  BY <3>1, FewSteps DEF Step
  <2> HIDE DEF steps
  <2>3. /\ DOMAIN todo'[h] = 1 .. 2 /\ todo'[h][1] = steps[1] /\ todo'[h][2] = steps[2]
        /\ \A d \in Dispatchers : d # h => todo'[d] = todo[d]
        /\ todo'[h] # <<>> /\ Head(todo'[h]) = todo'[h][1]
    <3>1. /\ todo' \in [Dispatchers -> Seq(Steps)]
          /\ DOMAIN todo'[h] = 1 .. (Len(steps) + Len(todo[h]) - 1)
          /\ \A i \in DOMAIN todo'[h] :
               todo'[h][i] = IF i <= Len(steps) THEN steps[i] ELSE todo[h][i - Len(steps) + 1]
          /\ \A d \in Dispatchers : d # h => todo'[d] = todo[d]
      BY <1>1, <2>1, <2>2, ProceedQueue DEF TypeInv, TypeOK
    <3>2. Len(steps) + Len(todo[h]) - 1 = 2
      <4>1. Len(steps) = 2 /\ Len(todo[h]) = 1
        BY <1>2, <2>2
      <4>2. 2 + 1 - 1 = 2
        OBVIOUS
      <4> QED  BY <4>1, <4>2, Zenon
    <3>3. todo'[h] # <<>> /\ todo'[h] \in Seq(Steps)
      BY <1>1, <3>1, <3>2, EmptySeq
    <3> QED  BY <2>2, <3>1, <3>2, <3>3, QueueShrinks
  <2>4. /\ handler'[h].pc = "failed" /\ handler'[h].stream = handler[h].stream
        /\ \A g \in Handlers : g # h => handler'[g] = handler[g]
    BY <1>1, <2>1, GotoType
  <2>5. StepsInOrder'
    <3>1. \A i \in DOMAIN todo'[h] : i = 1 \/ i = 2
      BY <2>3
    <3>2. \A i \in DOMAIN todo'[h] :
            /\ todo'[h][i].op \notin {"remove", "reply"}
            /\ todo'[h][i].op = "detach" => i = 1 /\ todo'[h][i].stream = handler'[h].stream
      BY <1>2, <2>2, <2>3, <2>4, <3>1
    <3> QED  BY <1>1, <2>3, <2>4, <3>2 DEF StepsInOrder
  <2>6. \A g \in Handlers : /\ Opened(g)' => Opened(g)
                            /\ handler'[g].stream = handler[g].stream
                            /\ HasDetached(g)' => HasDetached(g)
    <3>1. ~HasDetached(h)' /\ Opened(h)
      BY <1>2, <2>2, <2>3, <2>4 DEF HasDetached, AboutToDetach, Opened
    <3>2. ASSUME NEW g \in Handlers, g # h
          PROVE  (Opened(g)' => Opened(g)) /\ (HasDetached(g)' => HasDetached(g))
      BY <2>3, <2>4, <3>2, Numbers DEF HasDetached, AboutToDetach, Opened
    <3> QED  BY <2>4, <3>1, <3>2
  <2>7. ASSUME NEW r, EndAhead(r) PROVE EndAhead(r)'
    <3>1. \A i \in DOMAIN todo[h] : todo[h][i].op # "end"
      <4>1. \A i \in DOMAIN todo[h] : i = 1
        BY <1>1, <1>2, LenProperties
      <4> QED  BY <1>1, <4>1
    <3> QED  BY <2>3, <2>7, <3>1 DEF EndAhead
  <2>8. ASSUME NEW g \in Handlers, handler'[g].pc = "open" PROVE (IsServed(handler[g].stream))'
    <3>1. g # h /\ handler'[g] = handler[g]
      BY <2>4, <2>8
    <3>2. PICK r : r = handler[g].stream
      OBVIOUS
    <3>3. IsServed(r)
      BY <2>8, <3>1, <3>2 DEF HeldInv, StreamsHeld
    <3>4. IsServed(r)'
      BY <1>1, <2>7, <3>3 DEF IsServed
    <3> QED  BY <3>1, <3>2, <3>4 DEF IsServed, EndAhead
  <2>9. StreamsHeld' /\ StreamsHaveReaders'
    BY <1>1, <2>6, <2>8 DEF HeldInv, StreamsHeld, StreamsHaveReaders
  <2> QED  BY <2>5, <2>9 DEF HeldInv
<1> QED  BY <1>3, <1>4

\* A handler that leaves its stream: it takes the stream out of the table before it lets it go.
LEMMA ReaderHeld ==
  ASSUME HeldInv, TypeInv', NEW h \in Handlers, Opened(h), todo' = todo, todo[h] = <<>>,
         \A g \in Handlers : g # h => handler'[g] = handler[g],
         handler'[h].pc # "open" \/ handler'[h] = handler[h],
         \/ Opened(h)' /\ handler'[h].stream = handler[h].stream
         \/ ~Opened(h)' /\ HasDetached(h),
         HasDetached(h)' => \A t \in Turns : hub'.streams[t] # handler[h].stream,
         \A t \in Turns : \/ hub'.streams[t] = hub.streams[t]
                          \/ hub'.streams[t] = 0 /\ hub.streams[t] = handler[h].stream
                             /\ handler'[h].pc # "open",
         \A s \in Streams : stream'[s].turn = stream[s].turn /\ stream'[s].ended = stream[s].ended
  PROVE  HeldInv'
<1>1. TypeInv /\ \A g \in Handlers : g # h => (Opened(g)' <=> Opened(g)) /\ (HasDetached(g)' <=> HasDetached(g))
  BY DEF HeldInv, Opened, HasDetached, AboutToDetach
<1>2. StepsInOrder'
  <2>1. \A d \in Dispatchers : \A i \in DOMAIN todo[d] : d # h
    BY EmptySeq
  <2> QED  BY <2>1 DEF HeldInv, StepsInOrder
<1>3. \A f, g \in Handlers : Opened(f)' /\ Opened(g)' /\ handler'[f].stream = handler'[g].stream => f = g
  <2>1. \A f, g \in Handlers : Opened(f) /\ Opened(g) /\ handler[f].stream = handler[g].stream => f = g
    BY DEF HeldInv, StreamsHeld
  <2> QED  BY <1>1, <2>1
<1>4. \A g \in Handlers : HasDetached(g)' => \A t \in Turns : hub'.streams[t] # handler'[g].stream
  <2>1. \A g \in Handlers : HasDetached(g) =>
          handler[g].stream # 0 /\ \A t \in Turns : hub.streams[t] # handler[g].stream
    BY <1>1, Numbers DEF HeldInv, StreamsHeld, TypeInv, HandlersFit, HasDetached, Opened, Streams
  <2>2. HasDetached(h)' => handler'[h].stream = handler[h].stream
    BY DEF HasDetached, Opened
  <2> QED  BY <1>1, <2>1, <2>2
<1>5. ASSUME NEW g \in Handlers, handler'[g].pc = "open" PROVE (IsServed(handler[g].stream))'
  <2>1. handler'[g] = handler[g] /\ handler[g].pc = "open" /\ Opened(g)
    BY <1>5 DEF Opened
  <2>2. PICK r \in Streams : r = handler[g].stream
    BY <1>1, <2>1 DEF TypeInv, HandlersFit
  <2>3. IsServed(r) /\ stream[r].turn \in Turns
    BY <1>1, <2>1, <2>2 DEF HeldInv, StreamsHeld, TypeInv, HandlersFit
  <2>4. hub.streams[stream[r].turn] = r => hub'.streams[stream[r].turn] = r
    <3>1. CASE g = h
      BY <1>5, <2>3, <3>1
    <3>2. CASE g # h
      <4>1. r # handler[h].stream
        BY <2>1, <2>2, <3>2 DEF HeldInv, StreamsHeld
      <4> QED  BY <2>3, <4>1
    <3> QED  BY <3>1, <3>2
  <2>5. IsServed(r)'
    BY <2>3, <2>4 DEF IsServed, EndAhead
  <2> QED  BY <2>1, <2>2, <2>5 DEF IsServed, EndAhead
<1>6. StreamsHaveReaders'
  <2> SUFFICES ASSUME NEW t \in Turns, hub'.streams[t] # 0
               PROVE  \E g \in Handlers : handler'[g].stream = hub'.streams[t]
    BY DEF StreamsHaveReaders
  <2>1. hub'.streams[t] = hub.streams[t]
    OBVIOUS
  <2>2. PICK g \in Handlers : handler[g].stream = hub.streams[t]
    BY <2>1 DEF HeldInv, StreamsHaveReaders
  <2>3. handler'[g].stream = handler[g].stream
    <3>1. CASE g # h
      BY <3>1
    <3>2. CASE g = h /\ HasDetached(h)
      BY <2>2, <3>2 DEF HeldInv, StreamsHeld
    <3> QED  BY <3>1, <3>2
  <2> QED  BY <2>1, <2>2, <2>3
<1> QED  BY <1>2, <1>3, <1>4, <1>5, <1>6 DEF HeldInv, StreamsHeld

LEMMA ReadingHeld ==
  ASSUME HeldInv, TypeInv', NEW h \in Handlers,
         DetachFailed(h) \/ Fails(h) \/ Read(h) \/ Leave(h) \/ DetachClosed(h) \/ CloseLocal(h)
  PROVE  HeldInv'
<1> DEFINE s == handler[h].stream
<1>1. /\ TypeInv /\ StepsInOrder /\ stream \in [Streams -> StreamStates] /\ h \in Dispatchers
      /\ Opened(h) => s \in Streams /\ s # 0 /\ stream[s].turn \in Turns
      /\ todo[h] # <<>> => handler[h].pc \in {"open", "failed"}
  <2>1. TypeInv /\ StepsInOrder /\ h \in Dispatchers /\ \A r \in Streams : r # 0
    BY Numbers DEF HeldInv, Streams
  <2> QED  BY <2>1 DEF TypeInv, TypeOK, HandlersFit
<1>2. CASE Fails(h)
  <2>1. /\ Opened(h) /\ todo[h] = <<>> /\ Finish(h) /\ UNCHANGED <<transport, hub, stream, todo, known>>
        /\ HasDetached(h)
    BY <1>2 DEF Fails, Opened, HasDetached, AboutToDetach
  <2>2. ~HasDetached(h)' /\ ~Opened(h)' /\ handler'[h].pc # "open"
        /\ \A g \in Handlers : g # h => handler'[g] = handler[g]
    BY <1>1, <2>1, FinishType DEF HasDetached
  <2> QED  BY <2>1, <2>2, ReaderHeld
<1>3. CASE CloseLocal(h)
  <2>1. /\ Opened(h) /\ todo[h] = <<>> /\ Finish(h)
        /\ stream' = [stream EXCEPT ![s].closed = TRUE]
        /\ UNCHANGED <<transport, hub, todo, known>> /\ HasDetached(h)
    BY <1>1, <1>3 DEF CloseLocal, Opened, HasDetached
  <2>2. ~HasDetached(h)' /\ ~Opened(h)' /\ handler'[h].pc # "open"
        /\ \A g \in Handlers : g # h => handler'[g] = handler[g]
    BY <1>1, <2>1, FinishType DEF HasDetached
  <2>3. \A r \in Streams : stream'[r].turn = stream[r].turn /\ stream'[r].ended = stream[r].ended
    BY <1>1, <2>1 DEF StreamStates
  <2> QED  BY <2>1, <2>2, <2>3, ReaderHeld
<1>4. CASE Leave(h) \/ Read(h)
  <2>1. /\ Opened(h) /\ todo[h] = <<>> /\ handler[h].pc = "open"
        /\ Goto(h, "close") \/ UNCHANGED handler
        /\ UNCHANGED <<transport, hub, todo>>
    BY <1>4 DEF Leave, Read, Reads, Opened
  <2>2. \A r \in Streams : stream'[r].turn = stream[r].turn /\ stream'[r].ended = stream[r].ended
    <3>1. stream' = stream \/ stream' = [stream EXCEPT ![s].items = Tail(@)]
      BY <1>4 DEF Leave, Read
    <3> QED  BY <1>1, <2>1, <3>1 DEF StreamStates
  <2>3. /\ \A g \in Handlers : g # h => handler'[g] = handler[g]
        /\ handler'[h].pc = "close" \/ handler' = handler
        /\ handler'[h].stream = s
    BY <1>1, <2>1, GotoType
  <2>4. ~HasDetached(h)' /\ Opened(h)' /\ (handler'[h].pc # "open" \/ handler'[h] = handler[h])
    BY <2>1, <2>3 DEF HasDetached, Opened
  <2>5. todo' = todo /\ hub' = hub /\ handler'[h].stream = handler[h].stream
    BY <2>1, <2>3
  <2>6. \A g \in Handlers : g # h => handler'[g] = handler[g]
    BY <2>3
  <2> HIDE DEF s
  <2> QED  BY <2>1, <2>2, <2>4, <2>5, <2>6, ReaderHeld
<1>5. CASE DetachClosed(h)
  <2>1. /\ Opened(h) /\ todo[h] = <<>> /\ Goto(h, "detached") /\ hub' = Detached(s)
        /\ UNCHANGED <<transport, stream, todo, known>>
    BY <1>1, <1>5 DEF DetachClosed, Opened
  <2>2. \A t \in Turns : hub'.streams[t] = IF hub.streams[t] = s THEN 0 ELSE hub.streams[t]
    BY <1>1, <2>1, DetachedType
  <2>3. /\ handler'[h].pc = "detached" /\ handler'[h].stream = s
        /\ \A g \in Handlers : g # h => handler'[g] = handler[g]
    BY <1>1, <2>1, GotoType
  <2>4. Opened(h)'
    BY <2>3 DEF Opened
  <2>5. /\ \A t \in Turns : hub'.streams[t] # s
        /\ \A t \in Turns : \/ hub'.streams[t] = hub.streams[t]
                            \/ hub'.streams[t] = 0 /\ hub.streams[t] = s /\ handler'[h].pc # "open"
    BY <1>1, <2>1, <2>2, <2>3
  <2> QED  BY <2>1, <2>3, <2>4, <2>5, ReaderHeld
<1>6. CASE DetachFailed(h)
  <2>1. /\ Does(h, "detach") /\ hub' = Detached(Current(h).stream) /\ Proceed(h, <<>>)
        /\ UNCHANGED <<transport, stream, handler, known>>
    BY <1>6 DEF DetachFailed
  <2>2. /\ todo[h] # <<>> /\ 1 \in DOMAIN todo[h] /\ Current(h) = todo[h][1]
        /\ todo[h][1].op = "detach"
    BY <1>1, <2>1, CurrentType
  <2>3. handler[h].pc = "failed" /\ Opened(h) /\ Current(h).stream = s
    BY <1>1, <2>2 DEF StepsInOrder, Opened
  <2>4. \A t \in Turns : hub'.streams[t] = IF hub.streams[t] = s THEN 0 ELSE hub.streams[t]
    BY <1>1, <2>1, <2>3, DetachedType
  <2>5. /\ StepsInOrder'
        /\ \A r : EndAhead(r) => EndAhead(r)'
        /\ \A g \in Handlers : AboutToDetach(g) => g = h \/ AboutToDetach(g)'
    <3>1. <<>> \in Seq(Steps) /\ 1 .. Len(<<>>) = {}
      BY FewSteps
    <3> QED  BY <1>1, <2>1, <2>2, <3>1, ProceedInOrder
  <2>6. \A g \in Handlers : HasDetached(g)' => \A t \in Turns : hub'.streams[t] # handler'[g].stream
    <3>1. \A g \in Handlers : g # h /\ HasDetached(g)' => HasDetached(g)
      BY <2>1, <2>5 DEF HasDetached
    <3>2. \A g \in Handlers : HasDetached(g) =>
            handler[g].stream # 0 /\ \A t \in Turns : hub.streams[t] # handler[g].stream
      BY <1>1, Numbers DEF HeldInv, StreamsHeld, TypeInv, HandlersFit, HasDetached, Opened, Streams
    <3> QED  BY <1>1, <2>1, <2>3, <2>4, <3>1, <3>2
  <2>7. ASSUME NEW g \in Handlers, handler'[g].pc = "open" PROVE (IsServed(handler[g].stream))'
    <3>1. g # h /\ handler'[g] = handler[g] /\ handler[g].pc = "open" /\ Opened(g)
      BY <2>1, <2>3, <2>7 DEF Opened
    <3>2. PICK r \in Streams : r = handler[g].stream
      BY <1>1, <3>1 DEF TypeInv, HandlersFit
    <3>3. IsServed(r) /\ stream[r].turn \in Turns /\ r # s
      BY <1>1, <2>3, <3>1, <3>2 DEF HeldInv, StreamsHeld, TypeInv, HandlersFit
    <3>4. IsServed(r)'
      BY <2>1, <2>4, <2>5, <3>3 DEF IsServed
    <3> QED  BY <3>1, <3>2, <3>4 DEF IsServed, EndAhead
  <2>8. StreamsHeld'
    <3>1. \A f, g \in Handlers : Opened(f)' /\ Opened(g)' /\ handler'[f].stream = handler'[g].stream => f = g
      BY <2>1 DEF HeldInv, StreamsHeld, Opened
    <3> QED  BY <2>6, <2>7, <3>1 DEF StreamsHeld
  <2>9. StreamsHaveReaders'
    BY <2>1, <2>4 DEF HeldInv, StreamsHaveReaders
  <2> QED  BY <2>5, <2>8, <2>9 DEF HeldInv
<1> QED  BY <1>2, <1>3, <1>4, <1>5, <1>6

LEMMA HeldInit == Init => HeldInv
<1> SUFFICES ASSUME Init PROVE HeldInv
  OBVIOUS
<1>1. \A d \in Dispatchers : todo[d] = <<>> /\ DOMAIN todo[d] = {}
  BY DEF Init
<1>2. \A h \in Handlers : handler[h].pc = "idle"
  BY DEF Init, Idle, Resting
<1>3. \A t \in Turns : hub.streams[t] = 0
  BY DEF Init
<1>4. StepsInOrder
  BY <1>1 DEF StepsInOrder
<1>5. StreamsHeld
  BY <1>2 DEF StreamsHeld, Opened, HasDetached
<1> QED  BY <1>3, <1>4, <1>5, TypeInit DEF HeldInv, StreamsHaveReaders

LEMMA HeldStep == HeldInv /\ [Next]_vars => HeldInv'
<1> SUFFICES ASSUME HeldInv, [Next]_vars PROVE HeldInv'
  OBVIOUS
<1>1. TypeInv'
  BY TypeStep DEF HeldInv
<1>2. CASE Transport
  BY <1>1, <1>2, CallingHeld
<1>3. ASSUME NEW h \in Handlers, Handle(h) PROVE HeldInv'
  BY <1>1, <1>3, CallingHeld, SubscribeHeld, ReplyHeld, ReadingHeld DEF Handle
<1>4. ASSUME NEW d \in Dispatchers, Dispatch(d) \/ Emit(d) \/ RemoveStream(d) \/ EndStream(d)
      PROVE  HeldInv'
  BY <1>4, WorkHeld
<1>5. CASE TakeNotification \/ HandleRequest \/ StopAll
  BY <1>1, <1>5, HubHeld
<1>6. CASE UNCHANGED vars
  BY <1>1, <1>6, QuietHeld DEF vars
<1> QED  BY <1>2, <1>3, <1>4, <1>5, <1>6 DEF Next

\* The table of the hub and the handlers stay together: a stream in the table has a handler that
\* reads it or is about to, and a stream that a handler waits on is in the table, holds its end or
\* has it on the way, whatever the close of one stream, the pause for an approval, the
\* registration of the next stream of the turn and the stop of the hub do to each other.  A stream
\* registered after the hub has stopped is in the table too, and nothing ends it.  The reason is
\* who holds a stream: one handler does, it takes the stream out of the table before it lets it
\* go, and whoever else takes it out has its end still to write.
THEOREM EventsMeetReaders == Spec => []StreamsMeetReaders
<1>1. HeldInv => StreamsMeetReaders
  BY DEF HeldInv, StreamsHeld, StreamsMeetReaders, ReadersAreServed, Reads
<1> QED  BY <1>1, HeldInit, HeldStep, PTL DEF Spec

-----------------------------------------------------------------------------
(* Messages: a step moves one of them, and its queue moves up.             *)

\* Places are numbers of a queue.
LEMMA Numbered ==
  ASSUME TypeInv, NEW m, NEW k, NEW a, NEW i
  PROVE  Lies(m, k, a, i) => i \in Nat /\ (k # "client" => i >= 1)
<1>1. /\ notifications \in Seq(Message) /\ requests \in Seq(Message)
      /\ \A t \in Turns : hub.early[t] \in Seq(Message)
      /\ \A d \in Dispatchers : todo[d] \in Seq(Steps)
      /\ \A s \in Streams : stream[s].items \in Seq(Item)
  BY DEF TypeInv, TypeOK, ClientTypeOK, Hubs, StreamStates
<1>2. /\ \A j \in DOMAIN notifications \cup DOMAIN requests : j \in Nat
      /\ \A t \in Turns : \A j \in DOMAIN hub.early[t] : j \in Nat /\ j >= 1
      /\ \A d \in Dispatchers : \A j \in DOMAIN todo[d] : j \in Nat /\ j >= 1
      /\ \A s \in Streams : \A j \in DOMAIN stream[s].items : j \in Nat /\ j >= 1
  BY <1>1, LenProperties
<1>3. InClient(m, a, i) => i \in Nat
  BY <1>2 DEF InClient
<1>4. IsKept(m, a, i) \/ IsCarried(m, a, i) \/ IsStreamed(m, a, i) => i \in Nat /\ i >= 1
  BY <1>2 DEF IsKept, IsCarried, IsStreamed
<1> QED  BY <1>3, <1>4 DEF Lies

\* Nothing is anywhere it was not.
LEMMA NothingMoves ==
  ASSUME NEW m, IsOnce(m), server'.sent[m.turn] = server.sent[m.turn],
         \A k, a, i : Lies(m, k, a, i)' => Lies(m, k, a, i)
  PROVE  IsOnce(m)'
BY DEF IsOnce

\* What is at place i0 of a queue moves to one place elsewhere; the places of the queue shift by c.
MovesOne(m, k0, a0, i0, c, k1, a1, i1) ==
  /\ server'.sent[m.turn] = server.sent[m.turn]
  /\ \A k, a, i : Lies(m, k, a, i)' =>
       \/ (k # k0 \/ a # a0) /\ Lies(m, k, a, i)
       \/ k = k0 /\ a = a0 /\ i \in Int /\ i + c # i0 /\ Lies(m, k0, a0, i + c)
       \/ k = k1 /\ a = a1 /\ i = i1 /\ Lies(m, k0, a0, i0)

LEMMA OneMoves ==
  ASSUME NEW m, IsOnce(m), NEW k0, NEW a0, NEW i0, NEW c \in Int, NEW k1, NEW a1, NEW i1,
         MovesOne(m, k0, a0, i0, c, k1, a1, i1)
  PROVE  IsOnce(m)'
<1> USE DEF MovesOne
<1>1. \A k, a, i, l, b, j : Lies(m, k, a, i) /\ Lies(m, l, b, j) => k = l /\ a = b /\ i = j
  BY DEF IsOnce
<1>2. ASSUME NEW k, NEW a, NEW i, NEW l, NEW b, NEW j, Lies(m, k, a, i)', Lies(m, l, b, j)'
      PROVE  k = l /\ a = b /\ i = j
  <2>1. CASE (k # k0 \/ a # a0) /\ Lies(m, k, a, i)
    BY <1>1, <1>2, <2>1
  <2>2. CASE k = k0 /\ a = a0 /\ i \in Int /\ i + c # i0 /\ Lies(m, k0, a0, i + c)
    <3>1. CASE (l # k0 \/ b # a0) /\ Lies(m, l, b, j)
      BY <1>1, <2>2, <3>1
    <3>2. CASE l = k0 /\ b = a0 /\ j \in Int /\ Lies(m, k0, a0, j + c)
      <4>1. i + c = j + c
        BY <1>1, <2>2, <3>2
      <4> QED  BY <2>2, <3>2, <4>1
    <3>3. CASE Lies(m, k0, a0, i0)
      BY <1>1, <2>2, <3>3
    <3> QED  BY <1>2, <3>1, <3>2, <3>3
  <2>3. CASE k = k1 /\ a = a1 /\ i = i1 /\ Lies(m, k0, a0, i0)
    BY <1>1, <1>2, <2>3
  <2> QED  BY <1>2, <2>1, <2>2, <2>3
<1>3. \A k, a, i : Lies(m, k, a, i)' => \E l, b, j : Lies(m, l, b, j)
  OBVIOUS
<1> QED  BY <1>2, <1>3 DEF IsOnce

\* What a dispatcher carries once it has taken a step.
LEMMA CarriesOn ==
  ASSUME TypeInv, NEW d \in Dispatchers, todo[d] # <<>>, NEW steps \in Seq(Steps),
         Proceed(d, steps), NEW m, NEW e, NEW i, IsCarried(m, e, i)'
  PROVE  /\ i \in Int
         /\ \/ e # d /\ IsCarried(m, e, i)
            \/ e = d /\ i + (1 - Len(steps)) # 1 /\ IsCarried(m, d, i + (1 - Len(steps)))
            \/ /\ e = d /\ i \in 1 .. Len(steps)
               /\ steps[i].op \in {"dispatch", "emit"} /\ steps[i].item = m
<1>1. /\ todo' \in [Dispatchers -> Seq(Steps)]
      /\ \A f \in Dispatchers : f # d => todo'[f] = todo[f]
      /\ DOMAIN todo'[d] = 1 .. (Len(steps) + Len(todo[d]) - 1)
      /\ \A j \in DOMAIN todo'[d] :
           todo'[d][j] = IF j <= Len(steps) THEN steps[j] ELSE todo[d][j - Len(steps) + 1]
  BY ProceedQueue DEF TypeInv, TypeOK
<1>2. /\ e \in Dispatchers /\ i \in DOMAIN todo'[e]
      /\ todo'[e][i].op \in {"dispatch", "emit"} /\ todo'[e][i].item = m
  BY DEF IsCarried
<1>3. /\ i \in Int /\ Len(steps) \in Nat /\ DOMAIN todo[d] = 1 .. Len(todo[d]) /\ Len(todo[d]) \in Nat
  BY <1>1, <1>2, LenProperties DEF TypeInv, TypeOK
<1>4. CASE e # d
  BY <1>1, <1>2, <1>3, <1>4 DEF IsCarried
<1>5. CASE e = d /\ i <= Len(steps)
  BY <1>1, <1>2, <1>3, <1>5
<1>6. CASE e = d /\ ~(i <= Len(steps))
  <2>1. /\ i - Len(steps) + 1 \in DOMAIN todo[d] /\ todo'[d][i] = todo[d][i - Len(steps) + 1]
        /\ i - Len(steps) + 1 = i + (1 - Len(steps)) /\ i + (1 - Len(steps)) # 1
    BY <1>1, <1>2, <1>3, <1>6
  <2> QED  BY <1>2, <1>3, <1>6, <2>1 DEF IsCarried
<1> QED  BY <1>3, <1>4, <1>5, <1>6

-----------------------------------------------------------------------------
(* Messages: the transport and the handlers.                               *)

\* No queue and no table of messages changes.
LEMMA QuietOnce ==
  ASSUME OnceInv, TypeInv', UNCHANGED <<line, notifications, requests, todo, known>>,
         server'.sent = server.sent, hub'.early = hub.early,
         \A s \in Streams : stream'[s].items = stream[s].items
  PROVE  SentOnce'
<1> SUFFICES ASSUME NEW m \in Message PROVE IsOnce(m)'
  BY DEF SentOnce
<1>1. IsOnce(m)
  BY DEF OnceInv, SentOnce
<1>2. ASSUME NEW k, NEW a, NEW i, Lies(m, k, a, i)' PROVE Lies(m, k, a, i)
  BY <1>2 DEF Lies, InClient, IsKept, IsCarried, IsStreamed
<1> QED  BY <1>1, <1>2, NothingMoves

\* What is read is handed over, or lost.
LEMMA ReadLoopOnce ==
  ASSUME OnceInv, TypeInv', ReadLoop, UNCHANGED <<hub, stream, todo, handler, known>>
  PROVE  SentOnce'
<1> SUFFICES ASSUME NEW m \in Message PROVE IsOnce(m)'
  BY DEF SentOnce
<1>1. /\ IsOnce(m) /\ server' = server /\ line' = None /\ line # None /\ line \in Message \cup Answer
      /\ notifications \in Seq(Message) /\ requests \in Seq(Message)
  BY DEF OnceInv, SentOnce, ReadLoop, TypeInv, TypeOK, ClientTypeOK
<1>2. ASSUME NEW k, NEW a, NEW i, k # "client", Lies(m, k, a, i)' PROVE Lies(m, k, a, i)
  BY <1>2 DEF Lies, IsKept, IsCarried, IsStreamed
<1>3. CASE Deliver \/ Abandon
  <2>1. UNCHANGED <<notifications, requests>>
    BY <1>3 DEF Deliver, Abandon
  <2>2. ASSUME NEW k, NEW a, NEW i, Lies(m, k, a, i)' PROVE Lies(m, k, a, i)
    <3>1. CASE k # "client"
      BY <1>2, <2>2, <3>1
    <3>2. CASE k = "client"
      BY <1>1, <2>1, <2>2, <3>2 DEF Lies, InClient
    <3> QED  BY <3>1, <3>2
  <2> QED  BY <1>1, <2>2, NothingMoves
<1>4. CASE HandOverRequest
  <2>1. /\ line \in Message /\ requests' = Append(requests, line) /\ notifications' = notifications
    BY <1>1, <1>4 DEF HandOverRequest, Answer
  <2>2. ASSUME NEW a, NEW i, InClient(m, a, i)'
        PROVE  \/ a # "line" /\ InClient(m, a, i)
               \/ a = "requests" /\ i = Len(requests) + 1 /\ InClient(m, "line", 0)
    <3>1. CASE a = "requests"
      <4>1. i \in DOMAIN requests' /\ requests'[i] = m
        BY <2>2, <3>1 DEF InClient
      <4>2. /\ i \in DOMAIN requests \cup {Len(requests) + 1}
            /\ requests'[i] = IF i \in DOMAIN requests THEN requests[i] ELSE line
        BY <1>1, <2>1, <4>1, QueueGrows
      <4> QED  BY <1>1, <3>1, <4>1, <4>2 DEF InClient
    <3>2. CASE a # "requests"
      BY <1>1, <2>1, <2>2, <3>2 DEF InClient
    <3> QED  BY <3>1, <3>2
  <2>3. MovesOne(m, "client", "line", 0, 0, "client", "requests", Len(requests) + 1)
    <3> SUFFICES ASSUME NEW k, NEW a, NEW i, Lies(m, k, a, i)'
                 PROVE  \/ (k # "client" \/ a # "line") /\ Lies(m, k, a, i)
                        \/ /\ k = "client" /\ a = "requests" /\ i = Len(requests) + 1
                           /\ Lies(m, "client", "line", 0)
      BY <1>1 DEF MovesOne
    <3>1. CASE k # "client"
      BY <1>2, <3>1
    <3>2. CASE k = "client"
      BY <2>2, <3>2 DEF Lies
    <3> QED  BY <3>1, <3>2
  <2> QED  BY <1>1, <2>3, OneMoves
<1>5. CASE HandOverNotification
  <2>1. /\ line \in Message /\ notifications' = Append(notifications, line) /\ requests' = requests
    BY <1>1, <1>5 DEF HandOverNotification, Answer, NoteKinds
  <2>2. ASSUME NEW a, NEW i, InClient(m, a, i)'
        PROVE  \/ a # "line" /\ InClient(m, a, i)
               \/ a = "notifications" /\ i = Len(notifications) + 1 /\ InClient(m, "line", 0)
    <3>1. CASE a = "notifications"
      <4>1. i \in DOMAIN notifications' /\ notifications'[i] = m
        BY <2>2, <3>1 DEF InClient
      <4>2. /\ i \in DOMAIN notifications \cup {Len(notifications) + 1}
            /\ notifications'[i] = IF i \in DOMAIN notifications THEN notifications[i] ELSE line
        BY <1>1, <2>1, <4>1, QueueGrows
      <4> QED  BY <1>1, <3>1, <4>1, <4>2 DEF InClient
    <3>2. CASE a # "notifications"
      BY <1>1, <2>1, <2>2, <3>2 DEF InClient
    <3> QED  BY <3>1, <3>2
  <2>3. MovesOne(m, "client", "line", 0, 0, "client", "notifications", Len(notifications) + 1)
    <3> SUFFICES ASSUME NEW k, NEW a, NEW i, Lies(m, k, a, i)'
                 PROVE  \/ (k # "client" \/ a # "line") /\ Lies(m, k, a, i)
                        \/ /\ k = "client" /\ a = "notifications" /\ i = Len(notifications) + 1
                           /\ Lies(m, "client", "line", 0)
      BY <1>1 DEF MovesOne
    <3>1. CASE k # "client"
      BY <1>2, <3>1
    <3>2. CASE k = "client"
      BY <2>2, <3>2 DEF Lies
    <3> QED  BY <3>1, <3>2
  <2> QED  BY <1>1, <2>3, OneMoves
<1> QED  BY <1>3, <1>4, <1>5 DEF ReadLoop

\* The server numbers the messages of a turn: what it sends is nowhere yet.
LEMMA AppServerOnce ==
  ASSUME OnceInv, TypeInv', AppServer, UNCHANGED <<hub, stream, todo, handler, known>>
  PROVE  SentOnce'
<1> SUFFICES ASSUME NEW m \in Message PROVE IsOnce(m)'
  BY DEF SentOnce
<1>1. /\ IsOnce(m) /\ UNCHANGED <<notifications, requests>>
      /\ server \in [calls : [CallIds -> {"none", "resume", "start", "other"} \cup Turns],
                     turns : [Turns -> {"new", "running", "waiting", "over"}],
                     sent : [Turns -> 0 .. MaxMessages]]
  BY DEF OnceInv, SentOnce, AppServer, TypeInv, TypeOK, ClientTypeOK
<1>2. ASSUME NEW k, NEW a, NEW i, Lies(m, k, a, i)'
      PROVE  Lies(m, k, a, i) \/ (k = "client" /\ a = "line" /\ i = 0 /\ line' = m)
  BY <1>1, <1>2 DEF Lies, InClient, IsKept, IsCarried, IsStreamed
<1>3. ASSUME NEW id \in CallIds,
             Answers(id) \/ \E t \in Turns : StartsTurn(id, t)
      PROVE  IsOnce(m)'
  <2>1. server'.sent = server.sent
    BY <1>1, <1>3 DEF Answers, StartsTurn
  <2>2. line' = line \/ line'.kind \in {"answer", "error"}
    <3>1. \A kind, t : Msg(kind, t, id).kind = kind
      BY DEF Msg
    <3> QED  BY <1>3, <3>1 DEF Answers, StartsTurn
  <2>3. m.kind \notin {"answer", "error"}
    BY DEF Message, NoteKinds
  <2>4. \A k, a, i : Lies(m, k, a, i)' => Lies(m, k, a, i)
    <3>1. line' # line => line' # m
      BY <2>2, <2>3
    <3>2. ASSUME NEW k, NEW a, NEW i, Lies(m, k, a, i)', k = "client", a = "line", i = 0, line' = m
          PROVE  Lies(m, k, a, i)
      BY <3>1, <3>2 DEF Lies, InClient
    <3> QED  BY <1>2, <3>2
  <2> QED  BY <1>1, <2>1, <2>4, NothingMoves
<1>4. ASSUME NEW t \in Turns, NEW kind \in NoteKinds \cup {"ask"}, Tells(t, kind)
      PROVE  IsOnce(m)'
  <2>1. /\ line = None /\ line' = Msg(kind, t, server.sent[t] + 1)
        /\ server'.sent = [server.sent EXCEPT ![t] = @ + 1]
    BY <1>1, <1>4 DEF Tells
  <2>2. m.turn \in Turns /\ server.sent[m.turn] \in Nat /\ m.n \in Nat /\ server.sent[t] \in Nat
    BY <1>1, Numbers DEF Message
  <2>3. CASE line' = m
    <3>1. m.turn = t /\ m.n = server.sent[t] + 1
      BY <2>1, <2>3 DEF Msg
    <3>2. ~(m.n <= server.sent[m.turn]) /\ server'.sent[m.turn] = m.n
      BY <1>1, <2>1, <2>2, <3>1
    <3>3. \A k, a, i : ~Lies(m, k, a, i)
      BY <1>1, <3>2 DEF IsOnce
    <3>4. \A k, a, i : Lies(m, k, a, i)' => k = "client" /\ a = "line" /\ i = 0
      BY <1>2, <3>3
    <3>5. m.n <= server'.sent[m.turn]
      BY <2>2, <3>2
    <3> QED  BY <3>4, <3>5 DEF IsOnce
  <2>4. CASE line' # m
    <3>1. \A k, a, i : Lies(m, k, a, i)' => Lies(m, k, a, i)
      BY <1>2, <2>4
    <3>2. server.sent[m.turn] <= server'.sent[m.turn] /\ server'.sent[m.turn] \in Nat
      BY <1>1, <2>1, <2>2
    <3>3. \A k, a, i : Lies(m, k, a, i)' => m.n <= server'.sent[m.turn]
      <4>1. \A k, a, i : Lies(m, k, a, i) => m.n <= server.sent[m.turn]
        BY <1>1 DEF IsOnce
      <4> QED  BY <2>2, <3>1, <3>2, <4>1
    <3> QED  BY <1>1, <3>1, <3>3 DEF IsOnce
  <2> QED  BY <2>3, <2>4
<1> QED  BY <1>3, <1>4 DEF AppServer

-----------------------------------------------------------------------------
(* Messages: the dispatchers and the readers.                              *)

\* A dispatcher takes a step: what it carried moves to one place, or is dropped.
Takes(d, steps, m, k1, a1, i1) ==
  /\ todo[d] # <<>> /\ Proceed(d, steps)
  /\ server'.sent = server.sent /\ UNCHANGED <<line, notifications, requests, known>>
  /\ \A i \in 1 .. Len(steps) :
       steps[i].op \in {"dispatch", "emit"} /\ steps[i].item = m =>
         k1 = "todo" /\ a1 = d /\ i1 = i /\ IsCarried(m, d, 1)
  /\ \A a, i : IsKept(m, a, i)' =>
       IsKept(m, a, i) \/ (k1 = "kept" /\ a1 = a /\ i1 = i /\ IsCarried(m, d, 1))
  /\ \A a, i : IsStreamed(m, a, i)' =>
       IsStreamed(m, a, i) \/ (k1 = "stream" /\ a1 = a /\ i1 = i /\ IsCarried(m, d, 1))

LEMMA StepMoves ==
  ASSUME OnceInv, NEW d \in Dispatchers, NEW steps \in Seq(Steps), NEW m \in Message,
         NEW k1, NEW a1, NEW i1, Takes(d, steps, m, k1, a1, i1)
  PROVE  IsOnce(m)'
<1> USE DEF Takes
<1> DEFINE c == 1 - Len(steps)
<1>1. TypeInv /\ IsOnce(m) /\ c \in Int
  BY LenProperties DEF OnceInv, SentOnce
<1>2. MovesOne(m, "todo", d, 1, c, k1, a1, i1)
  <2> SUFFICES ASSUME NEW k, NEW a, NEW i, Lies(m, k, a, i)'
               PROVE  \/ (k # "todo" \/ a # d) /\ Lies(m, k, a, i)
                      \/ k = "todo" /\ a = d /\ i \in Int /\ i + c # 1 /\ Lies(m, "todo", d, i + c)
                      \/ k = k1 /\ a = a1 /\ i = i1 /\ Lies(m, "todo", d, 1)
    BY DEF MovesOne
  <2>1. CASE k = "client"
    BY <2>1 DEF Lies, InClient
  <2>2. CASE k = "kept"
    BY <2>2 DEF Lies
  <2>3. CASE k = "stream"
    BY <2>3 DEF Lies
  <2>4. CASE k = "todo"
    <3>1. IsCarried(m, a, i)'
      BY <2>4 DEF Lies
    <3>2. /\ i \in Int
          /\ \/ a # d /\ IsCarried(m, a, i)
             \/ a = d /\ i + c # 1 /\ IsCarried(m, d, i + c)
             \/ a = d /\ i \in 1 .. Len(steps) /\ steps[i].op \in {"dispatch", "emit"}
                /\ steps[i].item = m
      BY <1>1, <3>1, CarriesOn
    <3> HIDE DEF c
    <3> QED  BY <2>4, <3>2 DEF Lies
  <2> QED  BY <2>1, <2>2, <2>3, <2>4 DEF Lies
<1> HIDE DEF c
<1> QED  BY <1>1, <1>2, OneMoves

\* A message is dispatched: it is kept, or written to the stream of its turn.
LEMMA DispatchOnce ==
  ASSUME OnceInv, NEW d \in Dispatchers, Dispatch(d)
  PROVE  SentOnce'
<1> DEFINE n == Current(d).item
           s == hub.streams[n.turn]
<1> SUFFICES ASSUME NEW m \in Message PROVE IsOnce(m)'
  BY DEF SentOnce
<1>1. /\ TypeInv /\ todo[d] # <<>> /\ n \in Message /\ n.turn \in Turns
      /\ UNCHANGED <<line, notifications, requests, server, stream, known>>
  BY CurrentType DEF OnceInv, Dispatch, transport, wire
<1>2. m = n => IsCarried(m, d, 1)
  BY CurrentType DEF OnceInv, Dispatch, IsCarried
<1>3. \A a, i : IsStreamed(m, a, i)' => IsStreamed(m, a, i)
  BY <1>1 DEF IsStreamed
<1>4. CASE s = 0
  <2>1. hub' = Keep(n) /\ Proceed(d, <<>>)
    BY <1>4 DEF Dispatch
  <2>2. <<>> \in Seq(Steps) /\ 1 .. Len(<<>>) = {}
    BY FewSteps
  <2>3. ASSUME NEW a, NEW i, IsKept(m, a, i)'
        PROVE  \/ IsKept(m, a, i)
               \/ n.turn = a /\ Len(hub.early[n.turn]) + 1 = i /\ IsCarried(m, d, 1)
    <3> HIDE DEF n
    <3>1. CASE hub' = [hub EXCEPT !.early[n.turn] = Append(@, n)]
      <4>1. hub.early \in [Turns -> Seq(Message)] /\ hub \in Hubs
        BY <1>1 DEF TypeInv, TypeOK, Hubs
      <4>2. hub'.early = [hub.early EXCEPT ![n.turn] = Append(@, n)]
        BY <3>1, <4>1 DEF Hubs
      <4>3. CASE a = n.turn
        <5>1. /\ i \in DOMAIN Append(hub.early[a], n) /\ Append(hub.early[a], n)[i] = m
              /\ hub.early[a] \in Seq(Message)
          BY <1>1, <2>3, <4>1, <4>2, <4>3 DEF IsKept
        <5>2. /\ i \in DOMAIN hub.early[a] \cup {Len(hub.early[a]) + 1}
              /\ Append(hub.early[a], n)[i] = IF i \in DOMAIN hub.early[a] THEN hub.early[a][i] ELSE n
          BY <1>1, <5>1, QueueGrows
        <5> QED  BY <1>1, <1>2, <4>3, <5>1, <5>2 DEF IsKept
      <4>4. CASE a # n.turn
        BY <2>3, <4>1, <4>2, <4>4 DEF IsKept
      <4> QED  BY <4>3, <4>4
    <3>2. CASE hub' = hub
      BY <2>3, <3>2 DEF IsKept
    <3> QED  BY <2>1, <3>1, <3>2 DEF Keep
  <2> DEFINE i1 == Len(hub.early[n.turn]) + 1
             a1 == n.turn
  <2>4. \A a, i : IsKept(m, a, i)' => IsKept(m, a, i) \/ (a1 = a /\ i1 = i /\ IsCarried(m, d, 1))
    BY <2>3
  <2>5. server'.sent = server.sent /\ UNCHANGED <<line, notifications, requests, known>>
    BY <1>1
  <2> HIDE DEF n, i1, a1
  <2>6. Takes(d, <<>>, m, "kept", a1, i1)
    BY <1>1, <1>3, <2>1, <2>2, <2>4, <2>5 DEF Takes
  <2> QED  BY <2>2, <2>6, StepMoves
<1>5. CASE s # 0
  <2>1. hub' = hub /\ Proceed(d, Projected(n, s))
    BY <1>5 DEF Dispatch
  <2>2. s \in Streams /\ n \in Item
    BY <1>1, <1>5, Numbers, MessageIsItem DEF TypeInv, TypeOK, Hubs, Streams
  <2>3. Step("emit", s, n) \in Steps /\ Step("remove", s, n) \in Steps /\ Step("end", s, n) \in Steps
    BY <2>2 DEF Step, Steps
  <2> DEFINE steps == Projected(n, s)
  <2>4. /\ steps \in Seq(Steps)
        /\ \A i \in 1 .. Len(steps) : /\ steps[i].item = n
                                      /\ steps[i].op \in {"dispatch", "emit"} => i = 1
    BY <2>3, FewSteps DEF Projected, Step
  <2>5. \A a, i : IsKept(m, a, i)' => IsKept(m, a, i)
    BY <2>1 DEF IsKept
  <2>6. \A i \in 1 .. Len(steps) : steps[i].op \in {"dispatch", "emit"} /\ steps[i].item = m =>
          1 = i /\ IsCarried(m, d, 1)
    BY <1>2, <2>4
  <2>7. server'.sent = server.sent /\ UNCHANGED <<line, notifications, requests, known>>
        /\ Proceed(d, steps)
    BY <1>1, <2>1
  <2> HIDE DEF n, s, steps
  <2>8. Takes(d, steps, m, "todo", d, 1)
    BY <1>1, <1>3, <2>5, <2>6, <2>7 DEF Takes
  <2> QED  BY <2>4, <2>8, StepMoves
<1> QED  BY <1>4, <1>5

\* What is dispatched is written to the stream, or dropped if its reader has gone; what is removed
\* takes what was kept with it; and an end is no message.
LEMMA WorkOnce ==
  ASSUME OnceInv, NEW d \in Dispatchers, Emit(d) \/ RemoveStream(d) \/ EndStream(d)
  PROVE  SentOnce'
<1> DEFINE n == Current(d).item
           s == Current(d).stream
<1> SUFFICES ASSUME NEW m \in Message PROVE IsOnce(m)'
  BY DEF SentOnce
<1>1. /\ TypeInv /\ todo[d] # <<>> /\ s \in Streams /\ n \in Item /\ n.turn \in Turns
      /\ Proceed(d, <<>>) /\ <<>> \in Seq(Steps) /\ 1 .. Len(<<>>) = {}
      /\ UNCHANGED <<line, notifications, requests, server, known>>
  BY CurrentType, FewSteps DEF OnceInv, Emit, RemoveStream, EndStream, transport, wire
<1>2. \A r \in Streams : stream[r] \in StreamStates /\ stream[r].items \in Seq(Item)
  BY <1>1 DEF TypeInv, TypeOK, StreamStates
<1>3. stream \in [Streams -> StreamStates]
  BY <1>1 DEF TypeInv, TypeOK
<1>4. ASSUME NEW item \in Item,
             \A r \in Streams : stream'[r].items = IF r = s THEN Append(stream[r].items, item)
                                                            ELSE stream[r].items,
             NEW a, NEW i, IsStreamed(m, a, i)'
      PROVE  IsStreamed(m, a, i) \/ (s = a /\ Len(stream[s].items) + 1 = i /\ item = m)
  <2>1. a \in Streams /\ i \in DOMAIN stream'[a].items /\ stream'[a].items[i] = m
    BY <1>4 DEF IsStreamed
  <2>2. CASE a = s
    <3>1. i \in DOMAIN Append(stream[a].items, item) /\ Append(stream[a].items, item)[i] = m
      BY <1>4, <2>1, <2>2
    <3>2. /\ i \in DOMAIN stream[a].items \cup {Len(stream[a].items) + 1}
          /\ Append(stream[a].items, item)[i]
               = IF i \in DOMAIN stream[a].items THEN stream[a].items[i] ELSE item
      BY <1>2, <2>1, <3>1, QueueGrows
    <3> QED  BY <2>1, <2>2, <3>1, <3>2 DEF IsStreamed
  <2>3. CASE a # s
    BY <1>4, <2>1, <2>3 DEF IsStreamed
  <2> QED  BY <2>2, <2>3
<1>5. CASE Emit(d)
  <2>1. /\ m = n => IsCarried(m, d, 1)
        /\ hub' = hub /\ Offer(s, n)
    BY <1>5, CurrentType DEF OnceInv, Emit, IsCarried
  <2>2. \A a, i : IsKept(m, a, i)' => IsKept(m, a, i)
    BY <2>1 DEF IsKept
  <2>3. \A a, i : IsStreamed(m, a, i)' =>
          IsStreamed(m, a, i) \/ (s = a /\ Len(stream[s].items) + 1 = i /\ IsCarried(m, d, 1))
    <3>1. CASE UNCHANGED stream
      BY <3>1 DEF IsStreamed
    <3>2. CASE stream' = [stream EXCEPT ![s].items = Append(@, n)]
      <4>1. \A r \in Streams : stream'[r].items = IF r = s THEN Append(stream[r].items, n)
                                                           ELSE stream[r].items
        BY <1>1, <1>3, <3>2 DEF StreamStates
      <4> HIDE DEF n, s
      <4> QED  BY <1>1, <1>4, <2>1, <4>1
    <3> QED  BY <2>1, <3>1, <3>2 DEF Offer
  <2> DEFINE i1 == Len(stream[s].items) + 1
  <2> HIDE DEF n
  <2>4. Takes(d, <<>>, m, "stream", s, i1)
    BY <1>1, <2>2, <2>3 DEF Takes
  <2> HIDE DEF s, i1
  <2> QED  BY <1>1, <2>4, StepMoves
<1>6. CASE RemoveStream(d)
  <2>1. \A t \in Turns : hub'.early[t] \in {hub.early[t], <<>>}
    BY <1>1, <1>6 DEF RemoveStream, TypeInv, TypeOK, Hubs
  <2>2. \A a, i : IsKept(m, a, i)' => IsKept(m, a, i)
    BY <2>1 DEF IsKept
  <2>3. \A a, i : IsStreamed(m, a, i)' => IsStreamed(m, a, i)
    BY <1>6 DEF RemoveStream, IsStreamed
  <2>4. Takes(d, <<>>, m, "none", 0, 0)
    BY <1>1, <2>2, <2>3 DEF Takes
  <2> QED  BY <1>1, <2>4, StepMoves
<1>7. CASE EndStream(d)
  <2> DEFINE eof == [kind |-> "eof", turn |-> stream[s].turn, n |-> 0]
  <2>1. hub' = hub /\ eof # m /\ eof \in Item
    <3>1. stream[s].turn \in Turns
      BY <1>7, CurrentType DEF OnceInv, EndStream
    <3>2. m.kind # "eof" /\ eof.kind = "eof"
      BY DEF Message, NoteKinds
    <3>3. eof \in Item
      BY <3>1 DEF Item
    <3> QED  BY <1>7, <3>2, <3>3 DEF EndStream
  <2>2. \A a, i : IsKept(m, a, i)' => IsKept(m, a, i)
    BY <2>1 DEF IsKept
  <2>3. \A a, i : IsStreamed(m, a, i)' => IsStreamed(m, a, i)
    <3>1. CASE UNCHANGED stream
      BY <3>1 DEF IsStreamed
    <3>2. CASE stream' = [stream EXCEPT ![s].ended = TRUE]
      BY <1>1, <1>3, <3>2 DEF IsStreamed, StreamStates
    <3>3. CASE stream' = [stream EXCEPT ![s].items = Append(@, eof), ![s].ended = TRUE]
      <4> DEFINE items == Append(stream[s].items, eof)
      <4>1. \A r \in Streams : stream'[r].items = IF r = s THEN items ELSE stream[r].items
        <5> HIDE DEF items
        <5>1. stream' = [stream EXCEPT ![s].items = items, ![s].ended = TRUE]
          BY <3>3 DEF items
        <5> QED  BY <1>1, <1>3, <5>1 DEF StreamStates
      <4>2. \A r \in Streams : stream'[r].items = IF r = s THEN Append(stream[r].items, eof)
                                                           ELSE stream[r].items
        BY <4>1
      <4> HIDE DEF eof, items, s, n
      <4> QED  BY <1>4, <2>1, <4>2
    <3> QED  BY <1>7, <3>1, <3>2, <3>3 DEF EndStream
  <2> HIDE DEF eof, s, n
  <2>4. Takes(d, <<>>, m, "none", 0, 0)
    BY <1>1, <2>2, <2>3 DEF Takes
  <2> QED  BY <1>1, <2>4, StepMoves
<1> QED  BY <1>5, <1>6, <1>7

\* A handler tells a decision or fails, and takes its stream out: no message moves.
LEMMA HandlerStepOnce ==
  ASSUME OnceInv, NEW h \in Handlers, Reply(h) \/ DetachFailed(h)
  PROVE  SentOnce'
<1> SUFFICES ASSUME NEW m \in Message PROVE IsOnce(m)'
  BY DEF SentOnce
<1>1. h \in Dispatchers /\ TypeInv /\ todo[h] # <<>>
  BY Numbers DEF OnceInv, Reply, DetachFailed, Does
<1>2. UNCHANGED <<line, notifications, requests, stream, known>> /\ server'.sent = server.sent
  <2>1. CASE Reply(h)
    BY <1>1, <2>1 DEF Reply, Decline, wire, TypeInv, TypeOK, ClientTypeOK
  <2>2. CASE DetachFailed(h)
    BY <2>2 DEF DetachFailed, transport, wire
  <2> QED  BY <2>1, <2>2
<1>3. \A a, i : IsStreamed(m, a, i)' => IsStreamed(m, a, i)
  BY <1>2 DEF IsStreamed
<1>4. \A a, i : IsKept(m, a, i)' => IsKept(m, a, i)
  <2>1. hub'.early = hub.early
    BY <1>1 DEF Reply, DetachFailed, Detached, TypeInv, TypeOK, Hubs
  <2> QED  BY <2>1 DEF IsKept
<1>5. PICK steps \in Seq(Steps) :
        Proceed(h, steps) /\ \A i \in 1 .. Len(steps) : steps[i].op \notin {"dispatch", "emit"}
  <2>1. CASE Proceed(h, <<>>)
    <3>1. <<>> \in Seq(Steps) /\ 1 .. Len(<<>>) = {}
      BY FewSteps
    <3> QED  BY <2>1, <3>1
  <2> DEFINE n == Current(h).item
             s == Current(h).stream
             steps == <<Step("detach", s, n), Step("end", s, n)>>
  <2>2. CASE Reply(h) /\ Proceed(h, steps)
    <3>1. s \in Streams /\ n \in Item
      BY <1>1, <2>2, CurrentType DEF Reply
    <3>2. Step("detach", s, n) \in Steps /\ Step("end", s, n) \in Steps
      BY <3>1 DEF Step, Steps
    <3>3. steps \in Seq(Steps) /\ \A i \in 1 .. Len(steps) : steps[i].op \notin {"dispatch", "emit"}
      BY <3>2, FewSteps DEF Step
    <3> QED  BY <2>2, <3>3
  <2> QED  BY <2>1, <2>2 DEF Reply, DetachFailed
<1>6. Takes(h, steps, m, "none", 0, 0)
  BY <1>1, <1>2, <1>3, <1>4, <1>5 DEF Takes
<1> QED  BY <1>1, <1>6, StepMoves

\* What was kept for a turn moves to the handler that registers a stream for it.
LEMMA SubscribeOnce ==
  ASSUME OnceInv, NEW h \in Handlers, Subscribe(h)
  PROVE  SentOnce'
<1> DEFINE t == handler[h].turn
           queue == hub.early[t]
<1> SUFFICES ASSUME NEW m \in Message PROVE IsOnce(m)'
  BY DEF SentOnce
<1>1. PICK s \in Streams :
        /\ hub' = Entered(t, s) /\ stream' = [stream EXCEPT ![s].turn = t]
        /\ todo' = [todo EXCEPT ![h] = Dispatches(queue) \o Decide(h, s)]
  BY DEF Subscribe
<1>2. /\ TypeInv /\ h \in Dispatchers /\ t \in Turns /\ todo[h] = <<>>
      /\ UNCHANGED <<line, notifications, requests, server, known>>
  BY Numbers DEF Subscribe, OnceInv, TypeInv, HandlersFit, Opened, transport, wire
<1> DEFINE steps == Dispatches(queue) \o Decide(h, s)
<1>3. /\ DOMAIN queue = 1 .. Len(queue) /\ Len(queue) \in Nat
      /\ DOMAIN steps = 1 .. Len(steps) /\ Len(steps) \in Nat
      /\ \A i \in 1 .. Len(queue) : steps[i] = Step("dispatch", 0, queue[i])
      /\ \A i \in DOMAIN steps : i > Len(queue) =>
           steps[i].item = [kind |-> "resolved", turn |-> t, n |-> 0]
  <2>1. Replays(steps, queue, h, s)
    BY <1>2, ReplaySteps
  <2> HIDE DEF steps, queue
  <2> QED  BY <2>1 DEF Replays
<1>4. todo'[h] = steps /\ \A d \in Dispatchers : d # h => todo'[d] = todo[d]
  BY <1>1, <1>2 DEF TypeInv, TypeOK
<1>5. hub'.early[t] = <<>> /\ \A u \in Turns : u # t => hub'.early[u] = hub.early[u]
  BY <1>1, <1>2 DEF Entered, TypeInv, TypeOK, Hubs
<1>6. \A r \in Streams : stream'[r].items = stream[r].items
  BY <1>1, <1>2 DEF TypeInv, TypeOK, StreamStates
<1>7. ASSUME NEW i \in DOMAIN steps, steps[i].item = m PROVE Lies(m, "kept", t, i)
  <2>1. m # [kind |-> "resolved", turn |-> t, n |-> 0]
    <3>1. m.kind # "resolved" /\ [kind |-> "resolved", turn |-> t, n |-> 0].kind = "resolved"
      BY DEF Message, NoteKinds
    <3> QED  BY <3>1
  <2> HIDE DEF steps, t, queue
  <2>2. i \in 1 .. Len(queue) /\ steps[i] = Step("dispatch", 0, queue[i])
    BY <1>3, <1>7, <2>1
  <2>3. queue[i] = m
    BY <1>7, <2>2 DEF Step
  <2> QED  BY <1>2, <1>3, <2>2, <2>3 DEF Lies, IsKept, queue
<1> HIDE DEF steps, queue, t
<1>8. ASSUME NEW k, NEW a, NEW i, Lies(m, k, a, i)'
      PROVE  \/ (k # "kept" \/ a # t) /\ Lies(m, k, a, i)
             \/ k = "todo" /\ a = h /\ Lies(m, "kept", t, i)
  <2>1. CASE k = "client"
    BY <1>2, <1>8, <2>1 DEF Lies, InClient
  <2>2. CASE k = "kept"
    <3>1. a \in Turns /\ i \in DOMAIN hub'.early[a] /\ hub'.early[a][i] = m
      BY <1>8, <2>2 DEF Lies, IsKept
    <3>2. a # t
      BY <1>5, <3>1
    <3> QED  BY <1>5, <2>2, <3>1, <3>2 DEF Lies, IsKept
  <2>3. CASE k = "todo"
    <3>1. a \in Dispatchers /\ i \in DOMAIN todo'[a] /\ todo'[a][i].item = m
          /\ todo'[a][i].op \in {"dispatch", "emit"}
      BY <1>8, <2>3 DEF Lies, IsCarried
    <3> QED  BY <1>4, <1>7, <2>3, <3>1 DEF Lies, IsCarried
  <2>4. CASE k = "stream"
    BY <1>6, <1>8, <2>4 DEF Lies, IsStreamed
  <2> QED  BY <1>8, <2>1, <2>2, <2>3, <2>4 DEF Lies
<1>9. /\ \A k, a, i, l, b, j : Lies(m, k, a, i) /\ Lies(m, l, b, j) => k = l /\ a = b /\ i = j
      /\ \A k, a, i : Lies(m, k, a, i) => m.n <= server'.sent[m.turn]
  BY <1>2 DEF OnceInv, SentOnce, IsOnce
<1>10. \A k, a, i : Lies(m, k, a, i)' => m.n <= server'.sent[m.turn]
  BY <1>8, <1>9
<1>11. ASSUME NEW k, NEW a, NEW i, NEW l, NEW b, NEW j, Lies(m, k, a, i)', Lies(m, l, b, j)'
       PROVE  k = l /\ a = b /\ i = j
  <2>1. /\ \/ (k # "kept" \/ a # t) /\ Lies(m, k, a, i)
           \/ k = "todo" /\ a = h /\ Lies(m, "kept", t, i)
        /\ \/ (l # "kept" \/ b # t) /\ Lies(m, l, b, j)
           \/ l = "todo" /\ b = h /\ Lies(m, "kept", t, j)
    BY <1>8, <1>11
  <2> QED  BY <1>9, <2>1
<1> QED  BY <1>10, <1>11 DEF IsOnce

\* A reader takes what its stream holds first: a request is known from then on, what else it is
\* is gone.
LEMMA ReadOnce ==
  ASSUME OnceInv, NEW h \in Handlers, Read(h)
  PROVE  SentOnce'
<1> DEFINE s == handler[h].stream
           queue == stream[s].items
<1> SUFFICES ASSUME NEW m \in Message PROVE IsOnce(m)'
  BY DEF SentOnce
<1>1. /\ TypeInv /\ IsOnce(m) /\ s \in Streams /\ queue \in Seq(Item) /\ queue # <<>>
      /\ stream' = [stream EXCEPT ![s].items = Tail(@)]
      /\ known' = IF Head(queue).kind = "ask" THEN known \cup {Head(queue)} ELSE known
      /\ UNCHANGED <<line, notifications, requests, server, hub, todo>>
  BY DEF Read, Reads, OnceInv, SentOnce, TypeInv, TypeOK, HandlersFit, Opened, StreamStates,
         transport, wire
<1>2. /\ Head(queue) = queue[1] /\ 1 \in DOMAIN queue /\ Tail(queue) \in Seq(Item)
      /\ \A i \in DOMAIN Tail(queue) : i + 1 \in DOMAIN queue /\ Tail(queue)[i] = queue[i + 1]
      /\ \A i \in DOMAIN Tail(queue) : i \in Nat /\ i >= 1
  <2>1. \A i \in DOMAIN Tail(queue) : i \in Nat /\ i >= 1
    BY <1>1, QueueShrinks, LenProperties
  <2> QED  BY <1>1, <2>1, QueueShrinks
<1>3. stream'[s].items = Tail(queue) /\ \A r \in Streams : r # s => stream'[r] = stream[r]
  BY <1>1 DEF TypeInv, TypeOK, StreamStates
<1>4. m \in known' => m \in known \/ Lies(m, "stream", s, 1)
  BY <1>1, <1>2 DEF Lies, IsStreamed
<1> HIDE DEF queue, s
<1>5. MovesOne(m, "stream", s, 1, 1, "client", "known", 0)
  <2> SUFFICES ASSUME NEW k, NEW a, NEW i, Lies(m, k, a, i)'
               PROVE  \/ (k # "stream" \/ a # s) /\ Lies(m, k, a, i)
                      \/ k = "stream" /\ a = s /\ i \in Int /\ i + 1 # 1 /\ Lies(m, "stream", s, i + 1)
                      \/ k = "client" /\ a = "known" /\ i = 0 /\ Lies(m, "stream", s, 1)
    BY <1>1 DEF MovesOne
  <2>1. CASE k = "client"
    BY <1>1, <1>4, <2>1 DEF Lies, InClient
  <2>2. CASE k = "kept" \/ k = "todo"
    BY <1>1, <2>2 DEF Lies, IsKept, IsCarried
  <2>3. CASE k = "stream" /\ a # s
    BY <1>3, <2>3 DEF Lies, IsStreamed
  <2>4. CASE k = "stream" /\ a = s
    <3>1. i \in DOMAIN Tail(queue) /\ Tail(queue)[i] = m
      BY <1>3, <2>4 DEF Lies, IsStreamed
    <3>2. i \in Nat /\ i >= 1 /\ i + 1 \in DOMAIN queue /\ queue[i + 1] = m
      BY <1>2, <3>1
    <3>3. IsStreamed(m, s, i + 1)
      BY <1>1, <3>2 DEF IsStreamed, queue
    <3> QED  BY <2>4, <3>2, <3>3 DEF Lies
  <2> QED  BY <2>1, <2>2, <2>3, <2>4 DEF Lies
<1> QED  BY <1>1, <1>5, OneMoves

\* The hub takes what a channel of the client holds first.
LEMMA TakeOnce ==
  ASSUME OnceInv, TakeNotification \/ HandleRequest
  PROVE  SentOnce'
<1> SUFFICES ASSUME NEW m \in Message PROVE IsOnce(m)'
  BY DEF SentOnce
<1>1. /\ TypeInv /\ IsOnce(m) /\ todo[Hub] = <<>> /\ Hub \in Dispatchers
      /\ UNCHANGED <<line, server, stream, known>> /\ hub'.early = hub.early
      /\ notifications \in Seq(Message) /\ requests \in Seq(Message)
  BY Numbers DEF TakeNotification, HandleRequest, HubIsFree, OnceInv, SentOnce, TypeInv, TypeOK,
                 ClientTypeOK, Hubs
<1>2. ASSUME NEW c \in {"notifications", "requests"}, NEW queue \in Seq(Message), queue # <<>>,
             \A i : InClient(m, c, i) <=> i \in DOMAIN queue /\ queue[i] = m,
             \A i : InClient(m, c, i)' <=> i \in DOMAIN Tail(queue) /\ Tail(queue)[i] = m,
             \A a, i : a # c => (InClient(m, a, i)' <=> InClient(m, a, i)),
             todo' = [todo EXCEPT ![Hub] = <<Step("dispatch", 0, Head(queue))>>]
      PROVE  IsOnce(m)'
  <2>1. /\ Head(queue) = queue[1] /\ 1 \in DOMAIN queue /\ Head(queue) \in Message
        /\ \A i \in DOMAIN Tail(queue) : i + 1 \in DOMAIN queue /\ Tail(queue)[i] = queue[i + 1]
        /\ \A i \in DOMAIN Tail(queue) : i \in Nat /\ i >= 1
    <3>1. \A i \in DOMAIN Tail(queue) : i \in Nat /\ i >= 1
      BY <1>2, QueueShrinks, LenProperties
    <3> QED  BY <1>2, <3>1, QueueShrinks
  <2> DEFINE step == Step("dispatch", 0, Head(queue))
  <2>2. step \in Steps /\ step.item = Head(queue)
    BY <2>1 DEF Step, Steps
  <2> HIDE DEF step
  <2>3. DOMAIN <<step>> = {1} /\ <<step>>[1] = step
    OBVIOUS
  <2>4. /\ todo'[Hub] = <<step>> /\ \A d \in Dispatchers : d # Hub => todo'[d] = todo[d]
    BY <1>1, <1>2 DEF step, TypeInv, TypeOK
  <2>5. MovesOne(m, "client", c, 1, 1, "todo", Hub, 1)
    <3> SUFFICES ASSUME NEW k, NEW a, NEW i, Lies(m, k, a, i)'
                 PROVE  \/ (k # "client" \/ a # c) /\ Lies(m, k, a, i)
                        \/ k = "client" /\ a = c /\ i \in Int /\ i + 1 # 1 /\ Lies(m, "client", c, i + 1)
                        \/ k = "todo" /\ a = Hub /\ i = 1 /\ Lies(m, "client", c, 1)
      BY <1>1 DEF MovesOne
    <3>1. CASE k = "client" /\ a # c
      BY <1>2, <3>1 DEF Lies
    <3>2. CASE k = "client" /\ a = c
      <4>1. InClient(m, c, i)'
        BY <3>2 DEF Lies
      <4>2. i \in DOMAIN Tail(queue) /\ Tail(queue)[i] = m
        BY <1>2, <4>1
      <4>3. i \in Nat /\ i >= 1 /\ InClient(m, c, i + 1)
        BY <1>2, <2>1, <4>2
      <4> QED  BY <3>2, <4>3 DEF Lies
    <3>3. CASE k = "kept" \/ k = "stream"
      BY <1>1, <3>3 DEF Lies, IsKept, IsStreamed
    <3>4. CASE k = "todo" /\ a # Hub
      BY <2>4, <3>4 DEF Lies, IsCarried
    <3>5. CASE k = "todo" /\ a = Hub
      <4>1. i \in DOMAIN todo'[Hub] /\ todo'[Hub][i].item = m
        BY <3>5 DEF Lies, IsCarried
      <4>2. i = 1 /\ queue[1] = m
        BY <2>1, <2>2, <2>3, <2>4, <4>1
      <4>3. InClient(m, c, 1)
        BY <1>2, <2>1, <4>2
      <4> QED  BY <3>5, <4>2, <4>3 DEF Lies
    <3> QED  BY <3>1, <3>2, <3>3, <3>4, <3>5 DEF Lies
  <2> QED  BY <1>1, <2>5, OneMoves
<1>3. CASE TakeNotification
  <2>1. /\ notifications # <<>> /\ notifications' = Tail(notifications) /\ requests' = requests
        /\ todo' = [todo EXCEPT ![Hub] = <<Step("dispatch", 0, Head(notifications))>>]
    BY <1>3 DEF TakeNotification
  <2>2. /\ \A i : InClient(m, "notifications", i) <=> i \in DOMAIN notifications /\ notifications[i] = m
        /\ \A i : InClient(m, "notifications", i)'
                    <=> i \in DOMAIN Tail(notifications) /\ Tail(notifications)[i] = m
        /\ \A a, i : a # "notifications" => (InClient(m, a, i)' <=> InClient(m, a, i))
    BY <1>1, <2>1 DEF InClient
  <2> QED  BY <1>1, <1>2, <2>1, <2>2
<1>4. CASE HandleRequest
  <2>1. /\ requests # <<>> /\ requests' = Tail(requests) /\ notifications' = notifications
        /\ todo' = [todo EXCEPT ![Hub] = <<Step("dispatch", 0, Head(requests))>>]
    BY <1>4 DEF HandleRequest
  <2>2. /\ \A i : InClient(m, "requests", i) <=> i \in DOMAIN requests /\ requests[i] = m
        /\ \A i : InClient(m, "requests", i)'
                    <=> i \in DOMAIN Tail(requests) /\ Tail(requests)[i] = m
        /\ \A a, i : a # "requests" => (InClient(m, a, i)' <=> InClient(m, a, i))
    BY <1>1, <2>1 DEF InClient
  <2> QED  BY <1>1, <1>2, <2>1, <2>2
<1> QED  BY <1>3, <1>4

\* When the hub stops, what was kept is gone, and it has none of it to dispatch.
LEMMA StopAllOnce ==
  ASSUME OnceInv, StopAll
  PROVE  SentOnce'
<1> SUFFICES ASSUME NEW m \in Message PROVE IsOnce(m)'
  BY DEF SentOnce
<1>1. PICK order \in Orders(OpenStreams) : todo' = [todo EXCEPT ![Hub] = Farewells(order)]
  BY DEF StopAll, OpenStreams
<1>2. /\ TypeInv /\ IsOnce(m) /\ Hub \in Dispatchers
      /\ UNCHANGED <<line, notifications, requests, server, stream, known>>
      /\ \A t \in Turns : hub'.early[t] = <<>>
  BY Numbers DEF StopAll, OnceInv, SentOnce, TypeInv, TypeOK, Hubs, transport, wire
<1> DEFINE steps == Farewells(order)
<1>3. \A i \in DOMAIN steps : steps[i].item.kind = "stopped"
  BY <1>2, FarewellSteps
<1>4. /\ todo'[Hub] = steps /\ \A d \in Dispatchers : d # Hub => todo'[d] = todo[d]
  BY <1>1, <1>2 DEF TypeInv, TypeOK
<1>5. m.kind # "stopped"
  BY DEF Message, NoteKinds
<1> HIDE DEF steps
<1>6. ASSUME NEW k, NEW a, NEW i, Lies(m, k, a, i)' PROVE Lies(m, k, a, i)
  <2>1. CASE k = "client" \/ k = "stream"
    BY <1>2, <1>6, <2>1 DEF Lies, InClient, IsStreamed
  <2>2. CASE k = "kept"
    BY <1>2, <1>6, <2>2 DEF Lies, IsKept
  <2>3. CASE k = "todo" /\ a # Hub
    BY <1>4, <1>6, <2>3 DEF Lies, IsCarried
  <2>4. CASE k = "todo" /\ a = Hub
    BY <1>3, <1>4, <1>5, <1>6, <2>4 DEF Lies, IsCarried
  <2> QED  BY <1>6, <2>1, <2>2, <2>3, <2>4 DEF Lies
<1> QED  BY <1>2, <1>6, NothingMoves

\* A handler that calls, gives up, checks, resolves or leaves moves no message.
LEMMA HandlerOnce ==
  ASSUME OnceInv, TypeInv', NEW h \in Handlers, Handle(h)
  PROVE  SentOnce'
<1>1. TypeInv
  BY DEF OnceInv
<1>2. CASE \/ StartTurn(h) \/ OtherCall(h) \/ Calling(h) \/ GiveUp(h) \/ Check(h) \/ Conflict(h)
           \/ Fails(h) \/ Leave(h)
  <2>1. UNCHANGED <<line, notifications, requests, hub, stream, todo, known>>
    BY <1>2 DEF StartTurn, OtherCall, Calling, WriteCall, TakeAnswer, GiveUp, Check, Conflict,
                Fails, Leave, transport, wire
  <2>2. server'.sent = server.sent
    BY <1>1, <1>2 DEF StartTurn, OtherCall, Calling, WriteCall, TakeAnswer, GiveUp, Check, Conflict,
                      Fails, Leave, transport, Send, TypeInv, TypeOK, ClientTypeOK
  <2> QED  BY <2>1, <2>2, QuietOnce
<1>3. ASSUME NEW b \in known, ResolveApproval(h, b) PROVE SentOnce'
  <2>1. /\ UNCHANGED <<line, notifications, requests, server, stream, todo, known>>
        /\ hub'.early = hub.early
    BY <1>1, <1>3 DEF ResolveApproval, transport, wire, TypeInv, TypeOK, Hubs
  <2> QED  BY <2>1, QuietOnce
<1>4. CASE DetachClosed(h)
  <2>1. /\ UNCHANGED <<line, notifications, requests, server, stream, todo, known>>
        /\ hub'.early = hub.early
    BY <1>1, <1>4 DEF DetachClosed, Detached, transport, wire, TypeInv, TypeOK, Hubs
  <2> QED  BY <2>1, QuietOnce
<1>5. CASE CloseLocal(h)
  <2>1. /\ UNCHANGED <<line, notifications, requests, server, hub, todo, known>>
        /\ \A s \in Streams : stream'[s].items = stream[s].items
    BY <1>1, <1>5 DEF CloseLocal, transport, wire, TypeInv, TypeOK, StreamStates
  <2> QED  BY <2>1, QuietOnce
<1> QED  BY <1>2, <1>3, <1>4, <1>5, SubscribeOnce, HandlerStepOnce, ReadOnce DEF Handle

LEMMA OnceInit == Init => OnceInv
<1> SUFFICES ASSUME Init PROVE OnceInv
  OBVIOUS
<1>1. DOMAIN <<>> = {}
  OBVIOUS
<1>2. ASSUME NEW m, NEW k, NEW a, NEW i PROVE ~Lies(m, k, a, i)
  <2>1. ~InClient(m, a, i)
    BY <1>1 DEF Init, ClientInit, InClient
  <2>2. ~IsKept(m, a, i) /\ ~IsCarried(m, a, i) /\ ~IsStreamed(m, a, i)
    BY <1>1 DEF Init, IsKept, IsCarried, IsStreamed
  <2> QED  BY <2>1, <2>2 DEF Lies
<1> QED  BY <1>2, TypeInit DEF OnceInv, SentOnce, IsOnce

LEMMA OnceStep == OnceInv /\ [Next]_vars => OnceInv'
<1> SUFFICES ASSUME OnceInv, [Next]_vars PROVE OnceInv'
  OBVIOUS
<1>1. TypeInv /\ TypeInv'
  BY TypeStep DEF OnceInv
<1>2. CASE Transport
  <2>1. CASE CloseWithError
    <3>1. UNCHANGED <<line, notifications, requests, server, hub, stream, todo, known>>
      BY <1>2, <2>1 DEF Transport, CloseWithError, wire
    <3> QED  BY <1>1, <3>1, QuietOnce DEF OnceInv
  <2> QED  BY <1>1, <1>2, <2>1, ReadLoopOnce, AppServerOnce DEF Transport, OnceInv
<1>3. ASSUME NEW h \in Handlers, Handle(h) PROVE OnceInv'
  BY <1>1, <1>3, HandlerOnce DEF OnceInv
<1>4. ASSUME NEW d \in Dispatchers, Dispatch(d) \/ Emit(d) \/ RemoveStream(d) \/ EndStream(d)
      PROVE  OnceInv'
  BY <1>1, <1>4, DispatchOnce, WorkOnce DEF OnceInv
<1>5. CASE TakeNotification \/ HandleRequest \/ StopAll
  BY <1>1, <1>5, TakeOnce, StopAllOnce DEF OnceInv
<1>6. CASE UNCHANGED vars
  <2>1. UNCHANGED <<line, notifications, requests, server, hub, stream, todo, known>>
    BY <1>6 DEF vars, transport, wire
  <2> QED  BY <1>1, <2>1, QuietOnce DEF OnceInv
<1> QED  BY <1>2, <1>3, <1>4, <1>5, <1>6 DEF Next

\* A message is where one of its places says it is.
LEMMA PlacesLie ==
  ASSUME NEW m \in Message, NEW p \in Places(m)
  PROVE  \E k, a, i : p = <<k, a, i>> /\ Lies(m, k, a, i)
<1>1. CASE p \in {<<"client", "notifications", i>> : i \in At(notifications, m)}
  <2>1. PICK i \in At(notifications, m) : p = <<"client", "notifications", i>>
    BY <1>1
  <2>2. Lies(m, "client", "notifications", i)
    BY DEF Lies, InClient, At
  <2> QED  BY <2>1, <2>2
<1>2. CASE p \in {<<"client", "requests", i>> : i \in At(requests, m)}
  <2>1. PICK i \in At(requests, m) : p = <<"client", "requests", i>>
    BY <1>2
  <2>2. Lies(m, "client", "requests", i)
    BY DEF Lies, InClient, At
  <2> QED  BY <2>1, <2>2
<1>3. CASE p \in UNION {{<<"kept", t, i>> : i \in At(hub.early[t], m)} : t \in Turns}
  <2>1. PICK t \in Turns : p \in {<<"kept", t, i>> : i \in At(hub.early[t], m)}
    BY <1>3
  <2>2. PICK i \in At(hub.early[t], m) : p = <<"kept", t, i>>
    BY <2>1
  <2>3. Lies(m, "kept", t, i)
    BY DEF Lies, IsKept, At
  <2> QED  BY <2>2, <2>3
<1>4. CASE p \in UNION {{<<"todo", d, i>> : i \in Carries(todo[d], m)} : d \in Dispatchers}
  <2>1. PICK d \in Dispatchers : p \in {<<"todo", d, i>> : i \in Carries(todo[d], m)}
    BY <1>4
  <2>2. PICK i \in Carries(todo[d], m) : p = <<"todo", d, i>>
    BY <2>1
  <2>3. Lies(m, "todo", d, i)
    BY DEF Lies, IsCarried, Carries
  <2> QED  BY <2>2, <2>3
<1>5. CASE p \in UNION {{<<"stream", s, i>> : i \in At(stream[s].items, m)} : s \in Streams}
  <2>1. PICK s \in Streams : p \in {<<"stream", s, i>> : i \in At(stream[s].items, m)}
    BY <1>5
  <2>2. PICK i \in At(stream[s].items, m) : p = <<"stream", s, i>>
    BY <2>1
  <2>3. Lies(m, "stream", s, i)
    BY DEF Lies, IsStreamed, At
  <2> QED  BY <2>2, <2>3
<1>6. CASE p \in {<<"client", "known", 0>> : k \in {m} \cap known}
  <2>1. p = <<"client", "known", 0>> /\ m \in known
    BY <1>6
  <2> QED  BY <2>1 DEF Lies, InClient
<1> DEFINE A == {<<"client", "notifications", i>> : i \in At(notifications, m)}
           B == {<<"client", "requests", i>> : i \in At(requests, m)}
           C == UNION {{<<"kept", t, i>> : i \in At(hub.early[t], m)} : t \in Turns}
           D == UNION {{<<"todo", d, i>> : i \in Carries(todo[d], m)} : d \in Dispatchers}
           E == UNION {{<<"stream", s, i>> : i \in At(stream[s].items, m)} : s \in Streams}
           F == {<<"client", "known", 0>> : k \in {m} \cap known}
<1>7. Places(m) = A \cup B \cup C \cup D \cup E \cup F
  BY DEF Places
<1> HIDE DEF A, B, C, D, E, F
<1>8. p \in A \/ p \in B \/ p \in C \/ p \in D \/ p \in E \/ p \in F
  BY <1>7
<1> QED  BY <1>1, <1>2, <1>3, <1>4, <1>5, <1>6, <1>8 DEF A, B, C, D, E, F

\* No message of a turn is in two places on its way to a reader, nor on its way again to one that
\* has had the request: what was kept for the turn goes to the one handler that registers the next
\* stream, whatever the hub, the other handlers and the stop of the hub do meanwhile.
THEOREM EventsNothingTwice == Spec => []NothingTwice
<1>1. OnceInv => NothingTwice
  <2> SUFFICES ASSUME OnceInv, NEW m \in Message, NEW p \in Places(m), NEW q \in Places(m)
               PROVE  p = q
    BY DEF NothingTwice
  <2>1. PICK k, a, i : p = <<k, a, i>> /\ Lies(m, k, a, i)
    BY PlacesLie
  <2>2. PICK l, b, j : q = <<l, b, j>> /\ Lies(m, l, b, j)
    BY PlacesLie
  <2> QED  BY <2>1, <2>2 DEF OnceInv, SentOnce, IsOnce
<1> QED  BY <1>1, OnceInit, OnceStep, PTL DEF Spec

=============================================================================
