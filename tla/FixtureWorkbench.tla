-------------------------- MODULE FixtureWorkbench --------------------------
(***************************************************************************)
(* The gateway the workbench has outside a deployment                      *)
(* (fixtureWorkbenchGateway): sessions in the storage of the browser tab,  *)
(* each request a delay and then one reading, and perhaps writing, of the  *)
(* whole list; and replies that are generators, whose text can be aborted  *)
(* and whose other events cannot.                                          *)
(*                                                                         *)
(* A stream says nothing to the storage.  page is what the reader of the   *)
(* streams has: the events so far, and whether an approval is awaited.     *)
(* The storage may be emptied or spoilt from outside.  Titles, texts,      *)
(* charts, times (and with them the order of the list) are left out.       *)
(***************************************************************************)
EXTENDS Naturals, Sequences, FiniteSets

CONSTANTS
  Seeded,    \* the sessions of the fixture
  Fresh,     \* identifiers createFixtureSessionId may give
  Folders,   \* the folders a session or a message may be about
  MaxCalls,  \* bound: requests under way
  None

\* What the constants must be (assumed in PluginPages).
Parameters ==
  /\ Seeded \cap Fresh = {}
  /\ MaxCalls \in Nat
  /\ None \notin Seeded \cup Fresh \cup Folders

VARIABLES
  page,   \* the stream that is read, and the interrupt that waits for a decision
  calls,  \* the unanswered requests
  store   \* the stored sessions

vars == <<page, calls, store>>

Sessions == Seeded \cup Fresh

-----------------------------------------------------------------------------
(* Sessions.                                                               *)

NewSession(folder) == [folder |-> folder, status |-> "active", renamed |-> FALSE]

SeededSessions == [s \in Seeded |-> NewSession(CHOOSE f \in Folders : TRUE)]

\* readSessions: what is not a list of sessions is replaced by the fixture.
ReadSessions == IF store.sessions = None THEN SeededSessions ELSE store.sessions

\* delay: the request is sent, and may be given up while it waits.
Send(request) ==
  /\ Cardinality(calls) < MaxCalls
  /\ calls' = calls \cup {request}
  /\ UNCHANGED <<page, store>>

Ask ==
  \/ Send([op |-> "list"])
  \/ \E f \in Folders \cup {None} : Send([op |-> "create", folder |-> f])
  \/ \E s \in Sessions, op \in {"open", "rename", "archive", "delete"} :
       Send([op |-> op, session |-> s])
  \/ \E f \in Folders : Send([op |-> "context", folder |-> f])

Aborted(r) ==
  /\ calls' = calls \ {r}
  /\ UNCHANGED <<page, store>>

\* The delay is over: the sessions are read, and what is written is made of that reading.
Over(r, sessions) ==
  /\ calls' = calls \ {r}
  /\ store' = [store EXCEPT !.sessions = sessions]
  /\ UNCHANGED page

\* listSessions, getContext (which reads nothing) and openSession; a session that is not found
\* is an error of the caller, and so it is below.
Read(r) ==
  /\ r.op \in {"list", "open", "context"}
  /\ Over(r, IF r.op = "context" THEN store.sessions ELSE ReadSessions)

CreateSession(r) ==
  /\ r.op = "create"
  /\ \E s \in Fresh \ store.used :
       /\ store' = [sessions |-> [t \in DOMAIN ReadSessions \cup {s} |->
                      IF t = s THEN NewSession(r.folder) ELSE ReadSessions[t]],
                    used |-> store.used \cup {s}]
       /\ calls' = calls \ {r}
       /\ UNCHANGED page

ChangeSession(r, change) ==
  Over(r, IF r.session \in DOMAIN ReadSessions
          THEN [ReadSessions EXCEPT ![r.session] = change] ELSE ReadSessions)

RenameSession(r) ==
  /\ r.op = "rename"
  /\ ChangeSession(r, [ReadSessions[r.session] EXCEPT !.renamed = TRUE])

ArchiveSession(r) ==
  /\ r.op = "archive"
  /\ ChangeSession(r, [ReadSessions[r.session] EXCEPT !.status = "archived"])

DeleteSession(r) ==
  /\ r.op = "delete"
  /\ Over(r, [t \in DOMAIN ReadSessions \ {r.session} |-> ReadSessions[t]])

\* The storage is the browser's: it is emptied, or holds something else.
Spoilt ==
  /\ store' = [store EXCEPT !.sessions = None]
  /\ UNCHANGED <<page, calls>>

-----------------------------------------------------------------------------
(* Streams.                                                                *)

Routes == {"switch_folder", "write", "slash", "error_rate", "latency", "fallback"}
Started == <<"message_start", "turn_started">>
Ended == <<"message_end", "done">>

\* emitText waits before each piece of text, and delay between a call and its result.
Text == <<"delay", "message_delta">>
Tool == <<"tool_call", "delay", "tool_result">>

\* streamFixtureReply: a change of a resource stops at the request for approval.
Reply(route, folder) ==
  Started \o
  (CASE route = "switch_folder" -> Text \o <<"folder_changed">> \o Ended
     [] route = "write" /\ folder = None -> Text \o Ended
     [] route = "write" /\ folder # None -> Text \o <<"tool_call", "interrupt">>
     [] route \in {"slash", "error_rate", "latency"} -> Text \o Tool \o Text \o Ended
     [] route = "fallback" -> Text \o Ended)

\* streamFixtureResolution, for either decision.
Resolution == <<"tool_result", "message_start">> \o Text \o Ended

\* The reader opens a stream.
Opened(script) ==
  [page EXCEPT !.script = script, !.said = <<>>, !.reading = TRUE, !.aborted = FALSE]

StreamMessage ==
  /\ ~page.reading /\ ~page.pending
  /\ \E route \in Routes, folder \in Folders \cup {None} : page' = Opened(Reply(route, folder))
  /\ UNCHANGED <<calls, store>>

ResolveInterrupt ==
  /\ ~page.reading /\ page.pending
  /\ page' = [Opened(Resolution) EXCEPT !.pending = FALSE]
  /\ UNCHANGED <<calls, store>>

\* The signal, while the stream waits or the reader has an event of it.
Abort ==
  /\ page.reading /\ ~page.aborted
  /\ page' = [page EXCEPT !.aborted = TRUE]
  /\ UNCHANGED <<calls, store>>

\* The delay is over.
Waited ==
  /\ page.reading /\ page.script # <<>>
  /\ Head(page.script) = "delay"
  /\ ~page.aborted
  /\ page' = [page EXCEPT !.script = Tail(@)]
  /\ UNCHANGED <<calls, store>>

\* The delay throws, and the generator with it.
Thrown ==
  /\ page.reading /\ page.script # <<>>
  /\ Head(page.script) = "delay"
  /\ page.aborted
  /\ page' = [page EXCEPT !.script = <<>>, !.reading = FALSE]
  /\ UNCHANGED <<calls, store>>

\* An event is yielded, also to a reader whose signal was aborted.
Yield ==
  /\ page.reading /\ page.script # <<>>
  /\ Head(page.script) # "delay"
  /\ page' = [page EXCEPT !.said = Append(@, Head(page.script)), !.script = Tail(@),
                          !.pending = @ \/ Head(page.script) = "interrupt"]
  /\ UNCHANGED <<calls, store>>

Returned ==
  /\ page.reading /\ page.script = <<>>
  /\ page' = [page EXCEPT !.reading = FALSE]
  /\ UNCHANGED <<calls, store>>

\* cancelTurn waits for no time at all and changes nothing; it is left out.
-----------------------------------------------------------------------------
Init ==
  /\ page = [script |-> <<>>, said |-> <<>>, reading |-> FALSE, aborted |-> FALSE,
             pending |-> FALSE]
  /\ calls = {}
  /\ store = [sessions |-> None, used |-> {}]

Next ==
  \/ Ask \/ Spoilt
  \/ \E r \in calls :
       \/ Aborted(r) \/ Read(r) \/ CreateSession(r)
       \/ RenameSession(r) \/ ArchiveSession(r) \/ DeleteSession(r)
  \/ StreamMessage \/ ResolveInterrupt \/ Abort \/ Waited \/ Thrown \/ Yield \/ Returned

Spec == Init /\ [][Next]_vars

-----------------------------------------------------------------------------
(* Properties.                                                             *)

Said(event) == \E i \in 1..Len(page.said) : page.said[i] = event

\* A session is stored under an identifier that was given out, and a stream that was read to its
\* end without an abort either ended the turn or asks for an approval.
TypeOK ==
  /\ store.sessions # None => DOMAIN store.sessions \subseteq Seeded \cup store.used
  /\ ~page.reading /\ page.said # <<>> /\ ~page.aborted => Said("done") # page.pending
  /\ Said("done") => Said("message_end") /\ Said("message_delta")
  /\ calls \subseteq [op : {"list"}] \cup [op : {"create", "context"}, folder : Folders \cup {None}]
       \cup [op : {"open", "rename", "archive", "delete"}, session : Sessions]

\* Requests that overlap do not undo each other: a session that was deleted does not come back
\* with the answer of another request, unless the storage was spoilt meanwhile.
StaysDeleted ==
  store.sessions # None /\ store'.sessions # None =>
    DOMAIN store'.sessions \subseteq DOMAIN store.sessions \cup (store'.used \ store.used)

DeletedStays == [][StaysDeleted]_vars

=============================================================================
