------------------------ MODULE WorkbenchTurnsProofs ------------------------
(***************************************************************************)
(* What the page shows of its turns, for any number of sessions, runs,     *)
(* tool calls, approvals and refusals.  First what the helpers do to a     *)
(* list of messages, then that the one run which may still write on the    *)
(* page is the one in streamControllerRef.  Where the code awaits          *)
(* getCanvas it does not see to that by itself: the theorems are about a   *)
(* host that mounts the page anew, as the program's does, or a gateway     *)
(* that rejects what was aborted, as the program's does.                   *)
(***************************************************************************)
EXTENDS WorkbenchTurns, FiniteSetTheorems, SequenceTheorems, TLAPS

-----------------------------------------------------------------------------
(* Lists of messages.                                                      *)

\* Some answer of run a is there.
Has(ms, a) == \E i \in DOMAIN ms : ms[i].by = a /\ ms[i].role = "assistant"

\* Only an answer of run a is being written.
Only(ms, a) == \A i \in DOMAIN ms : ms[i].status = "streaming" => ms[i].by = a

Quiet(ms) == \A i \in DOMAIN ms : ms[i].status # "streaming"

\* Run a has no answer that failed.
Unfailed(ms, a) == \A i \in DOMAIN ms : ms[i].by = a => ms[i].status # "error"

\* Only answers have a status that changes.
Fit(ms) ==
  \A i \in DOMAIN ms :
    ms[i].status \in {"streaming", "stopped", "error"} => ms[i].role = "assistant"

\* What was stopped is the answer of one of these runs.
By(ms, runs) == \A i \in DOMAIN ms : ms[i].status = "stopped" => ms[i].by \in runs

Statuses == {"none", "streaming", "complete", "stopped", "error"}

\* A list, and another one that has the same answers in the same places.
LEMMA MapKeepsPlaces ==
  ASSUME NEW ms \in Seq(Message), NEW r \in 0 .. MaxRuns, NEW status \in Statuses
  PROVE  LET ns == MapMessage(ms, r, status)
         IN  /\ ns \in Seq(Message)
             /\ Len(ns) = Len(ms) /\ DOMAIN ns = DOMAIN ms
             /\ \A i \in DOMAIN ms :
                  /\ ns[i].by = ms[i].by /\ ns[i].role = ms[i].role
                  /\ ns[i].status = IF ms[i].by = r /\ ms[i].role = "assistant"
                                    THEN status ELSE ms[i].status
<1> DEFINE ns == MapMessage(ms, r, status)
<1>1. DOMAIN ms = 1 .. Len(ms) /\ Len(ms) \in Nat /\ \A i \in DOMAIN ms : ms[i] \in Message
  OBVIOUS
<1>2. ASSUME NEW i \in DOMAIN ms
      PROVE  /\ ns[i] \in Message
             /\ ns[i].by = ms[i].by /\ ns[i].role = ms[i].role
             /\ ns[i].status = IF ms[i].by = r /\ ms[i].role = "assistant"
                               THEN status ELSE ms[i].status
  BY <1>1 DEF MapMessage, Message, Statuses
<1>3. ns = [i \in 1 .. Len(ms) |-> ns[i]]
  BY <1>1 DEF MapMessage
<1>4. ns \in Seq(Message) /\ Len(ns) = Len(ms) /\ DOMAIN ns = DOMAIN ms
  BY <1>1, <1>2, <1>3
<1> QED
  BY <1>2, <1>4

\* mapMessage: what it does to the answers of a run, and to the rest.
LEMMA MapFacts ==
  ASSUME NEW ms \in Seq(Message), NEW r \in 0 .. MaxRuns, NEW status \in Statuses,
         NEW runs, Fit(ms)
  PROVE  LET ns == MapMessage(ms, r, status)
         IN  /\ ns \in Seq(Message)
             /\ Fit(ns)
             /\ \A a : Has(ms, a) => Has(ns, a)
             /\ By(ms, runs) /\ (status = "stopped" => r \in runs) => By(ns, runs)
             /\ \A a : Only(ms, a) /\ status # "streaming" => Only(ns, a)
             /\ Only(ms, r) /\ status # "streaming" => Quiet(ns)
             /\ Quiet(ms) /\ status # "streaming" => Quiet(ns)
             /\ Quiet(ms) => Only(ns, r)
             /\ status # "error" => Unfailed(ns, r)
             /\ \A a : Unfailed(ms, a) /\ status # "error" => Unfailed(ns, a)
<1> DEFINE ns == MapMessage(ms, r, status)
<1>1. /\ ns \in Seq(Message)
      /\ DOMAIN ns = DOMAIN ms
      /\ \A i \in DOMAIN ms :
           /\ ns[i].by = ms[i].by /\ ns[i].role = ms[i].role
           /\ ns[i].status = IF ms[i].by = r /\ ms[i].role = "assistant"
                             THEN status ELSE ms[i].status
  BY MapKeepsPlaces
<1> HIDE DEF ns
<1>2. Fit(ns)
  BY <1>1 DEF Fit
<1>3. \A a : Has(ms, a) => Has(ns, a)
  BY <1>1 DEF Has
<1>4. By(ms, runs) /\ (status = "stopped" => r \in runs) => By(ns, runs)
  BY <1>1 DEF By
<1>5. \A a : Only(ms, a) /\ status # "streaming" => Only(ns, a)
  BY <1>1 DEF Only
<1>6. Only(ms, r) /\ status # "streaming" => Quiet(ns)
  BY <1>1 DEF Only, Quiet, Fit
<1>7. /\ Quiet(ms) /\ status # "streaming" => Quiet(ns)
      /\ Quiet(ms) => Only(ns, r)
  BY <1>1 DEF Only, Quiet
<1>8. status # "error" => Unfailed(ns, r)
  BY <1>1 DEF Unfailed, Fit
<1>9. \A a : Unfailed(ms, a) /\ status # "error" => Unfailed(ns, a)
  BY <1>1 DEF Unfailed
<1> QED
  BY <1>1, <1>2, <1>3, <1>4, <1>5, <1>6, <1>7, <1>8, <1>9 DEF ns

\* Every message of a list that is put together is one of a part.
LEMMA JoinFacts ==
  ASSUME NEW ms \in Seq(Message), NEW ns \in Seq(Message), NEW runs
  PROVE  LET os == ms \o ns
         IN  /\ os \in Seq(Message)
             /\ Fit(ms) /\ Fit(ns) => Fit(os)
             /\ By(ms, runs) /\ By(ns, runs) => By(os, runs)
             /\ Quiet(ms) /\ Quiet(ns) => Quiet(os)
             /\ \A a : Only(ms, a) /\ Only(ns, a) => Only(os, a)
             /\ \A a : Unfailed(ms, a) /\ Unfailed(ns, a) => Unfailed(os, a)
             /\ \A a : Has(ms, a) \/ Has(ns, a) => Has(os, a)
<1> DEFINE os == ms \o ns
<1>1. /\ Len(ms) \in Nat /\ Len(ns) \in Nat
      /\ DOMAIN ms = 1 .. Len(ms) /\ DOMAIN ns = 1 .. Len(ns)
      /\ os \in Seq(Message) /\ DOMAIN os = 1 .. (Len(ms) + Len(ns))
  OBVIOUS
<1>2. \A i \in DOMAIN ms : i \in DOMAIN os /\ os[i] = ms[i]
  BY <1>1
<1>3. \A i \in DOMAIN ns : Len(ms) + i \in DOMAIN os /\ os[Len(ms) + i] = ns[i]
  BY <1>1
<1>4. ASSUME NEW i \in DOMAIN os
      PROVE  (\E j \in DOMAIN ms : os[i] = ms[j]) \/ (\E j \in DOMAIN ns : os[i] = ns[j])
  <2>1. CASE i <= Len(ms)
    BY <1>1, <2>1
  <2>2. CASE i > Len(ms)
    <3>1. i - Len(ms) \in DOMAIN ns /\ os[i] = ns[i - Len(ms)]
      BY <1>1, <2>2
    <3> QED
      BY <3>1
  <2> QED
    BY <1>1, <2>1, <2>2
<1> HIDE DEF os
<1>5. Fit(ms) /\ Fit(ns) => Fit(os)
  BY <1>4 DEF Fit
<1>6. By(ms, runs) /\ By(ns, runs) => By(os, runs)
  BY <1>4 DEF By
<1>7. Quiet(ms) /\ Quiet(ns) => Quiet(os)
  BY <1>4 DEF Quiet
<1>8. \A a : Only(ms, a) /\ Only(ns, a) => Only(os, a)
  BY <1>4 DEF Only
<1>9. \A a : Unfailed(ms, a) /\ Unfailed(ns, a) => Unfailed(os, a)
  BY <1>4 DEF Unfailed
<1>10. \A a : Has(ms, a) \/ Has(ns, a) => Has(os, a)
  BY <1>2, <1>3 DEF Has
<1> QED
  BY <1>1, <1>5, <1>6, <1>7, <1>8, <1>9, <1>10 DEF os

\* A stretch of a list has nothing that the list has not.
LEMMA PartFacts ==
  ASSUME NEW ms \in Seq(Message), NEW runs, NEW m \in 1 .. Len(ms) + 1, NEW n \in 0 .. Len(ms)
  PROVE  LET ns == SubSeq(ms, m, n)
         IN  /\ ns \in Seq(Message)
             /\ Fit(ms) => Fit(ns)
             /\ By(ms, runs) => By(ns, runs)
             /\ \A a : Only(ms, a) => Only(ns, a)
             /\ \A i \in m .. n : ms[i] = ns[i - m + 1] /\ i - m + 1 \in DOMAIN ns
<1> DEFINE ns == SubSeq(ms, m, n)
<1>1. /\ ns \in Seq(Message) /\ Len(ms) \in Nat /\ DOMAIN ms = 1 .. Len(ms)
      /\ DOMAIN ns = 1 .. (IF m <= n THEN n - m + 1 ELSE 0)
      /\ \A i \in 1 .. n - m + 1 : ns[i] = ms[m + i - 1]
  OBVIOUS
<1>2. \A i \in DOMAIN ns : m + i - 1 \in DOMAIN ms /\ ns[i] = ms[m + i - 1]
  BY <1>1
<1>3. \A i \in m .. n : ms[i] = ns[i - m + 1] /\ i - m + 1 \in DOMAIN ns
  BY <1>1
<1> HIDE DEF ns
<1>4. Fit(ms) => Fit(ns)
  BY <1>2 DEF Fit
<1>5. By(ms, runs) => By(ns, runs)
  BY <1>2 DEF By
<1>6. \A a : Only(ms, a) => Only(ns, a)
  BY <1>2 DEF Only
<1> QED
  BY <1>1, <1>3, <1>4, <1>5, <1>6 DEF ns

\* A tool call and a question of the user, which have no status of their own.
LEMMA PlainFacts ==
  ASSUME NEW m \in Message, m.status = "none" \/ m.status = "complete", NEW runs
  PROVE  /\ <<m>> \in Seq(Message) /\ Fit(<<m>>) /\ By(<<m>>, runs) /\ Quiet(<<m>>)
         /\ \A a : Only(<<m>>, a) /\ Unfailed(<<m>>, a)
  BY DEF Fit, By, Quiet, Only, Unfailed

\* A tool call is put before the answer it belongs to.
LEMMA InsertFacts ==
  ASSUME NEW ms \in Seq(Message), NEW r, NEW tool \in Message, tool.status = "none",
         NEW runs, Fit(ms), By(ms, runs)
  PROVE  LET ns == InsertTool(ms, r, tool)
         IN  /\ ns \in Seq(Message) /\ Fit(ns) /\ By(ns, runs)
             /\ \A a : Only(ms, a) => Only(ns, a)
             /\ \A a : Has(ms, a) => Has(ns, a)
<1> DEFINE one == <<tool>>
<1>1. one \in Seq(Message) /\ Fit(one) /\ By(one, runs) /\ \A a : Only(one, a)
  BY PlainFacts
<1> HIDE DEF one
<1>2. CASE PlaceOf(ms, r) = 0
  <2>1. InsertTool(ms, r, tool) = ms \o one
    BY <1>2 DEF InsertTool, one
  <2> QED
    BY <2>1, <1>1, JoinFacts
<1>3. CASE PlaceOf(ms, r) # 0
  <2> DEFINE i == PlaceOf(ms, r)
             before == SubSeq(ms, 1, i - 1)
             after == SubSeq(ms, i, Len(ms))
  <2>1. i \in 1 .. Len(ms)
    <3>1. i \in {k \in DOMAIN ms : ms[k].by = r /\ ms[k].role = "assistant"}
      BY <1>3 DEF PlaceOf
    <3> QED
      BY <3>1
  <2>2. InsertTool(ms, r, tool) = (before \o one) \o after
    BY <1>3 DEF InsertTool, InsertAt, one
  <2> HIDE DEF i
  <2>3. /\ 1 \in 1 .. Len(ms) + 1 /\ i - 1 \in 0 .. Len(ms)
        /\ i \in 1 .. Len(ms) + 1 /\ Len(ms) \in 0 .. Len(ms)
    BY <2>1
  <2>4. /\ before \in Seq(Message) /\ Fit(before) /\ By(before, runs)
        /\ \A a : Only(ms, a) => Only(before, a)
        /\ \A k \in 1 .. i - 1 : ms[k] = before[k - 1 + 1] /\ k - 1 + 1 \in DOMAIN before
    BY <2>3, PartFacts
  <2>5. /\ after \in Seq(Message) /\ Fit(after) /\ By(after, runs)
        /\ \A a : Only(ms, a) => Only(after, a)
        /\ \A k \in i .. Len(ms) : ms[k] = after[k - i + 1] /\ k - i + 1 \in DOMAIN after
    BY <2>3, PartFacts
  <2>6. \A a : Has(ms, a) => Has(before, a) \/ Has(after, a)
    <3> SUFFICES ASSUME NEW a, NEW k \in DOMAIN ms, ms[k].by = a, ms[k].role = "assistant"
                 PROVE  Has(before, a) \/ Has(after, a)
      BY DEF Has
    <3>1. k \in 1 .. Len(ms)
      OBVIOUS
    <3>2. CASE k < i
      BY <3>1, <3>2, <2>1, <2>4 DEF Has
    <3>3. CASE k >= i
      <4>1. k \in i .. Len(ms)
        BY <3>1, <3>3, <2>1
      <4>2. ms[k] = after[k - i + 1] /\ k - i + 1 \in DOMAIN after
        BY <4>1, <2>5
      <4> HIDE DEF after
      <4> QED
        BY <4>2 DEF Has
    <3> QED
      BY <3>1, <3>2, <3>3, <2>1
  <2> HIDE DEF before, after
  <2> DEFINE front == before \o one
  <2>7. /\ front \in Seq(Message) /\ Fit(front) /\ By(front, runs)
        /\ \A a : Only(ms, a) => Only(front, a)
        /\ \A a : Has(before, a) => Has(front, a)
    BY <2>4, <1>1, JoinFacts
  <2> HIDE DEF front
  <2>8. LET ns == front \o after
        IN  /\ ns \in Seq(Message) /\ Fit(ns) /\ By(ns, runs)
            /\ \A a : Only(ms, a) => Only(ns, a)
            /\ \A a : Has(front, a) \/ Has(after, a) => Has(ns, a)
    BY <2>5, <2>7, JoinFacts
  <2> QED
    BY <2>2, <2>6, <2>7, <2>8 DEF front
<1> QED
  BY <1>2, <1>3

-----------------------------------------------------------------------------
(* The invariant.                                                          *)

Job == [state: {"none", "running", "waiting", "completed", "failed", "cancelled"},
        follower: RunIds, asked: Nat, tools: Nat]

TypeInv ==
  /\ route \in Sessions
  /\ opened \in [messages : Seq(Message)] \cup {None}
  /\ opening \in {"loading", "success", "error"}
  /\ leaving \in BOOLEAN
  /\ run \in [RunIds -> Run]
  /\ \A r \in RunIds : run[r] # NoRun => run[r].busy <= MaxBusyRetries
  /\ live \in 0 .. MaxRuns /\ holder \in 0 .. MaxRuns
  /\ streaming \in BOOLEAN /\ started \in BOOLEAN
  /\ stopping \subseteq RunIds /\ cancelled \subseteq RunIds
  /\ failed \in Command \cup {None}
  /\ pending \in RunIds \cup {None}
  /\ moves \in 0 .. MaxMoves
  /\ log \in [Sessions -> Seq({"user", "assistant"})]
  /\ job \in [RunIds -> Job]

Begun == {r \in RunIds : run[r].pc # "off"}
Active(r) == run[r].pc \in {"stream", "canvas", "wait", "reconcile"}

\* A run is writing on the page.
Writing == ~leaving /\ live # 0 /\ Active(live)

\* A getCanvas that was aborted does not answer a page that is still there.
CanvasHeedsAbort == LateCanvas => Anew

\* Runs are numbered as they begin, and everything that names a run names one that began.
Numbered ==
  /\ \E k \in 0 .. MaxRuns : Begun = 1 .. k
  /\ stopping \subseteq Begun /\ cancelled \subseteq Begun
  /\ pending # None => pending \in Begun
  /\ live # 0 => live \in Begun
  /\ holder # 0 => holder \in Begun
  /\ \A r \in Begun :
       /\ run[r].job \in Begun
       /\ run[r].kind = "turn" => run[r].job = r
       /\ run[r].pc = "reconcile" => run[r].kind = "turn"

\* The answers whose cancellation is confirmed.
Confirmed == {run[j].command.answer : j \in cancelled}

\* What the page shows.
PageInv ==
  /\ opened # None =>
       /\ Fit(opened.messages)
       /\ By(opened.messages, Confirmed)
       /\ ~Writing => Quiet(opened.messages)
  /\ opening = "loading" => opened = None
  /\ ~leaving /\ live # 0 => opened # None /\ run[live].command.session = route
  /\ leaving => /\ opened = None
                /\ live # 0 => run[live].command.session # route
  /\ started => Writing /\ run[live].kind = "turn"

\* The run that writes: it holds the stream, and what it will publish is in order.
WriterInv ==
  Writing =>
    LET a == run[live].command.answer
    IN  /\ holder = live /\ streaming
        /\ Fit(run[live].current) /\ By(run[live].current, Confirmed)
        /\ Only(opened.messages, a) /\ Only(run[live].current, a)
        /\ Has(opened.messages, a) /\ Has(run[live].current, a)
        /\ run[live].aborted => run[live].kind = "turn" /\ live \in cancelled
        /\ run[live].pc = "reconcile" =>
             /\ run[live].outcome \in {"error", "interrupt"} => Quiet(opened.messages)
             /\ run[live].outcome = "interrupt" => Unfailed(opened.messages, a)
             /\ run[live].outcome = "abort" => run[live].aborted
             /\ run[live].outcome # "none"

\* Every other run that is not over has been aborted.
OthersInv == \A r \in RunIds : Active(r) /\ r # live => run[r].aborted

\* What is offered again stands on the page, and will when the run that writes publishes.
\* What a run left behind after the render of another route is not of its session.
OfferInv ==
  /\ leaving /\ failed # None => failed.session # route
  /\ ~leaving /\ failed # None =>
       /\ opened # None
       /\ failed.session = route
       /\ Has(opened.messages, failed.answer)
       /\ Writing => Has(run[live].current, failed.answer)
  /\ ~leaving /\ live # 0
     /\ run[live].kind = "turn" /\ run[live].pc = "done" /\ failed = None
     => Unfailed(opened.messages, run[live].command.answer)

Inv == CanvasHeedsAbort /\ TypeInv /\ Numbered /\ PageInv /\ WriterInv /\ OthersInv /\ OfferInv

-----------------------------------------------------------------------------
(* What is read back, and what is asked.                                   *)

\* openSession and mergePersistedSession: nothing that is read back is unfinished.
LEMMA HistoryFacts ==
  ASSUME TypeInv, NEW s \in Sessions, NEW runs
  PROVE  /\ History(s) \in Seq(Message) /\ Fit(History(s)) /\ By(History(s), runs)
         /\ Quiet(History(s)) /\ \A a : Unfailed(History(s), a)
<1> DEFINE ms == History(s)
<1>1. log[s] \in Seq({"user", "assistant"})
  BY DEF TypeInv
<1>2. Len(log[s]) \in Nat /\ DOMAIN log[s] = 1 .. Len(log[s])
  BY <1>1
<1>3. \A i \in DOMAIN log[s] : ms[i] \in Message /\ ms[i].status = "complete"
  BY <1>1, TurnsAssumption DEF History, Said, Message
<1>4. ms = [i \in 1 .. Len(log[s]) |-> ms[i]]
  BY <1>2 DEF History
<1> DEFINE n == Len(log[s])
<1> HIDE DEF ms
<1>5. ms \in Seq(Message) /\ DOMAIN ms = DOMAIN log[s]
  <2>1. n \in Nat /\ ms = [i \in 1 .. n |-> ms[i]] /\ \A i \in 1 .. n : ms[i] \in Message
    BY <1>2, <1>3, <1>4
  <2> HIDE DEF n
  <2>2. ms \in Seq(Message) /\ DOMAIN ms = 1 .. n
    BY <2>1
  <2> QED
    BY <2>2, <1>2 DEF n
<1>6. Fit(ms) /\ By(ms, runs) /\ Quiet(ms) /\ \A a : Unfailed(ms, a)
  BY <1>3, <1>5 DEF Fit, By, Quiet, Unfailed
<1> QED
  BY <1>5, <1>6 DEF ms

LEMMA MergedFacts ==
  ASSUME TypeInv, NEW s \in Sessions, NEW ms \in Seq(Message), NEW runs
  PROVE  LET ns == MergePersisted(s, ms)
         IN  /\ ns \in Seq(Message) /\ Fit(ns) /\ By(ns, runs)
             /\ Quiet(ns) /\ \A a : Unfailed(ns, a)
<1> DEFINE n == Cardinality({i \in DOMAIN ms : ms[i].role = "tool"})
           tools == [k \in 1 .. n |-> Said("tool", s, 0, "none")]
<1>1. n \in Nat
  <2>1. IsFiniteSet(1 .. Len(ms)) /\ DOMAIN ms = 1 .. Len(ms)
    BY FS_Interval
  <2> QED
    BY <2>1, FS_Subset, FS_CardinalityType
<1> HIDE DEF n
<1>2. \A k \in 1 .. n : tools[k] \in Message /\ tools[k].status = "none"
  BY TurnsAssumption DEF Said, Message
<1>3. tools \in Seq(Message) /\ DOMAIN tools = 1 .. n
  BY <1>1, <1>2
<1>4. /\ Fit(tools) /\ By(tools, runs) /\ Quiet(tools) /\ \A a : Unfailed(tools, a)
  BY <1>2, <1>3 DEF Fit, By, Quiet, Unfailed
<1>5. MergePersisted(s, ms) = History(s) \o tools
  BY DEF MergePersisted, n
<1> DEFINE old == History(s)
<1>6. /\ old \in Seq(Message) /\ Fit(old) /\ By(old, runs)
      /\ Quiet(old) /\ \A a : Unfailed(old, a)
  BY HistoryFacts
<1> HIDE DEF tools, old
<1>7. LET ns == old \o tools
      IN  /\ ns \in Seq(Message) /\ Fit(ns) /\ By(ns, runs)
          /\ Quiet(ns) /\ \A a : Unfailed(ns, a)
  BY <1>3, <1>4, <1>6, JoinFacts
<1> QED
  BY <1>5, <1>7 DEF old

\* A question and its answer, or an answer alone, at the end of the page.
LEMMA AskFacts ==
  ASSUME NEW ms \in Seq(Message), NEW s \in Sessions, NEW r \in RunIds, NEW runs,
         Fit(ms), By(ms, runs), Quiet(ms)
  PROVE  LET ns == ms \o <<Said("user", s, r, "none"), Said("assistant", s, r, "streaming")>>
             os == Append(ms, Said("assistant", s, r, "streaming"))
         IN  /\ ns \in Seq(Message) /\ Fit(ns) /\ By(ns, runs) /\ Only(ns, r) /\ Has(ns, r)
             /\ os \in Seq(Message) /\ Fit(os) /\ By(os, runs) /\ Only(os, r) /\ Has(os, r)
             /\ \A a : Has(ms, a) => Has(ns, a) /\ Has(os, a)
<1> DEFINE answer == Said("assistant", s, r, "streaming")
           two == <<Said("user", s, r, "none"), answer>>
           one == <<answer>>
<1>1. r \in 0 .. MaxRuns
  BY TurnsAssumption DEF RunIds
<1>2. Said("user", s, r, "none") \in Message /\ answer \in Message
  BY <1>1 DEF Said, Message
<1>3. two \in Seq(Message) /\ one \in Seq(Message)
  BY <1>2
<1>4. Fit(two) /\ By(two, runs) /\ Only(two, r) /\ Has(two, r)
  BY DEF Fit, By, Only, Has, Said
<1>5. Fit(one) /\ By(one, runs) /\ Only(one, r) /\ Has(one, r)
  BY DEF Fit, By, Only, Has, Said
<1>6. Only(ms, r)
  BY DEF Quiet, Only
<1>7. Append(ms, answer) = ms \o one
  BY <1>2
<1> HIDE DEF two, one
<1>8. LET ns == ms \o two
      IN  /\ ns \in Seq(Message) /\ Fit(ns) /\ By(ns, runs) /\ Only(ns, r) /\ Has(ns, r)
          /\ \A a : Has(ms, a) => Has(ns, a)
  BY <1>3, <1>4, <1>6, JoinFacts
<1>9. LET ns == ms \o one
      IN  /\ ns \in Seq(Message) /\ Fit(ns) /\ By(ns, runs) /\ Only(ns, r) /\ Has(ns, r)
          /\ \A a : Has(ms, a) => Has(ns, a)
  BY <1>3, <1>5, <1>6, JoinFacts
<1> QED
  BY <1>7, <1>8, <1>9 DEF two

-----------------------------------------------------------------------------
(* One step of a run, without the records.                                 *)

Outcomes == {"none", "interrupt", "done", "error", "failure", "abort"}

Ran == [pc: {"stream", "canvas", "wait", "reconcile", "done"}, kind: {"turn", "resolve"},
        command: Command, job: RunIds, current: Seq(Message), busy: Nat, aborted: BOOLEAN,
        outcome: Outcomes]

\* Run r is at pc, and every other run where it was.
RunsOn(r, pc, current, aborted, outcome) ==
  /\ run' \in [RunIds -> Run]
  /\ \A q \in RunIds : run'[q] # NoRun => run'[q].busy <= MaxBusyRetries
  /\ \A q \in RunIds \ {r} : run'[q] = run[q]
  /\ run'[r].pc = pc /\ run'[r].current = current
  /\ run'[r].aborted = aborted /\ run'[r].outcome = outcome
  /\ run'[r].kind = run[r].kind /\ run'[r].command = run[r].command
  /\ run'[r].job = run[r].job

\* A run that began is a record of all the fields; one that did not has none.
LEMMA RunFields ==
  ASSUME TypeInv, NEW r \in RunIds
  PROVE  /\ run[r].pc = "off" => run[r] = NoRun
         /\ run[r].pc # "off" =>
              /\ run[r] \in Ran /\ run[r].busy <= MaxBusyRetries
              /\ run[r].command.session \in Sessions /\ run[r].command.answer \in RunIds
         /\ r \in 0 .. MaxRuns /\ r # 0
<1>1. run[r] \in Run
  BY DEF TypeInv
<1>2. r \in 0 .. MaxRuns /\ r # 0
  BY TurnsAssumption DEF RunIds
<1>3. run[r].pc = "off" => run[r] = NoRun
  BY <1>1 DEF Run
<1>4. ASSUME run[r].pc # "off"
      PROVE  /\ run[r] \in Ran /\ run[r].busy <= MaxBusyRetries
             /\ run[r].command.session \in Sessions /\ run[r].command.answer \in RunIds
  <2>1. run[r] # NoRun /\ run[r] \in Run
    BY <1>1, <1>4 DEF NoRun
  <2>2. run[r] \in Ran
    BY <2>1 DEF Run, Outcomes, Ran
  <2>3. run[r].command \in Command
    BY <2>2 DEF Ran
  <2> QED
    BY <2>1, <2>2, <2>3 DEF TypeInv, Command
<1> QED
  BY <1>2, <1>3, <1>4

\* A run is replaced by a record that is asked for by the same and asks for the same.
LEMMA SetRun ==
  ASSUME TypeInv, NEW r \in RunIds, NEW new \in Ran, new.busy <= MaxBusyRetries,
         new.kind = run[r].kind, new.command = run[r].command, new.job = run[r].job,
         run' = [run EXCEPT ![r] = new]
  PROVE  RunsOn(r, new.pc, new.current, new.aborted, new.outcome)
<1>1. new \in Run
  BY DEF Run, Outcomes, Ran
<1>2. run \in [RunIds -> Run]
  BY DEF TypeInv
<1>3. run' \in [RunIds -> Run] /\ run'[r] = new /\ \A q \in RunIds \ {r} : run'[q] = run[q]
  BY <1>1, <1>2
<1>4. \A q \in RunIds : run'[q] # NoRun => run'[q].busy <= MaxBusyRetries
  BY <1>3 DEF TypeInv
<1> QED
  BY <1>3, <1>4 DEF RunsOn

\* The ways in which the code goes on.
LEMMA RetireRuns ==
  ASSUME TypeInv, NEW r \in RunIds, run[r].pc # "off", Retire(r)
  PROVE  RunsOn(r, "done", <<>>, FALSE, "none")
<1> DEFINE nothing == <<>>
           new == [run[r] EXCEPT !.pc = "done", !.current = nothing, !.aborted = FALSE,
                                 !.busy = 0, !.outcome = "none"]
<1>1. run[r] \in Ran
  BY RunFields
<1>2. nothing \in Seq(Message) /\ 0 <= MaxBusyRetries
  BY TurnsAssumption
<1>3. run' = [run EXCEPT ![r] = new]
  BY DEF Retire
<1> HIDE DEF nothing
<1>4. /\ new \in Ran /\ new.busy = 0 /\ new.pc = "done" /\ new.current = nothing
      /\ new.aborted = FALSE /\ new.outcome = "none"
      /\ new.kind = run[r].kind /\ new.command = run[r].command /\ new.job = run[r].job
  BY <1>1, <1>2 DEF Ran, Outcomes
<1> HIDE DEF new
<1>5. RunsOn(r, "done", nothing, FALSE, "none")
  BY <1>2, <1>3, <1>4, SetRun
<1> QED
  BY <1>5 DEF nothing

LEMMA EndTurnRuns ==
  ASSUME TypeInv, NEW r \in RunIds, run[r].pc # "off", NEW ms \in Seq(Message),
         NEW outcome \in Outcomes, EndTurn(r, outcome, ms)
  PROVE  RunsOn(r, "reconcile", ms, run[r].aborted, outcome)
<1> DEFINE new == [run[r] EXCEPT !.pc = "reconcile", !.outcome = outcome, !.current = ms]
<1>1. run[r] \in Ran /\ run[r].busy <= MaxBusyRetries
  BY RunFields
<1>2. /\ new \in Ran /\ new.busy = run[r].busy /\ new.pc = "reconcile" /\ new.current = ms
      /\ new.aborted = run[r].aborted /\ new.outcome = outcome
      /\ new.kind = run[r].kind /\ new.command = run[r].command /\ new.job = run[r].job
  BY <1>1 DEF Ran
<1>3. run' = [run EXCEPT ![r] = new]
  BY DEF EndTurn, TypeInv
<1> HIDE DEF new
<1> QED
  BY <1>1, <1>2, <1>3, SetRun

LEMMA CurrentRuns ==
  ASSUME TypeInv, NEW r \in RunIds, run[r].pc # "off", NEW ms \in Seq(Message),
         run' = [run EXCEPT ![r].current = ms]
  PROVE  RunsOn(r, run[r].pc, ms, run[r].aborted, run[r].outcome)
<1> DEFINE new == [run[r] EXCEPT !.current = ms]
<1>1. run[r] \in Ran /\ run[r].busy <= MaxBusyRetries
  BY RunFields
<1>2. /\ new \in Ran /\ new.busy = run[r].busy /\ new.pc = run[r].pc /\ new.current = ms
      /\ new.aborted = run[r].aborted /\ new.outcome = run[r].outcome
      /\ new.kind = run[r].kind /\ new.command = run[r].command /\ new.job = run[r].job
  BY <1>1 DEF Ran
<1>3. run' = [run EXCEPT ![r] = new]
  BY DEF TypeInv
<1> HIDE DEF new
<1> QED
  BY <1>1, <1>2, <1>3, SetRun

LEMMA AbortRuns ==
  ASSUME TypeInv, NEW r \in RunIds, run[r].pc # "off",
         run' = [run EXCEPT ![r].aborted = TRUE]
  PROVE  RunsOn(r, run[r].pc, run[r].current, TRUE, run[r].outcome)
<1> DEFINE new == [run[r] EXCEPT !.aborted = TRUE]
<1>1. run[r] \in Ran /\ run[r].busy <= MaxBusyRetries
  BY RunFields
<1>2. /\ new \in Ran /\ new.busy = run[r].busy /\ new.pc = run[r].pc
      /\ new.current = run[r].current /\ new.aborted = TRUE /\ new.outcome = run[r].outcome
      /\ new.kind = run[r].kind /\ new.command = run[r].command /\ new.job = run[r].job
  BY <1>1 DEF Ran
<1>3. run' = [run EXCEPT ![r] = new]
  BY DEF TypeInv
<1> HIDE DEF new
<1> QED
  BY <1>1, <1>2, <1>3, SetRun

LEMMA ResumeRuns ==
  ASSUME TypeInv, NEW r \in RunIds, run[r].pc # "off",
         run' = [run EXCEPT ![r].pc = "stream"]
  PROVE  RunsOn(r, "stream", run[r].current, run[r].aborted, run[r].outcome)
<1> DEFINE new == [run[r] EXCEPT !.pc = "stream"]
<1>1. run[r] \in Ran /\ run[r].busy <= MaxBusyRetries
  BY RunFields
<1>2. /\ new \in Ran /\ new.busy = run[r].busy /\ new.pc = "stream"
      /\ new.current = run[r].current /\ new.aborted = run[r].aborted
      /\ new.outcome = run[r].outcome
      /\ new.kind = run[r].kind /\ new.command = run[r].command /\ new.job = run[r].job
  BY <1>1 DEF Ran
<1>3. run' = [run EXCEPT ![r] = new]
  BY DEF TypeInv
<1> HIDE DEF new
<1> QED
  BY <1>1, <1>2, <1>3, SetRun

LEMMA CanvasRuns ==
  ASSUME TypeInv, NEW r \in RunIds, run[r].pc # "off",
         run' = [run EXCEPT ![r].pc = "canvas"]
  PROVE  RunsOn(r, "canvas", run[r].current, run[r].aborted, run[r].outcome)
<1> DEFINE new == [run[r] EXCEPT !.pc = "canvas"]
<1>1. run[r] \in Ran /\ run[r].busy <= MaxBusyRetries
  BY RunFields
<1>2. /\ new \in Ran /\ new.busy = run[r].busy /\ new.pc = "canvas"
      /\ new.current = run[r].current /\ new.aborted = run[r].aborted
      /\ new.outcome = run[r].outcome
      /\ new.kind = run[r].kind /\ new.command = run[r].command /\ new.job = run[r].job
  BY <1>1 DEF Ran
<1>3. run' = [run EXCEPT ![r] = new]
  BY DEF TypeInv
<1> HIDE DEF new
<1> QED
  BY <1>1, <1>2, <1>3, SetRun

LEMMA WaitRuns ==
  ASSUME TypeInv, NEW r \in RunIds, run[r].pc # "off", run[r].busy < MaxBusyRetries,
         run' = [run EXCEPT ![r].pc = "wait", ![r].busy = @ + 1]
  PROVE  RunsOn(r, "wait", run[r].current, run[r].aborted, run[r].outcome)
<1> DEFINE busy == run[r].busy + 1
           new == [run[r] EXCEPT !.pc = "wait", !.busy = busy]
<1>1. run[r] \in Ran /\ run[r].busy \in Nat
  BY RunFields DEF Ran
<1>2. busy \in Nat /\ busy <= MaxBusyRetries
  BY <1>1, TurnsAssumption
<1>3. run' = [run EXCEPT ![r] = new]
  BY DEF TypeInv
<1> HIDE DEF busy
<1>4. /\ new \in Ran /\ new.busy = busy /\ new.pc = "wait"
      /\ new.current = run[r].current /\ new.aborted = run[r].aborted
      /\ new.outcome = run[r].outcome
      /\ new.kind = run[r].kind /\ new.command = run[r].command /\ new.job = run[r].job
  BY <1>1, <1>2 DEF Ran
<1> HIDE DEF new
<1> QED
  BY <1>2, <1>3, <1>4, SetRun

-----------------------------------------------------------------------------
(* The steps of the run that writes.                                       *)

\* Who has begun, and what was asked, stays.
LEMMA NamesStay ==
  ASSUME TypeInv, Numbered, NEW r \in RunIds, run[r].pc # "off",
         NEW pc \in {"stream", "canvas", "wait", "reconcile", "done"},
         NEW ms, NEW aborted, NEW outcome, RunsOn(r, pc, ms, aborted, outcome)
  PROVE  /\ Begun' = Begun
         /\ \A q \in RunIds : /\ run'[q].command = run[q].command
                              /\ run'[q].kind = run[q].kind /\ run'[q].job = run[q].job
         /\ \A q \in RunIds \ {r} : run'[q] = run[q]
         /\ cancelled' = cancelled => Confirmed' = Confirmed
<1>1. \A q \in RunIds \ {r} : run'[q] = run[q]
  BY DEF RunsOn
<1>2. \A q \in RunIds : /\ run'[q].command = run[q].command
                       /\ run'[q].kind = run[q].kind /\ run'[q].job = run[q].job
  BY <1>1 DEF RunsOn
<1>3. Begun' = Begun
  BY <1>1 DEF RunsOn, Begun
<1>4. cancelled \subseteq RunIds
  BY DEF TypeInv
<1>5. cancelled' = cancelled => Confirmed' = Confirmed
  BY <1>2, <1>4 DEF Confirmed
<1> QED
  BY <1>1, <1>2, <1>3, <1>5

\* An event is heard only by the run that writes.
LEMMA LiveWrites ==
  ASSUME Inv, NEW r \in RunIds, Active(r), ~Overtaken(r)
  PROVE  /\ live = r /\ Writing /\ run[r].pc # "off" /\ holder = r /\ streaming
         /\ route = run[r].command.session
         /\ opened # None /\ opened.messages \in Seq(Message)
<1>1. live = r /\ Writing /\ run[r].pc # "off" /\ route = run[r].command.session
  BY RunFields DEF Inv, PageInv, Overtaken, Writing, Active
<1>2. opened # None /\ opened.messages \in Seq(Message)
  BY <1>1 DEF Inv, PageInv, TypeInv, Writing
<1> QED
  BY <1>1, <1>2 DEF Inv, WriterInv

\* The run that writes goes on: it has heard something and waits for more, or for the history.
LEMMA WriterGoesOn ==
  ASSUME Inv, NEW r \in RunIds, Writing, live = r,
         NEW os \in Seq(Message), NEW pc \in {"stream", "canvas", "wait", "reconcile"},
         NEW ms, NEW aborted, NEW outcome, RunsOn(r, pc, ms, aborted, outcome),
         opened' = [messages |-> os],
         UNCHANGED <<route, opening, leaving, live, holder, streaming, failed, moves, log, cancelled>>,
         job' \in [RunIds -> Job], started' \in BOOLEAN,
         started' => started \/ run[r].kind = "turn",
         stopping' \subseteq stopping, pending' \in {pending, run[r].job},
         Fit(os), By(os, Confirmed), Fit(ms), By(ms, Confirmed),
         Only(os, run[r].command.answer), Has(os, run[r].command.answer),
         Only(ms, run[r].command.answer), Has(ms, run[r].command.answer),
         aborted => run[r].aborted \/ (run[r].kind = "turn" /\ r \in cancelled),
         pc = "reconcile" =>
           /\ run[r].kind = "turn"
           /\ outcome \in {"error", "interrupt"} => Quiet(os)
           /\ outcome = "interrupt" => Unfailed(os, run[r].command.answer)
           /\ outcome = "abort" => aborted
           /\ outcome # "none",
         failed # None => Has(os, failed.answer) /\ Has(ms, failed.answer)
  PROVE  Inv'
<1>1. r # 0 /\ run[r].pc # "off" /\ run[r].job \in RunIds
  BY RunFields DEF Inv, Writing, Active, Ran
<1>2. /\ Begun' = Begun /\ Confirmed' = Confirmed
      /\ \A q \in RunIds : /\ run'[q].command = run[q].command
                           /\ run'[q].kind = run[q].kind /\ run'[q].job = run[q].job
      /\ \A q \in RunIds \ {r} : run'[q] = run[q]
  BY <1>1, NamesStay DEF Inv
<1>3. /\ run'[r].pc = pc /\ run'[r].current = ms /\ run'[r].aborted = aborted
      /\ run'[r].outcome = outcome
  BY DEF RunsOn
<1>4. TypeInv'
  BY <1>1 DEF Inv, TypeInv, RunsOn
<1>5. Numbered'
  <2>1. r \in Begun /\ run[r].job \in Begun
    BY <1>1 DEF Inv, Numbered, Begun
  <2>2. \A q \in Begun : q \in RunIds
    BY DEF Begun
  <2>3. \A q \in Begun : run'[q].pc = "reconcile" => run'[q].kind = "turn"
    BY <1>2, <1>3, <2>2 DEF Inv, Numbered
  <2> QED
    BY <1>2, <2>1, <2>2, <2>3 DEF Inv, Numbered
<1>6. /\ Writing' /\ opened'.messages = os /\ opened' # None
      /\ ~leaving /\ opening # "loading"
  BY <1>1, <1>3, NoneAssumption DEF Writing, Active, Inv, PageInv
<1>7. PageInv'
  BY <1>2, <1>6 DEF Inv, PageInv
<1>8. WriterInv'
  BY <1>2, <1>3, <1>6 DEF Inv, WriterInv
<1>9. OthersInv'
  BY <1>2 DEF Inv, OthersInv, Active
<1>10. OfferInv'
  BY <1>2, <1>3, <1>6 DEF Inv, OfferInv
<1> QED
  BY <1>4, <1>5, <1>7, <1>8, <1>9, <1>10 DEF Inv

\* The run that writes is over, and the page is free for another one.
LEMMA WriterEnds ==
  ASSUME Inv, NEW r \in RunIds, Writing, live = r,
         NEW os \in Seq(Message), RunsOn(r, "done", <<>>, FALSE, "none"),
         opened' = [messages |-> os],
         UNCHANGED <<route, opening, leaving, live, moves, stopping, provider>>,
         holder' = 0, streaming' = FALSE, started' = FALSE,
         pending' \in {pending, run[r].job}, failed' \in Command \cup {None},
         Fit(os), By(os, Confirmed), Quiet(os),
         failed' # None => failed'.session = route /\ Has(os, failed'.answer),
         run[r].kind = "turn" /\ failed' = None => Unfailed(os, run[r].command.answer)
  PROVE  Inv'
<1>1. r # 0 /\ run[r].pc # "off" /\ run[r].job \in RunIds
  BY RunFields DEF Inv, Writing, Active, Ran
<1>2. /\ Begun' = Begun /\ Confirmed' = Confirmed
      /\ \A q \in RunIds : /\ run'[q].command = run[q].command
                           /\ run'[q].kind = run[q].kind /\ run'[q].job = run[q].job
      /\ \A q \in RunIds \ {r} : run'[q] = run[q]
  BY <1>1, NamesStay DEF Inv, provider
<1>3. run'[r].pc = "done"
  BY DEF RunsOn
<1>4. TypeInv'
  <2>1. 0 \in 0 .. MaxRuns
    BY TurnsAssumption
  <2> QED
    BY <1>1, <2>1 DEF Inv, TypeInv, RunsOn, provider
<1>5. Numbered'
  <2>1. r \in Begun /\ run[r].job \in Begun
    BY <1>1 DEF Inv, Numbered, Begun
  <2>2. \A q \in Begun : q \in RunIds
    BY DEF Begun
  <2>3. \A q \in Begun : run'[q].pc = "reconcile" => run'[q].kind = "turn"
    BY <1>2, <1>3, <2>2 DEF Inv, Numbered
  <2> QED
    BY <1>2, <2>1, <2>2, <2>3 DEF Inv, Numbered, provider
<1>6. /\ ~Writing' /\ opened'.messages = os /\ opened' # None
      /\ ~leaving /\ opening # "loading"
  BY <1>1, <1>3, NoneAssumption DEF Writing, Active, Inv, PageInv
<1>7. PageInv'
  BY <1>2, <1>6 DEF Inv, PageInv
<1>8. WriterInv'
  BY <1>6 DEF WriterInv
<1>9. OthersInv'
  BY <1>2, <1>3 DEF Inv, OthersInv, Active
<1>10. OfferInv'
  BY <1>2, <1>3, <1>6 DEF Inv, OfferInv
<1> QED
  BY <1>4, <1>5, <1>7, <1>8, <1>9, <1>10 DEF Inv

\* What the invariant says of the run that writes.
LEMMA WriterFacts ==
  ASSUME Inv, NEW r \in RunIds, Writing, live = r
  PROVE  LET a == run[r].command.answer
             os == opened.messages
             ms == run[r].current
         IN  /\ a \in RunIds /\ a \in 0 .. MaxRuns
             /\ os \in Seq(Message) /\ ms \in Seq(Message) /\ opened = [messages |-> os]
             /\ Fit(os) /\ By(os, Confirmed) /\ Only(os, a) /\ Has(os, a)
             /\ Fit(ms) /\ By(ms, Confirmed) /\ Only(ms, a) /\ Has(ms, a)
             /\ failed # None => Has(os, failed.answer) /\ Has(ms, failed.answer)
                                /\ failed.session = route
             /\ run[r].pc \in {"stream", "canvas", "wait", "reconcile"} /\ run[r].pc # "off"
             /\ run[r].command \in Command /\ run[r].command.session = route
             /\ run[r].aborted \in BOOLEAN /\ run[r].job \in RunIds
             /\ run[r].kind \in {"turn", "resolve"}
             /\ holder = r /\ streaming = TRUE
<1>1. live # 0 /\ Active(r) /\ run[r].pc # "off" /\ ~leaving
  BY DEF Writing, Active
<1>2. opened # None /\ run[r].command.session = route
  BY <1>1 DEF Inv, PageInv
<1>3. run[r] \in Ran /\ run[r].command.answer \in RunIds
  BY <1>1, RunFields DEF Inv
<1>4. opened \in [messages : Seq(Message)] /\ streaming \in BOOLEAN
  BY <1>2 DEF Inv, TypeInv
<1>5. run[r].command.answer \in 0 .. MaxRuns
  BY <1>3, TurnsAssumption DEF RunIds
<1> QED
  BY <1>1, <1>2, <1>3, <1>4, <1>5
  DEF Inv, PageInv, WriterInv, OfferInv, Writing, Active, Ran

\* A step that leaves messages and runs alone.
LEMMA SmallStep ==
  ASSUME Inv, TypeInv',
         UNCHANGED <<route, opened, leaving, live, holder, streaming, failed, pending, run>>,
         opening' = "loading" => opening = "loading" \/ opened = None,
         stopping' \subseteq Begun, cancelled \subseteq cancelled', cancelled' \subseteq Begun,
         started' => started \/ (Writing /\ run[live].kind = "turn")
  PROVE  Inv'
<1>1. Begun' = Begun /\ Writing' = Writing /\ Confirmed \subseteq Confirmed'
  BY DEF Begun, Writing, Active, Confirmed
<1>2. \A ms : By(ms, Confirmed) => By(ms, Confirmed')
  BY <1>1 DEF By
<1>3. Numbered'
  BY <1>1 DEF Inv, Numbered
<1>4. PageInv'
  BY <1>1, <1>2 DEF Inv, PageInv
<1>5. WriterInv'
  BY <1>1, <1>2 DEF Inv, WriterInv
<1>6. OthersInv' /\ OfferInv'
  BY <1>1 DEF Inv, OthersInv, OfferInv, Active
<1> QED
  BY <1>3, <1>4, <1>5, <1>6 DEF Inv

\* The page has moved on from the run that makes the step, or is about to.
LEMMA AsideStep ==
  ASSUME Inv, NEW r \in RunIds, run[r].pc # "off", live # r \/ leaving,
         NEW pc \in {"stream", "canvas", "wait", "reconcile", "done"},
         NEW ms, NEW aborted, NEW outcome, RunsOn(r, pc, ms, aborted, outcome),
         pc = "reconcile" => run[r].kind = "turn",
         pc # "done" /\ live # r => aborted,
         UNCHANGED <<route, opened, opening, leaving, live, stopping, moves, provider>>,
         holder' \in {holder, 0}, streaming' \in {streaming, FALSE},
         started' \in {started, FALSE}, Writing => UNCHANGED <<holder, streaming>>,
         pending' \in {pending, run[r].job}, failed' \in Command \cup {None},
         failed' = failed \/ (leaving /\ (failed' # None => failed'.session # route))
  PROVE  Inv'
<1>1. r # 0 /\ run[r].job \in RunIds
  BY RunFields DEF Inv, Ran
<1>2. /\ Begun' = Begun /\ Confirmed' = Confirmed
      /\ \A q \in RunIds : /\ run'[q].command = run[q].command
                           /\ run'[q].kind = run[q].kind /\ run'[q].job = run[q].job
      /\ \A q \in RunIds \ {r} : run'[q] = run[q]
  BY NamesStay DEF Inv, provider
<1>3. run'[r].pc = pc /\ run'[r].aborted = aborted
  BY DEF RunsOn
<1>4. live # 0 => live \in RunIds /\ (~leaving => run'[live] = run[live])
                  /\ run'[live].command = run[live].command
  BY <1>2 DEF Inv, Numbered, Begun
<1>5. Writing' = Writing
  BY <1>4 DEF Writing, Active
<1>6. TypeInv'
  <2>1. 0 \in 0 .. MaxRuns
    BY TurnsAssumption
  <2>2. holder' \in 0 .. MaxRuns /\ streaming' \in BOOLEAN /\ started' \in BOOLEAN
        /\ pending' \in RunIds \cup {None}
    BY <1>1, <2>1 DEF Inv, TypeInv
  <2> QED
    BY <2>2 DEF Inv, TypeInv, RunsOn, provider
<1>7. Numbered'
  <2>1. r \in Begun /\ run[r].job \in Begun
    BY DEF Inv, Numbered, Begun
  <2>2. \A q \in Begun : q \in RunIds
    BY DEF Begun
  <2>3. \A q \in Begun : run'[q].pc = "reconcile" => run'[q].kind = "turn"
    BY <1>2, <1>3, <2>2 DEF Inv, Numbered
  <2> QED
    BY <1>2, <2>1, <2>2, <2>3 DEF Inv, Numbered, provider
<1>8. PageInv'
  <2>1. ASSUME started'
        PROVE  Writing' /\ run'[live'].kind = "turn"
    <3>1. started
      BY <2>1 DEF Inv, TypeInv
    <3>2. Writing /\ run[live].kind = "turn"
      BY <3>1 DEF Inv, PageInv
    <3> QED
      BY <1>4, <1>5, <3>2 DEF Writing
  <2>2. opened' # None =>
          /\ Fit(opened'.messages) /\ By(opened'.messages, Confirmed')
          /\ ~Writing' => Quiet(opened'.messages)
    BY <1>2, <1>5 DEF Inv, PageInv
  <2>3. /\ opening' = "loading" => opened' = None
        /\ ~leaving' /\ live' # 0 => opened' # None /\ run'[live'].command.session = route'
        /\ leaving' => /\ opened' = None
                       /\ live' # 0 => run'[live'].command.session # route'
    BY <1>4 DEF Inv, PageInv
  <2> QED
    BY <2>1, <2>2, <2>3 DEF PageInv
<1>9. WriterInv'
  <2> SUFFICES ASSUME Writing
               PROVE  WriterInv'
    BY <1>5 DEF WriterInv
  <2>1. run'[live] = run[live] /\ live' = live /\ holder' = holder /\ streaming' = streaming
    BY <1>4 DEF Writing
  <2> QED
    BY <1>2, <1>5, <2>1 DEF Inv, WriterInv, provider
<1>10. OthersInv'
  BY <1>2, <1>3 DEF Inv, OthersInv, Active
<1>11. OfferInv'
  <2>1. CASE leaving
    BY <2>1 DEF Inv, OfferInv
  <2>2. CASE ~leaving
    BY <1>4, <1>5, <2>2 DEF Inv, OfferInv, Writing
  <2> QED
    BY <2>1, <2>2
<1> QED
  BY <1>6, <1>7, <1>8, <1>9, <1>10, <1>11 DEF Inv

\* As long as no other route was rendered, the run with the number of the page is its own.
LEMMA LiveIsShown ==
  ASSUME Inv, NEW r \in RunIds, live = r, ~leaving
  PROVE  ~Overtaken(r)
<1>1. r # 0
  BY RunFields DEF Inv
<1> QED
  BY <1>1 DEF Inv, PageInv, Overtaken

LEMMA StopAnsweredInv ==
  ASSUME Inv, NEW r \in RunIds, StopAnswered(r)
  PROVE  Inv'
<1>1. r \in Begun /\ run[r].pc # "off" /\ stopping' \subseteq stopping
  BY DEF StopAnswered, Inv, Numbered, Begun
<1>2. CASE run[r].job \in cancelled /\ holder = r /\ started
  <2> DEFINE a == run[r].command.answer
             os == MapMessage(opened.messages, a, "stopped")
  <2>1. Writing /\ live = r /\ run[r].kind = "turn" /\ r \in cancelled
    BY <1>1, <1>2 DEF Inv, PageInv, WriterInv, Numbered
  <2>2. opened' = [messages |-> os] /\ run' = [run EXCEPT ![r].aborted = TRUE]
    BY <1>2, <2>1 DEF StopAnswered, Inv, PageInv, Writing
  <2>3. RunsOn(r, run[r].pc, run[r].current, TRUE, run[r].outcome)
    BY <1>1, <2>2, AbortRuns DEF Inv
  <2>4. a \in Confirmed
    BY <2>1 DEF Confirmed
  <2>5. /\ os \in Seq(Message) /\ Fit(os) /\ By(os, Confirmed) /\ Only(os, a)
        /\ \A b : Has(opened.messages, b) => Has(os, b)
        /\ Quiet(opened.messages) => Quiet(os)
        /\ Unfailed(os, a)
    <3>1. opened.messages \in Seq(Message) /\ a \in 0 .. MaxRuns /\ Fit(opened.messages)
          /\ By(opened.messages, Confirmed) /\ Only(opened.messages, a)
      BY <2>1, WriterFacts
    <3>2. "stopped" \in Statuses /\ "stopped" # "streaming" /\ "stopped" # "error"
      BY DEF Statuses
    <3> QED
      BY <2>4, <3>1, <3>2, MapFacts
  <2>6. run[r].pc = "reconcile" =>
           /\ run[r].outcome \in {"error", "interrupt"} => Quiet(opened.messages)
           /\ run[r].outcome # "none"
    BY <2>1 DEF Inv, WriterInv
  <2>7. UNCHANGED <<route, opening, leaving, live, holder, streaming, failed, moves, log, cancelled,
                    started, pending, job>>
    BY DEF StopAnswered, provider
  <2>8. job' \in [RunIds -> Job] /\ started' \in BOOLEAN
    BY <2>7 DEF Inv, TypeInv
  <2> DEFINE ms == run[r].current
             pc == run[r].pc
             outcome == run[r].outcome
  <2>9. /\ Has(os, a) /\ Fit(ms) /\ By(ms, Confirmed) /\ Only(ms, a) /\ Has(ms, a)
        /\ failed # None => Has(os, failed.answer) /\ Has(ms, failed.answer)
        /\ pc \in {"stream", "canvas", "wait", "reconcile"}
    BY <2>1, <2>5, WriterFacts
  <2>10. pc = "reconcile" =>
           /\ run[r].kind = "turn"
           /\ outcome \in {"error", "interrupt"} => Quiet(os)
           /\ outcome = "interrupt" => Unfailed(os, a)
           /\ outcome = "abort" => TRUE
           /\ outcome # "none"
    BY <2>1, <2>5, <2>6
  <2> HIDE DEF os, ms, pc, outcome
  <2> QED
    BY <1>1, <2>1, <2>2, <2>3, <2>5, <2>7, <2>8, <2>9, <2>10, WriterGoesOn DEF ms, pc, outcome
<1>3. CASE ~(run[r].job \in cancelled /\ holder = r /\ started)
  <2>1. UNCHANGED <<run, opened, route, opening, leaving, live, holder, streaming, started, failed,
                    pending, moves, provider>>
    BY <1>3 DEF StopAnswered
  <2>2. TypeInv' /\ stopping' \subseteq Begun /\ cancelled' \subseteq Begun
    BY <1>1, <2>1 DEF Inv, TypeInv, Numbered, provider
  <2> QED
    BY <2>1, <2>2, SmallStep DEF provider
<1> QED
  BY <1>2, <1>3

LEMMA TurnStartedInv ==
  ASSUME Inv, NEW r \in RunIds, TurnStarted(r)
  PROVE  Inv'
<1>1. Active(r) /\ ~Overtaken(r) /\ run[r].kind = "turn"
  BY DEF TurnStarted, Follows, Active
<1>2. Writing /\ live = r
  BY <1>1, LiveWrites
<1>3. UNCHANGED <<route, opened, opening, leaving, live, holder, streaming, stopping, failed,
                  pending, moves, run, provider>> /\ started' = TRUE
  BY DEF TurnStarted
<1>4. TypeInv' /\ stopping' \subseteq Begun /\ cancelled' \subseteq Begun
  BY <1>3 DEF Inv, TypeInv, Numbered, provider
<1> QED
  BY <1>1, <1>2, <1>3, <1>4, SmallStep DEF provider

LEMMA ToolCallInv ==
  ASSUME Inv, NEW r \in RunIds, ToolCall(r)
  PROVE  Inv'
<1> DEFINE a == run[r].command.answer
           tool == Said("tool", run[r].command.session, 0, "none")
           ms == InsertTool(run[r].current, a, tool)
<1>1. Active(r) /\ ~Overtaken(r) /\ run[r].pc = "stream"
  BY DEF ToolCall, Follows, Active
<1>2. Writing /\ live = r /\ run[r].pc # "off" /\ route = run[r].command.session
  BY <1>1, LiveWrites
<1>3. tool \in Message /\ tool.status = "none"
  <2>1. route \in Sessions /\ 0 \in 0 .. MaxRuns
    BY TurnsAssumption DEF Inv, TypeInv
  <2> QED
    BY <1>2, <2>1 DEF Said, Message
<1>4. /\ ms \in Seq(Message) /\ Fit(ms) /\ By(ms, Confirmed)
      /\ Only(ms, a) /\ \A b : Has(run[r].current, b) => Has(ms, b)
  BY <1>2, <1>3, WriterFacts, InsertFacts
<1>5. opened' = [messages |-> ms] /\ run' = [run EXCEPT ![r].current = ms]
  BY <1>2 DEF ToolCall, Publish, Answer
<1>6. RunsOn(r, "stream", ms, run[r].aborted, run[r].outcome)
  BY <1>1, <1>2, <1>4, <1>5, CurrentRuns DEF Inv
<1>7. job' \in [RunIds -> Job]
  <2>1. job \in [RunIds -> Job] /\ run[r].job \in RunIds
    BY <1>2, WriterFacts DEF Inv, TypeInv
  <2>2. job[run[r].job] \in Job
    BY <2>1
  <2>3. [job[run[r].job] EXCEPT !.tools = @ + 1] \in Job
    BY <2>2 DEF Job
  <2> QED
    BY <2>1, <2>3 DEF ToolCall
<1>8. UNCHANGED <<route, opening, leaving, live, holder, streaming, failed, moves, log, cancelled,
                  started, pending, stopping>>
  BY DEF ToolCall
<1>9. started' \in BOOLEAN
  BY <1>8 DEF Inv, TypeInv
<1> HIDE DEF ms
<1>10. Has(ms, a) /\ (failed # None => Has(ms, failed.answer))
  BY <1>2, <1>4, WriterFacts
<1> QED
  BY <1>2, <1>4, <1>5, <1>6, <1>7, <1>8, <1>9, <1>10, WriterGoesOn

\* The run that writes waits for the canvas before it goes on.
LEMMA CanvasUpdatedInv ==
  ASSUME Inv, NEW r \in RunIds, CanvasUpdated(r)
  PROVE  Inv'
<1> DEFINE a == run[r].command.answer
           ms == run[r].current
           os == opened.messages
           aborted == run[r].aborted
<1>1. Active(r) /\ ~Overtaken(r)
  BY DEF CanvasUpdated, Follows, Active
<1>2. Writing /\ live = r /\ run[r].pc # "off"
  BY <1>1, LiveWrites
<1>3. RunsOn(r, "canvas", ms, aborted, run[r].outcome)
  BY <1>2, CanvasRuns DEF CanvasUpdated, Inv
<1>4. UNCHANGED <<page, log, cancelled>>
  BY DEF CanvasUpdated
<1>5. job' \in [RunIds -> Job]
  <2>1. job \in [RunIds -> Job] /\ run[r].job \in RunIds
    BY <1>2, WriterFacts DEF Inv, TypeInv
  <2>2. job[run[r].job] \in Job
    BY <2>1
  <2>3. [job[run[r].job] EXCEPT !.tools = @ + 1] \in Job
    BY <2>2 DEF Job
  <2> QED
    BY <2>1, <2>3 DEF CanvasUpdated
<1>6. /\ os \in Seq(Message) /\ opened' = [messages |-> os]
      /\ Fit(os) /\ By(os, Confirmed) /\ Only(os, a) /\ Has(os, a)
      /\ Fit(ms) /\ By(ms, Confirmed) /\ Only(ms, a) /\ Has(ms, a)
      /\ failed # None => Has(os, failed.answer) /\ Has(ms, failed.answer)
      /\ aborted \in BOOLEAN
  BY <1>2, <1>4, WriterFacts DEF page
<1>7. started' \in BOOLEAN
  BY <1>4 DEF Inv, TypeInv, page
<1> HIDE DEF ms, os
<1> QED
  BY <1>2, <1>3, <1>4, <1>5, <1>6, <1>7, WriterGoesOn DEF page

\* What getCanvas answers is published for the run that writes; a run that was replaced
\* has no page any more, or gets no answer.
LEMMA CanvasAnsweredInv ==
  ASSUME Inv, NEW r \in RunIds, CanvasAnswered(r)
  PROVE  Inv'
<1> DEFINE a == run[r].command.answer
           ms == run[r].current
           aborted == run[r].aborted
           outcome == run[r].outcome
<1>1. Active(r) /\ run[r].pc # "off" /\ r # 0
  BY RunFields DEF CanvasAnswered, Active, Inv
<1>2. RunsOn(r, "stream", ms, aborted, outcome)
  BY <1>1, ResumeRuns DEF CanvasAnswered, Inv
<1>3. UNCHANGED <<route, opening, leaving, live, holder, streaming, started, stopping,
                  failed, pending, moves, provider>>
  BY DEF CanvasAnswered
<1>4. CASE live = r /\ ~leaving
  <2>1. Writing /\ route = run[r].command.session
    BY <1>1, <1>4, LiveIsShown, LiveWrites
  <2>2. opened' = [messages |-> ms]
    BY <1>4, <2>1 DEF CanvasAnswered, Publish
  <2>3. /\ ms \in Seq(Message)
        /\ Fit(ms) /\ By(ms, Confirmed) /\ Only(ms, a) /\ Has(ms, a)
        /\ failed # None => Has(ms, failed.answer)
        /\ aborted \in BOOLEAN
    BY <1>4, <2>1, WriterFacts
  <2>4. job' \in [RunIds -> Job] /\ started' \in BOOLEAN
    BY <1>3 DEF Inv, TypeInv, provider
  <2> HIDE DEF ms
  <2> QED
    BY <1>2, <1>3, <1>4, <2>1, <2>2, <2>3, <2>4, WriterGoesOn DEF provider
<1>5. CASE live # r \/ leaving
  <2>1. opened' = opened
    <3>1. CASE live # r
      BY <3>1 DEF CanvasAnswered, Inv, CanvasHeedsAbort
    <3>2. CASE live = r /\ leaving
      BY <1>1, <3>2 DEF CanvasAnswered, Publish, Inv, PageInv
    <3> QED
      BY <1>5, <3>1, <3>2
  <2>2. live # r => aborted
    BY <1>1 DEF Inv, OthersInv
  <2>3. failed' \in Command \cup {None}
    BY <1>3 DEF Inv, TypeInv
  <2> HIDE DEF ms
  <2> QED
    BY <1>1, <1>2, <1>3, <1>5, <2>1, <2>2, <2>3, AsideStep
<1> QED
  BY <1>4, <1>5

\* The last event settles the answer; a turn goes on to read the history, a resolution is over.
LEMMA LastEventInv ==
  ASSUME Inv, NEW r \in RunIds, Active(r), ~Overtaken(r),
         NEW outcome \in Outcomes, NEW status \in {"complete", "error"},
         LastEvent(r, outcome, status), pending' \in {pending, run[r].job},
         outcome \notin {"none", "abort"}, outcome = "interrupt" => status = "complete"
  PROVE  Inv'
<1> DEFINE a == run[r].command.answer
           ms == run[r].current
           os == MapMessage(ms, a, status)
<1>1. Writing /\ live = r /\ run[r].pc # "off" /\ route = run[r].command.session
  BY LiveWrites DEF Active
<1>2. /\ ms \in Seq(Message) /\ a \in 0 .. MaxRuns /\ Fit(ms) /\ By(ms, Confirmed)
      /\ Only(ms, a) /\ Has(ms, a)
      /\ failed # None => Has(ms, failed.answer) /\ failed.session = route
      /\ failed \in Command \cup {None}
  BY <1>1, WriterFacts DEF Inv, TypeInv
<1>3. status \in Statuses /\ status # "streaming" /\ status # "stopped"
  BY DEF Statuses
<1>4. /\ os \in Seq(Message) /\ Fit(os) /\ By(os, Confirmed) /\ Quiet(os) /\ Only(os, a)
      /\ \A b : Has(ms, b) => Has(os, b)
      /\ status # "error" => Unfailed(os, a)
  BY <1>2, <1>3, MapFacts
<1>5. opened' = [messages |-> os]
  BY <1>1 DEF LastEvent, Publish, Answer
<1>6. UNCHANGED <<route, opening, leaving, live, stopping, failed, moves, provider>>
  BY DEF LastEvent
<1>7. CASE EndTurn(r, outcome, os)
  <2>1. RunsOn(r, "reconcile", os, run[r].aborted, outcome)
    BY <1>1, <1>4, <1>7, EndTurnRuns DEF Inv
  <2>2. run[r].kind = "turn" /\ UNCHANGED <<holder, started, streaming>>
    BY <1>7 DEF EndTurn
  <2>3. job' \in [RunIds -> Job] /\ started' \in BOOLEAN
    BY <1>6, <2>2 DEF Inv, TypeInv, provider
  <2>4. run[r].aborted \in BOOLEAN
    BY <1>1, WriterFacts
  <2>5. /\ Has(os, a) /\ (failed # None => Has(os, failed.answer))
        /\ outcome = "interrupt" => Unfailed(os, a)
    BY <1>2, <1>4
  <2> HIDE DEF os
  <2> QED
    BY <1>1, <1>4, <1>5, <1>6, <2>1, <2>2, <2>3, <2>4, <2>5, WriterGoesOn DEF provider
<1>8. CASE EndResolve(r)
  <2>1. RunsOn(r, "done", <<>>, FALSE, "none") /\ run[r].kind = "resolve"
    BY <1>1, <1>8, RetireRuns DEF EndResolve, Inv
  <2>2. holder' = 0 /\ streaming' = FALSE /\ started' = FALSE
    BY <1>1, <1>8, <2>1, WriterFacts DEF EndResolve, ClearResolve, Inv, PageInv, TypeInv
  <2>3. failed' \in Command \cup {None}
        /\ (failed' # None => failed'.session = route /\ Has(os, failed'.answer))
    BY <1>2, <1>4, <1>6
  <2> HIDE DEF os
  <2> QED
    BY <1>1, <1>4, <1>5, <1>6, <2>1, <2>2, <2>3, WriterEnds
<1> QED
  BY <1>7, <1>8 DEF LastEvent, Answer

LEMMA LastEventsInv ==
  ASSUME Inv, NEW r \in RunIds, Interrupt(r) \/ Done(r) \/ Error(r)
  PROVE  Inv'
<1>1. Active(r) /\ ~Overtaken(r)
  BY DEF Interrupt, Done, Error, Follows, Active
<1>2. CASE Interrupt(r)
  BY <1>1, <1>2, LastEventInv DEF Interrupt, Outcomes
<1>3. CASE Done(r)
  BY <1>1, <1>3, LastEventInv DEF Done, Outcomes
<1>4. CASE Error(r)
  BY <1>1, <1>4, LastEventInv DEF Error, Outcomes
<1> QED
  BY <1>2, <1>3, <1>4

\* A stream that breaks off, or that Stop has closed, leaves its answer as it is.
LEMMA BrokenTurnInv ==
  ASSUME Inv, NEW r \in RunIds, Active(r), live = r,
         NEW outcome \in {"failure", "abort"}, EndTurn(r, outcome, run[r].current),
         outcome = "abort" => run[r].aborted,
         UNCHANGED <<route, opened, opening, leaving, live, stopping, failed, pending, moves, provider>>
  PROVE  Inv'
<1> DEFINE a == run[r].command.answer
           ms == run[r].current
           os == opened.messages
           aborted == run[r].aborted
<1>1. run[r].pc # "off" /\ ms \in Seq(Message)
  BY RunFields DEF Active, Inv, Ran
<1>2. RunsOn(r, "reconcile", ms, aborted, outcome)
  BY <1>1, EndTurnRuns DEF Inv, Outcomes
<1>3. run[r].kind = "turn" /\ UNCHANGED <<holder, started, streaming>>
  BY DEF EndTurn
<1>4. CASE ~leaving
  <2>1. Writing
    BY <1>4, LiveIsShown, LiveWrites
  <2>2. /\ os \in Seq(Message) /\ opened' = [messages |-> os]
        /\ Fit(os) /\ By(os, Confirmed) /\ Only(os, a) /\ Has(os, a)
        /\ Fit(ms) /\ By(ms, Confirmed) /\ Only(ms, a) /\ Has(ms, a)
        /\ failed # None => Has(os, failed.answer) /\ Has(ms, failed.answer)
        /\ aborted \in BOOLEAN
    BY <2>1, WriterFacts
  <2>3. job' \in [RunIds -> Job] /\ started' \in BOOLEAN
    BY <1>3 DEF Inv, TypeInv, provider
  <2> HIDE DEF ms, os
  <2> QED
    BY <1>2, <1>3, <2>1, <2>2, <2>3, WriterGoesOn DEF provider
<1>5. CASE leaving
  <2>1. failed' \in Command \cup {None}
    BY DEF Inv, TypeInv
  <2> HIDE DEF ms
  <2> QED
    BY <1>1, <1>2, <1>3, <1>5, <2>1, AsideStep
<1> QED
  BY <1>4, <1>5

\* An answer that is not shown any more ends the resolution it belonged to.
LEMMA BrokenResolveInv ==
  ASSUME Inv, NEW r \in RunIds, Active(r), live = r, leaving, EndResolve(r),
         NEW messages, Publish(run[r].command.session, messages),
         pending' \in {pending, run[r].job},
         UNCHANGED <<route, opening, leaving, live, stopping, failed, moves, provider>>
  PROVE  Inv'
<1>1. run[r].pc # "off" /\ r # 0
  BY RunFields DEF Active, Inv
<1>2. RunsOn(r, "done", <<>>, FALSE, "none")
  BY <1>1, RetireRuns DEF EndResolve, Inv
<1>3. opened' = opened
  BY <1>1 DEF Publish, Inv, PageInv
<1>4. /\ holder' \in {holder, 0} /\ streaming' \in {streaming, FALSE}
      /\ started' \in {started, FALSE} /\ failed' \in Command \cup {None}
  BY DEF EndResolve, ClearResolve, Inv, TypeInv
<1>5. ~Writing
  BY DEF Writing
<1> QED
  BY <1>1, <1>2, <1>3, <1>4, <1>5, AsideStep

LEMMA StreamBreaksInv ==
  ASSUME Inv, NEW r \in RunIds, StreamBreaks(r)
  PROVE  Inv'
<1>1. Active(r) /\ live = r
  BY DEF StreamBreaks, Active
<1>2. UNCHANGED <<route, opening, leaving, live, stopping, failed, moves, provider>>
  BY DEF StreamBreaks
<1>3. CASE EndTurn(r, "failure", run[r].current) /\ UNCHANGED <<opened, pending>>
  BY <1>1, <1>2, <1>3, BrokenTurnInv
<1>4. CASE ~(EndTurn(r, "failure", run[r].current) /\ UNCHANGED <<opened, pending>>)
  <2> DEFINE messages == MapMessage(run[r].current, Answer(r), "error")
  <2>1. /\ EndResolve(r) /\ Publish(run[r].command.session, messages)
        /\ pending' = run[r].job
    BY <1>4 DEF StreamBreaks
  <2>2. CASE leaving
    <3> HIDE DEF messages
    <3> QED
      BY <1>1, <1>2, <2>1, <2>2, BrokenResolveInv
  <2>3. CASE ~leaving
    <3>1. LastEvent(r, "error", "error")
      BY <1>2, <2>1 DEF LastEvent
    <3>2. ~Overtaken(r)
      BY <1>1, <2>3, LiveIsShown
    <3> QED
      BY <1>1, <2>1, <3>1, <3>2, LastEventInv DEF Outcomes
  <2> QED
    BY <2>2, <2>3
<1> QED
  BY <1>3, <1>4

LEMMA StoppedInv ==
  ASSUME Inv, NEW r \in RunIds, Stopped(r)
  PROVE  Inv'
<1>1. Active(r)
  BY DEF Stopped, Active
<1> QED
  BY <1>1, BrokenTurnInv DEF Stopped

\* A refused command waits, and is sent again.
LEMMA WaitInv ==
  ASSUME Inv, NEW r \in RunIds, Busy(r) \/ WaitForRetry(r)
  PROVE  Inv'
<1> DEFINE a == run[r].command.answer
           ms == run[r].current
           os == opened.messages
           aborted == run[r].aborted
           outcome == run[r].outcome
           pc == run'[r].pc
<1>1. Active(r) /\ live = r /\ run[r].pc # "off"
  BY DEF Busy, WaitForRetry, Active
<1>2. RunsOn(r, pc, ms, aborted, outcome) /\ pc \in {"stream", "wait"}
  <2>1. CASE Busy(r)
    BY <1>1, <2>1, WaitRuns DEF Busy, Inv, RunsOn
  <2>2. CASE WaitForRetry(r)
    BY <1>1, <2>2, ResumeRuns DEF WaitForRetry, Inv, RunsOn
  <2> QED
    BY <2>1, <2>2
<1>3. UNCHANGED <<route, opened, opening, leaving, live, holder, streaming, started, stopping,
                  failed, pending, moves, provider>>
  BY DEF Busy, WaitForRetry
<1>4. CASE ~leaving
  <2>1. Writing
    BY <1>1, <1>4, LiveIsShown, LiveWrites
  <2>2. /\ os \in Seq(Message) /\ opened' = [messages |-> os]
        /\ Fit(os) /\ By(os, Confirmed) /\ Only(os, a) /\ Has(os, a)
        /\ Fit(ms) /\ By(ms, Confirmed) /\ Only(ms, a) /\ Has(ms, a)
        /\ failed # None => Has(os, failed.answer) /\ Has(ms, failed.answer)
        /\ aborted \in BOOLEAN
    BY <1>1, <1>3, <2>1, WriterFacts
  <2>3. job' \in [RunIds -> Job] /\ started' \in BOOLEAN
    BY <1>3 DEF Inv, TypeInv, provider
  <2> HIDE DEF ms, os, pc
  <2> QED
    BY <1>1, <1>2, <1>3, <2>1, <2>2, <2>3, WriterGoesOn DEF provider
<1>5. CASE leaving
  <2>1. failed' \in Command \cup {None}
    BY <1>3 DEF Inv, TypeInv
  <2> HIDE DEF ms, pc
  <2> QED
    BY <1>1, <1>2, <1>3, <1>5, <2>1, AsideStep
<1> QED
  BY <1>4, <1>5

\* A run that was replaced ends, and gives back nothing that another one holds.
LEMMA OvertakeInv ==
  ASSUME Inv, NEW r \in RunIds, Overtake(r)
  PROVE  Inv'
<1>1. Active(r) /\ run[r].pc # "off" /\ r # 0
  BY RunFields DEF Overtake, Active, Inv
<1>2. live # r \/ leaving
  BY <1>1, LiveIsShown DEF Overtake
<1>3. RunsOn(r, "done", <<>>, FALSE, "none")
  BY <1>1, RetireRuns DEF Overtake, EndResolve, Inv
<1>4. UNCHANGED <<route, opened, opening, leaving, live, stopping, failed, pending, moves, provider>>
  BY DEF Overtake
<1>5. /\ holder' \in {holder, 0} /\ streaming' \in {streaming, FALSE}
      /\ started' \in {started, FALSE} /\ failed' \in Command \cup {None}
  BY <1>4 DEF Overtake, EndResolve, ClearStream, ClearResolve, Inv, TypeInv
<1>6. Writing => UNCHANGED <<holder, streaming>>
  BY <1>1, <1>2 DEF Overtake, EndResolve, ClearStream, ClearResolve, Inv, WriterInv, Writing
<1> QED
  BY <1>1, <1>2, <1>3, <1>4, <1>5, <1>6, AsideStep

\* What the page shows when the history has been asked for.
LEMMA ReconcileShown ==
  ASSUME Inv, NEW r \in RunIds, Reconcile(r), ~leaving
  PROVE  Inv'
<1> DEFINE a == run[r].command.answer
           ms == run[r].current
           outcome == run[r].outcome
<1>1. Writing /\ live = r /\ run[r].pc = "reconcile" /\ r # 0
  BY RunFields DEF Reconcile, Writing, Active, Inv
<1>2. /\ run[r].kind = "turn" /\ outcome # "none"
      /\ outcome \in {"error", "interrupt"} => Quiet(opened.messages)
      /\ outcome = "interrupt" => Unfailed(opened.messages, a)
      /\ outcome = "abort" => a \in Confirmed
  BY <1>1 DEF Inv, WriterInv, Numbered, Begun, Confirmed
<1>3. /\ ms \in Seq(Message) /\ a \in 0 .. MaxRuns /\ Fit(ms) /\ By(ms, Confirmed)
      /\ Only(ms, a) /\ Has(ms, a)
      /\ opened = [messages |-> opened.messages] /\ opened.messages \in Seq(Message)
      /\ Fit(opened.messages) /\ By(opened.messages, Confirmed) /\ Has(opened.messages, a)
      /\ failed # None => Has(ms, failed.answer) /\ Has(opened.messages, failed.answer)
                         /\ failed.session = route
      /\ run[r].command \in Command /\ run[r].command.session = route
  BY <1>1, WriterFacts
<1>4. outcome \in {"interrupt", "done", "error", "failure", "abort"}
  BY <1>1, <1>2, RunFields DEF Inv, Ran, Outcomes
<1>5. /\ RunsOn(r, "done", <<>>, FALSE, "none")
      /\ holder' = 0 /\ streaming' = FALSE /\ started' = FALSE
      /\ UNCHANGED <<route, opening, leaving, live, moves, stopping, provider, pending>>
  BY <1>1, WriterFacts, RetireRuns DEF Reconcile, ClearStream, Inv
<1>6. failed \in Command \cup {None} /\ run[r].command # None /\ route \in Sessions
  BY <1>3, NoneAssumption DEF Inv, TypeInv
<1>7. CASE ReadFinds(r)
  <2> DEFINE os == MergePersisted(route, ms)
  <2>1. opened' = [messages |-> os] /\ failed' = None
    BY <1>3, <1>7 DEF ReadFinds, Publish
  <2>2. /\ os \in Seq(Message) /\ Fit(os) /\ By(os, Confirmed) /\ Quiet(os)
        /\ Unfailed(os, a)
    BY <1>3, <1>6, MergedFacts DEF Inv
  <2> HIDE DEF os
  <2> QED
    BY <1>1, <1>5, <2>1, <2>2, WriterEnds
<1>8. CASE ReadMisses(r) \/ ReadFails(r)
  <2> DEFINE status == IF outcome = "abort" THEN "stopped" ELSE "error"
             os == IF outcome \in {"done", "failure", "abort"}
                   THEN MapMessage(ms, a, status) ELSE opened.messages
  <2>1. opened' = [messages |-> os]
    BY <1>3, <1>4, <1>8 DEF ReadMisses, ReadFails, ShowOutcome, Publish, Answer
  <2>2. status \in Statuses /\ status # "streaming" /\ (status = "stopped" => a \in Confirmed)
    BY <1>2 DEF Statuses
  <2> HIDE DEF status
  <2>3. /\ os \in Seq(Message) /\ Fit(os) /\ By(os, Confirmed) /\ Quiet(os) /\ Has(os, a)
        /\ failed # None => Has(os, failed.answer)
    <3>1. CASE outcome \in {"done", "failure", "abort"}
      BY <1>3, <2>2, <3>1, MapFacts
    <3>2. CASE outcome \in {"error", "interrupt"}
      BY <1>2, <1>3, <3>2
    <3> QED
      BY <1>4, <3>1, <3>2
  <2>4. failed' \in {failed, run[r].command}
        /\ (failed' = None => outcome \in {"interrupt", "abort"})
    BY <1>4, <1>6, <1>8 DEF ReadMisses, ReadFails
  <2>5. failed' \in Command \cup {None}
        /\ (failed' # None => failed'.session = route /\ Has(os, failed'.answer))
    BY <1>3, <1>6, <2>3, <2>4
  <2>6. failed' = None => Unfailed(os, a)
    <3>1. outcome = "interrupt" => Unfailed(os, a)
      BY <1>2
    <3>2. outcome = "abort" => Unfailed(os, a)
      BY <1>3, <2>2, MapFacts DEF status
    <3> QED
      BY <2>4, <3>1, <3>2
  <2> HIDE DEF os
  <2> QED
    BY <1>1, <1>5, <2>1, <2>3, <2>5, <2>6, WriterEnds
<1> QED
  BY <1>7, <1>8 DEF Reconcile

\* The history of a session that is not on the page any more.
LEMMA ReconcileInv ==
  ASSUME Inv, NEW r \in RunIds, Reconcile(r)
  PROVE  Inv'
<1>1. CASE ~leaving
  BY <1>1, ReconcileShown
<1>2. CASE leaving
  <2>1. run[r].pc # "off" /\ r # 0 /\ live = r
    BY RunFields DEF Reconcile, Inv
  <2>2. run[r].command \in Command /\ run[r].command.session # route
    BY <1>2, <2>1, RunFields DEF Inv, PageInv, Ran
  <2>3. RunsOn(r, "done", <<>>, FALSE, "none")
    BY <2>1, RetireRuns DEF Reconcile, Inv
  <2>4. UNCHANGED <<route, opening, leaving, live, stopping, pending, moves, provider>>
    BY DEF Reconcile
  <2>5. opened' = opened
    BY <2>2 DEF Reconcile, ReadFinds, ReadMisses, ReadFails, ShowOutcome, Publish
  <2>6. /\ holder' \in {holder, 0} /\ streaming' \in {streaming, FALSE}
        /\ started' \in {started, FALSE}
    BY DEF Reconcile, ClearStream
  <2>7. failed' \in {failed, None, run[r].command}
    BY DEF Reconcile, ReadFinds, ReadMisses, ReadFails
  <2>8. /\ failed' \in Command \cup {None}
        /\ failed' = failed \/ (failed' # None => failed'.session # route)
    BY <2>2, <2>7 DEF Inv, TypeInv
  <2>9. ~Writing
    BY <1>2 DEF Writing
  <2> QED
    BY <1>2, <2>1, <2>3, <2>4, <2>5, <2>6, <2>8, <2>9, AsideStep
<1> QED
  BY <1>1, <1>2

-----------------------------------------------------------------------------
(* The steps of the page and of the provider that start no run.            *)

LEMMA RetryOpenedInv ==
  ASSUME Inv, RetryOpenedSession
  PROVE  Inv'
<1>1. TypeInv'
  BY DEF Inv, TypeInv, RetryOpenedSession, provider
<1>2. stopping' \subseteq Begun /\ cancelled' \subseteq Begun /\ cancelled' = cancelled
  BY DEF RetryOpenedSession, provider, Inv, Numbered
<1> QED
  BY <1>1, <1>2, SmallStep DEF RetryOpenedSession

LEMMA StopStreamingInv ==
  ASSUME Inv, StopStreaming
  PROVE  Inv'
<1>1. holder \in Begun /\ holder \in RunIds
  BY DEF StopStreaming, Inv, Numbered, Begun
<1>2. TypeInv'
  BY <1>1 DEF Inv, TypeInv, StopStreaming, provider
<1>3. stopping' \subseteq Begun /\ cancelled' \subseteq Begun /\ cancelled' = cancelled
  BY <1>1 DEF StopStreaming, provider, Inv, Numbered
<1> QED
  BY <1>2, <1>3, SmallStep DEF StopStreaming

\* A text is added to the history of a session.
LEMMA LogGrows ==
  ASSUME TypeInv, NEW s, NEW role \in {"user", "assistant"}
  PROVE  [log EXCEPT ![s] = Append(@, role)] \in [Sessions -> Seq({"user", "assistant"})]
<1>1. log \in [Sessions -> Seq({"user", "assistant"})]
  BY DEF TypeInv
<1>2. \A x \in Sessions : Append(log[x], role) \in Seq({"user", "assistant"})
  BY <1>1
<1> QED
  BY <1>1, <1>2

\* The provider works on a job: nothing of it reaches the page by itself.
LEMMA JobStep ==
  ASSUME Inv, NEW j \in RunIds, NEW new \in Job, job' = [job EXCEPT ![j] = new],
         UNCHANGED <<page, run>>, log' \in [Sessions -> Seq({"user", "assistant"})],
         cancelled \subseteq cancelled', cancelled' \subseteq Begun
  PROVE  Inv'
<1>1. cancelled' \subseteq RunIds
  BY DEF Begun
<1>2. job' \in [RunIds -> Job]
  BY DEF Inv, TypeInv
<1>3. TypeInv'
  BY <1>1, <1>2 DEF Inv, TypeInv, page
<1>4. stopping' \subseteq Begun
  BY DEF page, Inv, Numbered
<1> QED
  BY <1>3, <1>4, SmallStep DEF page

\* A request is taken by the provider.
LEMMA AcceptInv ==
  ASSUME Inv, NEW r \in RunIds, Accept(r) \/ AcceptResolution(r)
  PROVE  Inv'
<1> DEFINE j == IF Accept(r) THEN r ELSE run[r].job
           new == [job[j] EXCEPT !.state = "running", !.follower = r]
<1>1. j \in RunIds
  <2>1. run[r].pc # "off"
    BY DEF Accept, AcceptResolution
  <2> QED
    BY <2>1, RunFields DEF Inv, Ran
<1>2. job[j] \in Job
  BY <1>1 DEF Inv, TypeInv
<1>3. new \in Job
  BY <1>2 DEF Job
<1>4. job' = [job EXCEPT ![j] = new] /\ UNCHANGED <<page, run, cancelled>>
  BY <1>1 DEF Accept, AcceptResolution, Inv, TypeInv
<1>5. log' \in [Sessions -> Seq({"user", "assistant"})]
  <2>1. log \in [Sessions -> Seq({"user", "assistant"})]
    BY DEF Inv, TypeInv
  <2>2. CASE Accept(r)
    <3>1. log' = [log EXCEPT ![run[r].command.session] = Append(@, "user")]
      BY <2>2 DEF Accept
    <3> QED
      BY <3>1, LogGrows DEF Inv
  <2>3. CASE AcceptResolution(r)
    BY <2>1, <2>3 DEF AcceptResolution
  <2> QED
    BY <2>2, <2>3
<1>6. cancelled \subseteq cancelled' /\ cancelled' \subseteq Begun
  BY <1>4 DEF Inv, Numbered
<1> HIDE DEF j, new
<1> QED
  BY <1>1, <1>3, <1>4, <1>5, <1>6, JobStep

\* A job goes on, and ends.
LEMMA JobInv ==
  ASSUME Inv, NEW j \in RunIds, JobCompletes(j) \/ JobFails(j) \/ JobAsks(j)
  PROVE  Inv'
<1>1. job[j] \in Job /\ job \in [RunIds -> Job] /\ log \in [Sessions -> Seq({"user", "assistant"})]
  BY DEF Inv, TypeInv
<1>2. UNCHANGED <<page, run, cancelled>>
  BY DEF JobCompletes, JobFails, JobAsks
<1>3. log' \in [Sessions -> Seq({"user", "assistant"})]
  <2> DEFINE said == [log EXCEPT ![run[j].command.session] = Append(@, "assistant")]
  <2>1. said \in [Sessions -> Seq({"user", "assistant"})]
    BY LogGrows DEF Inv
  <2>2. log' = said \/ log' = log
    BY DEF JobCompletes, JobFails, JobAsks
  <2> HIDE DEF said
  <2> QED
    BY <1>1, <2>1, <2>2
<1>4. cancelled \subseteq cancelled' /\ cancelled' \subseteq Begun
  BY <1>2 DEF Inv, Numbered
<1>5. CASE JobAsks(j)
  <2> DEFINE asked == job[j].asked + 1
             new == [job[j] EXCEPT !.state = "waiting", !.asked = asked]
  <2>1. job' = [job EXCEPT ![j] = new]
    BY <1>1, <1>5 DEF JobAsks
  <2>2. asked \in Nat
    BY <1>1 DEF Job
  <2> HIDE DEF asked
  <2>3. new \in Job
    BY <1>1, <2>2 DEF Job
  <2> HIDE DEF new
  <2> QED
    BY <1>2, <1>3, <1>4, <2>1, <2>3, JobStep
<1>6. CASE JobCompletes(j) \/ JobFails(j)
  <2> DEFINE state == IF JobCompletes(j) THEN "completed" ELSE "failed"
             new == [job[j] EXCEPT !.state = state]
  <2>1. new \in Job
    BY <1>1 DEF Job
  <2>2. job' = [job EXCEPT ![j] = new]
    BY <1>1, <1>6 DEF JobCompletes, JobFails
  <2> HIDE DEF new
  <2> QED
    BY <1>2, <1>3, <1>4, <2>1, <2>2, JobStep
<1> QED
  BY <1>5, <1>6

LEMMA ConfirmCancelInv ==
  ASSUME Inv, NEW r \in RunIds, ConfirmCancel(r)
  PROVE  Inv'
<1> DEFINE j == run[r].job
           new == [job[j] EXCEPT !.state = "cancelled"]
<1>1. j \in Begun /\ j \in RunIds
  BY DEF ConfirmCancel, Inv, Numbered, Begun
<1>2. job[j] \in Job /\ job \in [RunIds -> Job]
  BY <1>1 DEF Inv, TypeInv
<1>3. new \in Job
  BY <1>2 DEF Job
<1>4. job' = [job EXCEPT ![j] = new] /\ UNCHANGED <<page, run, log>>
  BY <1>1, <1>2 DEF ConfirmCancel
<1>5. cancelled \subseteq cancelled' /\ cancelled' \subseteq Begun
  BY <1>1 DEF ConfirmCancel, Inv, Numbered
<1>6. log' \in [Sessions -> Seq({"user", "assistant"})]
  BY <1>4 DEF Inv, TypeInv
<1> HIDE DEF j, new
<1> QED
  BY <1>1, <1>3, <1>4, <1>5, <1>6, JobStep

\* A session that is opened has no run: its history is all there is.
LEMMA OpenSessionInv ==
  ASSUME Inv, OpenSession
  PROVE  Inv'
<1> DEFINE ms == History(route)
<1>1. UNCHANGED <<route, leaving, live, holder, streaming, started, stopping,
                  failed, pending, moves, run, provider>>
  BY DEF OpenSession
<1>2. route \in Sessions /\ live = 0 /\ failed = None /\ ~started /\ ~leaving
  BY DEF OpenSession, Inv, TypeInv, PageInv, OfferInv, Writing
<1>3. ms \in Seq(Message) /\ Fit(ms) /\ By(ms, Confirmed) /\ Quiet(ms)
  BY <1>2, HistoryFacts DEF Inv
<1> HIDE DEF ms
<1>4. opened' = [messages |-> ms] \/ opened' = None
  BY DEF OpenSession, ms
<1>5. Begun' = Begun /\ Confirmed' = Confirmed /\ ~Writing'
  BY <1>1, <1>2 DEF Begun, Confirmed, Writing, provider
<1>6. TypeInv'
  <2>1. opened' \in [messages : Seq(Message)] \cup {None} /\ opening' \in {"success", "error"}
    BY <1>3, <1>4 DEF OpenSession
  <2> QED
    BY <1>1, <2>1 DEF Inv, TypeInv, provider
<1>7. Numbered'
  BY <1>1, <1>5 DEF Inv, Numbered, provider
<1>8. PageInv'
  BY <1>1, <1>2, <1>3, <1>4, <1>5 DEF PageInv, OpenSession
<1>9. WriterInv' /\ OthersInv' /\ OfferInv'
  BY <1>1, <1>2, <1>5 DEF Inv, WriterInv, OthersInv, OfferInv, Active
<1> QED
  BY <1>6, <1>7, <1>8, <1>9 DEF Inv

\* What becomes of the runs when another one begins, or the route changes.
LEMMA AbortedFacts ==
  ASSUME TypeInv, NEW q \in RunIds
  PROVE  LET new == Aborted(q)
         IN  /\ new \in Run /\ (new # NoRun => new.busy <= MaxBusyRetries)
             /\ new.pc = run[q].pc /\ new.command = run[q].command
             /\ new.kind = run[q].kind /\ new.job = run[q].job
             /\ Active(q) => new.aborted = TRUE
             /\ (Active(q) => run[q].aborted) => new = run[q]
<1>1. CASE run[q].pc \in {"off", "done"}
  BY <1>1 DEF TypeInv, Aborted, Active
<1>2. CASE run[q].pc \notin {"off", "done"}
  <2> DEFINE new == [run[q] EXCEPT !.aborted = TRUE]
  <2>1. run[q] \in Ran /\ run[q].busy <= MaxBusyRetries /\ Active(q)
    BY <1>2, RunFields DEF Active, Ran
  <2>2. /\ new \in Ran /\ new.busy <= MaxBusyRetries
        /\ new.pc = run[q].pc /\ new.command = run[q].command
        /\ new.kind = run[q].kind /\ new.job = run[q].job /\ new.aborted = TRUE
    BY <2>1 DEF Ran
  <2>3. run[q].aborted => new = run[q]
    BY <2>1 DEF Ran
  <2>4. Aborted(q) = new
    BY <1>2 DEF Aborted
  <2>5. new \in Run
    BY <2>2 DEF Ran, Run, Outcomes
  <2> HIDE DEF new
  <2> QED
    BY <2>1, <2>2, <2>3, <2>4, <2>5
<1> QED
  BY <1>1, <1>2

\* Every run that is not over is aborted, and none has the number of the page.
LEMMA LeftAlone ==
  ASSUME Inv, run' = [q \in RunIds |-> Aborted(q)],
         opened' = None, failed' = None, pending' = None, started' = FALSE, live' = 0,
         leaving' = FALSE, route' \in Sessions, opening' \in {"loading", "success", "error"},
         holder' \in {0, holder}, streaming' \in BOOLEAN, moves' \in 0 .. MaxMoves,
         UNCHANGED <<stopping, provider>>
  PROVE  Inv'
<1>1. \A q \in RunIds :
        /\ run'[q] \in Run /\ (run'[q] # NoRun => run'[q].busy <= MaxBusyRetries)
        /\ run'[q].pc = run[q].pc /\ run'[q].command = run[q].command
        /\ run'[q].kind = run[q].kind /\ run'[q].job = run[q].job
        /\ Active(q) => run'[q].aborted = TRUE
  BY AbortedFacts DEF Inv
<1>2. TypeInv'
  <2>1. live' \in 0 .. MaxRuns /\ holder' \in 0 .. MaxRuns
    BY TurnsAssumption DEF Inv, TypeInv
  <2>2. run' \in [RunIds -> Run]
    BY <1>1
  <2> QED
    BY <1>1, <2>1, <2>2 DEF Inv, TypeInv, provider
<1>3. Begun' = Begun
  BY <1>1 DEF Begun
<1>4. Numbered'
  <2>1. \A q \in Begun : q \in RunIds
    BY DEF Begun
  <2> QED
    BY <1>1, <1>3, <2>1 DEF Inv, Numbered, provider
<1>5. PageInv' /\ WriterInv' /\ OfferInv'
  BY DEF PageInv, WriterInv, OfferInv, Writing
<1>6. OthersInv'
  BY <1>1 DEF OthersInv, Active
<1> QED
  BY <1>2, <1>4, <1>5, <1>6 DEF Inv

LEMMA NavigateInv ==
  ASSUME Inv, NEW s \in Sessions, Navigate(s)
  PROVE  Inv'
<1>1. moves' \in 0 .. MaxMoves
  BY TurnsAssumption DEF Navigate, Inv, TypeInv
<1>2. /\ route' = s /\ opened' = None /\ opening' = "loading" /\ failed' = None
      /\ pending' = None /\ started' = FALSE /\ s # route /\ ~leaving
      /\ UNCHANGED <<stopping, provider>>
  BY DEF Navigate
<1>3. CASE Anew
  <2>1. /\ live' = 0 /\ holder' = 0 /\ streaming' = FALSE /\ leaving' = FALSE
        /\ run' = [q \in RunIds |-> Aborted(q)]
    BY <1>2, <1>3 DEF Navigate, Inv, TypeInv
  <2> QED
    BY <1>1, <1>2, <2>1, LeftAlone
<1>4. CASE ~Anew
  <2>1. leaving' = TRUE /\ UNCHANGED <<live, holder, streaming, run>>
    BY <1>4 DEF Navigate
  <2>2. TypeInv'
    BY <1>1, <1>2, <2>1 DEF Inv, TypeInv, provider
  <2>3. Numbered'
    BY <1>2, <2>1 DEF Inv, Numbered, Begun, provider
  <2>4. PageInv'
    <3>1. live # 0 => run[live].command.session = route
      BY <1>2 DEF Inv, PageInv
    <3> QED
      BY <1>2, <2>1, <3>1 DEF PageInv
  <2>5. WriterInv' /\ OfferInv'
    BY <1>2, <2>1 DEF WriterInv, OfferInv, Writing
  <2>6. OthersInv'
    BY <2>1 DEF Inv, OthersInv, Active
  <2> QED
    BY <2>2, <2>3, <2>4, <2>5, <2>6 DEF Inv
<1> QED
  BY <1>3, <1>4

LEMMA RouteEffectsInv ==
  ASSUME Inv, RouteEffects
  PROVE  Inv'
<1>1. /\ run' = [q \in RunIds |-> Aborted(q)] /\ opened' = None /\ failed' = None
      /\ pending' = None /\ live' = 0 /\ leaving' = FALSE
      /\ UNCHANGED <<route, opening, holder, streaming, started, stopping, moves, provider>>
  BY DEF RouteEffects
<1>2. started' = FALSE
  BY <1>1 DEF RouteEffects, Inv, PageInv, TypeInv, Writing
<1>3. /\ route' \in Sessions /\ opening' \in {"loading", "success", "error"}
      /\ streaming' \in BOOLEAN /\ moves' \in 0 .. MaxMoves
  BY <1>1 DEF Inv, TypeInv
<1> QED
  BY <1>1, <1>2, <1>3, LeftAlone

-----------------------------------------------------------------------------
(* A run begins.                                                           *)

\* The number of a call is one nobody has.
LEMMA NextRunIsNew ==
  ASSUME Inv
  PROVE  \E k \in 0 .. MaxRuns : Begun = 1 .. k /\ NextRun = k + 1 /\ NextRun \notin Begun
<1>1. PICK k \in 0 .. MaxRuns : Begun = 1 .. k
  BY DEF Inv, Numbered
<1>2. k \in Nat /\ Cardinality(1 .. k) = k
  BY <1>1, TurnsAssumption, FS_Interval
<1>3. NextRun = k + 1
  BY <1>1, <1>2 DEF NextRun, Begun
<1> QED
  BY <1>1, <1>2, <1>3

LEMMA StartInv ==
  ASSUME Inv, NEW r \in RunIds, r = NextRun, NEW kind \in {"turn", "resolve"},
         NEW command \in Command, NEW jobOf, NEW ms \in Seq(Message),
         ~streaming, opened # None, StartRun(r, kind, command, jobOf, ms),
         command.session = route,
         Fit(ms), By(ms, Confirmed), Only(ms, command.answer), Has(ms, command.answer),
         kind = "turn" => jobOf = r, kind = "resolve" => jobOf \in Begun,
         started' \in {started, FALSE}, pending' \in {pending, None},
         failed' \in Command \cup {None},
         failed' # None => failed'.session = route /\ Has(ms, failed'.answer),
         UNCHANGED <<route, opening, leaving, stopping, moves, provider>>
  PROVE  Inv'
<1> DEFINE new == [pc |-> "stream", kind |-> kind, command |-> command,
                   job |-> jobOf, current |-> ms, busy |-> 0,
                   aborted |-> FALSE, outcome |-> "none"]
<1>1. PICK k \in 0 .. MaxRuns : Begun = 1 .. k /\ r = k + 1
  BY NextRunIsNew
<1>2. k \in Nat /\ r = k + 1
  BY <1>1, TurnsAssumption
<1>3. r \notin Begun /\ run[r].pc = "off" /\ r # 0 /\ r \in 0 .. MaxRuns
  <2>1. r \notin Begun
    BY <1>1, <1>2
  <2> QED
    BY <2>1, RunFields DEF Begun, Inv
<1>4. jobOf \in RunIds
  BY DEF Begun
<1>5. /\ live' = r /\ holder' = r /\ streaming' = TRUE /\ opened' = [messages |-> ms]
      /\ run' = [q \in RunIds |-> IF q = r THEN new ELSE Aborted(q)]
  BY DEF StartRun, Aborted
<1>6. /\ new \in Run /\ new.busy = 0 /\ new.pc = "stream" /\ new.kind = kind
      /\ new.command = command /\ new.job = jobOf /\ new.current = ms /\ new.aborted = FALSE
  BY <1>4 DEF Run
<1> HIDE DEF new
<1>7. \A q \in RunIds \ {r} :
        /\ run'[q] \in Run /\ (run'[q] # NoRun => run'[q].busy <= MaxBusyRetries)
        /\ run'[q].pc = run[q].pc /\ run'[q].command = run[q].command
        /\ run'[q].kind = run[q].kind /\ run'[q].job = run[q].job
        /\ Active(q) => run'[q].aborted = TRUE
  <2> SUFFICES ASSUME NEW q \in RunIds \ {r}
               PROVE  /\ run'[q] \in Run /\ (run'[q] # NoRun => run'[q].busy <= MaxBusyRetries)
                      /\ run'[q].pc = run[q].pc /\ run'[q].command = run[q].command
                      /\ run'[q].kind = run[q].kind /\ run'[q].job = run[q].job
                      /\ Active(q) => run'[q].aborted = TRUE
    OBVIOUS
  <2>1. run'[q] = Aborted(q)
    BY <1>5
  <2> QED
    BY <2>1, AbortedFacts DEF Inv
<1>8. run'[r] = new
  BY <1>5
<1>9. Begun' = Begun \cup {r} /\ Begun' = 1 .. (k + 1) /\ k + 1 \in 0 .. MaxRuns
  <2>1. Begun' = Begun \cup {r}
    BY <1>6, <1>7, <1>8 DEF Begun
  <2> QED
    BY <1>1, <1>2, <1>3, <2>1
<1>10. Confirmed' = Confirmed
  <2>1. cancelled \subseteq Begun /\ cancelled' = cancelled /\ Begun \subseteq RunIds
    BY DEF Inv, Numbered, provider, Begun
  <2>2. \A j \in cancelled : run'[j].command = run[j].command
    BY <1>3, <1>7, <2>1
  <2> QED
    BY <2>1, <2>2 DEF Confirmed
<1>11. started' = FALSE /\ leaving' = FALSE /\ opening # "loading"
  BY DEF Inv, TypeInv, PageInv, WriterInv
<1>12. Writing' /\ opened' # None /\ opened'.messages = ms
  BY <1>3, <1>5, <1>6, <1>8, <1>11, NoneAssumption DEF Writing, Active
<1>13. TypeInv'
  <2>1. run' \in [RunIds -> Run]
    BY <1>5, <1>6, <1>7, <1>8
  <2>2. \A q \in RunIds : run'[q] # NoRun => run'[q].busy <= MaxBusyRetries
    BY <1>6, <1>7, <1>8, TurnsAssumption
  <2> QED
    BY <1>3, <1>5, <1>11, <2>1, <2>2 DEF Inv, TypeInv, provider
<1>14. Numbered'
  <2>1. stopping' \subseteq Begun' /\ cancelled' \subseteq Begun'
        /\ (pending' # None => pending' \in Begun') /\ live' \in Begun' /\ holder' \in Begun'
    BY <1>5, <1>9 DEF Inv, Numbered, provider
  <2>2. ASSUME NEW q \in Begun'
        PROVE  /\ run'[q].job \in Begun' /\ (run'[q].kind = "turn" => run'[q].job = q)
               /\ run'[q].pc = "reconcile" => run'[q].kind = "turn"
    <3>1. CASE q = r
      BY <1>6, <1>8, <1>9, <3>1
    <3>2. CASE q # r
      <4>1. q \in Begun /\ q \in RunIds \ {r}
        BY <1>9, <3>2 DEF Begun
      <4> QED
        BY <1>7, <1>9, <4>1 DEF Inv, Numbered
    <3> QED
      BY <3>1, <3>2
  <2> QED
    BY <1>9, <2>1, <2>2 DEF Numbered
<1>15. PageInv'
  BY <1>5, <1>6, <1>8, <1>10, <1>11, <1>12 DEF PageInv
<1>16. WriterInv'
  BY <1>5, <1>6, <1>8, <1>10, <1>12 DEF WriterInv
<1>17. OthersInv'
  <2> SUFFICES ASSUME NEW q \in RunIds, Active(q)', q # r
               PROVE  run'[q].aborted
    BY <1>5 DEF OthersInv
  <2> QED
    BY <1>7 DEF Active
<1>18. OfferInv'
  BY <1>5, <1>6, <1>8, <1>11, <1>12 DEF OfferInv
<1> QED
  BY <1>13, <1>14, <1>15, <1>16, <1>17, <1>18 DEF Inv

\* The page is quiet when it may be asked for something.
LEMMA FreeFacts ==
  ASSUME Inv, opened # None, ~streaming
  PROVE  /\ opened.messages \in Seq(Message) /\ Len(opened.messages) \in Nat
         /\ Fit(opened.messages) /\ By(opened.messages, Confirmed) /\ Quiet(opened.messages)
         /\ route \in Sessions /\ ~started /\ ~leaving
<1>1. opened.messages \in Seq(Message) /\ route \in Sessions
  BY DEF Inv, TypeInv
<1>2. ~Writing
  BY DEF Inv, WriterInv
<1> QED
  BY <1>1, <1>2 DEF Inv, PageInv

LEMMA SendMessageInv ==
  ASSUME Inv, SendMessage
  PROVE  Inv'
<1> DEFINE r == NextRun
           old == opened.messages
           command == [session |-> route, answer |-> r, count |-> Len(old)]
           ms == old \o <<Said("user", route, r, "none"),
                          Said("assistant", route, r, "streaming")>>
<1>1. opened # None /\ ~streaming /\ r \in RunIds
  BY DEF SendMessage, RunCommand
<1>2. /\ StartRun(r, "turn", command, r, ms) /\ started' = FALSE /\ failed' = None
      /\ UNCHANGED <<route, opening, leaving, stopping, pending, moves, provider>>
  BY DEF SendMessage, RunCommand
<1>3. command \in Command /\ command.session = route /\ command.answer = r
  BY <1>1, FreeFacts DEF Command
<1>4. /\ ms \in Seq(Message) /\ Fit(ms) /\ By(ms, Confirmed) /\ Only(ms, r) /\ Has(ms, r)
  BY <1>1, FreeFacts, AskFacts
<1> HIDE DEF ms, command
<1> QED
  BY <1>1, <1>2, <1>3, <1>4, StartInv

LEMMA RetryLastMessageInv ==
  ASSUME Inv, RetryLastMessage
  PROVE  Inv'
<1> DEFINE r == NextRun
           old == opened.messages
           a == failed.answer
           ms == MapMessage(old, a, "streaming")
<1>1. opened # None /\ ~streaming /\ r \in RunIds /\ failed # None /\ failed.session = route
  BY DEF RetryLastMessage, RunCommand
<1>2. /\ StartRun(r, "turn", failed, r, ms) /\ started' = FALSE /\ failed' = None
      /\ UNCHANGED <<route, opening, leaving, stopping, pending, moves, provider>>
  BY DEF RetryLastMessage, RunCommand
<1>3. failed \in Command /\ a \in RunIds /\ Has(old, a)
  BY <1>1 DEF Inv, TypeInv, OfferInv, Command
<1>4. /\ ms \in Seq(Message) /\ Fit(ms) /\ By(ms, Confirmed) /\ Only(ms, a) /\ Has(ms, a)
  <2>1. a \in 0 .. MaxRuns /\ "streaming" \in Statuses /\ "streaming" # "stopped"
    BY <1>3, TurnsAssumption DEF RunIds, Statuses
  <2> QED
    BY <1>1, <1>3, <2>1, FreeFacts, MapFacts
<1> HIDE DEF ms
<1> QED
  BY <1>1, <1>2, <1>3, <1>4, StartInv

LEMMA ResolveHITLInv ==
  ASSUME Inv, ResolveHITL
  PROVE  Inv'
<1> DEFINE r == NextRun
           old == opened.messages
           command == [session |-> route, answer |-> r, count |-> Len(old)]
           ms == Append(old, Said("assistant", route, r, "streaming"))
<1>1. opened # None /\ ~streaming /\ r \in RunIds /\ pending # None
  BY DEF ResolveHITL
<1>2. /\ StartRun(r, "resolve", command, pending, ms) /\ pending' = None
      /\ UNCHANGED <<route, opening, leaving, started, stopping, failed, moves, provider>>
  BY DEF ResolveHITL
<1>3. command \in Command /\ command.session = route /\ command.answer = r
  BY <1>1, FreeFacts DEF Command
<1>4. /\ ms \in Seq(Message) /\ Fit(ms) /\ By(ms, Confirmed) /\ Only(ms, r) /\ Has(ms, r)
      /\ \A b : Has(old, b) => Has(ms, b)
  BY <1>1, FreeFacts, AskFacts
<1>5. /\ failed' \in Command \cup {None}
      /\ failed' # None => failed'.session = route /\ Has(ms, failed'.answer)
  BY <1>1, <1>2, <1>4, FreeFacts DEF Inv, TypeInv, OfferInv
<1>6. pending \in Begun
  BY <1>1 DEF Inv, Numbered
<1> HIDE DEF ms, command
<1> QED
  BY <1>1, <1>2, <1>3, <1>4, <1>5, <1>6, StartInv

-----------------------------------------------------------------------------
(* Every state has it.                                                     *)

LEMMA InitInv == CanvasHeedsAbort /\ Init => Inv
<1> SUFFICES ASSUME CanvasHeedsAbort, Init
             PROVE  Inv
  OBVIOUS
<1>1. 0 \in 0 .. MaxRuns /\ 0 \in 0 .. MaxMoves /\ route \in Sessions
  BY TurnsAssumption DEF Init
<1>2. run \in [RunIds -> Run] /\ \A r \in RunIds : run[r] = NoRun /\ run[r].pc = "off"
  BY DEF Init, Run, NoRun
<1>3. job \in [RunIds -> Job]
  BY DEF Init, Job
<1>4. log \in [Sessions -> Seq({"user", "assistant"})]
  BY DEF Init
<1>5. TypeInv
  BY <1>1, <1>2, <1>3, <1>4 DEF Init, TypeInv
<1>6. Begun = {} /\ 1 .. 0 = {}
  BY <1>2 DEF Begun
<1>7. Numbered
  BY <1>1, <1>6 DEF Init, Numbered
<1>8. PageInv /\ WriterInv /\ OfferInv /\ ~Writing
  BY DEF Init, PageInv, WriterInv, OfferInv, Writing
<1>9. OthersInv
  BY <1>2 DEF OthersInv, Active
<1> QED
  BY <1>5, <1>7, <1>8, <1>9 DEF Inv

LEMMA StutterInv == Inv /\ UNCHANGED vars => Inv'
<1> SUFFICES ASSUME Inv, UNCHANGED vars
             PROVE  Inv'
  OBVIOUS
<1>1. TypeInv' /\ stopping' \subseteq Begun /\ cancelled' \subseteq Begun
  BY DEF Inv, TypeInv, Numbered, vars, page, provider
<1> QED
  BY <1>1, SmallStep DEF vars, page, provider

LEMMA NextInv == Inv /\ [Next]_vars => Inv'
<1> SUFFICES ASSUME Inv, [Next]_vars
             PROVE  Inv'
  OBVIOUS
<1>1. CASE User
  <2>1. ASSUME NEW s \in Sessions, Navigate(s)
        PROVE  Inv'
    BY <2>1, NavigateInv
  <2>2. CASE RetryOpenedSession
    BY <2>2, RetryOpenedInv
  <2>3. CASE SendMessage
    BY <2>3, SendMessageInv
  <2>4. CASE RetryLastMessage
    BY <2>4, RetryLastMessageInv
  <2>5. CASE ResolveHITL
    BY <2>5, ResolveHITLInv
  <2>6. CASE StopStreaming
    BY <2>6, StopStreamingInv
  <2> QED
    BY <1>1, <2>1, <2>2, <2>3, <2>4, <2>5, <2>6 DEF User
<1>2. CASE OpenSession \/ RouteEffects
  BY <1>2, OpenSessionInv, RouteEffectsInv
<1>3. ASSUME NEW r \in RunIds,
             \/ StopAnswered(r) \/ TurnStarted(r) \/ ToolCall(r) \/ CanvasUpdated(r)
             \/ StreamBreaks(r) \/ Busy(r) \/ ConfirmCancel(r)
      PROVE  Inv'
  <2>1. CASE StopAnswered(r)
    BY <2>1, StopAnsweredInv
  <2>2. CASE TurnStarted(r)
    BY <2>2, TurnStartedInv
  <2>3. CASE ToolCall(r)
    BY <2>3, ToolCallInv
  <2>4. CASE StreamBreaks(r)
    BY <2>4, StreamBreaksInv
  <2>5. CASE Busy(r)
    BY <2>5, WaitInv
  <2>6. CASE ConfirmCancel(r)
    BY <2>6, ConfirmCancelInv
  <2>7. CASE CanvasUpdated(r)
    BY <2>7, CanvasUpdatedInv
  <2> QED
    BY <1>3, <2>1, <2>2, <2>3, <2>4, <2>5, <2>6, <2>7
<1>4. ASSUME NEW r \in RunIds, Hear(r)
      PROVE  Inv'
  <2>1. CASE Interrupt(r) \/ Done(r) \/ Error(r)
    BY <2>1, LastEventsInv
  <2>2. CASE Stopped(r)
    BY <2>2, StoppedInv
  <2>3. CASE Overtake(r)
    BY <2>3, OvertakeInv
  <2>4. CASE WaitForRetry(r)
    BY <2>4, WaitInv
  <2>5. CASE Reconcile(r)
    BY <2>5, ReconcileInv
  <2>6. CASE CanvasAnswered(r)
    BY <2>6, CanvasAnsweredInv
  <2> QED
    BY <1>4, <2>1, <2>2, <2>3, <2>4, <2>5, <2>6 DEF Hear
<1>5. ASSUME NEW r \in RunIds, Work(r)
      PROVE  Inv'
  <2>1. CASE Accept(r) \/ AcceptResolution(r)
    BY <2>1, AcceptInv
  <2>2. CASE JobCompletes(r) \/ JobFails(r) \/ JobAsks(r)
    BY <2>2, JobInv
  <2> QED
    BY <1>5, <2>1, <2>2 DEF Work
<1>6. CASE UNCHANGED vars
  BY <1>6, StutterInv
<1> QED
  BY <1>1, <1>2, <1>3, <1>4, <1>5, <1>6 DEF Next

LEMMA AlwaysInv ==
  ASSUME CanvasHeedsAbort
  PROVE  Spec => []Inv
<1>1. Init => Inv
  BY InitInv
<1> QED
  BY <1>1, NextInv, PTL DEF Spec

-----------------------------------------------------------------------------
(* What it says of the page.                                               *)

\* Types: the messages of the page are messages, every run that began is a whole record
\* with at most maxBusyRetries refusals behind it, and the refs name runs.
THEOREM TypeCorrect ==
  ASSUME CanvasHeedsAbort
  PROVE  Spec => []TypeOK
<1>1. Inv => TypeOK
  <2> SUFFICES ASSUME Inv
               PROVE  TypeOK
    OBVIOUS
  <2>1. opened # None => \A i \in DOMAIN opened.messages : opened.messages[i] \in Message
    BY DEF Inv, TypeInv
  <2>2. ASSUME NEW r \in RunIds, run[r] # NoRun
        PROVE  /\ run[r].pc \in {"stream", "canvas", "wait", "reconcile", "done"}
               /\ run[r].command \in Command
               /\ run[r].busy \in 0 .. MaxBusyRetries
               /\ run[r].job \in RunIds
    <3>1. run[r] \in Ran /\ run[r].busy <= MaxBusyRetries
      BY <2>2, RunFields DEF Inv
    <3> QED
      BY <3>1, TurnsAssumption DEF Ran
  <2> QED
    BY <2>1, <2>2 DEF Inv, TypeInv, TypeOK
<1> QED
  BY <1>1, AlwaysInv, PTL

\* Stop: the page never says that an answer was stopped unless the provider has confirmed
\* the cancellation of a turn that was writing it.
THEOREM StoppedOnlyWhenConfirmed ==
  ASSUME CanvasHeedsAbort
  PROVE  Spec => []StoppedIsConfirmed
<1>1. Inv => StoppedIsConfirmed
  BY DEF Inv, PageInv, By, Confirmed, StoppedIsConfirmed, Shown
<1> QED
  BY <1>1, AlwaysInv, PTL

\* Whatever the order of events, errors, answers and changes of the route: an answer that
\* is shown as being written is the one of the stream in streamControllerRef.
THEOREM SpinnersHaveRuns ==
  ASSUME CanvasHeedsAbort
  PROVE  Spec => []SpinnerHasRun
<1>1. Inv => SpinnerHasRun
  <2> SUFFICES ASSUME Inv, opened # None, NEW i \in DOMAIN opened.messages,
                      opened.messages[i].status = "streaming"
               PROVE  /\ streaming /\ holder # 0
                      /\ run[holder].command.answer = opened.messages[i].by
                      /\ run[holder].pc # "done"
    BY DEF SpinnerHasRun, Shown
  <2>1. Writing
    BY DEF Inv, PageInv, Quiet
  <2>2. holder = live /\ streaming /\ Only(opened.messages, run[live].command.answer)
    BY <2>1 DEF Inv, WriterInv
  <2> QED
    BY <2>1, <2>2 DEF Writing, Active, Only
<1> QED
  BY <1>1, AlwaysInv, PTL

\* A turn of the page that ended in an error can be tried again, and what is offered for
\* another try is an answer that stands on the page.
THEOREM FailuresAreOffered ==
  ASSUME CanvasHeedsAbort
  PROVE  Spec => []FailureIsOffered
<1>1. Inv => FailureIsOffered
  <2> SUFFICES ASSUME Inv
               PROVE  FailureIsOffered
    OBVIOUS
  <2>1. ASSUME NEW m \in Shown, m.status = "error", live # 0, run[live].kind = "turn",
               run[live].pc = "done", m.by = run[live].command.answer, ~Offered
        PROVE  FALSE
    <3>1. opened # None /\ ~leaving
      BY <2>1 DEF Shown, Inv, PageInv
    <3>2. failed = None
      BY <2>1, <3>1 DEF Offered, Inv, OfferInv
    <3>3. Unfailed(opened.messages, run[live].command.answer)
      BY <2>1, <3>1, <3>2 DEF Inv, OfferInv
    <3> QED
      BY <2>1, <3>3 DEF Shown, Unfailed
  <2>2. ASSUME Offered
        PROVE  /\ \E m \in Shown : m.by = failed.answer /\ m.role = "assistant"
    <3>1. opened # None /\ Has(opened.messages, failed.answer)
      BY <2>2 DEF Inv, OfferInv, Offered
    <3> QED
      BY <3>1 DEF Has, Shown
  <2> QED
    BY <2>1, <2>2 DEF FailureIsOffered
<1> QED
  BY <1>1, AlwaysInv, PTL

\* An event, an error or an answer that arrives for a run which has been replaced leaves
\* the messages, the approval and the offer of the page alone.
THEOREM OvertakenAreSilent ==
  ASSUME CanvasHeedsAbort
  PROVE  Spec => SupersededRunsAreSilent
<1>1. ASSUME Inv, [Next]_vars, NEW q \in RunIds, live # q, run[q].pc # "off", run'[q] # run[q]
      PROVE  UNCHANGED <<opened, pending, failed>>
  <2>1. run \in [RunIds -> Run] /\ (Active(q) => run[q].aborted) /\ Aborted(q) = run[q]
    BY <1>1, AbortedFacts DEF Inv, TypeInv, OthersInv
  <2>2. ~User /\ ~RouteEffects
    <3>1. ASSUME NEW s \in Sessions, Navigate(s)
          PROVE  FALSE
      BY <1>1, <2>1, <3>1 DEF Navigate
    <3>2. ASSUME NEW kind, NEW command, NEW jobOf, NEW ms,
                 StartRun(NextRun, kind, command, jobOf, ms), NextRun \in RunIds
          PROVE  FALSE
      <4>1. q # NextRun
        BY <1>1, NextRunIsNew DEF Begun
      <4> QED
        BY <1>1, <2>1, <3>2, <4>1 DEF StartRun
    <3>3. ~SendMessage /\ ~RetryLastMessage /\ ~ResolveHITL
      BY <3>2 DEF SendMessage, RetryLastMessage, ResolveHITL, RunCommand
    <3>4. ~RouteEffects
      BY <1>1, <2>1 DEF RouteEffects
    <3> QED
      BY <1>1, <3>1, <3>3, <3>4 DEF User, RetryOpenedSession, StopStreaming
  <2>3. PICK r \in RunIds : \/ StopAnswered(r) \/ ToolCall(r) \/ CanvasUpdated(r)
                            \/ StreamBreaks(r) \/ Busy(r) \/ Hear(r)
    BY <1>1, <2>2
    DEF Next, vars, OpenSession, TurnStarted, ConfirmCancel, Work, Accept, AcceptResolution,
        JobCompletes, JobFails, JobAsks
  <2>4. CASE Overtake(r)
    BY <2>4 DEF Overtake
  <2>5. CASE ~Overtake(r)
    <3>1. r = q
      BY <1>1, <2>1, <2>3, <2>5
      DEF StopAnswered, ToolCall, CanvasUpdated, StreamBreaks, Busy, Hear, Interrupt, Done,
          Error, Stopped, CanvasAnswered, WaitForRetry, Reconcile, LastEvent, EndTurn,
          EndResolve, Retire
    <3>2. StopAnswered(r) \/ CanvasAnswered(r)
      BY <1>1, <2>3, <2>5, <3>1
      DEF ToolCall, CanvasUpdated, StreamBreaks, Busy, Hear, Interrupt, Done, Error, Stopped,
          WaitForRetry, Reconcile, Follows, Overtaken
    <3>3. CASE StopAnswered(r)
      <4>1. holder = r /\ started
        BY <1>1, <3>1, <3>3 DEF StopAnswered
      <4> QED
        BY <1>1, <3>1, <4>1 DEF Inv, PageInv, WriterInv
    <3>4. CASE CanvasAnswered(r)
      BY <1>1, <3>1, <3>4 DEF CanvasAnswered, Inv, CanvasHeedsAbort
    <3> QED
      BY <3>2, <3>3, <3>4
  <2> QED
    BY <2>4, <2>5
<1>2. ASSUME Inv, [Next]_vars, NEW q \in RunIds, run[q].pc # "off", run'[q] # run[q],
             route # run[q].command.session
      PROVE  opened' = opened
  <2>1. CASE live # q
    BY <1>1, <1>2, <2>1
  <2>2. CASE live = q
    <3>1. q # 0 /\ leaving /\ opened = None
      BY <1>2, <2>2, RunFields DEF Inv, PageInv
    <3>2. Inv'
      BY <1>2, NextInv
    <3>3. leaving' = leaving \/ opened' = None
      BY <1>2
      DEF Next, vars, page, User, Navigate, RouteEffects, OpenSession, RetryOpenedSession,
          SendMessage, RetryLastMessage, RunCommand, ResolveHITL, StopStreaming, StopAnswered,
          TurnStarted, ToolCall, CanvasUpdated, StreamBreaks, Busy, ConfirmCancel, Hear, Work,
          Interrupt, Done, Error, LastEvent, Stopped, CanvasAnswered, Overtake, WaitForRetry,
          Reconcile, Accept, AcceptResolution, JobCompletes, JobFails, JobAsks
    <3> QED
      BY <3>1, <3>2, <3>3 DEF Inv, PageInv
  <2> QED
    BY <2>1, <2>2
<1>3. Inv /\ [Next]_vars
      => [\A r \in RunIds :
            run[r].pc # "off" /\ run'[r] # run[r] =>
              /\ live # r => UNCHANGED <<opened, pending, failed>>
              /\ route # run[r].command.session => UNCHANGED opened]_vars
  BY <1>1, <1>2
<1>4. Spec => []Inv
  BY AlwaysInv
<1> QED
  BY <1>3, <1>4, PTL DEF Spec, SupersededRunsAreSilent

=============================================================================
