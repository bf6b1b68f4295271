------------------------ MODULE WorkbenchCanvasProofs ------------------------
(***************************************************************************)
(* The canvas of the page, for any number of charts and edits.  What keeps *)
(* an accepted edit from dropping a chart its author never saw is that     *)
(* nothing on the page, and nothing on its way to it, claims the revision  *)
(* of the store without the charts that the store has at this revision.    *)
(***************************************************************************)
EXTENDS WorkbenchCanvas, SequenceTheorems, TLAPS

Everything(store, known) == ToSet(store.charts) \subseteq known

\* What the page, or an edit of it, says of the store.
Honest(store, known, revision) ==
  /\ revision \in Nat /\ revision <= store.revision
  /\ revision = store.revision => Everything(store, known)

\* An answer of the store, which the page may show.
Exact(store, answer) ==
  /\ answer.revision \in Nat /\ answer.revision <= store.revision
  /\ answer.revision = store.revision => ToSet(store.charts) \subseteq ToSet(answer.charts)

IsCanvas(canvas) == DOMAIN canvas = {"by", "revision", "charts"}

\* An edit that is sent has the revision that was shown; what the store has answered is exact; and
\* the canvas an edit may go back to was shown.
EditHonest(store, known, e) ==
  e.pc \in {"put", "orphan", "accepted", "failed", "get", "read"} =>
    /\ DOMAIN e = {"pc", "revision", "charts", "before"}
    /\ IsCanvas(e.before) /\ Honest(store, known, e.before.revision)
    /\ e.pc \in {"put", "orphan"} => Honest(store, known, e.revision)
    /\ e.pc \in {"accepted", "read"} => Exact(store, e)

EditsHonest ==
  /\ DOMAIN edit = EditIds
  /\ \A k \in EditIds : "pc" \in DOMAIN edit[k] /\ EditHonest(stored, seen, edit[k])

ShownHonest == IsCanvas(shown) /\ Honest(stored, seen, shown.revision)
ReadExact == reading.pc = "served" => Exact(stored, reading)

CanvasInv ==
  /\ DOMAIN stored = {"revision", "charts", "published"} /\ stored.revision \in Nat
  /\ ShownHonest /\ ReadExact /\ EditsHonest
  /\ unseen = {}

\* While the store keeps its revision and charts, nothing gets less honest by what is shown.
LEMMA MoreSeen ==
  ASSUME CanvasInv, stored' = stored, seen \subseteq seen'
  PROVE  /\ \A revision : Honest(stored, seen, revision) => Honest(stored', seen', revision)
         /\ \A answer : Exact(stored, answer) => Exact(stored', answer)
         /\ \A e : EditHonest(stored, seen, e) => EditHonest(stored', seen', e)
<1>1. \A revision : Honest(stored, seen, revision) => Honest(stored', seen', revision)
  BY DEF Honest, Everything
<1>2. \A answer : Exact(stored, answer) => Exact(stored', answer)
  BY DEF Exact
<1> QED
  BY <1>1, <1>2 DEF EditHonest

\* With a new revision nothing old is of the present one.
LEMMA NewRevision ==
  ASSUME CanvasInv, stored'.revision = stored.revision + 1
  PROVE  /\ \A revision : Honest(stored, seen, revision) => Honest(stored', seen', revision)
         /\ \A answer : Exact(stored, answer) => Exact(stored', answer)
         /\ \A e : EditHonest(stored, seen, e) => EditHonest(stored', seen', e)
<1>1. \A revision : Honest(stored, seen, revision) => Honest(stored', seen', revision)
  BY DEF Honest, CanvasInv, ShownHonest, ReadExact, EditsHonest
<1>2. \A answer : Exact(stored, answer) => Exact(stored', answer)
  BY DEF Exact, CanvasInv, ShownHonest, ReadExact, EditsHonest
<1> QED
  BY <1>1, <1>2 DEF EditHonest

\* An answer that is shown makes the page honest.
LEMMA ShowAnswer ==
  ASSUME CanvasInv, stored' = stored, NEW answer, Exact(stored, answer), Show(Fresh(answer))
  PROVE  ShownHonest' /\ seen \subseteq seen'
<1>1. shown' = [by |-> 0, revision |-> answer.revision, charts |-> answer.charts]
      /\ seen' = seen \cup ToSet(shown'.charts)
  BY DEF Show, Fresh
<1> QED
  BY <1>1 DEF ShownHonest, IsCanvas, Honest, Exact, Everything

\* So is what the page makes of what it shows, or goes back to.
LEMMA ShowHonest ==
  ASSUME CanvasInv, stored' = stored, NEW canvas, IsCanvas(canvas),
         Honest(stored, seen, canvas.revision), Show(canvas)
  PROVE  ShownHonest' /\ seen \subseteq seen'
<1>1. shown' = canvas /\ seen \subseteq seen'
  BY DEF Show
<1> QED
  BY <1>1, MoreSeen DEF ShownHonest

\* Of the edits one may go on.
LEMMA EditGoes ==
  ASSUME CanvasInv, stored' = stored, seen \subseteq seen', NEW k \in EditIds,
         NEW e, edit' = [edit EXCEPT ![k] = e], "pc" \in DOMAIN e, EditHonest(stored', seen', e)
  PROVE  EditsHonest'
  BY MoreSeen DEF CanvasInv, ShownHonest, ReadExact, EditsHonest

\* What leaves the edits, or the reading, alone.
LEMMA EditsStay ==
  ASSUME CanvasInv, edit' = edit,
         (stored' = stored /\ seen \subseteq seen') \/ stored'.revision = stored.revision + 1
  PROVE  EditsHonest'
  BY MoreSeen, NewRevision DEF CanvasInv, ShownHonest, ReadExact, EditsHonest

LEMMA ReadingStays ==
  ASSUME CanvasInv, reading' = reading \/ reading'.pc # "served",
         (stored' = stored /\ seen \subseteq seen') \/ stored'.revision = stored.revision + 1
  PROVE  ReadExact'
  BY MoreSeen, NewRevision DEF CanvasInv, ShownHonest, ReadExact, EditsHonest

\* The turn.
LEMMA QuietTurn ==
  ASSUME CanvasInv, UNCHANGED <<shown, seen, edit, stored, unseen>>,
         reading' = reading \/ reading'.pc # "served"
  PROVE  CanvasInv'
<1>1. ShownHonest'
  BY MoreSeen DEF CanvasInv, ShownHonest, ReadExact, EditsHonest
<1> QED
  BY <1>1, EditsStay, ReadingStays DEF CanvasInv, ShownHonest, ReadExact, EditsHonest, IsCanvas

LEMMA PublishKeeps == ASSUME CanvasInv, PublishChart PROVE CanvasInv'
<1>1. /\ stored'.revision = stored.revision + 1
      /\ DOMAIN stored' = {"revision", "charts", "published"}
      /\ UNCHANGED <<shown, seen, reading, edit, unseen>>
  BY DEF PublishChart
<1>2. ShownHonest'
  BY <1>1, NewRevision DEF CanvasInv, ShownHonest, ReadExact, EditsHonest
<1> QED
  BY <1>1, <1>2, EditsStay, ReadingStays
  DEF CanvasInv, ShownHonest, ReadExact, EditsHonest, IsCanvas

LEMMA ServeReadKeeps == ASSUME CanvasInv, ServeRead PROVE CanvasInv'
<1>1. /\ reading' = [pc |-> "served", revision |-> stored.revision, charts |-> stored.charts]
      /\ UNCHANGED <<shown, seen, edit, stored, unseen>>
  BY DEF ServeRead
<1>2. Exact(stored', reading')
  BY <1>1 DEF Exact, CanvasInv, ShownHonest, ReadExact, EditsHonest
<1>3. ShownHonest'
  BY <1>1, MoreSeen DEF CanvasInv, ShownHonest, ReadExact, EditsHonest
<1> QED
  BY <1>1, <1>2, <1>3, EditsStay DEF CanvasInv, ShownHonest, ReadExact, EditsHonest, IsCanvas

\* A step that shows something and leaves the edits alone.
LEMMA ShowingTurn ==
  ASSUME CanvasInv, UNCHANGED <<edit, stored, unseen>>,
         reading' = reading \/ reading'.pc # "served",
         ShownHonest', seen \subseteq seen'
  PROVE  CanvasInv'
  BY EditsStay, ReadingStays DEF CanvasInv, ShownHonest, ReadExact, EditsHonest, IsCanvas

LEMMA ReadArrivesKeeps == ASSUME CanvasInv, ReadArrives PROVE CanvasInv'
<1>1. Exact(stored, reading) /\ Show(Fresh(reading)) /\ UNCHANGED <<edit, stored, unseen>>
      /\ reading'.pc # "served"
  BY DEF ReadArrives, NoRead, CanvasInv, ShownHonest, ReadExact, EditsHonest
<1>2. stored' = stored
  BY <1>1
<1>3. ShownHonest' /\ seen \subseteq seen'
  BY <1>1, <1>2, ShowAnswer
<1> QED
  BY <1>1, <1>3, ShowingTurn

LEMMA RedrawKeeps == ASSUME CanvasInv, ToolResult \/ MessageEnd PROVE CanvasInv'
<1>1. PICK canvas :
        /\ Show(canvas)
        /\ \/ canvas = [shown EXCEPT !.by = 0]
           \/ \E charts : canvas = [shown EXCEPT !.by = 0, !.charts = charts]
        /\ UNCHANGED <<edit, stored, unseen, reading>>
  BY DEF ToolResult, MessageEnd
<1>2. IsCanvas(canvas) /\ canvas.revision = shown.revision
  BY <1>1 DEF CanvasInv, ShownHonest, ReadExact, EditsHonest, IsCanvas
<1>3. IsCanvas(canvas) /\ Honest(stored, seen, canvas.revision)
  BY <1>2 DEF CanvasInv, ShownHonest, ReadExact, EditsHonest
<1>4. ShownHonest' /\ seen \subseteq seen'
  BY <1>1, <1>3, ShowHonest
<1> QED
  BY <1>1, <1>4, ShowingTurn

LEMMA ReopenKeeps == ASSUME CanvasInv, Reopen PROVE CanvasInv'
<1>1. Show(Fresh(stored)) /\ stored' = stored /\ unseen' = unseen /\ reading'.pc # "served"
  BY DEF Reopen, NoRead
<1>2. Exact(stored, stored)
  BY DEF Exact, CanvasInv, ShownHonest, ReadExact, EditsHonest
<1>3. ShownHonest' /\ seen \subseteq seen'
  BY <1>1, <1>2, ShowAnswer
<1>4. edit' = [k \in EditIds |->
         CASE edit[k].pc = "none" -> NoEdit
           [] edit[k].pc \in {"put", "orphan"} -> [edit[k] EXCEPT !.pc = "orphan"]
           [] OTHER -> [edit[k] EXCEPT !.pc = "done"]]
  BY DEF Reopen
<1>5. ASSUME NEW k \in EditIds
      PROVE  "pc" \in DOMAIN edit'[k] /\ EditHonest(stored', seen', edit'[k])
  <2>1. "pc" \in DOMAIN edit[k] /\ EditHonest(stored, seen, edit[k])
    BY DEF CanvasInv, ShownHonest, ReadExact, EditsHonest
  <2>2. CASE edit[k].pc \in {"put", "orphan"}
    <3>1. edit'[k] = [edit[k] EXCEPT !.pc = "orphan"]
      BY <1>4, <2>2
    <3>2. "pc" \in DOMAIN edit'[k] /\ EditHonest(stored, seen, edit'[k])
      BY <2>1, <2>2, <3>1 DEF EditHonest
    <3> QED
      BY <1>1, <1>3, <3>2, MoreSeen
  <2>3. CASE edit[k].pc \notin {"put", "orphan"}
    <3>1. edit'[k] = NoEdit \/ edit'[k] = [edit[k] EXCEPT !.pc = "done"]
      BY <1>4, <2>3
    <3>2. "pc" \in DOMAIN edit'[k] /\ edit'[k].pc \in {"none", "done"}
      BY <2>1, <3>1 DEF NoEdit
    <3> QED
      BY <3>2 DEF EditHonest
  <2> QED
    BY <2>2, <2>3
<1> QED
  BY <1>1, <1>3, <1>4, <1>5 DEF CanvasInv, ShownHonest, ReadExact, EditsHonest, IsCanvas

\* The edits.
LEMMA UpdateKeeps == ASSUME CanvasInv, NEW k \in EditIds, UpdateCanvas(k) PROVE CanvasInv'
<1>1. PICK charts \in Edited(shown.charts) :
        /\ Show([shown EXCEPT !.by = k, !.charts = charts])
        /\ edit' = [edit EXCEPT ![k] =
             [pc |-> "put", revision |-> shown.revision, charts |-> charts, before |-> shown]]
        /\ UNCHANGED <<reading, stored, unseen>>
  BY DEF UpdateCanvas
<1> DEFINE canvas == [shown EXCEPT !.by = k, !.charts = charts]
           e == [pc |-> "put", revision |-> shown.revision, charts |-> charts, before |-> shown]
<1>2. IsCanvas(canvas) /\ canvas.revision = shown.revision /\ Honest(stored, seen, shown.revision)
  BY DEF CanvasInv, ShownHonest, ReadExact, EditsHonest, IsCanvas
<1>3. EditHonest(stored, seen, e) /\ "pc" \in DOMAIN e
  BY DEF EditHonest, CanvasInv, ShownHonest, ReadExact, EditsHonest
<1>4. Show(canvas) /\ edit' = [edit EXCEPT ![k] = e]
  BY <1>1
<1> HIDE DEF canvas, e
<1>5. IsCanvas(canvas) /\ Honest(stored, seen, canvas.revision)
  BY <1>2
<1>6. ShownHonest' /\ seen \subseteq seen'
  BY <1>1, <1>4, <1>5, ShowHonest
<1>7. EditHonest(stored', seen', e)
  BY <1>1, <1>3, <1>6, MoreSeen
<1>8. EditsHonest'
  BY <1>1, <1>3, <1>4, <1>6, <1>7, EditGoes
<1> QED
  BY <1>1, <1>6, <1>8, ReadingStays DEF CanvasInv, ShownHonest, ReadExact, EditsHonest, IsCanvas

\* An edit goes on, and the page shows something honest, or what it did.
LEMMA EditKeeps ==
  ASSUME CanvasInv, NEW k \in EditIds, NEW e, edit' = [edit EXCEPT ![k] = e], "pc" \in DOMAIN e,
         EditHonest(stored, seen, e), UNCHANGED <<reading, stored, unseen>>,
         ShownHonest', seen \subseteq seen'
  PROVE  CanvasInv'
<1>1. EditHonest(stored', seen', e)
  BY MoreSeen
<1>2. EditsHonest'
  BY <1>1, EditGoes
<1> QED
  BY <1>2, ReadingStays DEF CanvasInv, ShownHonest, ReadExact, EditsHonest, IsCanvas

LEMMA QuietEdit ==
  ASSUME CanvasInv, NEW k \in EditIds, NEW e, edit' = [edit EXCEPT ![k] = e], "pc" \in DOMAIN e,
         EditHonest(stored, seen, e), UNCHANGED <<shown, seen, reading, stored, unseen>>
  PROVE  CanvasInv'
<1>1. ShownHonest'
  BY MoreSeen DEF CanvasInv, ShownHonest, ReadExact, EditsHonest, IsCanvas
<1> QED
  BY <1>1, EditKeeps

\* An edit that fails, or is read again, or is over.
LEMMA Restaged ==
  ASSUME NEW e, "pc" \in DOMAIN e, EditHonest(stored, seen, e),
         NEW pc \in {"failed", "get", "done"},
         e.pc \in {"put", "orphan", "accepted", "failed", "get", "read"}
  PROVE  "pc" \in DOMAIN [e EXCEPT !.pc = pc] /\ EditHonest(stored, seen, [e EXCEPT !.pc = pc])
<1> DEFINE new == [e EXCEPT !.pc = pc]
<1>1. /\ DOMAIN e = {"pc", "revision", "charts", "before"}
      /\ IsCanvas(e.before) /\ Honest(stored, seen, e.before.revision)
  BY DEF EditHonest
<1>2. DOMAIN new = DOMAIN e /\ new.pc = pc /\ new.before = e.before
  BY <1>1
<1> HIDE DEF new
<1>3. "pc" \in DOMAIN new /\ EditHonest(stored, seen, new)
  BY <1>1, <1>2 DEF EditHonest
<1> QED
  BY <1>3 DEF new

\* The store takes an edit of its own revision only, whose author had seen everything.
LEMMA ServePutKeeps == ASSUME CanvasInv, NEW k \in EditIds, ServePut(k) PROVE CanvasInv'
<1> DEFINE e == edit[k]
<1>1. /\ e.pc \in {"put", "orphan"} /\ EditHonest(stored, seen, e) /\ "pc" \in DOMAIN e
      /\ DOMAIN e = {"pc", "revision", "charts", "before"} /\ Honest(stored, seen, e.revision)
      /\ IsCanvas(e.before) /\ Honest(stored, seen, e.before.revision)
      /\ UNCHANGED <<shown, seen, reading>>
  BY DEF ServePut, CanvasInv, ShownHonest, ReadExact, EditsHonest, EditHonest
<1>2. CASE Acceptable(e)
  <2> DEFINE pc == Heard(e, "accepted")
             new == [e EXCEPT !.pc = pc, !.revision = e.revision + 1]
  <2>1. /\ stored' = [stored EXCEPT !.revision = @ + 1, !.charts = e.charts]
        /\ unseen' = unseen \cup ((ToSet(stored.charts) \ ToSet(e.charts)) \ seen)
        /\ edit' = [edit EXCEPT ![k] = new]
    BY <1>2 DEF ServePut
  <2>2. e.revision = stored.revision /\ Everything(stored, seen)
    BY <1>1, <1>2 DEF Acceptable, Honest
  <2>3. /\ stored'.revision = stored.revision + 1 /\ stored'.charts = e.charts
        /\ DOMAIN stored' = {"revision", "charts", "published"} /\ stored'.revision \in Nat
    BY <2>1 DEF CanvasInv, ShownHonest, ReadExact, EditsHonest
  <2>4. unseen' = {}
    BY <2>1, <2>2 DEF Everything, CanvasInv, ShownHonest, ReadExact, EditsHonest
  <2>5. pc \in {"accepted", "done"}
    BY DEF Heard
  <2>6. /\ DOMAIN new = {"pc", "revision", "charts", "before"} /\ new.pc = pc
        /\ new.revision = stored'.revision /\ new.charts = stored'.charts /\ new.before = e.before
    BY <1>1, <2>2, <2>3
  <2>7. Honest(stored', seen', e.before.revision)
    BY <1>1, <2>3, NewRevision
  <2> HIDE DEF new, pc
  <2>8. "pc" \in DOMAIN new /\ EditHonest(stored', seen', new)
    <3>1. Exact(stored', new)
      BY <2>3, <2>6 DEF Exact
    <3> QED
      BY <1>1, <2>5, <2>6, <2>7, <3>1 DEF EditHonest
  <2>9. EditsHonest'
    BY <2>1, <2>3, <2>8, NewRevision DEF CanvasInv, ShownHonest, ReadExact, EditsHonest
  <2>10. ShownHonest'
    BY <1>1, <2>3, NewRevision DEF CanvasInv, ShownHonest, ReadExact, EditsHonest
  <2> QED
    BY <1>1, <2>3, <2>4, <2>9, <2>10, ReadingStays
    DEF CanvasInv, ShownHonest, ReadExact, EditsHonest, IsCanvas
<1>3. CASE ~Acceptable(e)
  <2>1. PICK pc \in {"failed", "done"} : edit' = [edit EXCEPT ![k] = [e EXCEPT !.pc = pc]]
    BY <1>3 DEF ServePut, Heard
  <2>2. UNCHANGED <<stored, unseen>>
    BY <1>3 DEF ServePut
  <2>3. "pc" \in DOMAIN [e EXCEPT !.pc = pc] /\ EditHonest(stored, seen, [e EXCEPT !.pc = pc])
    BY <1>1, Restaged
  <2> QED
    BY <1>1, <2>1, <2>2, <2>3, QuietEdit
<1> QED
  BY <1>2, <1>3

LEMMA LosesKeeps ==
  ASSUME CanvasInv, NEW k \in EditIds, LosePut(k) \/ PutFailed(k) \/ ServeGet(k)
  PROVE  CanvasInv'
<1>1. UNCHANGED <<shown, seen, reading, stored, unseen>>
  BY DEF LosePut, PutFailed, ServeGet
<1>2. "pc" \in DOMAIN edit[k] /\ EditHonest(stored, seen, edit[k])
  BY DEF CanvasInv, ShownHonest, ReadExact, EditsHonest
<1>3. CASE LosePut(k) \/ PutFailed(k)
  <2>1. PICK pc \in {"failed", "get", "done"} :
          edit' = [edit EXCEPT ![k] = [edit[k] EXCEPT !.pc = pc]]
    BY <1>3 DEF LosePut, PutFailed
  <2>2. edit[k].pc \in {"put", "accepted", "failed"}
    BY <1>3 DEF LosePut, PutFailed
  <2>3. /\ "pc" \in DOMAIN [edit[k] EXCEPT !.pc = pc]
        /\ EditHonest(stored, seen, [edit[k] EXCEPT !.pc = pc])
    BY <1>2, <2>2, Restaged
  <2> QED
    BY <1>1, <2>1, <2>3, QuietEdit
<1>4. CASE ServeGet(k)
  <2> DEFINE new == [edit[k] EXCEPT !.pc = "read", !.revision = stored.revision,
                                    !.charts = stored.charts]
  <2>1. edit[k].pc = "get" /\ edit' = [edit EXCEPT ![k] = new]
    BY <1>4 DEF ServeGet
  <2>2. /\ DOMAIN edit[k] = {"pc", "revision", "charts", "before"}
        /\ IsCanvas(edit[k].before) /\ Honest(stored, seen, edit[k].before.revision)
    BY <1>2, <2>1 DEF EditHonest
  <2>3. /\ DOMAIN new = {"pc", "revision", "charts", "before"} /\ new.pc = "read"
        /\ new.revision = stored.revision /\ new.charts = stored.charts
        /\ new.before = edit[k].before
    BY <2>2
  <2> HIDE DEF new
  <2>4. Exact(stored, new)
    BY <2>3 DEF Exact, CanvasInv, ShownHonest, ReadExact, EditsHonest
  <2>5. "pc" \in DOMAIN new /\ EditHonest(stored, seen, new)
    BY <2>2, <2>3, <2>4 DEF EditHonest
  <2> QED
    BY <1>1, <2>1, <2>5, QuietEdit
<1> QED
  BY <1>3, <1>4

\* An answer that is adopted or shown is exact; what the page goes back to it has shown.
LEMMA AnswersKeep ==
  ASSUME CanvasInv, NEW k \in EditIds, AdoptAnswer(k) \/ GetAnswered(k) \/ GetFails(k)
  PROVE  CanvasInv'
<1> DEFINE new == [edit[k] EXCEPT !.pc = "done"]
<1>1. /\ edit[k].pc \in {"accepted", "get", "read"}
      /\ edit' = [edit EXCEPT ![k] = new] /\ UNCHANGED <<reading, stored, unseen>>
  BY DEF AdoptAnswer, GetAnswered, GetFails
<1>2. /\ "pc" \in DOMAIN edit[k] /\ EditHonest(stored, seen, edit[k])
      /\ IsCanvas(edit[k].before) /\ Honest(stored, seen, edit[k].before.revision)
      /\ edit[k].pc \in {"accepted", "read"} => Exact(stored, edit[k])
      /\ IsCanvas(shown) /\ Honest(stored, seen, shown.revision)
  BY <1>1 DEF CanvasInv, ShownHonest, ReadExact, EditsHonest, EditHonest
<1>3. "pc" \in DOMAIN new /\ EditHonest(stored, seen, new)
  BY <1>1, <1>2, Restaged
<1> HIDE DEF new
<1>4. stored' = stored
  BY <1>1
<1>5. \/ Exact(stored, edit[k]) /\ Show(Fresh(edit[k]))
      \/ Show(shown) \/ Show(edit[k].before)
  BY <1>2 DEF AdoptAnswer, GetAnswered, GetFails
<1>6. ShownHonest' /\ seen \subseteq seen'
  BY <1>2, <1>4, <1>5, ShowAnswer, ShowHonest
<1> QED
  BY <1>1, <1>3, <1>6, EditKeeps

LEMMA CanvasStep == CanvasInv /\ [Next]_vars => CanvasInv'
<1> SUFFICES ASSUME CanvasInv, [Next]_vars PROVE CanvasInv'
  OBVIOUS
<1>1. CASE SendTurn \/ CanvasUpdated \/ EndTurn \/ ReadFails
  BY <1>1, QuietTurn DEF SendTurn, CanvasUpdated, EndTurn, ReadFails, NoRead
<1>2. CASE \E k \in EditIds :
             \/ UpdateCanvas(k) \/ ServePut(k) \/ LosePut(k) \/ AdoptAnswer(k) \/ PutFailed(k)
             \/ ServeGet(k) \/ GetAnswered(k) \/ GetFails(k)
  BY <1>2, UpdateKeeps, ServePutKeeps, LosesKeeps, AnswersKeep
<1>3. CASE UNCHANGED vars
  BY <1>3, QuietTurn DEF vars
<1> QED
  BY <1>1, <1>2, <1>3, PublishKeeps, ServeReadKeeps, ReadArrivesKeeps, RedrawKeeps, ReopenKeeps
  DEF Next

LEMMA CanvasStart == Init => CanvasInv
<1> SUFFICES ASSUME Init PROVE CanvasInv
  OBVIOUS
<1>1. /\ DOMAIN stored = {"revision", "charts", "published"} /\ stored.revision = 0
      /\ stored.charts = <<>> /\ shown.revision = 0 /\ IsCanvas(shown)
      /\ reading.pc # "served" /\ unseen = {}
  BY DEF Init, Fresh, IsCanvas, NoRead
<1>2. ToSet(stored.charts) = {}
  BY <1>1 DEF ToSet
<1>3. Honest(stored, seen, shown.revision)
  BY <1>1, <1>2 DEF Honest, Everything
<1>4. /\ DOMAIN edit = EditIds
      /\ \A k \in EditIds : "pc" \in DOMAIN edit[k] /\ EditHonest(stored, seen, edit[k])
  BY DEF Init, NoEdit, EditHonest
<1> QED
  BY <1>1, <1>3, <1>4 DEF CanvasInv, ShownHonest, ReadExact, EditsHonest

\* updateCanvas: however edits, events, lost answers and the agent's charts come in between, an edit
\* that the store accepts drops no chart its author had not seen.
THEOREM DropsNothingUnseen == Spec => []NothingDroppedUnseen
<1>1. CanvasInv => NothingDroppedUnseen
  BY DEF CanvasInv, ShownHonest, ReadExact, EditsHonest, NothingDroppedUnseen
<1> QED
  BY <1>1, CanvasStart, CanvasStep, PTL DEF Spec

-----------------------------------------------------------------------------
(* The types.  What the user may do to the charts of the page leaves a      *)
(* sequence of charts, and what the store takes are charts it has.          *)

Drawn == Seq(0 .. MaxCharts)
Published == Seq(1 .. MaxCharts)

CanvasType == [by: 0 .. MaxEdits, revision: Nat, charts: Drawn]
StoreType == [revision: Nat, charts: Published, published: 0 .. MaxCharts]
ReadType ==
  [pc: {"none", "sent"}] \cup [pc: {"served"}, revision: Nat, charts: Published]
EditType ==
  [pc: {"none"}] \cup
  [pc: {"put", "orphan", "accepted", "failed", "get", "read", "done"}, revision: Nat,
   charts: Drawn, before: CanvasType]

PageTyped ==
  /\ shown \in CanvasType /\ seen \subseteq 0 .. MaxCharts
  /\ streaming \in BOOLEAN /\ news \in Nat /\ reading \in ReadType

CanvasTyped ==
  /\ PageTyped
  /\ edit \in [EditIds -> EditType]
  /\ stored \in StoreType /\ unseen \subseteq 1 .. MaxCharts

\* A sequence over a set, and over another one that has its elements.
LEMMA SequenceOf ==
  ASSUME NEW S, NEW s \in Seq(S)
  PROVE  Len(s) \in Nat /\ s \in [1 .. Len(s) -> S] /\ DOMAIN s = 1 .. Len(s) /\ ToSet(s) \subseteq S
  BY DEF ToSet

LEMMA SequenceIn ==
  ASSUME NEW S, NEW T, NEW s \in Seq(S), \A i \in 1 .. Len(s) : s[i] \in T
  PROVE  s \in Seq(T)
<1>1. s \in [1 .. Len(s) -> T] /\ Len(s) \in Nat
  BY SequenceOf
<1> QED
  BY <1>1, IsASeq

LEMMA PublishedIsDrawn == ASSUME NEW charts \in Published PROVE charts \in Drawn
<1>1. \A c \in 1 .. MaxCharts : c \in 0 .. MaxCharts
  OBVIOUS
<1>2. charts \in Seq(1 .. MaxCharts)
  BY DEF Published
<1> DEFINE few == 1 .. MaxCharts
           all == 0 .. MaxCharts
<1> HIDE DEF few, all
<1>3. charts \in Seq(few) /\ \A c \in few : c \in all
  BY <1>1, <1>2 DEF few, all
<1>4. \A i \in 1 .. Len(charts) : charts[i] \in all
  BY <1>3, SequenceOf
<1>5. charts \in Seq(all)
  BY <1>3, <1>4, SequenceIn
<1> QED
  BY <1>5 DEF all, Drawn

LEMMA ChartsOf ==
  /\ \A charts \in Drawn : ToSet(charts) \subseteq 0 .. MaxCharts
  /\ \A charts \in Published : ToSet(charts) \subseteq 1 .. MaxCharts
<1>1. ASSUME NEW charts \in Drawn PROVE ToSet(charts) \subseteq 0 .. MaxCharts
  BY <1>1, SequenceOf, Zenon DEF Drawn
<1>2. ASSUME NEW charts \in Published PROVE ToSet(charts) \subseteq 1 .. MaxCharts
  BY <1>2, SequenceOf, Zenon DEF Published
<1> QED
  BY <1>1, <1>2

\* CanvasStrip: what is deleted or moved leaves a sequence of the charts.
LEMMA EditedIsOf ==
  ASSUME NEW S, NEW charts \in Seq(S), NEW new \in Edited(charts)
  PROVE  new \in Seq(S)
<1>1. CASE \E i \in DOMAIN charts : new = RemoveAt(charts, i)
  <2> PICK i \in DOMAIN charts : new = RemoveAt(charts, i)
    BY <1>1
  <2>1. i \in 1 .. Len(charts) /\ Len(charts) \in Nat
    BY SequenceOf
  <2>2. \A j \in 1 .. Len(charts) : charts[j] \in S
    BY SequenceOf
  <2>3. /\ i - 1 \in Int /\ i + 1 \in Int /\ Len(charts) \in Int
        /\ \A j \in 1 .. i - 1 : j \in 1 .. Len(charts)
        /\ \A j \in i + 1 .. Len(charts) : j \in 1 .. Len(charts)
    BY <2>1
  <2>4. SubSeq(charts, 1, i - 1) \in Seq(S) /\ SubSeq(charts, i + 1, Len(charts)) \in Seq(S)
    BY <2>2, <2>3, SubSeqProperties
  <2> QED
    BY <2>4, ConcatProperties DEF RemoveAt
<1>2. CASE \E i \in 1 .. Len(charts) - 1 :
             new = [charts EXCEPT ![i] = charts[i + 1], ![i + 1] = charts[i]]
  <2> PICK i \in 1 .. Len(charts) - 1 :
             new = [charts EXCEPT ![i] = charts[i + 1], ![i + 1] = charts[i]]
    BY <1>2
  <2>1. Len(charts) \in Nat /\ charts \in [1 .. Len(charts) -> S]
    BY SequenceOf
  <2>2. i \in 1 .. Len(charts) /\ i + 1 \in 1 .. Len(charts)
    BY <2>1
  <2>3. new \in [1 .. Len(charts) -> S]
    BY <2>1, <2>2
  <2> QED
    BY <2>1, <2>3, IsASeq
<1> QED
  BY <1>1, <1>2 DEF Edited

LEMMA EditedIsDrawn ==
  ASSUME NEW charts \in Drawn, NEW new \in Edited(charts)
  PROVE  new \in Drawn
  BY EditedIsOf, Zenon DEF Drawn

LEMMA AppendIsDrawn ==
  /\ \A charts \in Drawn, c \in 0 .. MaxCharts : Append(charts, c) \in Drawn
  /\ \A charts \in Published, c \in 1 .. MaxCharts : Append(charts, c) \in Published
<1>1. \A S : \A s \in Seq(S), x \in S : Append(s, x) \in Seq(S)
  OBVIOUS
<1> QED
  BY <1>1, Zenon DEF Drawn, Published

\* Store.UpdateLayout: the charts of an edit that is taken are charts of the store.
LEMMA AcceptableIsPublished ==
  ASSUME CanvasTyped, NEW e, e.charts \in Drawn, Acceptable(e)
  PROVE  e.charts \in Published
<1> DEFINE few == 1 .. MaxCharts
           all == 0 .. MaxCharts
           mine == e.charts
<1> HIDE DEF few, all, mine
<1>1. mine \in Seq(all)
  BY DEF Drawn, all, mine
<1>2. stored.charts \in Seq(few)
  BY DEF CanvasTyped, StoreType, Published, few
<1>3. \A i \in DOMAIN mine : \E j \in 1 .. Len(stored.charts) : stored.charts[j] = mine[i]
  BY DEF Acceptable, Contains, mine
<1>4. DOMAIN mine = 1 .. Len(mine)
  BY <1>1, SequenceOf
<1>5. \A j \in 1 .. Len(stored.charts) : stored.charts[j] \in few
  BY <1>2, SequenceOf
<1>6. mine \in Seq(few)
  BY <1>1, <1>3, <1>4, <1>5, SequenceIn
<1> QED
  BY <1>6 DEF mine, few, Published

LEMMA ShowTyped ==
  ASSUME CanvasTyped, NEW canvas \in CanvasType, Show(canvas)
  PROVE  shown' \in CanvasType /\ seen' \subseteq 0 .. MaxCharts
<1>1. canvas.charts \in Drawn
  BY DEF CanvasType
<1> QED
  BY <1>1, ChartsOf DEF Show, CanvasTyped, PageTyped

LEMMA FreshTyped ==
  ASSUME Parameters, NEW answer, answer.revision \in Nat, answer.charts \in Drawn
  PROVE  Fresh(answer) \in CanvasType
  BY DEF Fresh, CanvasType, Parameters

\* The turn and its reads leave the edits and the store alone.
LEMMA TurnTyped ==
  ASSUME CanvasTyped, UNCHANGED <<edit, stored, unseen>>, PageTyped'
  PROVE  CanvasTyped'
  BY DEF CanvasTyped

LEMMA QuietTyped ==
  ASSUME CanvasTyped, SendTurn \/ CanvasUpdated \/ EndTurn \/ ReadFails \/ UNCHANGED vars
  PROVE  CanvasTyped'
<1>1. UNCHANGED <<shown, seen, edit, stored, unseen>>
  BY DEF SendTurn, CanvasUpdated, EndTurn, ReadFails, vars
<1>2. streaming' \in BOOLEAN
  BY DEF SendTurn, CanvasUpdated, EndTurn, ReadFails, vars, CanvasTyped, PageTyped
<1>3. news' = news \/ news' = 0 \/ (news > 0 /\ news' = news - 1)
  BY DEF SendTurn, CanvasUpdated, EndTurn, ReadFails, vars
<1>4. news' \in Nat
  BY <1>3 DEF CanvasTyped, PageTyped
<1>5. [pc |-> "sent"] \in ReadType /\ NoRead \in ReadType
  BY DEF ReadType, NoRead
<1>6. reading' \in ReadType
  BY <1>5 DEF SendTurn, CanvasUpdated, EndTurn, ReadFails, vars, CanvasTyped, PageTyped
<1> QED
  BY <1>1, <1>2, <1>4, <1>6, TurnTyped DEF CanvasTyped, PageTyped

LEMMA PublishTyped == ASSUME Parameters, CanvasTyped, PublishChart PROVE CanvasTyped'
<1>1. PICK c \in 1 .. MaxCharts :
        stored' = [revision |-> stored.revision + 1, published |-> c,
                   charts |-> Append(stored.charts, c)]
  BY DEF PublishChart
<1>2. stored.revision \in Nat /\ stored.charts \in Published
  BY DEF CanvasTyped, StoreType
<1>3. Append(stored.charts, c) \in Published
  BY <1>2, AppendIsDrawn
<1>4. c \in 0 .. MaxCharts
  BY DEF Parameters
<1>5. stored' \in StoreType
  BY <1>1, <1>2, <1>3, <1>4 DEF StoreType
<1>6. PageTyped'
  BY DEF PublishChart, CanvasTyped, PageTyped
<1> QED
  BY <1>5, <1>6 DEF PublishChart, CanvasTyped

LEMMA ServeReadTyped == ASSUME CanvasTyped, ServeRead PROVE CanvasTyped'
<1>1. stored.revision \in Nat /\ stored.charts \in Published
  BY DEF CanvasTyped, StoreType
<1>2. reading' \in ReadType
  BY <1>1 DEF ServeRead, ReadType
<1> QED
  BY <1>2, TurnTyped DEF ServeRead, CanvasTyped, PageTyped

LEMMA ReadArrivesTyped == ASSUME Parameters, CanvasTyped, ReadArrives PROVE CanvasTyped'
<1>1. reading.revision \in Nat /\ reading.charts \in Drawn
  BY PublishedIsDrawn DEF ReadArrives, CanvasTyped, PageTyped, ReadType
<1>2. shown' \in CanvasType /\ seen' \subseteq 0 .. MaxCharts
  BY <1>1, FreshTyped, ShowTyped DEF ReadArrives
<1>3. reading' \in ReadType
  BY DEF ReadArrives, NoRead, ReadType
<1> QED
  BY <1>2, <1>3, TurnTyped DEF ReadArrives, CanvasTyped, PageTyped

LEMMA RedrawTyped == ASSUME Parameters, CanvasTyped, ToolResult \/ MessageEnd PROVE CanvasTyped'
<1> DEFINE drawn == [shown EXCEPT !.by = 0,
              !.charts = IF Contains(@, PreviewChart) THEN @ ELSE Append(@, PreviewChart)]
           same == [shown EXCEPT !.by = 0]
<1>1. shown \in CanvasType /\ shown.charts \in Drawn
  BY DEF CanvasTyped, PageTyped, CanvasType
<1>2. 0 \in 0 .. MaxEdits /\ PreviewChart \in 0 .. MaxCharts
  BY DEF Parameters, PreviewChart
<1>3. Append(shown.charts, PreviewChart) \in Drawn
  BY <1>1, <1>2, AppendIsDrawn
<1>4. drawn \in CanvasType /\ same \in CanvasType
  BY <1>1, <1>2, <1>3 DEF CanvasType
<1>5. Show(drawn) \/ Show(same)
  BY DEF ToolResult, MessageEnd
<1> HIDE DEF drawn, same
<1>6. shown' \in CanvasType /\ seen' \subseteq 0 .. MaxCharts
  BY <1>4, <1>5, ShowTyped
<1> QED
  BY <1>6, TurnTyped DEF ToolResult, MessageEnd, CanvasTyped, PageTyped

LEMMA ReopenTyped == ASSUME Parameters, CanvasTyped, Reopen PROVE CanvasTyped'
<1>1. stored.revision \in Nat /\ stored.charts \in Drawn
  BY PublishedIsDrawn DEF CanvasTyped, StoreType
<1>2. shown' \in CanvasType /\ seen' \subseteq 0 .. MaxCharts
  BY <1>1, FreshTyped, ShowTyped DEF Reopen
<1>3. ASSUME NEW k \in EditIds
      PROVE  edit'[k] \in EditType
  <2>1. edit[k] \in EditType
    BY DEF CanvasTyped
  <2>2. edit'[k] = CASE edit[k].pc = "none" -> NoEdit
                     [] edit[k].pc \in {"put", "orphan"} -> [edit[k] EXCEPT !.pc = "orphan"]
                     [] OTHER -> [edit[k] EXCEPT !.pc = "done"]
    BY DEF Reopen
  <2> QED
    BY <2>1, <2>2 DEF EditType, NoEdit
<1>4. edit' \in [EditIds -> EditType]
  BY <1>3 DEF Reopen
<1>5. PageTyped'
  BY <1>2 DEF Reopen, CanvasTyped, PageTyped, NoRead, ReadType
<1> QED
  BY <1>4, <1>5 DEF Reopen, CanvasTyped

LEMMA UpdateTyped ==
  ASSUME Parameters, CanvasTyped, NEW k \in EditIds, UpdateCanvas(k)
  PROVE  CanvasTyped'
<1>1. PICK charts \in Edited(shown.charts) :
        /\ Show([shown EXCEPT !.by = k, !.charts = charts])
        /\ edit' = [edit EXCEPT ![k] =
             [pc |-> "put", revision |-> shown.revision, charts |-> charts, before |-> shown]]
  BY DEF UpdateCanvas
<1>2. shown \in CanvasType /\ shown.charts \in Drawn /\ shown.revision \in Nat
  BY DEF CanvasTyped, PageTyped, CanvasType
<1>3. charts \in Drawn
  BY <1>2, EditedIsDrawn
<1>4. k \in 0 .. MaxEdits
  BY DEF EditIds, Parameters
<1>5. [shown EXCEPT !.by = k, !.charts = charts] \in CanvasType
  BY <1>2, <1>3, <1>4 DEF CanvasType
<1>6. shown' \in CanvasType /\ seen' \subseteq 0 .. MaxCharts
  BY <1>1, <1>5, ShowTyped
<1>7. [pc |-> "put", revision |-> shown.revision, charts |-> charts, before |-> shown]
        \in EditType
  BY <1>2, <1>3 DEF EditType
<1>8. edit' \in [EditIds -> EditType]
  BY <1>1, <1>7 DEF CanvasTyped
<1> QED
  BY <1>6, <1>8 DEF UpdateCanvas, CanvasTyped, PageTyped

\* An edit that goes on keeps what it was made of.
LEMMA EditGoesTyped ==
  ASSUME NEW e \in EditType, e.pc # "none",
         NEW pc \in {"put", "orphan", "accepted", "failed", "get", "read", "done"},
         NEW revision \in Nat, NEW charts \in Drawn
  PROVE  /\ [e EXCEPT !.pc = pc] \in EditType
         /\ [e EXCEPT !.pc = pc, !.revision = revision] \in EditType
         /\ [e EXCEPT !.pc = pc, !.revision = revision, !.charts = charts] \in EditType
         /\ e.revision \in Nat /\ e.charts \in Drawn /\ e.before \in CanvasType
  BY DEF EditType

LEMMA ServePutTyped ==
  ASSUME CanvasTyped, NEW k \in EditIds, ServePut(k)
  PROVE  CanvasTyped'
<1> DEFINE e == edit[k]
<1>1. e \in EditType /\ e.pc # "none"
  BY DEF CanvasTyped, ServePut
<1>2. e.revision \in Nat /\ e.charts \in Drawn
  BY <1>1 DEF EditType
<1>3. PageTyped'
  BY DEF ServePut, CanvasTyped, PageTyped
<1>4. CASE Acceptable(e)
  <2> DEFINE pc == Heard(e, "accepted")
             new == [e EXCEPT !.pc = pc, !.revision = e.revision + 1]
  <2>1. pc \in {"accepted", "done"} /\ e.revision + 1 \in Nat
    BY <1>2 DEF Heard
  <2>2. new \in EditType
    <3> HIDE DEF pc
    <3> QED
      BY <1>1, <1>2, <2>1, EditGoesTyped
  <2>3. e.charts \in Published
    BY <1>2, <1>4, AcceptableIsPublished
  <2>4. stored' = [stored EXCEPT !.revision = @ + 1, !.charts = e.charts]
    BY <1>4 DEF ServePut
  <2>5. stored' \in StoreType
    <3> DEFINE mine == e.charts
    <3> HIDE DEF mine
    <3>1. mine \in Published /\ stored \in StoreType
          /\ stored' = [stored EXCEPT !.revision = @ + 1, !.charts = mine]
      BY <2>3, <2>4 DEF mine, CanvasTyped
    <3>2. stored.revision + 1 \in Nat
      BY <3>1 DEF StoreType
    <3> DEFINE next == stored.revision + 1
    <3> HIDE DEF next
    <3>3. stored' = [stored EXCEPT !.revision = next, !.charts = mine] /\ next \in Nat
      BY <3>1, <3>2 DEF next
    <3> QED
      BY <3>1, <3>3 DEF StoreType
  <2>6. ToSet(stored.charts) \subseteq 1 .. MaxCharts
    BY ChartsOf DEF CanvasTyped, StoreType
  <2>7. unseen' \subseteq 1 .. MaxCharts
    BY <1>4, <2>6 DEF ServePut, CanvasTyped
  <2>8. edit' = [edit EXCEPT ![k] = new]
    BY <1>4 DEF ServePut
  <2> HIDE DEF new
  <2>9. edit' \in [EditIds -> EditType]
    BY <2>2, <2>8 DEF CanvasTyped
  <2> QED
    BY <1>3, <2>5, <2>7, <2>9 DEF CanvasTyped
<1>5. CASE ~Acceptable(e)
  <2>1. PICK pc \in {"failed", "done"} : edit' = [edit EXCEPT ![k] = [e EXCEPT !.pc = pc]]
    BY <1>5 DEF ServePut, Heard
  <2>2. [e EXCEPT !.pc = pc] \in EditType
    BY <1>1, <1>2, EditGoesTyped
  <2>3. edit' \in [EditIds -> EditType]
    BY <2>1, <2>2 DEF CanvasTyped
  <2> QED
    BY <1>3, <1>5, <2>3 DEF ServePut, CanvasTyped
<1> QED
  BY <1>4, <1>5

LEMMA LosesTyped ==
  ASSUME CanvasTyped, NEW k \in EditIds, LosePut(k) \/ PutFailed(k) \/ ServeGet(k)
  PROVE  CanvasTyped'
<1>1. PageTyped' /\ UNCHANGED <<stored, unseen>>
  BY DEF LosePut, PutFailed, ServeGet, CanvasTyped, PageTyped
<1>2. edit[k] \in EditType /\ edit[k].pc # "none"
  BY DEF CanvasTyped, LosePut, PutFailed, ServeGet
<1>3. stored.revision \in Nat /\ stored.charts \in Drawn
  BY PublishedIsDrawn DEF CanvasTyped, StoreType
<1>4. PICK new \in EditType : edit' = [edit EXCEPT ![k] = new]
  <2>1. \/ \E pc \in {"failed", "get", "done"} :
             edit' = [edit EXCEPT ![k] = [edit[k] EXCEPT !.pc = pc]]
        \/ edit' = [edit EXCEPT ![k] =
             [edit[k] EXCEPT !.pc = "read", !.revision = stored.revision,
                             !.charts = stored.charts]]
    BY DEF LosePut, PutFailed, ServeGet
  <2> QED
    BY <1>2, <1>3, <2>1, EditGoesTyped
<1>5. edit' \in [EditIds -> EditType]
  BY <1>4 DEF CanvasTyped
<1> QED
  BY <1>1, <1>5 DEF CanvasTyped

LEMMA AnswersTyped ==
  ASSUME Parameters, CanvasTyped, NEW k \in EditIds,
         AdoptAnswer(k) \/ GetAnswered(k) \/ GetFails(k)
  PROVE  CanvasTyped'
<1>1. edit[k] \in EditType /\ edit[k].pc # "none"
  BY DEF CanvasTyped, AdoptAnswer, GetAnswered, GetFails
<1>2. edit[k].revision \in Nat /\ edit[k].charts \in Drawn /\ edit[k].before \in CanvasType
  BY <1>1 DEF EditType
<1>3. Fresh(edit[k]) \in CanvasType /\ shown \in CanvasType
  BY <1>2, FreshTyped DEF CanvasTyped, PageTyped
<1>4. Show(Fresh(edit[k])) \/ Show(shown) \/ Show(edit[k].before)
  BY DEF AdoptAnswer, GetAnswered, GetFails
<1>5. shown' \in CanvasType /\ seen' \subseteq 0 .. MaxCharts
  BY <1>2, <1>3, <1>4, ShowTyped
<1>6. [edit[k] EXCEPT !.pc = "done"] \in EditType
  BY <1>1, <1>2, EditGoesTyped
<1>7. edit' \in [EditIds -> EditType]
  BY <1>6 DEF CanvasTyped, AdoptAnswer, GetAnswered, GetFails
<1> QED
  BY <1>5, <1>7 DEF AdoptAnswer, GetAnswered, GetFails, CanvasTyped, PageTyped

LEMMA CanvasStepTyped == ASSUME Parameters PROVE CanvasTyped /\ [Next]_vars => CanvasTyped'
<1> SUFFICES ASSUME CanvasTyped, [Next]_vars PROVE CanvasTyped'
  OBVIOUS
<1>1. CASE \E k \in EditIds :
             \/ UpdateCanvas(k) \/ ServePut(k) \/ LosePut(k) \/ AdoptAnswer(k) \/ PutFailed(k)
             \/ ServeGet(k) \/ GetAnswered(k) \/ GetFails(k)
  BY <1>1, UpdateTyped, ServePutTyped, LosesTyped, AnswersTyped
<1> QED
  BY <1>1, QuietTyped, PublishTyped, ServeReadTyped, ReadArrivesTyped, RedrawTyped, ReopenTyped
  DEF Next

LEMMA CanvasStartTyped == ASSUME Parameters PROVE Init => CanvasTyped
<1> SUFFICES ASSUME Init PROVE CanvasTyped
  OBVIOUS
<1>1. stored = [revision |-> 0, charts |-> <<>>, published |-> 0]
  BY DEF Init
<1>2. <<>> \in Published /\ <<>> \in Drawn /\ 0 \in 0 .. MaxCharts
  BY DEF Published, Drawn, Parameters
<1>3. stored \in StoreType
  BY <1>1, <1>2 DEF StoreType
<1>4. shown \in CanvasType
  BY <1>1, <1>2, FreshTyped DEF Init
<1>5. edit \in [EditIds -> EditType]
  BY DEF Init, NoEdit, EditType
<1>6. reading \in ReadType
  BY DEF Init, NoRead, ReadType
<1> QED
  BY <1>3, <1>4, <1>5, <1>6 DEF Init, CanvasTyped, PageTyped

\* updateCanvas and the canvas of a turn: whatever is deleted, moved, drawn, read and taken over,
\* the page shows charts that were drawn, and the store keeps charts that were published.
THEOREM KeepsWhatWasPublished == ASSUME Parameters PROVE Spec => []TypeOK
<1>1. CanvasTyped => TypeOK
  <2> SUFFICES ASSUME CanvasTyped PROVE TypeOK
    OBVIOUS
  <2>1. \A k \in EditIds :
          edit[k].pc \in {"none", "put", "orphan", "accepted", "failed", "get", "read", "done"}
    BY DEF CanvasTyped, EditType
  <2>2. reading.pc \in {"none", "sent", "served"}
    BY DEF CanvasTyped, PageTyped, ReadType
  <2> QED
    BY <2>1, <2>2 DEF CanvasTyped, PageTyped, CanvasType, StoreType, Drawn, Published, TypeOK
<1> QED
  BY <1>1, CanvasStartTyped, CanvasStepTyped, PTL DEF Spec

=============================================================================
