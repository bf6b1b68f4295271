---------------------------- MODULE CanvasProofs ----------------------------
(***************************************************************************)
(* The safety of a canvas, for any number of calls, charts and revisions.  *)
(* First what a transaction does to the tables, then that nothing but the  *)
(* three transactions touches them, and last what the calls and the stream *)
(* know of the revision.                                                   *)
(***************************************************************************)
EXTENDS CanvasService, FiniteSetTheorems, TLAPS

\* A transaction needs all of it: the place of a new chart is free because places are dense,
\* and the place counts charts because the tables agree.
StoreInv == StoreTypeOK /\ TablesAgree /\ PositionsAreDense /\ ActiveIsShown /\ WithinLimit

-----------------------------------------------------------------------------
(* The tables.                                                             *)

\* The charts on a canvas are finitely many.
LEMMA ItemsFinite ==
  ASSUME StoreTypeOK
  PROVE  IsFiniteSet(DOMAIN items) /\ Cardinality(DOMAIN items) \in Nat
<1>1. IsFiniteSet(1 .. minted)
  <2>1. 1 \in Int /\ minted \in Int
    BY StoreAssumption DEF StoreTypeOK
  <2> QED
    BY <2>1, FS_Interval
<1>2. IsFiniteSet(DOMAIN items)
  BY <1>1, FS_Subset DEF StoreTypeOK
<1> QED
  BY <1>2, FS_CardinalityType

\* Where there is no canvas, the tables are one aggregate: an empty one.
LEMMA EmptyTables ==
  ASSUME canvas = NoCanvas, charts = NoRows, queries = {}, items = NoRows,
         minted \in 0 .. MaxMinted
  PROVE  StoreInv
<1>1. DOMAIN NoRows = {} /\ NoRows \in [{} -> Nat]
      /\ NoRows \in [{} -> [key : Keys, hash : Hashes]]
  BY DEF NoRows
<1>2. Cardinality(DOMAIN items) = 0
  BY <1>1, FS_EmptySet
<1>3. StoreTypeOK
  BY <1>1, StoreAssumption DEF StoreTypeOK, NoCanvas
<1>4. TablesAgree /\ ActiveIsShown
  BY <1>1 DEF TablesAgree, ActiveIsShown, NoCanvas
<1>5. PositionsAreDense /\ WithinLimit
  BY <1>1, <1>2, StoreAssumption DEF PositionsAreDense, WithinLimit
<1> QED
  BY <1>3, <1>4, <1>5 DEF StoreInv

\* A new chart goes to the end of the canvas.
LEMMA PublishKeepsStore ==
  ASSUME StoreInv, NEW key \in Keys, NEW hash \in Hashes, PublishNewChart(key, hash)
  PROVE  StoreInv'
<1> DEFINE chart == minted + 1
           n == Cardinality(DOMAIN items)
<1>1. /\ chart \in ChartIds /\ chart \notin DOMAIN items
      /\ minted \in Nat /\ minted' = chart /\ minted' \in 0 .. MaxMinted
      /\ canvas.revision \in Nat /\ canvas.revision + 1 \in 1 .. MaxRevision
  BY StoreAssumption DEF StoreInv, StoreTypeOK, PublishNewChart, ChartIds
<1>2. n \in Nat /\ IsFiniteSet(DOMAIN items)
  BY ItemsFinite DEF StoreInv
<1>3. /\ DOMAIN items' = DOMAIN items \cup {chart}
      /\ items' = [k \in DOMAIN items \cup {chart} |-> IF k = chart THEN n ELSE items[k]]
  BY DEF PublishNewChart, Insert
<1>4. /\ DOMAIN charts' = DOMAIN charts \cup {chart}
      /\ charts' = [k \in DOMAIN charts \cup {chart} |->
                      IF k = chart THEN [key |-> key, hash |-> hash] ELSE charts[k]]
  BY DEF PublishNewChart, Insert
<1>5. canvas' = [revision |-> canvas.revision + 1, active |-> chart]
      /\ queries' = queries \cup {chart}
  BY DEF PublishNewChart
<1>6. Cardinality(DOMAIN items') = n + 1
  BY <1>1, <1>2, <1>3, FS_AddElement
<1>7. StoreTypeOK'
  <2>1. DOMAIN items' \subseteq 1 .. minted' /\ DOMAIN charts' \subseteq 1 .. minted'
        /\ queries' \subseteq 1 .. minted'
    BY <1>1, <1>3, <1>4, <1>5 DEF StoreInv, StoreTypeOK
  <2>2. items' \in [DOMAIN items' -> Nat]
    BY <1>2, <1>3 DEF StoreInv, StoreTypeOK
  <2>3. charts' \in [DOMAIN charts' -> [key : Keys, hash : Hashes]]
    BY <1>4 DEF StoreInv, StoreTypeOK
  <2>4. canvas' \in [revision : 0 .. MaxRevision, active : ChartIds \cup {None}]
    BY <1>1, <1>5
  <2> QED
    BY <1>1, <2>1, <2>2, <2>3, <2>4 DEF StoreTypeOK
<1>8. TablesAgree'
  BY <1>1, <1>3, <1>4, <1>5 DEF StoreInv, TablesAgree
<1>9. PositionsAreDense'
  <2>1. \A c \in DOMAIN items : items[c] < n /\ items[c] \in Nat
    BY DEF StoreInv, StoreTypeOK, PositionsAreDense
  <2> QED
    BY <1>1, <1>2, <1>3, <1>6, <2>1 DEF StoreInv, PositionsAreDense
<1>10. ActiveIsShown'
  BY <1>3, <1>5 DEF ActiveIsShown
<1>11. WithinLimit'
  BY <1>2, <1>6, StoreAssumption DEF PublishNewChart, RoomForChart, WithinLimit
<1> QED
  BY <1>7, <1>8, <1>9, <1>10, <1>11 DEF StoreInv

\* Dropping and moving charts leaves a whole canvas.
LEMMA UpdateKeepsStore ==
  ASSUME StoreInv, NEW expected, NEW set, NEW order \in Arrangements(set), NEW active,
         UpdateLayout(expected, order, active)
  PROVE  StoreInv'
<1>1. /\ order \in [set -> Nat] /\ DOMAIN order = set
      /\ \A c \in set : order[c] < Cardinality(set)
      /\ \A c, e \in set : order[c] = order[e] => c = e
      /\ set \subseteq DOMAIN items
  <2>1. set \subseteq DOMAIN items
    BY DEF Arrangements, UpdateLayout
  <2>2. IsFiniteSet(set) /\ Cardinality(set) \in Nat
    BY <2>1, ItemsFinite, FS_Subset, FS_CardinalityType DEF StoreInv
  <2> QED
    BY <2>1, <2>2 DEF Arrangements
<1>2. /\ items' = order
      /\ queries' = queries \ (DOMAIN items \ set)
      /\ DOMAIN charts' = DOMAIN charts \cap set
      /\ charts' = [k \in DOMAIN charts \cap set |-> charts[k]]
      /\ canvas' = [revision |-> canvas.revision + 1, active |-> active]
      /\ active \in set \cup {None}
      /\ minted' = minted
      /\ canvas.revision < MaxRevision
  BY <1>1 DEF UpdateLayout, ItemsLeft, QueriesLeft, ActiveChoices, Keep
<1>3. canvas.revision \in Nat /\ canvas.revision + 1 \in 1 .. MaxRevision
  BY <1>2, StoreAssumption DEF StoreInv, StoreTypeOK
<1>4. StoreTypeOK'
  <2>1. set \subseteq ChartIds
    BY <1>1, StoreAssumption DEF StoreInv, StoreTypeOK, ChartIds
  <2>2. canvas' \in [revision : 0 .. MaxRevision, active : ChartIds \cup {None}]
    BY <1>2, <1>3, <2>1
  <2>3. charts' \in [DOMAIN charts' -> [key : Keys, hash : Hashes]]
    BY <1>2 DEF StoreInv, StoreTypeOK
  <2> QED
    BY <1>1, <1>2, <2>2, <2>3 DEF StoreInv, StoreTypeOK
<1>5. TablesAgree'
  BY <1>1, <1>2, <1>3 DEF StoreInv, TablesAgree
<1>6. PositionsAreDense'
  BY <1>1, <1>2 DEF PositionsAreDense
<1>7. ActiveIsShown'
  BY <1>1, <1>2 DEF ActiveIsShown
<1>8. WithinLimit'
  <2>1. /\ Cardinality(set) \in Nat /\ Cardinality(DOMAIN items) \in Nat
        /\ Cardinality(set) <= Cardinality(DOMAIN items)
    BY <1>1, ItemsFinite, FS_Subset, FS_CardinalityType DEF StoreInv
  <2> QED
    BY <1>1, <1>2, <2>1, StoreAssumption DEF StoreInv, WithinLimit
<1> QED
  BY <1>4, <1>5, <1>6, <1>7, <1>8 DEF StoreInv

\* Removing the canvas empties the tables.
LEMMA DeleteKeepsStore ==
  ASSUME StoreInv, DeleteCanvas
  PROVE  StoreInv'
<1>1. DOMAIN NoRows = {} /\ NoRows \in [{} -> Nat]
      /\ NoRows \in [{} -> [key : Keys, hash : Hashes]]
  BY DEF NoRows
<1>2. Cardinality(DOMAIN items') = 0
  BY <1>1, FS_EmptySet DEF DeleteCanvas
<1>3. StoreTypeOK'
  BY <1>1, StoreAssumption DEF StoreInv, StoreTypeOK, NoCanvas, DeleteCanvas
<1>4. TablesAgree' /\ ActiveIsShown'
  BY <1>1 DEF TablesAgree, ActiveIsShown, NoCanvas, DeleteCanvas
<1>5. PositionsAreDense' /\ WithinLimit'
  BY <1>1, <1>2, StoreAssumption DEF PositionsAreDense, WithinLimit, DeleteCanvas
<1> QED
  BY <1>3, <1>4, <1>5 DEF StoreInv

-----------------------------------------------------------------------------
(* Calls, the session and the stream.                                      *)

\* What a call and the stream are, apart from the tables.
CallTypeOK ==
  /\ session \in {"active", "archived", "gone", "deleted"}
  /\ call \in [Calls -> CallState]
  /\ stream \in StreamState

\* Who publishes has said what; who removes the canvas has seen the session gone.
CallsAreSound ==
  \A t \in Calls :
    /\ call[t].pc = "publish" => call[t].key \in Keys /\ call[t].hash \in Hashes
    /\ call[t].pc = "remove" => ~SessionExists

\* What was read of a canvas is no newer than the canvas.
ViewsAreOld ==
  SessionExists => /\ \A t \in Calls : call[t].view.revision <= canvas.revision
                   /\ stream.due <= canvas.revision

\* A client that holds the present revision holds the charts that are there.
ViewsAreExact ==
  SessionExists => \A t \in Calls :
    call[t].pc \in {"holding", "update"} /\ call[t].view.revision = canvas.revision
      => call[t].view.shown = DOMAIN items

\* Everything that is shown to be invariant.
Inv == StoreInv /\ CallTypeOK /\ CallsAreSound /\ ViewsAreOld /\ ViewsAreExact /\ UpdateIsComing

\* At the beginning there are no calls and no canvas.
LEMMA InitInv == Init => Inv
<1> SUFFICES ASSUME Init PROVE Inv
  OBVIOUS
<1>1. StoreInv
  BY EmptyTables, StoreAssumption DEF Init, StoreInit
<1>2. CallTypeOK
  BY StoreAssumption, ServiceAssumption
     DEF Init, CallTypeOK, CallState, Idle, View, NoView, StreamState, Closed
<1>3. CallsAreSound /\ ViewsAreOld /\ ViewsAreExact /\ UpdateIsComing
  BY DEF Init, StoreInit, CallsAreSound, ViewsAreOld, ViewsAreExact, UpdateIsComing, NoCanvas,
         Idle, NoView, Closed
<1> QED
  BY <1>1, <1>2, <1>3 DEF Inv

\* A view of the tables is well typed.
LEMMA ViewType ==
  ASSUME StoreInv
  PROVE  /\ canvas.revision \in 0 .. MaxRevision
         /\ canvas.active \in ChartIds \cup {None}
         /\ DOMAIN items \in SUBSET ChartIds
BY StoreAssumption DEF StoreInv, StoreTypeOK, ChartIds

\* A step that leaves the tables alone.
LEMMA SameStore ==
  ASSUME StoreInv, UNCHANGED tables
  PROVE  StoreInv'
BY DEF tables, StoreInv, StoreTypeOK, TablesAgree, PositionsAreDense, ActiveIsShown, WithinLimit

\* A call goes on, and nothing else happens.
LEMMA CallGoesOn ==
  ASSUME Inv, UNCHANGED <<tables, session, stream>>,
         NEW t \in Calls, NEW c \in CallState, call' = [call EXCEPT ![t] = c],
         c.pc = "publish" => c.key \in Keys /\ c.hash \in Hashes,
         c.pc = "remove" => ~SessionExists,
         SessionExists => c.view.revision <= canvas.revision,
         SessionExists /\ c.pc \in {"holding", "update"} /\ c.view.revision = canvas.revision
           => c.view.shown = DOMAIN items
  PROVE  Inv'
<1>1. StoreInv'
  BY SameStore DEF Inv
<1>2. \A u \in Calls : call'[u] = IF u = t THEN c ELSE call[u]
  BY DEF Inv, CallTypeOK
<1>3. canvas' = canvas /\ items' = items /\ session' = session /\ stream' = stream
  BY DEF tables
<1>4. CallTypeOK'
  BY <1>3 DEF Inv, CallTypeOK
<1>5. CallsAreSound'
  BY <1>2, <1>3 DEF Inv, CallsAreSound, SessionExists
<1>6. ViewsAreOld' /\ ViewsAreExact'
  BY <1>2, <1>3 DEF Inv, ViewsAreOld, ViewsAreExact, SessionExists
<1>7. UpdateIsComing'
  BY <1>3 DEF Inv, UpdateIsComing
<1> QED
  BY <1>1, <1>4, <1>5, <1>6, <1>7 DEF Inv

\* A transaction raises the revision, and the call goes on to read the canvas back.
LEMMA StoreGoesOn ==
  ASSUME Inv, StoreInv', canvas'.revision = canvas.revision + 1, UNCHANGED <<session, stream>>,
         NEW t \in Calls, Goto(t, "row")
  PROVE  Inv'
<1>1. /\ call[t] \in CallState
      /\ call' = [call EXCEPT ![t] = [call[t] EXCEPT !.pc = "row"]]
  BY DEF Inv, CallTypeOK, Goto
<1>2. [call[t] EXCEPT !.pc = "row"] \in CallState
  BY <1>1 DEF CallState
<1>3. CallTypeOK'
  BY <1>1, <1>2 DEF Inv, CallTypeOK
<1>4. \A u \in Calls : /\ call'[u].view = call[u].view
                       /\ call'[u].pc = IF u = t THEN "row" ELSE call[u].pc
                       /\ u # t => call'[u] = call[u]
  BY <1>1 DEF Inv, CallTypeOK, CallState
<1>5. \A u \in Calls : call[u].view.revision \in Nat
  BY StoreAssumption DEF Inv, CallTypeOK, CallState, View
<1>6. canvas.revision \in Nat /\ stream.due \in Nat
  BY StoreAssumption, ViewType DEF Inv, CallTypeOK, StreamState
<1>7. CallsAreSound'
  BY <1>4 DEF Inv, CallsAreSound, SessionExists
<1>8. ViewsAreOld'
  BY <1>4, <1>5, <1>6 DEF Inv, ViewsAreOld, SessionExists
<1>9. ViewsAreExact'
  BY <1>4, <1>5, <1>6 DEF Inv, ViewsAreOld, ViewsAreExact, SessionExists
<1>10. UpdateIsComing'
  BY DEF Inv, UpdateIsComing
<1> QED
  BY <1>3, <1>7, <1>8, <1>9, <1>10 DEF Inv

\* The session changes, and with it nothing that its calls rely on while it exists.
LEMMA SessionGoesOn ==
  ASSUME Inv, UNCHANGED <<tables, stream>>,
         session' \in {"active", "archived", "gone", "deleted"}, SessionExists' => SessionExists,
         NEW t \in Calls, UNCHANGED call \/ (~SessionExists' /\ Goto(t, "remove"))
  PROVE  Inv'
<1>1. StoreInv'
  BY SameStore DEF Inv
<1>2. canvas' = canvas /\ items' = items /\ stream' = stream
  BY DEF tables
<1>3. CASE UNCHANGED call
  BY <1>1, <1>2, <1>3
     DEF Inv, CallTypeOK, CallsAreSound, ViewsAreOld, ViewsAreExact, UpdateIsComing
<1>4. CASE ~SessionExists' /\ Goto(t, "remove")
  <2>1. CallTypeOK'
    BY <1>2, <1>4 DEF Inv, CallTypeOK, CallState, Goto
  <2>2. CallsAreSound'
    BY <1>4 DEF Inv, CallTypeOK, CallState, CallsAreSound, Goto
  <2>3. ViewsAreOld' /\ ViewsAreExact' /\ UpdateIsComing'
    BY <1>2, <1>4 DEF Inv, ViewsAreOld, ViewsAreExact, UpdateIsComing
  <2> QED
    BY <1>1, <2>1, <2>2, <2>3 DEF Inv
<1> QED
  BY <1>3, <1>4

\* The stream goes on, and nothing else happens.
LEMMA StreamGoesOn ==
  ASSUME Inv, UNCHANGED <<tables, session, call>>, stream' \in StreamState,
         SessionExists => stream'.due <= canvas.revision, UpdateIsComing'
  PROVE  Inv'
<1>1. StoreInv'
  BY SameStore DEF Inv
<1>2. canvas' = canvas /\ items' = items /\ session' = session /\ call' = call
  BY DEF tables
<1> QED
  BY <1>1, <1>2 DEF Inv, CallTypeOK, CallsAreSound, ViewsAreOld, ViewsAreExact, SessionExists

-----------------------------------------------------------------------------
(* Every step.                                                             *)

\* Nothing is known of an idle call.
LEMMA IdleType ==
  /\ Idle \in CallState /\ Idle.pc = "idle" /\ Idle.key = None /\ Idle.hash = None
  /\ Idle.view \in View /\ Idle.view.revision = 0 /\ Idle.view.shown = {}
BY StoreAssumption DEF Idle, CallState, NoView, View

\* A call that ends knows nothing any more.
LEMMA CallEnds ==
  ASSUME Inv, UNCHANGED <<tables, session, stream>>, NEW t \in Calls, End(t)
  PROVE  Inv'
<1>1. 0 <= canvas.revision
  BY ViewType, StoreAssumption DEF Inv
<1> QED
  BY <1>1, IdleType, CallGoesOn DEF End

\* A read begins with nothing read.
LEMMA BeginGetInv ==
  ASSUME Inv, NEW t \in Calls, BeginGet(t)
  PROVE  Inv'
<1> DEFINE c == [Idle EXCEPT !.pc = "row"]
<1>1. c \in CallState /\ c.pc = "row" /\ c.view.revision = 0
  BY IdleType DEF CallState
<1>2. 0 <= canvas.revision
  BY ViewType, StoreAssumption DEF Inv
<1>3. call' = [call EXCEPT ![t] = c] /\ UNCHANGED <<tables, session, stream>>
  BY DEF BeginGet
<1> HIDE DEF c
<1> QED
  BY <1>1, <1>2, <1>3, CallGoesOn

\* What a read holds in the end is what is there, if the revision did not change meanwhile.
LEMMA ReadInv ==
  ASSUME Inv, NEW t \in Calls, ReadProjection(t)
  PROVE  Inv'
<1>1. /\ call[t] \in CallState /\ call[t].view \in View
      /\ AfterRead(t) \in {"holding", "notify"}
      /\ UNCHANGED <<tables, session, stream>>
  BY DEF Inv, CallTypeOK, CallState, AfterRead, ReadProjection
<1>2. CASE ReadRow(t)
  <2> DEFINE v == [revision |-> canvas.revision, active |-> canvas.active, shown |-> {}]
             c == [call[t] EXCEPT !.pc = IF canvas.revision = 0 THEN AfterRead(t) ELSE "items",
                                  !.view = v]
  <2>1. v \in View /\ canvas.revision \in Nat
    BY ViewType, StoreAssumption DEF Inv, View
  <2>2. /\ c \in CallState /\ c.view.revision = canvas.revision /\ c.view.shown = {}
        /\ c.pc \notin {"publish", "remove"}
        /\ c.pc \in {"holding", "update"} => canvas.revision = 0
    BY <1>1, <2>1 DEF CallState
  <2>3. canvas.revision = 0 => DOMAIN items = {}
    BY DEF Inv, StoreInv, TablesAgree, NoRows
  <2>4. call' = [call EXCEPT ![t] = c]
    BY <1>2 DEF ReadRow
  <2>5. c.view.revision <= canvas.revision
    BY <2>1, <2>2
  <2> HIDE DEF c, v
  <2> QED
    BY <1>1, <2>2, <2>3, <2>4, <2>5, CallGoesOn
<1>3. CASE ReadItems(t)
  <2> DEFINE c == [call[t] EXCEPT !.pc = AfterRead(t), !.view.shown = DOMAIN items]
  <2>1. /\ c \in CallState /\ c.view.revision = call[t].view.revision
        /\ c.view.shown = DOMAIN items /\ c.pc \notin {"publish", "remove"}
    BY <1>1, ViewType DEF Inv, CallState, View
  <2>2. SessionExists => call[t].view.revision <= canvas.revision
    BY DEF Inv, ViewsAreOld
  <2>3. call' = [call EXCEPT ![t] = c]
    BY <1>3 DEF ReadItems
  <2> HIDE DEF c
  <2> QED
    BY <1>1, <2>1, <2>2, <2>3, CallGoesOn
<1> QED
  BY <1>2, <1>3 DEF ReadProjection

\* A publication begins.
LEMMA BeginPublishInv ==
  ASSUME Inv, NEW t \in Calls, NEW key \in Keys, NEW hash \in Hashes, BeginPublish(t, key, hash)
  PROVE  Inv'
<1> DEFINE c == [Idle EXCEPT !.pc = "publish", !.key = key, !.hash = hash]
<1>1. /\ c \in CallState /\ c.pc = "publish" /\ c.key = key /\ c.hash = hash
      /\ c.view.revision = 0
  BY IdleType DEF CallState
<1>2. 0 <= canvas.revision
  BY ViewType, StoreAssumption DEF Inv
<1>3. call' = [call EXCEPT ![t] = c] /\ UNCHANGED <<tables, session, stream>>
  BY DEF BeginPublish
<1> HIDE DEF c
<1> QED
  BY <1>1, <1>2, <1>3, CallGoesOn

\* A publication is stored, or found stored.
LEMMA StorePublishInv ==
  ASSUME Inv, NEW t \in Calls, StorePublish(t)
  PROVE  Inv'
<1> DEFINE key == call[t].key
           hash == call[t].hash
<1>1. key \in Keys /\ hash \in Hashes /\ call[t] \in CallState
  BY DEF StorePublish, Inv, CallTypeOK, CallsAreSound
<1>2. CASE PublishNewChart(key, hash) /\ Goto(t, "row")
  <2>1. StoreInv'
    BY <1>1, <1>2, PublishKeepsStore DEF Inv
  <2>2. canvas'.revision = canvas.revision + 1
    BY <1>2 DEF PublishNewChart
  <2> QED
    BY <1>2, <2>1, <2>2, StoreGoesOn DEF StorePublish
<1>3. CASE /\ PublishAgain(key, hash)
           /\ call' = [call EXCEPT ![t].pc = "notify",
                         ![t].view = [revision |-> canvas.revision, active |-> canvas.active,
                                      shown |-> DOMAIN items]]
  <2> DEFINE v == [revision |-> canvas.revision, active |-> canvas.active, shown |-> DOMAIN items]
             c == [call[t] EXCEPT !.pc = "notify", !.view = v]
  <2>1. v \in View /\ canvas.revision \in Nat
    BY ViewType, StoreAssumption DEF Inv, View
  <2>2. c \in CallState /\ c.pc = "notify" /\ c.view.revision = canvas.revision
    BY <1>1, <2>1 DEF CallState
  <2>3. call' = [call EXCEPT ![t] = c] /\ UNCHANGED <<tables, session, stream>>
    BY <1>3 DEF PublishAgain, StorePublish
  <2>4. c.view.revision <= canvas.revision
    BY <2>1, <2>2
  <2> HIDE DEF c, v
  <2> QED
    BY <2>2, <2>3, <2>4, CallGoesOn
<1> QED
  BY <1>2, <1>3 DEF StorePublish

\* An event is sent, or dropped because there is another one on its way.
LEMMA NotifyInv ==
  ASSUME Inv, NEW t \in Calls, Notify(t)
  PROVE  Inv'
<1> DEFINE r == call[t].view.revision
<1>1. /\ UNCHANGED <<tables, session>> /\ call' = [call EXCEPT ![t] = Idle]
      /\ call[t] \in CallState /\ stream \in StreamState
  BY DEF Notify, End, Inv, CallTypeOK
<1>2. CASE UNCHANGED stream
  BY <1>1, <1>2, CallEnds DEF End
<1>3. CASE PublishEvent(r)
  <2>1. /\ r \in 0 .. MaxRevision /\ MaxRevision \in Nat /\ QueueLimit \in Nat \ {0}
        /\ stream.pending \in 0 .. QueueLimit /\ stream.due \in 0 .. MaxRevision
    BY <1>1, StoreAssumption, ServiceAssumption DEF CallState, View, StreamState
  <2>2. /\ stream' \in StreamState /\ stream'.pending > 0
        /\ stream'.due = IF stream.due < r THEN r ELSE stream.due
    <3> DEFINE p == IF stream.pending < QueueLimit THEN stream.pending + 1 ELSE stream.pending
               d == IF stream.due < r THEN r ELSE stream.due
    <3>1. p \in 0 .. QueueLimit /\ p > 0 /\ d \in 0 .. MaxRevision
      BY <2>1
    <3>2. stream' = [stream EXCEPT !.pending = p, !.due = d]
      BY <1>3 DEF PublishEvent
    <3> HIDE DEF p, d
    <3>3. stream' \in StreamState /\ stream'.pending = p /\ stream'.due = d
      BY <1>1, <3>1, <3>2 DEF StreamState
    <3> QED
      BY <3>1, <3>3 DEF d
  <2>4. \A u \in Calls : call'[u] = IF u = t THEN Idle ELSE call[u]
    BY <1>1 DEF Inv, CallTypeOK
  <2>5. canvas' = canvas /\ items' = items /\ session' = session /\ StoreInv'
    BY <1>1, SameStore DEF tables, Inv
  <2>6. CallTypeOK'
    BY <1>1, <2>2, <2>5, IdleType DEF Inv, CallTypeOK
  <2>7. CallsAreSound'
    BY <2>4, <2>5, IdleType DEF Inv, CallsAreSound, SessionExists
  <2>8. canvas.revision \in Nat
    BY ViewType, StoreAssumption DEF Inv
  <2>9. ViewsAreOld' /\ ViewsAreExact'
    BY <2>2, <2>4, <2>5, <2>8, IdleType DEF Inv, ViewsAreOld, ViewsAreExact, SessionExists
  <2>10. UpdateIsComing'
    BY <2>2 DEF UpdateIsComing
  <2> QED
    BY <2>5, <2>6, <2>7, <2>9, <2>10 DEF Inv
<1> QED
  BY <1>2, <1>3 DEF Notify

\* An edit begins with the view that is held.
LEMMA BeginUpdateInv ==
  ASSUME Inv, NEW t \in Calls, BeginUpdate(t)
  PROVE  Inv'
<1> DEFINE c == [call[t] EXCEPT !.pc = "update"]
<1>1. /\ c \in CallState /\ c.pc = "update" /\ c.view = call[t].view
      /\ call[t].pc = "holding"
  BY DEF BeginUpdate, Inv, CallTypeOK, CallState
<1>2. call' = [call EXCEPT ![t] = c] /\ UNCHANGED <<tables, session, stream>>
  BY DEF BeginUpdate, Goto
<1>3. /\ SessionExists => c.view.revision <= canvas.revision
      /\ SessionExists /\ c.view.revision = canvas.revision => c.view.shown = DOMAIN items
  BY <1>1 DEF Inv, ViewsAreOld, ViewsAreExact
<1> HIDE DEF c
<1> QED
  BY <1>1, <1>2, <1>3, CallGoesOn

\* An edit is stored.
LEMMA StoreUpdateInv ==
  ASSUME Inv, NEW t \in Calls, StoreUpdate(t)
  PROVE  Inv'
<1>1. PICK set \in SUBSET call[t].view.shown : \E order \in Arrangements(set) :
        \E active \in call[t].view.shown \cup {None} :
          UpdateLayout(call[t].view.revision, order, active)
  BY DEF StoreUpdate
<1>2. PICK order \in Arrangements(set) : \E active \in call[t].view.shown \cup {None} :
        UpdateLayout(call[t].view.revision, order, active)
  BY <1>1
<1>3. PICK active : UpdateLayout(call[t].view.revision, order, active)
  BY <1>2
<1>4. StoreInv'
  BY <1>2, <1>3, UpdateKeepsStore DEF Inv
<1>5. canvas'.revision = canvas.revision + 1
  BY <1>3 DEF UpdateLayout
<1> QED
  BY <1>4, <1>5, StoreGoesOn DEF StoreUpdate

\* The session is deleted before the canvas is.
LEMMA BeginDeleteInv ==
  ASSUME Inv, NEW t \in Calls, BeginDelete(t)
  PROVE  Inv'
<1>1. session' \in {"gone", "deleted"}
  BY DEF BeginDelete, SessionExists, Inv, CallTypeOK
<1>2. ~SessionExists'
  BY <1>1 DEF SessionExists
<1> QED
  BY <1>1, <1>2, SessionGoesOn DEF BeginDelete

\* The canvas is deleted after the session was.
LEMMA FinishDeleteInv ==
  ASSUME Inv, NEW t \in Calls, FinishDelete(t)
  PROVE  Inv'
<1>1. StoreInv'
  BY DeleteKeepsStore DEF Inv, FinishDelete
<1>2. ~SessionExists' /\ stream' = stream /\ session' = "deleted"
  BY DEF FinishDelete, SessionExists
<1>3. call' = [call EXCEPT ![t] = Idle] /\ \A u \in Calls : call'[u] = IF u = t THEN Idle ELSE call[u]
  BY DEF FinishDelete, End, Inv, CallTypeOK
<1>4. CallTypeOK'
  BY <1>2, <1>3, IdleType DEF Inv, CallTypeOK
<1>5. CallsAreSound'
  BY <1>2, <1>3, IdleType DEF Inv, CallsAreSound
<1>6. ViewsAreOld' /\ ViewsAreExact' /\ UpdateIsComing'
  BY <1>2 DEF Inv, ViewsAreOld, ViewsAreExact, UpdateIsComing
<1> QED
  BY <1>1, <1>4, <1>5, <1>6 DEF Inv

\* A closed stream owes nothing.
LEMMA StreamCloses ==
  ASSUME Inv, UNCHANGED <<tables, session, call>>, stream' = Closed
  PROVE  Inv'
<1>1. Closed \in StreamState /\ Closed.due = 0 /\ Closed.open = FALSE
  BY StoreAssumption, ServiceAssumption DEF Closed, StreamState
<1>2. 0 <= canvas.revision
  BY ViewType, StoreAssumption DEF Inv
<1>3. UpdateIsComing'
  BY <1>1 DEF UpdateIsComing
<1> QED
  BY <1>1, <1>2, <1>3, StreamGoesOn

\* The browser follows the events of its stream.
LEMMA StreamInv ==
  ASSUME Inv, OpenStream \/ TakeEvent \/ ShowRow \/ ShowItems \/ CloseStream
  PROVE  Inv'
<1>1. /\ stream \in StreamState
      /\ SessionExists => stream.due <= canvas.revision
      /\ UpdateIsComing /\ canvas.revision \in 0 .. MaxRevision
      /\ MaxRevision \in Nat /\ QueueLimit \in Nat \ {0}
  BY ViewType, StoreAssumption, ServiceAssumption DEF Inv, CallTypeOK, ViewsAreOld
<1>2. CASE OpenStream
  <2>1. Closed \in StreamState /\ Closed.due = 0 /\ Closed.shown = 0
    BY <1>1 DEF Closed, StreamState
  <2>2. stream' \in StreamState /\ stream'.due = 0 /\ stream'.shown = 0
    BY <1>2, <2>1 DEF OpenStream, StreamState
  <2>3. UpdateIsComing'
    BY <2>2 DEF UpdateIsComing
  <2>4. stream'.due <= canvas.revision
    BY <1>1, <2>2
  <2> QED
    BY <1>2, <2>2, <2>3, <2>4, StreamGoesOn DEF OpenStream
<1>3. CASE TakeEvent
  <2> DEFINE p == stream.pending - 1
  <2>1. p \in 0 .. QueueLimit /\ stream' = [stream EXCEPT !.pending = p, !.reading = "row"]
    BY <1>1, <1>3 DEF TakeEvent, StreamState
  <2> HIDE DEF p
  <2>2. stream' \in StreamState /\ stream'.reading = "row" /\ stream'.due = stream.due
    BY <1>1, <2>1 DEF StreamState
  <2>3. UpdateIsComing'
    BY <2>2 DEF UpdateIsComing
  <2> QED
    BY <1>1, <1>3, <2>2, <2>3, StreamGoesOn DEF TakeEvent
<1>4. CASE ShowRow
  <2>1. CASE SessionExists
    <3>1. /\ stream' \in StreamState /\ stream'.due = stream.due
          /\ stream'.shown = canvas.revision
      BY <1>1, <1>4, <2>1 DEF ShowRow, StreamState
    <3>2. UpdateIsComing'
      <4>1. stream.due \in Nat /\ canvas.revision \in Nat /\ stream.due <= canvas.revision
        BY <1>1, <2>1 DEF StreamState
      <4> QED
        BY <3>1, <4>1 DEF UpdateIsComing
    <3> QED
      BY <1>1, <1>4, <3>1, <3>2, StreamGoesOn DEF ShowRow
  <2>2. CASE ~SessionExists
    BY <1>4, <2>2, StreamCloses DEF ShowRow
  <2> QED
    BY <2>1, <2>2
<1>5. CASE ShowItems
  <2>1. /\ stream' \in StreamState /\ stream'.due = stream.due /\ stream'.shown = stream.shown
        /\ stream'.open = stream.open /\ stream'.pending = stream.pending
    BY <1>1, <1>5 DEF ShowItems, StreamState
  <2>2. UpdateIsComing'
    BY <1>1, <1>5, <2>1 DEF ShowItems, UpdateIsComing
  <2> QED
    BY <1>1, <1>5, <2>1, <2>2, StreamGoesOn DEF ShowItems
<1>6. CASE CloseStream
  BY <1>6, StreamCloses DEF CloseStream
<1> QED
  BY <1>2, <1>3, <1>4, <1>5, <1>6

\* Archiving and unarchiving leave the session where it is.
LEMMA ArchiveInv ==
  ASSUME Inv, Archive \/ Unarchive
  PROVE  Inv'
<1>1. /\ UNCHANGED <<tables, call, stream>> /\ SessionExists /\ SessionExists'
      /\ session' \in {"active", "archived"}
  BY DEF Archive, Unarchive, SessionExists
<1>2. StoreInv'
  BY <1>1, SameStore DEF Inv
<1>3. canvas' = canvas /\ items' = items /\ call' = call /\ stream' = stream
  BY <1>1 DEF tables
<1> QED
  BY <1>1, <1>2, <1>3
     DEF Inv, CallTypeOK, CallsAreSound, ViewsAreOld, ViewsAreExact, UpdateIsComing

\* No step breaks what is invariant.
LEMMA NextInv == Inv /\ [Next]_vars => Inv'
<1> SUFFICES ASSUME Inv, [Next]_vars PROVE Inv'
  OBVIOUS
<1>1. CASE UNCHANGED vars
  <2>1. StoreInv'
    BY <1>1, SameStore DEF Inv, vars
  <2> QED
    BY <1>1, <2>1 DEF vars, tables, Inv, CallTypeOK, CallsAreSound, ViewsAreOld, ViewsAreExact,
                      UpdateIsComing, SessionExists
<1>2. ASSUME NEW t \in Calls, CallStep(t) PROVE Inv'
  <2>1. CASE Fail(t)
    BY <2>1, CallEnds DEF Fail
  <2>2. CASE \E key \in Keys, hash \in Hashes : BeginPublish(t, key, hash)
    BY <2>2, BeginPublishInv
  <2> QED
    BY <1>2, <2>1, <2>2, BeginGetInv, ReadInv, StorePublishInv, NotifyInv, BeginUpdateInv,
       StoreUpdateInv, BeginDeleteInv, FinishDeleteInv DEF CallStep
<1> QED
  BY <1>1, <1>2, ArchiveInv, StreamInv DEF Next

\* The invariant holds in every behaviour.
LEMMA SpecInv == Spec => []Inv
BY InitInv, NextInv, PTL DEF Spec

-----------------------------------------------------------------------------
(* The theorems.                                                           *)

\* The tables hold rows, and the calls and the stream are states, of the declared kinds.
THEOREM TypeCorrect == Spec => []TypeOK
<1>1. Inv => TypeOK
  BY DEF Inv, StoreInv, CallTypeOK, TypeOK
<1> QED
  BY <1>1, SpecInv, PTL

\* No query or place is left behind by any order of publications, edits and removals.
THEOREM TablesStayOne == Spec => []TablesAgree
<1>1. Inv => TablesAgree
  BY DEF Inv, StoreInv
<1> QED
  BY <1>1, SpecInv, PTL

\* The next publication always finds its place free.
THEOREM PositionsStayDense == Spec => []PositionsAreDense
<1>1. Inv => PositionsAreDense
  BY DEF Inv, StoreInv
<1> QED
  BY <1>1, SpecInv, PTL

\* The active chart never dangles, although no foreign key holds it.
THEOREM ActiveStaysShown == Spec => []ActiveIsShown
<1>1. Inv => ActiveIsShown
  BY DEF Inv, StoreInv
<1> QED
  BY <1>1, SpecInv, PTL

\* However many calls publish, the canvas stays within its limit.
THEOREM LimitHolds == Spec => []WithinLimit
<1>1. Inv => WithinLimit
  BY DEF Inv, StoreInv
<1> QED
  BY <1>1, SpecInv, PTL

\* Places and limit together, for any limit and any number of calls.
THEOREM PlacesStayFit == Spec => []PlacesFit
<1>1. PositionsAreDense /\ WithinLimit => PlacesFit
  BY DEF PlacesFit
<1> QED
  BY <1>1, PositionsStayDense, LimitHolds, PTL

\* Dropped events lose no publication: another one is on its way, or being acted on.
THEOREM NoLostNotice == Spec => []UpdateIsComing
<1>1. Inv => UpdateIsComing
  BY DEF Inv
<1> QED
  BY <1>1, SpecInv, PTL

\* Only an edit that is stored goes on to read the canvas back: every other step leaves an
\* edit where it is or ends it.
LEMMA UpdateIsStored ==
  ASSUME Inv, [Next]_vars, NEW t \in Calls, call[t].pc = "update", call'[t].pc = "row"
  PROVE  StoreUpdate(t)
<1>1. call \in [Calls -> CallState]
  BY DEF Inv, CallTypeOK
<1>2. ~UNCHANGED call
  OBVIOUS
<1>3. PICK u \in Calls : CallStep(u)
  BY <1>2 DEF Next, vars, Archive, Unarchive, OpenStream, TakeEvent, ShowRow, ShowItems, CloseStream
<1>4. CASE u # t
  <2>1. call'[t] = call[t]
    BY <1>1, <1>3, <1>4
       DEF CallStep, BeginGet, ReadProjection, ReadRow, ReadItems, BeginPublish, StorePublish,
           Notify, BeginUpdate, StoreUpdate, BeginDelete, FinishDelete, Fail, Goto, End
  <2> QED
    BY <2>1
<1>5. CASE u = t
  <2>1. ~Fail(t)
    BY <1>1, IdleType DEF Fail, End
  <2> QED
    BY <1>3, <1>5, <2>1
       DEF CallStep, BeginGet, ReadProjection, ReadRow, ReadItems, BeginPublish, StorePublish,
           Notify, BeginUpdate, BeginDelete, FinishDelete
<1> QED
  BY <1>4, <1>5

\* The revision guards an edit although it is read apart from the charts it stands for.
THEOREM EditsSeeEverything == Spec => EditsAreNotBlind
<1>1. ASSUME Inv, [Next]_vars, NEW t \in Calls, SessionExists, call[t].pc = "update",
             call'[t].pc = "row"
      PROVE  call[t].view.shown = DOMAIN items
  <2>1. StoreUpdate(t)
    BY <1>1, UpdateIsStored
  <2>2. call[t].view.revision = canvas.revision
    BY <2>1 DEF StoreUpdate, UpdateLayout
  <2> QED
    BY <1>1, <2>2 DEF Inv, ViewsAreExact
<1>2. Inv /\ [Next]_vars
        => [\A t \in Calls :
              SessionExists /\ call[t].pc = "update" /\ call'[t].pc = "row"
                => call[t].view.shown = DOMAIN items]_vars
  BY <1>1
<1> QED
  BY <1>2, SpecInv, PTL DEF Spec, EditsAreNotBlind

=============================================================================
