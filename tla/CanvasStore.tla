----------------------------- MODULE CanvasStore -----------------------------
(***************************************************************************)
(* The SQLite store of canvases (adapters/canvassqlite/store.go): the rows *)
(* of one canvas in its four tables, and the transactions on them.         *)
(*                                                                         *)
(* Every statement names tenant, organisation, user and session, so the    *)
(* canvases of two sessions have no row in common: this is one of them.    *)
(* A transaction takes the write lock when it begins (_txlock=immediate)   *)
(* and is atomic; an operator below is one transaction that commits.  One  *)
(* that does not leaves every table alone.                                 *)
(*                                                                         *)
(* Left out: layout, visibility and times, which no statement reads back,  *)
(* and what a chart shows; a request hash stands for its content.          *)
(*                                                                         *)
(* A definition whose comment begins with "Fault" is no part of the model: *)
(* it is what a definition below it would be with a bug in the code.       *)
(***************************************************************************)
EXTENDS Naturals, FiniteSets

CONSTANTS
  Keys,             \* idempotency keys of publications
  Hashes,           \* canonical request hashes
  MaxCanvasCharts,  \* domain.MaxCanvasCharts
  MaxMinted,        \* bound: charts ever published
  MaxRevision,      \* bound: revisions of the canvas
  None              \* no chart, no key

ChartIds == 1 .. MaxMinted

ASSUME StoreAssumption ==
  /\ MaxCanvasCharts \in Nat
  /\ MaxMinted \in Nat
  /\ MaxRevision \in Nat
  /\ None \notin ChartIds
  /\ None \notin Keys
  /\ None \notin Hashes

VARIABLES
  canvas,   \* the row of canvases: its revision, 0 where there is no row, and active chart
  charts,   \* rows of charts, by id
  queries,  \* ids of the rows of queries: a query is created with its chart, as its equal
  items,    \* rows of canvas_items: the position of a chart
  minted    \* how many chart ids were drawn; they are random and never drawn twice

tables == <<canvas, charts, queries, items, minted>>

NoCanvas == [revision |-> 0, active |-> None]
NoRows == [c \in {} |-> 0]

Insert(table, key, row) == [k \in DOMAIN table \cup {key} |-> IF k = key THEN row ELSE table[k]]
Keep(table, keys) == [k \in DOMAIN table \cap keys |-> table[k]]

StoreInit ==
  /\ canvas = NoCanvas
  /\ charts = NoRows
  /\ queries = {}
  /\ items = NoRows
  /\ minted = 0

-----------------------------------------------------------------------------
(* PublishQueryChart.                                                      *)

ChartsOf(key) == {c \in DOMAIN charts : charts[c].key = key}

RoomForChart == Cardinality(DOMAIN items) < MaxCanvasCharts

\* A key not seen before: the chart goes to the end, at a position nobody has (UNIQUE),
\* and becomes the active one.
PublishNewChart(key, hash) ==
  LET chart == minted + 1
      end == Cardinality(DOMAIN items)
  IN  /\ ChartsOf(key) = {}
      /\ RoomForChart
      /\ \A c \in DOMAIN items : items[c] # end
      /\ minted < MaxMinted /\ canvas.revision < MaxRevision
      /\ minted' = chart
      /\ queries' = queries \cup {chart}
      /\ charts' = Insert(charts, chart, [key |-> key, hash |-> hash])
      /\ items' = Insert(items, chart, end)
      /\ canvas' = [revision |-> canvas.revision + 1, active |-> chart]

\* A key seen before, with the same content, changes nothing.
PublishAgain(key, hash) ==
  /\ \E c \in ChartsOf(key) : charts[c].hash = hash
  /\ UNCHANGED tables

-----------------------------------------------------------------------------
(* UpdateLayout: charts may be dropped and moved, never added.             *)

\* The ways to list the charts of a set, as the position of each.
Arrangements(set) ==
  {f \in [set -> 0 .. Cardinality(set)] :
     /\ \A c \in set : f[c] < Cardinality(set)
     /\ \A c, e \in set : f[c] = f[e] => c = e}

\* Fault: any chart may be named the active one.
AnyActive(order) == DOMAIN items \cup {None}

\* Faults: the charts that are left keep their places; the query of a dropped chart stays.
PlacesKept(order) == Keep(items, DOMAIN order)
QueriesKept(order) == queries

ActiveChoices(order) == DOMAIN order \cup {None}
QueriesLeft(order) == queries \ (DOMAIN items \ DOMAIN order)
ItemsLeft(order) == order

UpdateLayout(expected, order, active) ==
  /\ canvas.revision = expected
  /\ DOMAIN order \subseteq DOMAIN items
  /\ active \in ActiveChoices(order)
  /\ canvas.revision < MaxRevision
  /\ charts' = Keep(charts, DOMAIN order)
  /\ queries' = QueriesLeft(order)
  /\ items' = ItemsLeft(order)
  /\ canvas' = [revision |-> canvas.revision + 1, active |-> active]
  /\ UNCHANGED minted

-----------------------------------------------------------------------------
(* Delete: the row of the canvas takes every other row along.              *)

DeleteCanvas ==
  /\ canvas' = NoCanvas
  /\ charts' = NoRows
  /\ queries' = {}
  /\ items' = NoRows
  /\ UNCHANGED minted

-----------------------------------------------------------------------------
(* Properties.                                                             *)

StoreTypeOK ==
  /\ minted \in 0 .. MaxMinted
  /\ canvas \in [revision : 0 .. MaxRevision, active : ChartIds \cup {None}]
  /\ DOMAIN charts \subseteq 1 .. minted
  /\ charts \in [DOMAIN charts -> [key : Keys, hash : Hashes]]
  /\ queries \subseteq 1 .. minted
  /\ DOMAIN items \subseteq 1 .. minted
  /\ items \in [DOMAIN items -> Nat]

\* The tables stay one aggregate: each chart has its query and its place on the canvas, no
\* query or place outlives its chart, and without a canvas there is no row at all.
TablesAgree ==
  /\ DOMAIN charts = DOMAIN items
  /\ queries = DOMAIN items
  /\ canvas.revision = 0 => canvas.active = None /\ items = NoRows

\* The places are 0 .. n-1, each taken once, whatever was dropped and moved: a gap or a
\* shared place would make the next publication fail, for it takes place n.
PositionsAreDense ==
  /\ \A c \in DOMAIN items : items[c] < Cardinality(DOMAIN items)
  /\ \A c, e \in DOMAIN items : items[c] = items[e] => c = e

\* The active chart is on the canvas: no foreign key keeps active_chart_id from pointing
\* at a chart that an edit dropped.
ActiveIsShown == canvas.active \in DOMAIN items \cup {None}

\* The canvas never holds more charts than it may, however many publish at once.
WithinLimit == Cardinality(DOMAIN items) <= MaxCanvasCharts

\* Every publication that finds room finds its place free: the places taken are 0 .. n-1, and n
\* is within the limit however many publish at once.
PlacesFit == PositionsAreDense /\ WithinLimit

=============================================================================
