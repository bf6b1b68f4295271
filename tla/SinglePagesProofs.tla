-------------------------- MODULE SinglePagesProofs --------------------------
(***************************************************************************)
(* What holds of the larger pages of the plugin, each by itself: for any   *)
(* folders, and any number of requests and of what they are about.         *)
(***************************************************************************)
EXTENDS SinglePages, FiniteSetTheorems, WellFoundedInduction, TLAPS

-----------------------------------------------------------------------------
(* Numbers.                                                                *)

LEMMA LeastNumber ==
  ASSUME NEW S \in SUBSET Nat, S # {}
  PROVE  \E x \in S : \A y \in S : x =< y
<1>1. PICK x \in S : \A y \in S : <<y, x>> \notin OpToRel(<, Nat)
  BY WFMin, NatLessThanWellFounded, Zenon
<1>2. ASSUME NEW y \in S
      PROVE  x =< y
  <2>1. ~(y < x)
    BY <1>1, Zenon DEF OpToRel
  <2> QED
    BY <2>1
<1> QED
  BY <1>2

-----------------------------------------------------------------------------
(* The documents on the page, for any number of folders, knowledge bases,  *)
(* documents and requests.                                                 *)

KnowledgePageFields ==
  {"folder", "availability", "bases", "selected", "documents", "tab", "passages", "citation",
   "search", "busy"}
KnowledgeCallFields == {"bases", "documents", "passages", "searches", "writes"}

\* What has been uploaded has a base, which never changes.
KnowledgeStoreShape ==
  /\ DOMAIN store = {"base", "document"}
  /\ DOMAIN store.document = Knowledge!Documents
  /\ \A d \in Knowledge!Documents :
       /\ DOMAIN store.document[d] = {"base", "status"}
       /\ store.document[d].status = "none" => store.document[d].base = None

KnowledgeUploaded(d) == d \in Knowledge!Documents /\ store.document[d].status # "none"

KnowledgeOf(data, b) == \A d \in data : KnowledgeUploaded(d.id) /\ store.document[d.id].base = b

\* The same of the store after a step, for data from before it.
KnowledgeOfNext(data, b) ==
  \A d \in data : /\ d.id \in Knowledge!Documents /\ store'.document[d.id].status # "none"
                  /\ store'.document[d.id].base = b

\* The read whose answer will be shown is of the selected base.
KnowledgeReading ==
  \A q \in calls.documents :
    /\ DOMAIN q = {"current", "folder", "base", "data"}
    /\ KnowledgeOf(q.data, q.base)
    /\ q.current => q.base = page.selected

KnowledgeListed ==
  page.documents.status = "success" => KnowledgeOf(page.documents.data, page.selected)

KnowledgeInv ==
  /\ DOMAIN page = KnowledgePageFields /\ DOMAIN calls = KnowledgeCallFields
  /\ KnowledgeStoreShape /\ KnowledgeReading /\ KnowledgeListed

-----------------------------------------------------------------------------
(* What the Control Plane does to its documents.                           *)

KnowledgeStays ==
  /\ KnowledgeStoreShape'
  /\ \A d : KnowledgeUploaded(d) => KnowledgeUploaded(d)'
      /\ store'.document[d].base = store.document[d].base

LEMMA KnowledgeSameStays == ASSUME KnowledgeStoreShape, store' = store PROVE KnowledgeStays
  BY DEF KnowledgeStays, KnowledgeStoreShape, KnowledgeUploaded

LEMMA KnowledgeStatusStays ==
  ASSUME KnowledgeStoreShape, NEW d, NEW status, status # "none",
         store' = [store EXCEPT !.document[d].status = status]
  PROVE  KnowledgeStays
<1>1. /\ DOMAIN store' = {"base", "document"} /\ DOMAIN store'.document = Knowledge!Documents
      /\ \A e \in Knowledge!Documents : e # d => store'.document[e] = store.document[e]
      /\ d \in Knowledge!Documents =>
           store'.document[d] = [store.document[d] EXCEPT !.status = status]
  BY DEF KnowledgeStoreShape
<1>2. d \in Knowledge!Documents => /\ DOMAIN store'.document[d] = {"base", "status"}
                         /\ store'.document[d].status = status
                         /\ store'.document[d].base = store.document[d].base
  BY <1>1 DEF KnowledgeStoreShape
<1> QED
  BY <1>1, <1>2 DEF KnowledgeStays, KnowledgeStoreShape, KnowledgeUploaded

LEMMA KnowledgeWrittenStays ==
  ASSUME KnowledgeStoreShape, NEW w, store' \in Knowledge!Written(w)
  PROVE  KnowledgeStays
<1>1. CASE w.kind = "create"
  <2>1. PICK b \in Knowledge!Bases : store' = [store EXCEPT !.base[b] = w.folder]
    BY <1>1 DEF Knowledge!Written
  <2>2. DOMAIN store' = {"base", "document"} /\ store'.document = store.document
    BY <2>1 DEF KnowledgeStoreShape
  <2> QED
    BY <2>2 DEF KnowledgeStays, KnowledgeStoreShape, KnowledgeUploaded
<1>2. CASE w.kind = "delete base"
  <2> DEFINE new == [d \in Knowledge!Documents |->
                       IF store.document[d].base = w.base
                       THEN [base |-> w.base, status |-> "deleted"] ELSE store.document[d]]
  <2>1. store' = [base |-> [store.base EXCEPT ![w.base] = "deleted"], document |-> new]
    BY <1>2 DEF Knowledge!Written
  <2>2. /\ DOMAIN new = Knowledge!Documents
        /\ \A d \in Knowledge!Documents : /\ DOMAIN new[d] = {"base", "status"}
                                /\ new[d].base = store.document[d].base
                                /\ new[d].status \in {store.document[d].status, "deleted"}
    BY DEF KnowledgeStoreShape
  <2> HIDE DEF new
  <2>3. DOMAIN store' = {"base", "document"} /\ store'.document = new
    BY <2>1
  <2> QED
    BY <2>2, <2>3 DEF KnowledgeStays, KnowledgeStoreShape, KnowledgeUploaded
<1>3. CASE w.kind = "upload"
  <2> DEFINE new == [base |-> w.base, status |-> "queued"]
  <2>1. PICK d \in Knowledge!Documents : store.document[d].status = "none"
                               /\ store' = [store EXCEPT !.document[d] = new]
    BY <1>3 DEF Knowledge!Written
  <2>2. DOMAIN new = {"base", "status"} /\ new.status = "queued"
    OBVIOUS
  <2> HIDE DEF new
  <2>3. /\ DOMAIN store' = {"base", "document"} /\ DOMAIN store'.document = Knowledge!Documents
        /\ store'.document[d] = new
        /\ \A e \in Knowledge!Documents : e # d => store'.document[e] = store.document[e]
    BY <2>1 DEF KnowledgeStoreShape
  <2> QED
    BY <2>1, <2>2, <2>3 DEF KnowledgeStays, KnowledgeStoreShape, KnowledgeUploaded
<1>4. CASE w.kind = "delete"
  BY <1>4, KnowledgeStatusStays DEF Knowledge!Written
<1>5. CASE w.kind = "retry"
  BY <1>5, KnowledgeStatusStays DEF Knowledge!Written
<1>6. CASE w.kind \notin {"create", "delete base", "upload", "delete", "retry"}
  BY <1>6, KnowledgeSameStays DEF Knowledge!Written
<1> QED
  BY <1>1, <1>2, <1>3, <1>4, <1>5, <1>6

\* What was listed is still of the base it was listed for.
LEMMA KnowledgeOfStays ==
  ASSUME KnowledgeStays
  PROVE  \A data, b : KnowledgeOf(data, b) => KnowledgeOfNext(data, b)
  BY DEF KnowledgeStays, KnowledgeOf, KnowledgeOfNext, KnowledgeUploaded

LEMMA KnowledgeOldFacts ==
  ASSUME KnowledgeInv
  PROVE  \A q \in Knowledge!Old(calls.documents) :
           /\ DOMAIN q = {"current", "folder", "base", "data"}
           /\ KnowledgeOf(q.data, q.base) /\ q.current = FALSE
<1> SUFFICES ASSUME NEW r \in calls.documents
             PROVE  LET q == [r EXCEPT !.current = FALSE]
                    IN  /\ DOMAIN q = {"current", "folder", "base", "data"}
                        /\ KnowledgeOf(q.data, q.base) /\ q.current = FALSE
  BY DEF Knowledge!Old
<1>1. DOMAIN r = {"current", "folder", "base", "data"} /\ KnowledgeOf(r.data, r.base)
  BY DEF KnowledgeInv, KnowledgeReading
<1> QED
  BY <1>1

\* listDocuments reads the documents of one base.
LEMMA KnowledgeListFacts ==
  ASSUME KnowledgeStays, NEW f, NEW b, b # None
  PROVE  LET q == Knowledge!ListDocuments(f, b)
         IN  /\ DOMAIN q = {"current", "folder", "base", "data"}
             /\ KnowledgeOfNext(q.data, q.base) /\ q.base = b
<1> DEFINE q == Knowledge!ListDocuments(f, b)
<1>1. DOMAIN q = {"current", "folder", "base", "data"} /\ q.base = b
      /\ q.data = Knowledge!Listing(store', b)
  BY DEF Knowledge!ListDocuments
<1> HIDE DEF q
<1>2. \A d \in Knowledge!Listing(store', b) : d.id \in Knowledge!Documents
      /\ store'.document[d.id].base = b
  BY DEF Knowledge!Listing, Knowledge!DocumentsOf
<1>3. KnowledgeOfNext(q.data, q.base)
  BY <1>1, <1>2 DEF KnowledgeOfNext, KnowledgeStays, KnowledgeStoreShape
<1> QED
  BY <1>1, <1>3 DEF q

-----------------------------------------------------------------------------
(* The effects.                                                            *)

\* A step that reads no documents, and leaves the selection and the list alone.
LEMMA KnowledgeKeepsDocuments ==
  ASSUME KnowledgeInv, KnowledgeStays, DOMAIN page' = KnowledgePageFields,
         DOMAIN calls' = KnowledgeCallFields,
         page'.selected = page.selected,
         page'.documents = page.documents \/ page'.documents.status # "success",
         calls'.documents \subseteq calls.documents
  PROVE  KnowledgeInv'
<1>1. KnowledgeReading'
  BY KnowledgeOfStays
  DEF KnowledgeInv, KnowledgeReading, KnowledgeOf, KnowledgeOfNext, KnowledgeUploaded
<1>2. KnowledgeListed'
  <2>1. SUFFICES ASSUME page'.documents.status = "success"
                 PROVE  KnowledgeOfNext(page'.documents.data, page'.selected)
    BY DEF KnowledgeListed, KnowledgeOf, KnowledgeOfNext, KnowledgeUploaded
  <2>2. page'.documents = page.documents /\ KnowledgeOf(page.documents.data, page.selected)
    BY <2>1 DEF KnowledgeInv, KnowledgeListed
  <2>3. KnowledgeOfNext(page.documents.data, page.selected)
    BY <2>2, KnowledgeOfStays
  <2> QED
    BY <2>2, <2>3
<1> QED
  BY <1>1, <1>2 DEF KnowledgeInv, KnowledgeStays

LEMMA KnowledgeSelectInv ==
  ASSUME KnowledgeInv, KnowledgeStays, NEW p, DOMAIN p = KnowledgePageFields, NEW b, NEW bases,
         NEW writes, p.selected = page.selected, p.documents = page.documents,
         Knowledge!Select(p, b, bases, writes)
  PROVE  KnowledgeInv'
<1>0. CASE b = p.selected
  <2>1. DOMAIN calls' = KnowledgeCallFields /\ calls'.documents = calls.documents
    BY <1>0 DEF Knowledge!Select, KnowledgeInv, KnowledgeCallFields
  <2>2. page' = p
    BY <1>0 DEF Knowledge!Select
  <2> QED
    BY <2>1, <2>2, KnowledgeKeepsDocuments
<1> SUFFICES ASSUME b # p.selected
             PROVE  KnowledgeInv'
  BY <1>0
<1> DEFINE old == Knowledge!Old(calls.documents)
           new == IF b = None THEN {} ELSE {Knowledge!ListDocuments(p.folder, b)}
           none == {}
<1>1. \A q \in old : /\ DOMAIN q = {"current", "folder", "base", "data"}
                     /\ KnowledgeOfNext(q.data, q.base) /\ q.current = FALSE
  BY KnowledgeOldFacts, KnowledgeOfStays
<1>2. \A q \in new : /\ DOMAIN q = {"current", "folder", "base", "data"}
                     /\ KnowledgeOfNext(q.data, q.base) /\ q.base = b
  BY KnowledgeListFacts
<1> HIDE DEF old, new
<1>3. DOMAIN calls' = KnowledgeCallFields /\ calls'.documents = old \cup new
  BY DEF Knowledge!Select, KnowledgeInv, KnowledgeCallFields, old, new
<1>4. DOMAIN page' = KnowledgePageFields /\ page'.selected = b
      /\ (page'.documents.status = "success" => page'.documents.data = none)
  <2>1. CASE b = None
    <3>1. page' = [Knowledge!Unmounted(p) EXCEPT !.selected = None, !.documents = Knowledge!Shown({})]
      BY <2>1 DEF Knowledge!Select
    <3> QED
      BY <2>1, <3>1 DEF Knowledge!Unmounted, Knowledge!Shown, KnowledgePageFields
  <2>2. CASE b # None
    <3>1. page' = [p EXCEPT !.selected = b, !.documents = Knowledge!Loading, !.search = None]
      BY <2>2 DEF Knowledge!Select
    <3> QED
      BY <3>1 DEF Knowledge!Loading, KnowledgePageFields
  <2> QED
    BY <2>1, <2>2
<1>5. KnowledgeReading'
  BY <1>1, <1>2, <1>3, <1>4 DEF KnowledgeReading, KnowledgeOf, KnowledgeOfNext, KnowledgeUploaded
<1>6. KnowledgeListed'
  BY <1>4 DEF KnowledgeListed, KnowledgeOf
<1> QED
  BY <1>3, <1>4, <1>5, <1>6 DEF KnowledgeInv, KnowledgeStays

LEMMA KnowledgeReloadBasesInv ==
  ASSUME KnowledgeInv, KnowledgeStays, NEW p, DOMAIN p = KnowledgePageFields, NEW writes,
         Knowledge!ReloadBases(p, writes)
  PROVE  KnowledgeInv'
<1> DEFINE old == Knowledge!Old(calls.documents)
           none == {}
<1>1. \A q \in old : /\ DOMAIN q = {"current", "folder", "base", "data"}
                     /\ KnowledgeOfNext(q.data, q.base) /\ q.current = FALSE
  BY KnowledgeOldFacts, KnowledgeOfStays
<1> HIDE DEF old
<1>2. DOMAIN calls' = KnowledgeCallFields /\ calls'.documents = old
  BY DEF Knowledge!ReloadBases, KnowledgeCallFields, old
<1>3. DOMAIN page' = KnowledgePageFields /\ page'.documents.data = none
  BY DEF Knowledge!ReloadBases, Knowledge!Unmounted, Knowledge!Shown, KnowledgePageFields
<1>4. KnowledgeReading' /\ KnowledgeListed'
  BY <1>1, <1>2, <1>3
  DEF KnowledgeReading, KnowledgeListed, KnowledgeOf, KnowledgeOfNext, KnowledgeUploaded
<1> QED
  BY <1>2, <1>3, <1>4 DEF KnowledgeInv, KnowledgeStays

LEMMA KnowledgeReloadDocumentsInv ==
  ASSUME KnowledgeInv, KnowledgeStays, NEW p, DOMAIN p = KnowledgePageFields,
         p.selected = page.selected,
         p.documents = page.documents, NEW writes, Knowledge!ReloadDocuments(p, writes)
  PROVE  KnowledgeInv'
<1>1. CASE p.selected = None
  <2>1. DOMAIN calls' = KnowledgeCallFields /\ calls'.documents = calls.documents /\ page' = p
    BY <1>1 DEF Knowledge!ReloadDocuments, KnowledgeInv, KnowledgeCallFields
  <2> QED
    BY <2>1, KnowledgeKeepsDocuments
<1>2. CASE p.selected # None
  <2> DEFINE old == Knowledge!Old(calls.documents)
             q == Knowledge!ListDocuments(p.folder, p.selected)
  <2>1. \A r \in old : /\ DOMAIN r = {"current", "folder", "base", "data"}
                       /\ KnowledgeOfNext(r.data, r.base) /\ r.current = FALSE
    BY KnowledgeOldFacts, KnowledgeOfStays
  <2>2. /\ DOMAIN q = {"current", "folder", "base", "data"}
        /\ KnowledgeOfNext(q.data, q.base) /\ q.base = p.selected
    BY <1>2, KnowledgeListFacts
  <2> HIDE DEF old, q
  <2>3. DOMAIN calls' = KnowledgeCallFields /\ calls'.documents = old \cup {q}
    BY <1>2 DEF Knowledge!ReloadDocuments, KnowledgeInv, KnowledgeCallFields, old, q
  <2>4. DOMAIN page' = KnowledgePageFields /\ page'.selected = p.selected
        /\ page'.documents.status = "loading"
    BY <1>2 DEF Knowledge!ReloadDocuments, Knowledge!Loading, KnowledgePageFields
  <2>5. KnowledgeReading' /\ KnowledgeListed'
    BY <2>1, <2>2, <2>3, <2>4
    DEF KnowledgeReading, KnowledgeListed, KnowledgeOf, KnowledgeOfNext, KnowledgeUploaded
  <2> QED
    BY <2>3, <2>4, <2>5 DEF KnowledgeInv, KnowledgeStays
<1> QED
  BY <1>1, <1>2

-----------------------------------------------------------------------------
(* The steps.                                                              *)

LEMMA KnowledgeAvailabilityInv ==
  ASSUME KnowledgeInv, Knowledge!AvailabilityAnswered
  PROVE  KnowledgeInv'
<1>1. KnowledgeStays
  BY KnowledgeSameStays DEF Knowledge!AvailabilityAnswered, KnowledgeInv
<1>2. ASSUME NEW v, page' = [page EXCEPT !.availability = v], UNCHANGED calls
      PROVE  KnowledgeInv'
  <2>1. /\ DOMAIN page' = KnowledgePageFields /\ page'.selected = page.selected
        /\ page'.documents = page.documents
    BY <1>2 DEF KnowledgeInv, KnowledgePageFields
  <2> QED
    BY <1>1, <1>2, <2>1, KnowledgeKeepsDocuments DEF KnowledgeInv
<1>3. CASE Knowledge!ReloadBases([page EXCEPT !.availability = "available"], calls.writes)
  <2> DEFINE p == [page EXCEPT !.availability = "available"]
  <2>1. DOMAIN p = KnowledgePageFields
    BY DEF KnowledgeInv, KnowledgePageFields
  <2> HIDE DEF p
  <2> QED
    BY <1>1, <1>3, <2>1, KnowledgeReloadBasesInv DEF p
<1> QED
  BY <1>2, <1>3 DEF Knowledge!AvailabilityAnswered

LEMMA KnowledgeBasesAnsweredInv ==
  ASSUME KnowledgeInv, NEW q, Knowledge!BasesAnswered(q) \/ Knowledge!BasesFail(q)
  PROVE  KnowledgeInv'
<1> DEFINE rest == calls.bases \ {q}
           first == IF q.data = {} THEN None ELSE Knowledge!Min(q.data)
           p == [page EXCEPT !.bases = Knowledge!Shown(q.data)]
<1>1. KnowledgeStays
  BY KnowledgeSameStays DEF Knowledge!BasesAnswered, Knowledge!BasesFail, KnowledgeInv
<1>2. DOMAIN p = KnowledgePageFields /\ p.documents = page.documents /\ p.selected = page.selected
  BY DEF KnowledgeInv, KnowledgePageFields
<1> HIDE DEF first, p
<1>3. CASE Knowledge!Select(p, first, rest, calls.writes)
  BY <1>1, <1>2, <1>3, KnowledgeSelectInv
<1>4. CASE Knowledge!BasesFail(q)
  <2>1. /\ DOMAIN page' = KnowledgePageFields /\ page'.selected = page.selected
        /\ page'.documents = page.documents
    BY <1>4 DEF KnowledgeInv, KnowledgePageFields, Knowledge!BasesFail, Knowledge!Unmounted
  <2>2. DOMAIN calls' = KnowledgeCallFields /\ calls'.documents = calls.documents
    BY <1>4 DEF KnowledgeInv, KnowledgeCallFields, Knowledge!BasesFail
  <2> QED
    BY <1>1, <2>1, <2>2, KnowledgeKeepsDocuments
<1> QED
  BY <1>3, <1>4 DEF Knowledge!BasesAnswered, first, p

LEMMA KnowledgeAbortedInv ==
  ASSUME KnowledgeInv, NEW kind, NEW q, Knowledge!Aborted(kind, q)
  PROVE  KnowledgeInv'
<1>1. KnowledgeStays
  BY KnowledgeSameStays DEF Knowledge!Aborted, KnowledgeInv
<1>2. /\ DOMAIN calls' = KnowledgeCallFields /\ calls'.documents \subseteq calls.documents
      /\ page' = page
  BY DEF KnowledgeInv, KnowledgeCallFields, Knowledge!Aborted
<1> QED
  BY <1>1, <1>2, KnowledgeKeepsDocuments DEF KnowledgeInv

LEMMA KnowledgeDocumentsAnsweredInv ==
  ASSUME KnowledgeInv, NEW q, Knowledge!DocumentsAnswered(q) \/ Knowledge!DocumentsFail(q)
  PROVE  KnowledgeInv'
<1>1. KnowledgeStays /\ q \in calls.documents
  BY KnowledgeSameStays
  DEF Knowledge!DocumentsAnswered, Knowledge!DocumentsFail, KnowledgeInv
<1>2. DOMAIN calls' = KnowledgeCallFields /\ calls'.documents = calls.documents \ {q}
  BY DEF Knowledge!DocumentsAnswered, Knowledge!DocumentsFail, KnowledgeInv, KnowledgeCallFields
<1>3. CASE page' = page
  BY <1>1, <1>2, <1>3, KnowledgeKeepsDocuments DEF KnowledgeInv
<1>4. CASE page' = [page EXCEPT !.documents = Knowledge!Failed]
  <2>1. /\ DOMAIN page' = KnowledgePageFields /\ page'.selected = page.selected
        /\ page'.documents.status # "success"
    BY <1>4 DEF KnowledgeInv, KnowledgePageFields, Knowledge!Failed
  <2> QED
    BY <1>1, <1>2, <2>1, KnowledgeKeepsDocuments
<1>5. CASE Knowledge!NotAborted(q) /\ page' = [page EXCEPT !.documents = Knowledge!Shown(q.data)]
  <2>1. /\ DOMAIN page' = KnowledgePageFields /\ page'.selected = page.selected
        /\ page'.documents.data = q.data
    BY <1>5 DEF KnowledgeInv, KnowledgePageFields, Knowledge!Shown
  <2>2. KnowledgeOf(q.data, page.selected)
    BY <1>1, <1>5 DEF Knowledge!NotAborted, KnowledgeInv, KnowledgeReading
  <2>3. KnowledgeOfNext(q.data, page.selected)
    BY <1>1, <2>2, KnowledgeOfStays
  <2>4. KnowledgeReading'
    <3> SUFFICES ASSUME NEW r \in calls'.documents
                 PROVE  /\ DOMAIN r = {"current", "folder", "base", "data"}
                        /\ KnowledgeOfNext(r.data, r.base)
                        /\ r.current => r.base = page'.selected
      BY DEF KnowledgeReading, KnowledgeOf, KnowledgeOfNext, KnowledgeUploaded
    <3>1. /\ DOMAIN r = {"current", "folder", "base", "data"}
          /\ KnowledgeOf(r.data, r.base) /\ (r.current => r.base = page.selected)
      BY <1>2 DEF KnowledgeInv, KnowledgeReading
    <3> QED
      BY <1>1, <2>1, <3>1, KnowledgeOfStays
  <2>5. KnowledgeListed'
    BY <2>1, <2>3 DEF KnowledgeListed, KnowledgeOf, KnowledgeOfNext, KnowledgeUploaded
  <2> QED
    BY <1>1, <1>2, <2>1, <2>4, <2>5 DEF KnowledgeInv, KnowledgeStays
<1> QED
  BY <1>3, <1>4, <1>5 DEF Knowledge!DocumentsAnswered, Knowledge!DocumentsFail

LEMMA KnowledgeRetriesInv ==
  ASSUME KnowledgeInv, Knowledge!Poll \/ Knowledge!RetryBases \/ Knowledge!RetryDocuments
  PROVE  KnowledgeInv'
<1>1. KnowledgeStays
  BY KnowledgeSameStays
  DEF Knowledge!Poll, Knowledge!RetryBases, Knowledge!RetryDocuments, KnowledgeInv
<1> QED
  BY <1>1, KnowledgeReloadBasesInv, KnowledgeReloadDocumentsInv
  DEF Knowledge!Poll, Knowledge!RetryBases, Knowledge!RetryDocuments, KnowledgeInv

LEMMA KnowledgeChoicesInv ==
  ASSUME KnowledgeInv, NEW f, NEW b, Knowledge!SelectFolder(f) \/ Knowledge!SelectBase(b)
  PROVE  KnowledgeInv'
<1>1. KnowledgeStays
  BY KnowledgeSameStays DEF Knowledge!SelectFolder, Knowledge!SelectBase, KnowledgeInv
<1>2. CASE Knowledge!SelectBase(b)
  BY <1>1, <1>2, KnowledgeSelectInv DEF Knowledge!SelectBase, KnowledgeInv
<1>3. CASE Knowledge!SelectFolder(f)
  <2> DEFINE p == [page EXCEPT !.folder = f]
  <2>1. DOMAIN p = KnowledgePageFields /\ p.selected = page.selected /\ p.documents = page.documents
    BY DEF KnowledgeInv, KnowledgePageFields
  <2> HIDE DEF p
  <2>2. Knowledge!ReloadBases(p, calls.writes) \/ (page' = p /\ UNCHANGED calls)
    BY <1>3 DEF Knowledge!SelectFolder, p
  <2> QED
    BY <1>1, <2>1, <2>2, KnowledgeReloadBasesInv, KnowledgeKeepsDocuments DEF KnowledgeInv
<1> QED
  BY <1>2, <1>3

\* The tabs, the passages, the search and the citation.
LEMMA KnowledgePanelsInv ==
  ASSUME KnowledgeInv,
         \/ \E tab : Knowledge!SetTab(tab)
         \/ \E d : Knowledge!ShowPassages(d) \/ Knowledge!CloseCitation \/ Knowledge!ClosePassages
         \/ \E q : Knowledge!PassagesAnswered(q) \/ Knowledge!SearchAnswered(q)
         \/ \E bases : Knowledge!ExecuteSearch(bases)
  PROVE  KnowledgeInv'
<1>1. KnowledgeStays
  BY KnowledgeSameStays
  DEF Knowledge!SetTab, Knowledge!ShowPassages, Knowledge!CloseCitation,
      Knowledge!ClosePassages, Knowledge!PassagesAnswered, Knowledge!SearchAnswered,
      Knowledge!ExecuteSearch, KnowledgeInv
<1>2. /\ DOMAIN page' = KnowledgePageFields /\ page'.selected = page.selected
      /\ page'.documents = page.documents
  BY DEF Knowledge!SetTab, Knowledge!ShowPassages, Knowledge!CloseCitation,
      Knowledge!ClosePassages, Knowledge!PassagesAnswered, Knowledge!SearchAnswered,
         Knowledge!ExecuteSearch, KnowledgeInv, KnowledgePageFields
<1>3. DOMAIN calls' = KnowledgeCallFields /\ calls'.documents = calls.documents
  BY DEF Knowledge!SetTab, Knowledge!ShowPassages, Knowledge!CloseCitation,
      Knowledge!ClosePassages, Knowledge!PassagesAnswered, Knowledge!SearchAnswered,
         Knowledge!ExecuteSearch, KnowledgeInv, KnowledgeCallFields
<1> QED
  BY <1>1, <1>2, <1>3, KnowledgeKeepsDocuments

LEMMA KnowledgeOpenCitationInv ==
  ASSUME KnowledgeInv, NEW d, Knowledge!OpenCitation(d)
  PROVE  KnowledgeInv'
<1> DEFINE b == store.document[d].base
           p == [page EXCEPT !.citation = d, !.tab = "documents"]
<1>1. KnowledgeStays
  BY KnowledgeSameStays DEF Knowledge!OpenCitation, KnowledgeInv
<1>2. DOMAIN p = KnowledgePageFields /\ p.selected = page.selected /\ p.documents = page.documents
  BY DEF KnowledgeInv, KnowledgePageFields
<1> HIDE DEF b, p
<1>3. Knowledge!Select(p, b, calls.bases, calls.writes) \/ (page' = p /\ UNCHANGED calls)
  BY DEF Knowledge!OpenCitation, b, p
<1> QED
  BY <1>1, <1>2, <1>3, KnowledgeSelectInv, KnowledgeKeepsDocuments DEF KnowledgeInv

LEMMA KnowledgeMutateInv ==
  ASSUME KnowledgeInv, NEW w, Knowledge!Mutate(w)
  PROVE  KnowledgeInv'
<1>1. KnowledgeStays
  BY KnowledgeSameStays DEF Knowledge!Mutate, KnowledgeInv
<1>2. /\ DOMAIN page' = KnowledgePageFields /\ page'.selected = page.selected
      /\ page'.documents = page.documents
  BY DEF Knowledge!Mutate, KnowledgeInv, KnowledgePageFields
<1>3. DOMAIN calls' = KnowledgeCallFields /\ calls'.documents = calls.documents
  BY DEF Knowledge!Mutate, KnowledgeInv, KnowledgeCallFields
<1> QED
  BY <1>1, <1>2, <1>3, KnowledgeKeepsDocuments

LEMMA KnowledgeFinishedFacts ==
  ASSUME KnowledgeInv
  PROVE  /\ DOMAIN Knowledge!Finished(page) = KnowledgePageFields
         /\ Knowledge!Finished(page).selected = page.selected
         /\ Knowledge!Finished(page).documents = page.documents
  BY DEF Knowledge!Finished, KnowledgeInv, KnowledgePageFields

\* Whatever the page shows by the time a write is answered.
LEMMA KnowledgeWriteAnsweredInv ==
  ASSUME KnowledgeInv, NEW w, Knowledge!WriteAnswered(w)
  PROVE  KnowledgeInv'
<1> DEFINE p == Knowledge!Finished(page)
           writes == calls.writes \ {w}
<1>1. KnowledgeStays
  BY KnowledgeWrittenStays DEF Knowledge!WriteAnswered, KnowledgeInv
<1>2. DOMAIN p = KnowledgePageFields /\ p.selected = page.selected /\ p.documents = page.documents
  BY KnowledgeFinishedFacts
<1> HIDE DEF p
<1>3. CASE Knowledge!ShowCreated(w)
  <2> DEFINE b == CHOOSE c \in Knowledge!Bases : store'.base[c] # store.base[c]
             r == [p EXCEPT !.bases = Knowledge!Shown(w.seen \cup {b})]
  <2>1. DOMAIN r = KnowledgePageFields /\ r.selected = page.selected
        /\ r.documents = page.documents
    BY <1>2 DEF KnowledgePageFields
  <2> HIDE DEF b, r
  <2>2. Knowledge!Select(r, b, calls.bases, writes)
    BY <1>3 DEF Knowledge!ShowCreated, b, r, p
  <2> QED
    BY <1>1, <2>1, <2>2, KnowledgeSelectInv
<1>4. CASE Knowledge!ReloadBases(p, writes)
  BY <1>1, <1>2, <1>4, KnowledgeReloadBasesInv
<1>5. CASE Knowledge!ReloadDocuments(p, writes)
  BY <1>1, <1>2, <1>5, KnowledgeReloadDocumentsInv
<1>6. CASE page' = p /\ calls' = [calls EXCEPT !.writes = @ \ {w}]
  <2>1. DOMAIN calls' = KnowledgeCallFields /\ calls'.documents = calls.documents
    BY <1>6 DEF KnowledgeInv, KnowledgeCallFields
  <2> QED
    BY <1>1, <1>2, <1>6, <2>1, KnowledgeKeepsDocuments
<1> QED
  BY <1>3, <1>4, <1>5, <1>6 DEF Knowledge!WriteAnswered, p

LEMMA KnowledgeWriteFailsInv ==
  ASSUME KnowledgeInv, NEW w, Knowledge!WriteFails(w)
  PROVE  KnowledgeInv'
<1>1. KnowledgeStays
  BY KnowledgeSameStays, KnowledgeWrittenStays DEF Knowledge!WriteFails, KnowledgeInv
<1>2. DOMAIN calls' = KnowledgeCallFields /\ calls'.documents = calls.documents
  BY DEF Knowledge!WriteFails, KnowledgeInv, KnowledgeCallFields
<1>3. page' = Knowledge!Finished(page)
  BY DEF Knowledge!WriteFails
<1> QED
  BY <1>1, <1>2, <1>3, KnowledgeFinishedFacts, KnowledgeKeepsDocuments

LEMMA KnowledgeIndexInv ==
  ASSUME KnowledgeInv, NEW d \in Knowledge!Documents, Knowledge!Index(d)
  PROVE  KnowledgeInv'
<1>1. KnowledgeStays
  BY KnowledgeStatusStays DEF Knowledge!Index, KnowledgeInv
<1> QED
  BY <1>1, KnowledgeKeepsDocuments DEF Knowledge!Index, KnowledgeInv

LEMMA KnowledgeInitInv == Knowledge!Init => KnowledgeInv
<1> SUFFICES ASSUME Knowledge!Init
             PROVE  KnowledgeInv
  OBVIOUS
<1>1. DOMAIN page = KnowledgePageFields /\ page.documents.data = {}
  BY DEF Knowledge!Init, Knowledge!Shown, KnowledgePageFields
<1>2. DOMAIN calls = KnowledgeCallFields /\ calls.documents = {}
  BY DEF Knowledge!Init, KnowledgeCallFields
<1>3. KnowledgeStoreShape
  BY DEF Knowledge!Init, KnowledgeStoreShape
<1> QED
  BY <1>1, <1>2, <1>3 DEF KnowledgeInv, KnowledgeReading, KnowledgeListed, KnowledgeOf

LEMMA KnowledgeNextInv == KnowledgeInv /\ [Knowledge!Next]_(Knowledge!vars) => KnowledgeInv'
<1> SUFFICES ASSUME KnowledgeInv, [Knowledge!Next]_(Knowledge!vars)
             PROVE  KnowledgeInv'
  OBVIOUS
<1>1. CASE Knowledge!AvailabilityAnswered \/ Knowledge!Poll \/ Knowledge!RetryBases
           \/ Knowledge!RetryDocuments
  BY <1>1, KnowledgeAvailabilityInv, KnowledgeRetriesInv
<1>2. ASSUME NEW f \in FoldersOf["knowledge"], Knowledge!SelectFolder(f)
      PROVE  KnowledgeInv'
  BY <1>2, KnowledgeChoicesInv
<1>3. ASSUME NEW b \in Knowledge!Bases, Knowledge!SelectBase(b)
      PROVE  KnowledgeInv'
  BY <1>3, KnowledgeChoicesInv
<1>4. CASE Knowledge!ClosePassages \/ Knowledge!CloseCitation \/ (\E tab : Knowledge!SetTab(tab))
           \/ (\E bases : Knowledge!ExecuteSearch(bases))
  BY <1>4, KnowledgePanelsInv
<1>5. ASSUME NEW d \in Knowledge!Documents,
             Knowledge!ShowPassages(d) \/ Knowledge!OpenCitation(d) \/ Knowledge!Index(d)
      PROVE  KnowledgeInv'
  BY <1>5, KnowledgePanelsInv, KnowledgeOpenCitationInv, KnowledgeIndexInv
<1>6. CASE Knowledge!CreateBase \/ Knowledge!UpdateBase \/ Knowledge!DeleteBase
           \/ Knowledge!UploadDocument
           \/ (\E d \in page.documents.data : Knowledge!OnDocument(d))
  BY <1>6, KnowledgeMutateInv
  DEF Knowledge!CreateBase, Knowledge!UpdateBase, Knowledge!DeleteBase,
      Knowledge!UploadDocument, Knowledge!OnDocument
<1>7. ASSUME NEW q, NEW kind,
             \/ Knowledge!BasesAnswered(q) \/ Knowledge!BasesFail(q)
             \/ Knowledge!DocumentsAnswered(q) \/ Knowledge!DocumentsFail(q)
             \/ Knowledge!Aborted(kind, q)
      PROVE  KnowledgeInv'
  BY <1>7, KnowledgeBasesAnsweredInv, KnowledgeDocumentsAnsweredInv, KnowledgeAbortedInv
<1>8. ASSUME NEW q, Knowledge!PassagesAnswered(q) \/ Knowledge!SearchAnswered(q)
      PROVE  KnowledgeInv'
  BY <1>8, KnowledgePanelsInv
<1>9. ASSUME NEW w, Knowledge!WriteAnswered(w) \/ Knowledge!WriteFails(w)
      PROVE  KnowledgeInv'
  BY <1>9, KnowledgeWriteAnsweredInv, KnowledgeWriteFailsInv
<1>10. CASE UNCHANGED Knowledge!vars
  BY <1>10, KnowledgeSameStays, KnowledgeKeepsDocuments DEF Knowledge!vars, KnowledgeInv
<1> QED
  BY <1>1, <1>2, <1>3, <1>4, <1>5, <1>6, <1>7, <1>8, <1>9, <1>10 DEF Knowledge!Next

\* RealKnowledgePage: the documents on the page are those of the selected base, however the
\* answers of reads and writes arrive and whatever the user has chosen meanwhile.
THEOREM KnowledgeDocumentsAreOfTheirBase == Knowledge!Spec => []Knowledge!DocumentsAreOfSelected
<1>1. KnowledgeInv => Knowledge!DocumentsAreOfSelected
  BY DEF KnowledgeInv, KnowledgeListed, KnowledgeOf, Knowledge!DocumentsAreOfSelected
<1> QED
  BY <1>1, KnowledgeInitInv, KnowledgeNextInv, PTL DEF Knowledge!Spec

-----------------------------------------------------------------------------
(* The types of the page of knowledge bases, and its busy buttons.         *)

KnowledgeStatuses == {"loading", "error", "success"}
KnowledgeAvailabilities == {"loading", "error", "unavailable", "available"}
KnowledgeBaseOrNone == Knowledge!Bases \cup {None}

KnowledgeTypedPage(p) ==
  /\ DOMAIN p = KnowledgePageFields
  /\ p.folder \in FoldersOf["knowledge"] /\ p.availability \in KnowledgeAvailabilities
  /\ p.bases.status \in KnowledgeStatuses /\ p.documents.status \in KnowledgeStatuses
  /\ p.selected \in KnowledgeBaseOrNone /\ p.citation \in Knowledge!Documents \cup {None}
  /\ p.busy \in BOOLEAN

KnowledgeTypedReads(asked) ==
  \A q \in asked : DOMAIN q = {"current", "data"} /\ q.data \subseteq Knowledge!Bases

KnowledgeTypedWrites(writes) ==
  \A w \in writes : w.base \in KnowledgeBaseOrNone /\ w.folder \in FoldersOf["knowledge"]

KnowledgeTypedStore(s) ==
  /\ DOMAIN s = {"base", "document"} /\ DOMAIN s.base = Knowledge!Bases
  /\ DOMAIN s.document = Knowledge!Documents
  /\ \A d \in Knowledge!Documents :
       DOMAIN s.document[d] = {"base", "status"} /\ s.document[d].base \in KnowledgeBaseOrNone

\* A write that ends, ends the busy time of the buttons, whichever write it is.
KnowledgeTyped ==
  /\ KnowledgeTypedPage(page) /\ DOMAIN calls = KnowledgeCallFields
  /\ KnowledgeTypedReads(calls.bases) /\ KnowledgeTypedWrites(calls.writes)
  /\ page.busy => calls.writes # {}
  /\ KnowledgeTypedStore(store)

LEMMA KnowledgeTypedBy ==
  ASSUME KnowledgeTypedPage(page'), DOMAIN calls' = KnowledgeCallFields,
         KnowledgeTypedReads(calls'.bases), KnowledgeTypedWrites(calls'.writes),
         page'.busy => calls'.writes # {}, KnowledgeTypedStore(store')
  PROVE  KnowledgeTyped'
  BY DEF KnowledgeTyped, KnowledgeTypedPage, KnowledgeTypedReads, KnowledgeTypedWrites,
         KnowledgeTypedStore

LEMMA KnowledgeTypedOld ==
  ASSUME NEW asked, KnowledgeTypedReads(asked)
  PROVE  KnowledgeTypedReads(Knowledge!Old(asked))
<1> SUFFICES ASSUME NEW r \in asked
             PROVE  LET q == [r EXCEPT !.current = FALSE]
                    IN  DOMAIN q = {"current", "data"} /\ q.data \subseteq Knowledge!Bases
  BY DEF Knowledge!Old, KnowledgeTypedReads
<1>1. DOMAIN r = {"current", "data"} /\ r.data \subseteq Knowledge!Bases
  BY DEF KnowledgeTypedReads
<1> QED
  BY <1>1

-----------------------------------------------------------------------------
(* The effects.                                                            *)

LEMMA KnowledgeTypedSelect ==
  ASSUME DOMAIN calls = KnowledgeCallFields, NEW p, KnowledgeTypedPage(p),
         NEW b \in KnowledgeBaseOrNone, NEW bases, KnowledgeTypedReads(bases),
         NEW writes, KnowledgeTypedWrites(writes), p.busy => writes # {},
         KnowledgeTypedStore(store'), Knowledge!Select(p, b, bases, writes)
  PROVE  KnowledgeTyped'
<1>1. DOMAIN calls' = KnowledgeCallFields /\ calls'.bases = bases /\ calls'.writes = writes
  BY DEF Knowledge!Select, KnowledgeCallFields
<1>2. KnowledgeTypedPage(page') /\ page'.busy = p.busy
  <2>0. CASE b = p.selected
    BY <2>0 DEF Knowledge!Select
  <2>1. CASE b # p.selected /\ b = None
    <3>1. page' = [Knowledge!Unmounted(p) EXCEPT !.selected = None, !.documents = Knowledge!Shown({})]
      BY <2>1 DEF Knowledge!Select
    <3> QED
      BY <2>1, <3>1 DEF Knowledge!Unmounted, Knowledge!Shown, KnowledgeTypedPage, KnowledgePageFields,
                        KnowledgeStatuses
  <2>2. CASE b # p.selected /\ b # None
    <3>1. page' = [p EXCEPT !.selected = b, !.documents = Knowledge!Loading, !.search = None]
      BY <2>2 DEF Knowledge!Select
    <3> QED
      BY <2>2, <3>1 DEF Knowledge!Loading, KnowledgeTypedPage, KnowledgePageFields, KnowledgeStatuses
  <2> QED
    BY <2>0, <2>1, <2>2
<1> QED
  BY <1>1, <1>2, KnowledgeTypedBy

LEMMA KnowledgeTypedReloadBases ==
  ASSUME KnowledgeTyped, NEW p, KnowledgeTypedPage(p),
         NEW writes, KnowledgeTypedWrites(writes), p.busy => writes # {},
         KnowledgeTypedStore(store'), Knowledge!ReloadBases(p, writes)
  PROVE  KnowledgeTyped'
<1> DEFINE old == Knowledge!Old(calls.bases)
           q == Knowledge!ListBases(p.folder)
<1>1. KnowledgeTypedReads(old)
  BY KnowledgeTypedOld DEF KnowledgeTyped
<1>2. DOMAIN q = {"current", "data"} /\ q.data \subseteq Knowledge!Bases
  BY DEF Knowledge!ListBases, Knowledge!BasesOf
<1> HIDE DEF old, q
<1>3. /\ DOMAIN calls' = KnowledgeCallFields /\ calls'.bases = old \cup {q}
      /\ calls'.writes = writes
  BY DEF Knowledge!ReloadBases, KnowledgeCallFields, old, q
<1>4. KnowledgeTypedReads(calls'.bases)
  BY <1>1, <1>2, <1>3 DEF KnowledgeTypedReads
<1>5. KnowledgeTypedPage(page') /\ page'.busy = p.busy
  BY DEF Knowledge!ReloadBases, Knowledge!Unmounted, Knowledge!Shown, Knowledge!Loading,
         KnowledgeTypedPage, KnowledgePageFields, KnowledgeStatuses, KnowledgeBaseOrNone
<1> QED
  BY <1>3, <1>4, <1>5, KnowledgeTypedBy

LEMMA KnowledgeTypedReloadDocuments ==
  ASSUME KnowledgeTyped, NEW p, KnowledgeTypedPage(p),
         NEW writes, KnowledgeTypedWrites(writes), p.busy => writes # {},
         KnowledgeTypedStore(store'), Knowledge!ReloadDocuments(p, writes)
  PROVE  KnowledgeTyped'
<1>1. DOMAIN calls = KnowledgeCallFields /\ KnowledgeTypedReads(calls.bases)
  BY DEF KnowledgeTyped
<1>2. DOMAIN calls' = KnowledgeCallFields /\ calls'.bases = calls.bases /\ calls'.writes = writes
  BY <1>1 DEF Knowledge!ReloadDocuments, KnowledgeCallFields
<1>3. KnowledgeTypedPage(page') /\ page'.busy = p.busy
  BY DEF Knowledge!ReloadDocuments, Knowledge!Loading, KnowledgeTypedPage, KnowledgePageFields,
         KnowledgeStatuses
<1> QED
  BY <1>1, <1>2, <1>3, KnowledgeTypedBy

\* A step that lists no bases and makes or ends no write.
LEMMA KnowledgeTypedShows ==
  ASSUME KnowledgeTyped, KnowledgeTypedPage(page'), page'.busy = page.busy,
         DOMAIN calls' = KnowledgeCallFields, calls'.bases \subseteq calls.bases,
         calls'.writes = calls.writes, KnowledgeTypedStore(store')
  PROVE  KnowledgeTyped'
<1>1. KnowledgeTypedReads(calls'.bases) /\ KnowledgeTypedWrites(calls'.writes)
  BY DEF KnowledgeTyped, KnowledgeTypedReads
<1> QED
  BY <1>1, KnowledgeTypedBy DEF KnowledgeTyped

-----------------------------------------------------------------------------
(* The steps.                                                              *)

LEMMA KnowledgeTypedAvailability ==
  ASSUME KnowledgeTyped, Knowledge!AvailabilityAnswered
  PROVE  KnowledgeTyped'
<1>1. store' = store /\ KnowledgeTypedStore(store')
  BY DEF Knowledge!AvailabilityAnswered, KnowledgeTyped
<1>2. ASSUME NEW v \in KnowledgeAvailabilities
      PROVE  /\ KnowledgeTypedPage([page EXCEPT !.availability = v])
             /\ [page EXCEPT !.availability = v].busy = page.busy
  BY <1>2 DEF KnowledgeTyped, KnowledgeTypedPage, KnowledgePageFields
<1>3. ASSUME NEW v \in KnowledgeAvailabilities, page' = [page EXCEPT !.availability = v],
             UNCHANGED calls
      PROVE  KnowledgeTyped'
  BY <1>1, <1>2, <1>3, KnowledgeTypedShows DEF KnowledgeTyped
<1>4. CASE Knowledge!ReloadBases([page EXCEPT !.availability = "available"], calls.writes)
  <2> DEFINE p == [page EXCEPT !.availability = "available"]
  <2>1. KnowledgeTypedPage(p) /\ p.busy = page.busy
    BY <1>2 DEF KnowledgeAvailabilities
  <2> HIDE DEF p
  <2> QED
    BY <1>1, <1>4, <2>1, KnowledgeTypedReloadBases DEF KnowledgeTyped, p
<1> QED
  BY <1>3, <1>4 DEF Knowledge!AvailabilityAnswered, KnowledgeAvailabilities

\* The first base of a list is the one with the least number.
LEMMA KnowledgeFirstIsBase ==
  ASSUME NEW data \in SUBSET Knowledge!Bases, data # {}
  PROVE  Knowledge!Min(data) \in Knowledge!Bases
<1>1. data \in SUBSET Nat
  BY DEF Knowledge!Bases
<1>2. \E x \in data : \A y \in data : x =< y
  BY <1>1, LeastNumber, Zenon
<1> QED
  BY <1>2 DEF Knowledge!Min

LEMMA KnowledgeTypedBasesAnswered ==
  ASSUME KnowledgeTyped, NEW q, Knowledge!BasesAnswered(q) \/ Knowledge!BasesFail(q)
  PROVE  KnowledgeTyped'
<1> DEFINE rest == calls.bases \ {q}
           first == IF q.data = {} THEN None ELSE Knowledge!Min(q.data)
           p == [page EXCEPT !.bases = Knowledge!Shown(q.data)]
<1>1. /\ q \in calls.bases /\ store' = store /\ KnowledgeTypedStore(store')
      /\ DOMAIN calls = KnowledgeCallFields
  BY DEF Knowledge!BasesAnswered, Knowledge!BasesFail, KnowledgeTyped
<1>2. first \in KnowledgeBaseOrNone
  <2>1. q.data \in SUBSET Knowledge!Bases
    BY <1>1 DEF KnowledgeTyped, KnowledgeTypedReads
  <2> QED
    BY <2>1, KnowledgeFirstIsBase DEF KnowledgeBaseOrNone
<1>3. KnowledgeTypedPage(p) /\ p.busy = page.busy
  BY DEF KnowledgeTyped, KnowledgeTypedPage, KnowledgePageFields, Knowledge!Shown,
         KnowledgeStatuses
<1>4. KnowledgeTypedReads(rest)
  BY DEF KnowledgeTyped, KnowledgeTypedReads
<1>5. KnowledgeTypedWrites(calls.writes) /\ (page.busy => calls.writes # {})
  BY DEF KnowledgeTyped
<1> HIDE DEF first, p
<1>6. CASE Knowledge!Select(p, first, rest, calls.writes)
  BY <1>1, <1>2, <1>3, <1>4, <1>5, <1>6, KnowledgeTypedSelect
<1>7. CASE Knowledge!BasesFail(q)
  <2>1. KnowledgeTypedPage(page') /\ page'.busy = page.busy
    BY <1>7 DEF KnowledgeTyped, KnowledgeTypedPage, KnowledgePageFields, Knowledge!Failed,
                KnowledgeStatuses, Knowledge!BasesFail, Knowledge!Unmounted
  <2>2. /\ DOMAIN calls' = KnowledgeCallFields /\ calls'.bases = rest
        /\ calls'.writes = calls.writes
    BY <1>1, <1>7 DEF KnowledgeCallFields, Knowledge!BasesFail
  <2> QED
    BY <1>1, <2>1, <2>2, KnowledgeTypedShows
<1> QED
  BY <1>6, <1>7 DEF Knowledge!BasesAnswered, first, p

LEMMA KnowledgeTypedRetries ==
  ASSUME KnowledgeTyped, Knowledge!Poll \/ Knowledge!RetryBases \/ Knowledge!RetryDocuments
  PROVE  KnowledgeTyped'
<1>1. /\ KnowledgeTypedStore(store') /\ KnowledgeTypedPage(page)
      /\ KnowledgeTypedWrites(calls.writes) /\ (page.busy => calls.writes # {})
  BY DEF Knowledge!Poll, Knowledge!RetryBases, Knowledge!RetryDocuments, KnowledgeTyped
<1>2. Knowledge!ReloadBases(page, calls.writes) \/ Knowledge!ReloadDocuments(page, calls.writes)
  BY DEF Knowledge!Poll, Knowledge!RetryBases, Knowledge!RetryDocuments
<1> QED
  BY <1>1, <1>2, KnowledgeTypedReloadBases, KnowledgeTypedReloadDocuments

LEMMA KnowledgeTypedChoices ==
  ASSUME KnowledgeTyped,
         \/ \E f \in FoldersOf["knowledge"] : Knowledge!SelectFolder(f)
         \/ \E b \in Knowledge!Bases : Knowledge!SelectBase(b)
  PROVE  KnowledgeTyped'
<1>1. /\ KnowledgeTypedStore(store') /\ KnowledgeTypedPage(page)
      /\ KnowledgeTypedReads(calls.bases) /\ DOMAIN calls = KnowledgeCallFields
      /\ KnowledgeTypedWrites(calls.writes) /\ (page.busy => calls.writes # {})
  BY DEF Knowledge!SelectFolder, Knowledge!SelectBase, KnowledgeTyped
<1>2. ASSUME NEW b \in Knowledge!Bases, Knowledge!SelectBase(b) PROVE KnowledgeTyped'
  <2>1. b \in KnowledgeBaseOrNone /\ Knowledge!Select(page, b, calls.bases, calls.writes)
    BY <1>2 DEF Knowledge!SelectBase, KnowledgeBaseOrNone
  <2> QED
    BY <1>1, <2>1, KnowledgeTypedSelect
<1>3. ASSUME NEW f \in FoldersOf["knowledge"], Knowledge!SelectFolder(f) PROVE KnowledgeTyped'
  <2> DEFINE p == [page EXCEPT !.folder = f]
  <2>1. KnowledgeTypedPage(p) /\ p.busy = page.busy
    BY <1>1, <1>3 DEF KnowledgeTypedPage, KnowledgePageFields
  <2> HIDE DEF p
  <2>2. Knowledge!ReloadBases(p, calls.writes) \/ (page' = p /\ UNCHANGED calls)
    BY <1>3 DEF Knowledge!SelectFolder, p
  <2> QED
    BY <1>1, <2>1, <2>2, KnowledgeTypedReloadBases, KnowledgeTypedShows
<1> QED
  BY <1>2, <1>3

\* The documents, the tabs, the passages and the search.
LEMMA KnowledgeTypedPanels ==
  ASSUME KnowledgeTyped,
         \/ \E tab : Knowledge!SetTab(tab)
         \/ \E d : Knowledge!ShowPassages(d) \/ Knowledge!ClosePassages
         \/ Knowledge!CloseCitation
         \/ \E q : Knowledge!DocumentsAnswered(q) \/ Knowledge!DocumentsFail(q)
         \/ \E q : Knowledge!PassagesAnswered(q) \/ Knowledge!SearchAnswered(q)
         \/ \E bases : Knowledge!ExecuteSearch(bases)
  PROVE  KnowledgeTyped'
<1>1. store' = store /\ KnowledgeTypedStore(store')
  BY DEF Knowledge!SetTab, Knowledge!ShowPassages, Knowledge!CloseCitation,
         Knowledge!ClosePassages, Knowledge!DocumentsAnswered, Knowledge!DocumentsFail,
         Knowledge!PassagesAnswered,
         Knowledge!SearchAnswered, Knowledge!ExecuteSearch, KnowledgeTyped
<1>2. \/ calls' = calls
      \/ \E asked : \/ calls' = [calls EXCEPT !.passages = asked]
                    \/ calls' = [calls EXCEPT !.documents = asked]
                    \/ calls' = [calls EXCEPT !.searches = asked]
  BY DEF Knowledge!SetTab, Knowledge!ShowPassages, Knowledge!CloseCitation,
         Knowledge!ClosePassages, Knowledge!DocumentsAnswered, Knowledge!DocumentsFail,
         Knowledge!PassagesAnswered,
         Knowledge!SearchAnswered, Knowledge!ExecuteSearch
<1>3. /\ DOMAIN calls' = KnowledgeCallFields /\ calls'.bases = calls.bases
      /\ calls'.writes = calls.writes
  BY <1>2 DEF KnowledgeTyped, KnowledgeCallFields
<1>4. \/ page' = page
      \/ \E v : \/ page' = [page EXCEPT !.passages = v] \/ page' = [page EXCEPT !.search = v]
                \/ \E tab : page' = [page EXCEPT !.tab = tab, !.passages = v]
      \/ page' = [page EXCEPT !.citation = None]
      \/ page' = [page EXCEPT !.documents = Knowledge!Failed]
      \/ \E data : page' = [page EXCEPT !.documents = Knowledge!Shown(data)]
  BY DEF Knowledge!SetTab, Knowledge!ShowPassages, Knowledge!CloseCitation,
         Knowledge!ClosePassages, Knowledge!DocumentsAnswered, Knowledge!DocumentsFail,
         Knowledge!PassagesAnswered,
         Knowledge!SearchAnswered, Knowledge!ExecuteSearch
<1>5. KnowledgeTypedPage(page)
  BY DEF KnowledgeTyped
<1>6. ASSUME NEW v, NEW tab,
             \/ page' = [page EXCEPT !.passages = v] \/ page' = [page EXCEPT !.search = v]
             \/ page' = [page EXCEPT !.tab = tab, !.passages = v]
      PROVE  KnowledgeTypedPage(page') /\ page'.busy = page.busy
  BY <1>5, <1>6 DEF KnowledgeTypedPage, KnowledgePageFields
<1>7. ASSUME page' = [page EXCEPT !.citation = None]
      PROVE  KnowledgeTypedPage(page') /\ page'.busy = page.busy
  BY <1>5, <1>7 DEF KnowledgeTypedPage, KnowledgePageFields
<1>8. ASSUME page' = [page EXCEPT !.documents = Knowledge!Failed]
      PROVE  KnowledgeTypedPage(page') /\ page'.busy = page.busy
  BY <1>5, <1>8 DEF KnowledgeTypedPage, KnowledgePageFields, Knowledge!Failed, KnowledgeStatuses
<1>9. ASSUME NEW data, page' = [page EXCEPT !.documents = Knowledge!Shown(data)]
      PROVE  KnowledgeTypedPage(page') /\ page'.busy = page.busy
  BY <1>5, <1>9 DEF KnowledgeTypedPage, KnowledgePageFields, Knowledge!Shown, KnowledgeStatuses
<1>10. KnowledgeTypedPage(page') /\ page'.busy = page.busy
  BY <1>4, <1>5, <1>6, <1>7, <1>8, <1>9
<1> QED
  BY <1>1, <1>3, <1>10, KnowledgeTypedShows

LEMMA KnowledgeTypedAborted ==
  ASSUME KnowledgeTyped, NEW q, NEW kind \in {"bases", "documents"}, Knowledge!Aborted(kind, q)
  PROVE  KnowledgeTyped'
<1>1. /\ DOMAIN calls' = KnowledgeCallFields /\ calls'.bases \subseteq calls.bases
      /\ calls'.writes = calls.writes
  BY DEF KnowledgeTyped, KnowledgeCallFields, Knowledge!Aborted
<1> QED
  BY <1>1, KnowledgeTypedShows DEF Knowledge!Aborted, KnowledgeTyped

LEMMA KnowledgeTypedOpenCitation ==
  ASSUME KnowledgeTyped, NEW d \in Knowledge!Documents, Knowledge!OpenCitation(d)
  PROVE  KnowledgeTyped'
<1> DEFINE b == store.document[d].base
           p == [page EXCEPT !.citation = d, !.tab = "documents"]
<1>1. /\ store' = store /\ KnowledgeTypedStore(store')
      /\ KnowledgeTypedReads(calls.bases) /\ DOMAIN calls = KnowledgeCallFields
      /\ KnowledgeTypedWrites(calls.writes) /\ (page.busy => calls.writes # {})
  BY DEF Knowledge!OpenCitation, KnowledgeTyped
<1>2. b \in KnowledgeBaseOrNone
  BY DEF KnowledgeTyped, KnowledgeTypedStore
<1>3. KnowledgeTypedPage(p) /\ p.busy = page.busy
  BY DEF KnowledgeTyped, KnowledgeTypedPage, KnowledgePageFields
<1> HIDE DEF b, p
<1>4. Knowledge!Select(p, b, calls.bases, calls.writes) \/ (page' = p /\ UNCHANGED calls)
  BY DEF Knowledge!OpenCitation, b, p
<1> QED
  BY <1>1, <1>2, <1>3, <1>4, KnowledgeTypedSelect, KnowledgeTypedShows

LEMMA KnowledgeTypedMutate ==
  ASSUME KnowledgeTyped, NEW kind, NEW d, Knowledge!Mutate(Knowledge!Write(kind, d))
  PROVE  KnowledgeTyped'
<1> DEFINE w == Knowledge!Write(kind, d)
<1>1. w.base \in KnowledgeBaseOrNone /\ w.folder \in FoldersOf["knowledge"]
  BY DEF Knowledge!Write, KnowledgeTyped, KnowledgeTypedPage
<1> HIDE DEF w
<1>2. /\ store' = store /\ page' = [page EXCEPT !.busy = TRUE]
      /\ calls' = [calls EXCEPT !.writes = calls.writes \cup {w}]
  BY DEF Knowledge!Mutate, w
<1>3. KnowledgeTypedStore(store')
  BY <1>2 DEF KnowledgeTyped
<1>4. /\ DOMAIN calls' = KnowledgeCallFields /\ calls'.bases = calls.bases
      /\ calls'.writes = calls.writes \cup {w}
  BY <1>2 DEF KnowledgeTyped, KnowledgeCallFields
<1>5. KnowledgeTypedPage(page')
  BY <1>2 DEF KnowledgeTyped, KnowledgeTypedPage, KnowledgePageFields
<1>6. KnowledgeTypedReads(calls'.bases) /\ KnowledgeTypedWrites(calls'.writes)
  BY <1>1, <1>4 DEF KnowledgeTyped, KnowledgeTypedWrites
<1>7. calls'.writes # {}
  BY <1>4
<1> QED
  BY <1>3, <1>4, <1>5, <1>6, <1>7, KnowledgeTypedBy

LEMMA KnowledgeTypedWritten ==
  ASSUME KnowledgeTyped, NEW w \in calls.writes, NEW s \in Knowledge!Written(w)
  PROVE  KnowledgeTypedStore(s)
<1>1. KnowledgeTypedStore(store) /\ w.base \in KnowledgeBaseOrNone
  BY DEF KnowledgeTyped, KnowledgeTypedWrites
<1>2. CASE w.kind = "create"
  <2>1. PICK b : s = [store EXCEPT !.base[b] = w.folder]
    BY <1>2 DEF Knowledge!Written
  <2> QED
    BY <1>1, <2>1 DEF KnowledgeTypedStore
<1>3. CASE w.kind = "delete base"
  <2> DEFINE new == [d \in Knowledge!Documents |->
                       IF store.document[d].base = w.base
                       THEN [base |-> w.base, status |-> "deleted"] ELSE store.document[d]]
  <2>1. s = [base |-> [store.base EXCEPT ![w.base] = "deleted"], document |-> new]
    BY <1>3 DEF Knowledge!Written
  <2>2. /\ DOMAIN new = Knowledge!Documents
        /\ \A d \in Knowledge!Documents :
             DOMAIN new[d] = {"base", "status"} /\ new[d].base \in KnowledgeBaseOrNone
    BY <1>1 DEF KnowledgeTypedStore
  <2> HIDE DEF new
  <2>3. DOMAIN s = {"base", "document"} /\ DOMAIN s.base = DOMAIN store.base /\ s.document = new
    BY <2>1
  <2> QED
    BY <1>1, <2>2, <2>3 DEF KnowledgeTypedStore
<1>4. CASE w.kind = "upload"
  <2> DEFINE new == [base |-> w.base, status |-> "queued"]
  <2>1. PICK d : s = [store EXCEPT !.document[d] = new]
    BY <1>4 DEF Knowledge!Written
  <2>2. DOMAIN new = {"base", "status"} /\ new.base \in KnowledgeBaseOrNone
    BY <1>1
  <2> HIDE DEF new
  <2> QED
    BY <1>1, <2>1, <2>2 DEF KnowledgeTypedStore
<1>5. ASSUME NEW d, NEW status, s = [store EXCEPT !.document[d].status = status]
      PROVE  KnowledgeTypedStore(s)
  BY <1>1, <1>5 DEF KnowledgeTypedStore
<1>6. CASE w.kind \in {"delete", "retry"}
  BY <1>5, <1>6 DEF Knowledge!Written
<1>7. CASE w.kind \notin {"create", "delete base", "upload", "delete", "retry"}
  BY <1>1, <1>7 DEF Knowledge!Written
<1> QED
  BY <1>2, <1>3, <1>4, <1>6, <1>7

\* The new base is the one that is different.
LEMMA KnowledgeCreatedIsBase ==
  ASSUME Knowledge!Parameters, KnowledgeTyped, NEW w \in calls.writes, w.kind = "create",
         store' \in Knowledge!Written(w)
  PROVE  (CHOOSE c \in Knowledge!Bases : store'.base[c] # store.base[c]) \in Knowledge!Bases
<1>1. PICK b \in Knowledge!Bases : /\ store.base[b] = "none"
                                   /\ store' = [store EXCEPT !.base[b] = w.folder]
  BY DEF Knowledge!Written
<1>2. w.folder # "none"
  BY DEF Knowledge!Parameters, KnowledgeTyped, KnowledgeTypedWrites
<1>3. store'.base[b] = w.folder
  BY <1>1 DEF KnowledgeTyped, KnowledgeTypedStore
<1>4. \E c \in Knowledge!Bases : store'.base[c] # store.base[c]
  BY <1>1, <1>2, <1>3
<1> QED
  BY <1>4

LEMMA KnowledgeTypedWriteAnswered ==
  ASSUME Knowledge!Parameters, KnowledgeTyped, NEW w \in calls.writes, Knowledge!WriteAnswered(w)
  PROVE  KnowledgeTyped'
<1> DEFINE p == Knowledge!Finished(page)
           writes == calls.writes \ {w}
<1>1. KnowledgeTypedStore(store') /\ store' \in Knowledge!Written(w)
  BY KnowledgeTypedWritten DEF Knowledge!WriteAnswered
<1>2. KnowledgeTypedPage(p) /\ p.busy = FALSE
  BY DEF Knowledge!Finished, KnowledgeTyped, KnowledgeTypedPage, KnowledgePageFields
<1>3. /\ KnowledgeTypedWrites(writes) /\ KnowledgeTypedReads(calls.bases)
      /\ DOMAIN calls = KnowledgeCallFields
  BY DEF KnowledgeTyped, KnowledgeTypedWrites
<1> HIDE DEF p
<1>4. CASE w.kind = "create" /\ Knowledge!ShowCreated(w)
  <2> DEFINE b == CHOOSE c \in Knowledge!Bases : store'.base[c] # store.base[c]
             r == [p EXCEPT !.bases = Knowledge!Shown(w.seen \cup {b})]
  <2>1. b \in KnowledgeBaseOrNone
    BY <1>1, <1>4, KnowledgeCreatedIsBase DEF KnowledgeBaseOrNone
  <2> HIDE DEF b
  <2>2. KnowledgeTypedPage(r) /\ r.busy = FALSE
    BY <1>2 DEF KnowledgeTypedPage, KnowledgePageFields, Knowledge!Shown, KnowledgeStatuses
  <2> HIDE DEF r
  <2>3. Knowledge!Select(r, b, calls.bases, writes)
    BY <1>4 DEF Knowledge!ShowCreated, b, r, p
  <2> QED
    BY <1>1, <1>3, <2>1, <2>2, <2>3, KnowledgeTypedSelect
<1>5. CASE Knowledge!ReloadBases(p, writes)
  BY <1>1, <1>2, <1>3, <1>5, KnowledgeTypedReloadBases
<1>6. CASE Knowledge!ReloadDocuments(p, writes)
  BY <1>1, <1>2, <1>3, <1>6, KnowledgeTypedReloadDocuments
<1>7. CASE page' = p /\ calls' = [calls EXCEPT !.writes = @ \ {w}]
  <2>1. /\ DOMAIN calls' = KnowledgeCallFields /\ calls'.bases = calls.bases
        /\ calls'.writes = writes
    BY <1>3, <1>7 DEF KnowledgeCallFields
  <2> QED
    BY <1>1, <1>2, <1>3, <1>7, <2>1, KnowledgeTypedBy
<1> QED
  BY <1>4, <1>5, <1>6, <1>7 DEF Knowledge!WriteAnswered, p

LEMMA KnowledgeTypedWriteFails ==
  ASSUME KnowledgeTyped, NEW w \in calls.writes, Knowledge!WriteFails(w)
  PROVE  KnowledgeTyped'
<1>1. KnowledgeTypedStore(store')
  BY KnowledgeTypedWritten DEF Knowledge!WriteFails, KnowledgeTyped
<1>2. /\ DOMAIN calls' = KnowledgeCallFields /\ calls'.bases = calls.bases
      /\ calls'.writes \subseteq calls.writes
  BY DEF Knowledge!WriteFails, KnowledgeTyped, KnowledgeCallFields
<1>3. KnowledgeTypedPage(page') /\ page'.busy = FALSE
  BY DEF Knowledge!WriteFails, Knowledge!Finished, KnowledgeTyped, KnowledgeTypedPage,
         KnowledgePageFields
<1>4. KnowledgeTypedReads(calls'.bases) /\ KnowledgeTypedWrites(calls'.writes)
  BY <1>2 DEF KnowledgeTyped, KnowledgeTypedWrites
<1> QED
  BY <1>1, <1>2, <1>3, <1>4, KnowledgeTypedBy

LEMMA KnowledgeTypedIndex ==
  ASSUME KnowledgeTyped, NEW d, Knowledge!Index(d)
  PROVE  KnowledgeTyped'
<1>1. PICK status : store' = [store EXCEPT !.document[d].status = status]
  BY DEF Knowledge!Index
<1>2. KnowledgeTypedStore(store')
  BY <1>1 DEF KnowledgeTyped, KnowledgeTypedStore
<1> QED
  BY <1>2, KnowledgeTypedShows DEF Knowledge!Index, KnowledgeTyped

LEMMA KnowledgeTypedInit ==
  ASSUME Knowledge!Parameters, Knowledge!Init
  PROVE  KnowledgeTyped
<1>1. (CHOOSE f \in FoldersOf["knowledge"] : TRUE) \in FoldersOf["knowledge"]
  BY DEF Knowledge!Parameters
<1>2. KnowledgeTypedPage(page) /\ page.busy = FALSE
  BY <1>1 DEF Knowledge!Init, KnowledgeTypedPage, KnowledgePageFields, KnowledgeStatuses,
         KnowledgeAvailabilities, KnowledgeBaseOrNone, Knowledge!Loading, Knowledge!Shown
<1>3. DOMAIN calls = KnowledgeCallFields /\ calls.bases = {} /\ calls.writes = {}
  BY DEF Knowledge!Init, KnowledgeCallFields
<1>4. KnowledgeTypedStore(store)
  BY DEF Knowledge!Init, Knowledge!Parameters, KnowledgeTypedStore, KnowledgeBaseOrNone,
         Knowledge!Bases
<1> QED
  BY <1>2, <1>3, <1>4 DEF KnowledgeTyped, KnowledgeTypedReads, KnowledgeTypedWrites

LEMMA KnowledgeTypedStep ==
  ASSUME Knowledge!Parameters
  PROVE  KnowledgeTyped /\ [Knowledge!Next]_(Knowledge!vars) => KnowledgeTyped'
<1> SUFFICES ASSUME KnowledgeTyped, [Knowledge!Next]_(Knowledge!vars)
             PROVE  KnowledgeTyped'
  OBVIOUS
<1>1. CASE Knowledge!AvailabilityAnswered \/ Knowledge!Poll \/ Knowledge!RetryBases
           \/ Knowledge!RetryDocuments
  BY <1>1, KnowledgeTypedAvailability, KnowledgeTypedRetries
<1>2. CASE \/ \E f \in FoldersOf["knowledge"] : Knowledge!SelectFolder(f)
           \/ \E b \in Knowledge!Bases : Knowledge!SelectBase(b)
  BY <1>2, KnowledgeTypedChoices
<1>3. CASE Knowledge!ClosePassages \/ Knowledge!CloseCitation \/ (\E tab : Knowledge!SetTab(tab))
           \/ (\E bases : Knowledge!ExecuteSearch(bases))
  BY <1>3, KnowledgeTypedPanels
<1>4. ASSUME NEW d \in Knowledge!Documents,
             Knowledge!ShowPassages(d) \/ Knowledge!OpenCitation(d) \/ Knowledge!Index(d)
      PROVE  KnowledgeTyped'
  BY <1>4, KnowledgeTypedPanels, KnowledgeTypedOpenCitation, KnowledgeTypedIndex
<1>5. CASE Knowledge!CreateBase \/ Knowledge!UpdateBase \/ Knowledge!DeleteBase
           \/ Knowledge!UploadDocument
           \/ (\E d \in page.documents.data : Knowledge!OnDocument(d))
  BY <1>5, KnowledgeTypedMutate
  DEF Knowledge!CreateBase, Knowledge!UpdateBase, Knowledge!DeleteBase,
      Knowledge!UploadDocument, Knowledge!OnDocument
<1>6. ASSUME NEW q, NEW kind \in {"bases", "documents"},
             \/ Knowledge!BasesAnswered(q) \/ Knowledge!BasesFail(q)
             \/ Knowledge!DocumentsAnswered(q) \/ Knowledge!DocumentsFail(q)
             \/ Knowledge!Aborted(kind, q)
      PROVE  KnowledgeTyped'
  BY <1>6, KnowledgeTypedBasesAnswered, KnowledgeTypedPanels, KnowledgeTypedAborted
<1>7. ASSUME NEW q, Knowledge!PassagesAnswered(q) \/ Knowledge!SearchAnswered(q)
      PROVE  KnowledgeTyped'
  BY <1>7, KnowledgeTypedPanels
<1>8. ASSUME NEW w \in calls.writes, Knowledge!WriteAnswered(w) \/ Knowledge!WriteFails(w)
      PROVE  KnowledgeTyped'
  BY <1>8, KnowledgeTypedWriteAnswered, KnowledgeTypedWriteFails
<1>9. CASE UNCHANGED Knowledge!vars
  BY <1>9, KnowledgeTypedShows DEF Knowledge!vars, KnowledgeTyped
<1> QED
  BY <1>1, <1>2, <1>3, <1>4, <1>5, <1>6, <1>7, <1>8, <1>9 DEF Knowledge!Next

\* RealKnowledgePage: the base that is selected and the document of the citation are ones that
\* there may be, and buttons that are disabled wait for a write under way.
THEOREM KnowledgeBusyEnds ==
  ASSUME Knowledge!Parameters
  PROVE  Knowledge!Spec => [](Knowledge!TypeOK /\ Knowledge!BusyHasWrite)
<1>1. KnowledgeTyped => Knowledge!TypeOK /\ Knowledge!BusyHasWrite
  BY DEF KnowledgeTyped, KnowledgeTypedPage, KnowledgeStatuses, KnowledgeAvailabilities,
         KnowledgeBaseOrNone, Knowledge!TypeOK, Knowledge!BusyHasWrite
<1> QED
  BY <1>1, KnowledgeTypedInit, KnowledgeTypedStep, PTL DEF Knowledge!Spec

-----------------------------------------------------------------------------
(* The types of the page of knowledge over its fixtures.                   *)

LegacyPageFields ==
  {"folder", "snapshot", "mutation", "importing", "dialog", "reading", "streams"}
LegacyRecordFields == {"is", "folder", "version", "service"}
LegacyTaskStatuses == {"none", "parsing", "reviewing", "done", "cancelled"}
LegacyStreams ==
  [task : Legacy!Tasks, folder : FoldersOf["knowledge"], at : {10, 45},
   own : BOOLEAN, live : BOOLEAN, held : BOOLEAN]

LegacyOwned(streams) == \E i \in DOMAIN streams : streams[i].own

\* A page that says an import is running holds a stream whose end it will notice.
LegacyTypedPage(p) ==
  /\ DOMAIN p = LegacyPageFields
  /\ p.folder \in FoldersOf["knowledge"]
  /\ "status" \in DOMAIN p.snapshot /\ p.snapshot.status \in {"loading", "success"}
  /\ p.mutation \in {"idle", "loading", "success", "error"}
  /\ p.importing \in BOOLEAN
  /\ p.streams \in Seq(LegacyStreams)
  /\ p.importing => LegacyOwned(p.streams)

LegacyTypedServices(services) ==
  /\ DOMAIN services = Legacy!Services
  /\ \A s \in Legacy!Services :
       DOMAIN services[s] = LegacyRecordFields /\ services[s].version \in Nat

LegacyTypedItems(items) ==
  /\ DOMAIN items = Legacy!Items
  /\ \A i \in Legacy!Items : DOMAIN items[i] = LegacyRecordFields

LegacyTypedTasks(tasks) ==
  /\ DOMAIN tasks = Legacy!Tasks
  /\ \A t \in Legacy!Tasks :
       DOMAIN tasks[t] = {"folder", "status"} /\ tasks[t].status \in LegacyTaskStatuses

LegacyTypedStore(s) ==
  /\ DOMAIN s = {"service", "item", "task"}
  /\ LegacyTypedServices(s.service) /\ LegacyTypedItems(s.item) /\ LegacyTypedTasks(s.task)

LegacyWithinVersions ==
  \A s \in Legacy!Services : store.service[s].version <= Most.itemVersions

LegacyTyped == LegacyTypedPage(page) /\ LegacyTypedStore(store) /\ LegacyWithinVersions

-----------------------------------------------------------------------------
(* Streams.                                                                *)

LEMMA LegacySequenceOf ==
  ASSUME NEW S, NEW n \in Nat, NEW t \in [1 .. n -> S]
  PROVE  t \in Seq(S) /\ Len(t) = n /\ DOMAIN t = 1 .. n
  OBVIOUS

LEMMA LegacyIsSequence ==
  ASSUME NEW S, NEW s \in Seq(S)
  PROVE  /\ Len(s) \in Nat /\ DOMAIN s = 1 .. Len(s) /\ s \in [1 .. Len(s) -> S]
         /\ \A i \in DOMAIN s : s[i] \in S
  OBVIOUS

LEMMA LegacyAppendedIs ==
  ASSUME NEW S, NEW s \in Seq(S), NEW e \in S
  PROVE  /\ Append(s, e) \in Seq(S) /\ Len(s) + 1 \in DOMAIN Append(s, e)
         /\ Append(s, e)[Len(s) + 1] = e
  OBVIOUS

LEMMA LegacyMutedIs ==
  ASSUME NEW s \in Seq(LegacyStreams)
  PROVE  /\ Legacy!Mute(s) \in Seq(LegacyStreams)
         /\ LegacyOwned(s) => LegacyOwned(Legacy!Mute(s))
<1> DEFINE t == Legacy!Mute(s)
<1>1. Len(s) \in Nat /\ DOMAIN s = 1 .. Len(s) /\ \A i \in DOMAIN s : s[i] \in LegacyStreams
  BY LegacyIsSequence, Zenon
<1>2. \A i \in DOMAIN s : t[i] \in LegacyStreams /\ t[i].own = s[i].own
  BY <1>1 DEF Legacy!Mute, LegacyStreams
<1>3. DOMAIN t = DOMAIN s /\ t = [i \in DOMAIN s |-> t[i]]
  BY DEF Legacy!Mute
<1> HIDE DEF t
<1>4. t \in [1 .. Len(s) -> LegacyStreams]
  BY <1>1, <1>2, <1>3, Zenon
<1>5. t \in Seq(LegacyStreams)
  BY <1>1, <1>4, LegacySequenceOf, Zenon
<1>6. LegacyOwned(s) => LegacyOwned(t)
  BY <1>2, <1>3 DEF LegacyOwned
<1> QED
  BY <1>5, <1>6 DEF t

LEMMA LegacyDisownedIs ==
  ASSUME NEW s \in Seq(LegacyStreams)
  PROVE  Legacy!Disowned(s) \in Seq(LegacyStreams)
<1> DEFINE t == Legacy!Disowned(s)
<1>1. Len(s) \in Nat /\ DOMAIN s = 1 .. Len(s) /\ \A i \in DOMAIN s : s[i] \in LegacyStreams
  BY LegacyIsSequence, Zenon
<1>2. \A i \in DOMAIN s : t[i] \in LegacyStreams
  BY <1>1 DEF Legacy!Disowned, LegacyStreams
<1>3. DOMAIN t = DOMAIN s /\ t = [i \in DOMAIN s |-> t[i]]
  BY DEF Legacy!Disowned
<1> HIDE DEF t
<1>4. t \in [1 .. Len(s) -> LegacyStreams]
  BY <1>1, <1>2, <1>3, Zenon
<1> QED
  BY <1>1, <1>4, LegacySequenceOf, Zenon DEF t

\* One less; the others keep their order.
LEMMA LegacyWithoutIs ==
  ASSUME NEW S, NEW s \in Seq(S), NEW i \in DOMAIN s
  PROVE  /\ Legacy!Without(s, i) \in Seq(S)
         /\ \A k \in DOMAIN s \ {i} : \E j \in DOMAIN Legacy!Without(s, i) :
              Legacy!Without(s, i)[j] = s[k]
<1> DEFINE t == Legacy!Without(s, i)
<1>1. Len(s) \in Nat /\ DOMAIN s = 1 .. Len(s) /\ \A k \in DOMAIN s : s[k] \in S
  BY LegacyIsSequence, Zenon
<1>2. i \in 1 .. Len(s) /\ Len(s) - 1 \in Nat
  BY <1>1
<1>3. /\ DOMAIN t = 1 .. Len(s) - 1 /\ t = [j \in 1 .. Len(s) - 1 |-> t[j]]
      /\ \A j \in 1 .. Len(s) - 1 : t[j] = s[IF j < i THEN j ELSE j + 1]
  BY DEF Legacy!Without
<1> HIDE DEF t
<1>4. \A j \in 1 .. Len(s) - 1 : t[j] \in S
  BY <1>1, <1>2, <1>3
<1>5. t \in [1 .. Len(s) - 1 -> S]
  BY <1>3, <1>4, Zenon
<1>6. t \in Seq(S)
  BY <1>2, <1>5, LegacySequenceOf, Zenon
<1>7. ASSUME NEW k \in DOMAIN s \ {i} PROVE \E j \in DOMAIN t : t[j] = s[k]
  <2> DEFINE j == IF k < i THEN k ELSE k - 1
  <2>1. j \in 1 .. Len(s) - 1 /\ (IF j < i THEN j ELSE j + 1) = k
    BY <1>1, <1>2, <1>7
  <2> QED
    BY <2>1, <1>3
<1> QED
  BY <1>6, <1>7 DEF t

LEMMA LegacyReleasedIs ==
  ASSUME NEW s \in Seq(LegacyStreams)
  PROVE  Legacy!Released(s) \in Seq(LegacyStreams)
<1> DEFINE at == {i \in DOMAIN s : s[i].held}
<1>1. CASE at = {}
  BY <1>1 DEF Legacy!Released
<1>2. CASE at # {}
  <2>1. (CHOOSE i \in at : TRUE) \in DOMAIN s
    BY <1>2
  <2>2. Legacy!Without(s, CHOOSE i \in at : TRUE) \in Seq(LegacyStreams)
    BY <2>1, LegacyWithoutIs, Zenon
  <2> QED
    BY <1>2, <2>2 DEF Legacy!Released
<1> QED
  BY <1>1, <1>2

-----------------------------------------------------------------------------
(* The storage keeps its types.                                            *)

LEMMA LegacyTypedBy ==
  ASSUME LegacyTypedPage(page'), LegacyTypedStore(store'), LegacyWithinVersions'
  PROVE  LegacyTyped'
  BY DEF LegacyTyped, LegacyTypedPage, LegacyTypedStore, LegacyTypedServices, LegacyTypedItems,
         LegacyTypedTasks

LEMMA LegacyTypedNewService ==
  ASSUME LegacyTypedStore(store), NEW s, NEW f,
         store' = [store EXCEPT !.service[s] = Legacy!New("service", f, None)]
  PROVE  LegacyTypedStore(store')
<1>1. /\ store'.item = store.item /\ store'.task = store.task
      /\ store'.service = [store.service EXCEPT ![s] = Legacy!New("service", f, None)]
      /\ DOMAIN store' = DOMAIN store
  BY DEF LegacyTypedStore
<1>2. DOMAIN Legacy!New("service", f, None) = LegacyRecordFields
      /\ Legacy!New("service", f, None).version \in Nat
  BY DEF Legacy!New, LegacyRecordFields
<1>3. LegacyTypedServices(store'.service)
  BY <1>1, <1>2 DEF LegacyTypedStore, LegacyTypedServices
<1> QED
  BY <1>1, <1>3 DEF LegacyTypedStore

LEMMA LegacyTypedSavedService ==
  ASSUME LegacyTypedStore(store), NEW s,
         store' = [store EXCEPT !.service[s].version = @ + 1]
  PROVE  LegacyTypedStore(store')
<1> DEFINE v == store.service[s].version + 1
<1>1. /\ store'.item = store.item /\ store'.task = store.task
      /\ store'.service = [store.service EXCEPT ![s] = [store.service[s] EXCEPT !.version = v]]
      /\ DOMAIN store' = DOMAIN store
  BY DEF LegacyTypedStore
<1>2. s \in Legacy!Services => v \in Nat
  BY DEF LegacyTypedStore, LegacyTypedServices
<1> HIDE DEF v
<1>3. LegacyTypedServices(store'.service)
  BY <1>1, <1>2 DEF LegacyTypedStore, LegacyTypedServices, LegacyRecordFields
<1> QED
  BY <1>1, <1>3 DEF LegacyTypedStore

LEMMA LegacyTypedUnlinked ==
  ASSUME NEW items, LegacyTypedItems(items), NEW s
  PROVE  LegacyTypedItems(Legacy!Unlinked(items, s))
  BY DEF LegacyTypedItems, Legacy!Unlinked, LegacyRecordFields

LEMMA LegacyTypedRemovedService ==
  ASSUME LegacyTypedStore(store), NEW s,
         store' = [store EXCEPT !.service[s].folder = None, !.item = Legacy!Unlinked(@, s)]
  PROVE  LegacyTypedStore(store')
<1> DEFINE items == Legacy!Unlinked(store.item, s)
<1>1. LegacyTypedItems(items)
  BY LegacyTypedUnlinked DEF LegacyTypedStore
<1> HIDE DEF items
<1>2. /\ store'.item = items /\ store'.task = store.task
      /\ store'.service = [store.service EXCEPT ![s] = [store.service[s] EXCEPT !.folder = None]]
      /\ DOMAIN store' = DOMAIN store
  BY DEF LegacyTypedStore, items
<1>3. LegacyTypedServices(store'.service)
  BY <1>2 DEF LegacyTypedStore, LegacyTypedServices, LegacyRecordFields
<1> QED
  BY <1>1, <1>2, <1>3 DEF LegacyTypedStore

LEMMA LegacyTypedItem ==
  ASSUME LegacyTypedStore(store), NEW i, NEW r, i \in Legacy!Items => DOMAIN r = LegacyRecordFields,
         store' = [store EXCEPT !.item[i] = r]
  PROVE  LegacyTypedStore(store')
<1>1. /\ store'.service = store.service /\ store'.task = store.task
      /\ store'.item = [store.item EXCEPT ![i] = r]
      /\ DOMAIN store' = DOMAIN store
  BY DEF LegacyTypedStore
<1>2. LegacyTypedItems(store'.item)
  BY <1>1 DEF LegacyTypedStore, LegacyTypedItems
<1> QED
  BY <1>1, <1>2 DEF LegacyTypedStore

LEMMA LegacyTypedTask ==
  ASSUME LegacyTypedStore(store), NEW t, NEW r,
         t \in Legacy!Tasks => DOMAIN r = {"folder", "status"} /\ r.status \in LegacyTaskStatuses,
         store' = [store EXCEPT !.task[t] = r]
  PROVE  LegacyTypedStore(store')
<1>1. /\ store'.service = store.service /\ store'.item = store.item
      /\ store'.task = [store.task EXCEPT ![t] = r]
      /\ DOMAIN store' = DOMAIN store
  BY DEF LegacyTypedStore
<1>2. LegacyTypedTasks(store'.task)
  BY <1>1 DEF LegacyTypedStore, LegacyTypedTasks
<1> QED
  BY <1>1, <1>2 DEF LegacyTypedStore

\* What ends a write: the page of one that counts reads again, or says what went wrong.
LEMMA LegacyTypedWritten ==
  ASSUME LegacyTypedPage(page), NEW c, Legacy!Written(c)
  PROVE  LegacyTypedPage(page')
<1>1. page' = page \/ page' = [page EXCEPT !.snapshot = [status |-> "loading"]]
  BY DEF Legacy!Written
<1>2. "status" \in DOMAIN [status |-> "loading"]
  OBVIOUS
<1> QED
  BY <1>1, <1>2 DEF LegacyTypedPage, LegacyPageFields

LEMMA LegacyTypedRefused ==
  ASSUME LegacyTypedPage(page), NEW c, Legacy!Refused(c)
  PROVE  LegacyTypedPage(page') /\ store' = store
  BY DEF Legacy!Refused, LegacyTypedPage, LegacyPageFields

LEMMA LegacyTypedMutate ==
  ASSUME NEW p, LegacyTypedPage(p), NEW c, Legacy!Mutate(p, c)
  PROVE  LegacyTypedPage(page') /\ store' = store
<1> DEFINE s == Legacy!Mute(p.streams)
<1>1. s \in Seq(LegacyStreams) /\ (LegacyOwned(p.streams) => LegacyOwned(s))
  BY LegacyMutedIs DEF LegacyTypedPage
<1> HIDE DEF s
<1>2. page' = [p EXCEPT !.mutation = "loading", !.streams = s] /\ store' = store
  BY DEF Legacy!Mutate, s
<1> QED
  BY <1>1, <1>2 DEF LegacyTypedPage, LegacyPageFields

-----------------------------------------------------------------------------
(* The steps keep the types.                                               *)

LEMMA LegacyTypedAnswered ==
  ASSUME LegacyTyped, Legacy!Answered
  PROVE  LegacyTypedPage(page') /\ LegacyTypedStore(store')
<1> DEFINE c == Head(calls)
<1> HIDE DEF c
<1>0. LegacyTypedPage(page) /\ LegacyTypedStore(store)
  BY DEF LegacyTyped
<1>a. Legacy!Written(c) => LegacyTypedPage(page')
  BY <1>0, LegacyTypedWritten
<1>b. Legacy!Refused(c) => LegacyTypedPage(page') /\ store' = store
  BY <1>0, LegacyTypedRefused
<1>1. CASE Legacy!CreateService(c)
  <2>1. CASE Legacy!Refused(c)
    BY <1>0, <1>b, <2>1
  <2>2. CASE ~Legacy!Refused(c)
    <3>1. PICK s : store' = [store EXCEPT !.service[s] = Legacy!New("service", c.id, None)]
                   /\ Legacy!Written(c)
      BY <1>1, <2>2 DEF Legacy!CreateService
    <3> QED
      BY <1>0, <1>a, <3>1, LegacyTypedNewService
  <2> QED
    BY <2>1, <2>2
<1>2. CASE Legacy!UpdateService(c)
  <2>1. CASE Legacy!Refused(c)
    BY <1>0, <1>b, <2>1
  <2>2. CASE ~Legacy!Refused(c)
    <3>1. store' = [store EXCEPT !.service[c.id].version = @ + 1] /\ Legacy!Written(c)
      BY <1>2, <2>2 DEF Legacy!UpdateService
    <3> QED
      BY <1>0, <1>a, <3>1, LegacyTypedSavedService
  <2> QED
    BY <2>1, <2>2
<1>3. CASE Legacy!DeleteService(c)
  <2>1. CASE Legacy!Refused(c)
    BY <1>0, <1>b, <2>1
  <2>2. CASE ~Legacy!Refused(c)
    <3>1. /\ store' = [store EXCEPT !.service[c.id].folder = None, !.item = Legacy!Unlinked(@, c.id)]
          /\ Legacy!Written(c)
      BY <1>3, <2>2 DEF Legacy!DeleteService
    <3> QED
      BY <1>0, <1>a, <3>1, LegacyTypedRemovedService
  <2> QED
    BY <2>1, <2>2
<1>4. CASE Legacy!CreateRunbook(c)
  <2>1. CASE Legacy!Refused(c)
    BY <1>0, <1>b, <2>1
  <2>2. CASE ~Legacy!Refused(c)
    <3>1. PICK i : store' = [store EXCEPT !.item[i] = Legacy!New("runbook", c.id, c.service)]
                   /\ Legacy!Written(c)
      BY <1>4, <2>2 DEF Legacy!CreateRunbook
    <3>2. DOMAIN Legacy!New("runbook", c.id, c.service) = LegacyRecordFields
      BY DEF Legacy!New, LegacyRecordFields
    <3> QED
      BY <1>0, <1>a, <3>1, <3>2, LegacyTypedItem
  <2> QED
    BY <2>1, <2>2
<1>5. ASSUME Legacy!SaveItem(c) PROVE LegacyTypedPage(page') /\ LegacyTypedStore(store')
  <2>1. CASE Legacy!Refused(c)
    BY <1>0, <1>b, <2>1
  <2>2. CASE ~Legacy!Refused(c)
    <3>1. Legacy!Written(c) /\ store' = [store EXCEPT !.item[c.id].version = @ + 1, !.item[c.id].service = c.service]
      BY <1>5, <2>2 DEF Legacy!SaveItem
    <3> DEFINE x == store.item[c.id].version + 1
               items == [store.item EXCEPT ![c.id] = [store.item[c.id] EXCEPT !.version = x]]
    <3>2. LegacyTypedItems(items)
      BY <1>0 DEF LegacyTypedStore, LegacyTypedItems, LegacyRecordFields
    <3>3. /\ store'.service = store.service /\ store'.task = store.task
          /\ store'.item = [items EXCEPT ![c.id] = [items[c.id] EXCEPT !.service = c.service]]
          /\ DOMAIN store' = DOMAIN store
      BY <1>0, <3>1 DEF LegacyTypedStore
    <3> HIDE DEF items
    <3>4. LegacyTypedItems(store'.item)
      BY <3>2, <3>3 DEF LegacyTypedItems, LegacyRecordFields
    <3> QED
      BY <1>0, <1>a, <3>1, <3>3, <3>4 DEF LegacyTypedStore
  <2> QED
    BY <2>1, <2>2
<1>6. ASSUME Legacy!RemoveItem(c) PROVE LegacyTypedPage(page') /\ LegacyTypedStore(store')
  <2>1. CASE Legacy!Refused(c)
    BY <1>0, <1>b, <2>1
  <2>2. CASE ~Legacy!Refused(c)
    <3>1. Legacy!Written(c) /\ store' = [store EXCEPT !.item[c.id].folder = None, !.item[c.id].service = None]
      BY <1>6, <2>2 DEF Legacy!RemoveItem
    <3> DEFINE x == None
               items == [store.item EXCEPT ![c.id] = [store.item[c.id] EXCEPT !.folder = x]]
    <3>2. LegacyTypedItems(items)
      BY <1>0 DEF LegacyTypedStore, LegacyTypedItems, LegacyRecordFields
    <3>3. /\ store'.service = store.service /\ store'.task = store.task
          /\ store'.item = [items EXCEPT ![c.id] = [items[c.id] EXCEPT !.service = None]]
          /\ DOMAIN store' = DOMAIN store
      BY <1>0, <3>1 DEF LegacyTypedStore
    <3> HIDE DEF items
    <3>4. LegacyTypedItems(store'.item)
      BY <3>2, <3>3 DEF LegacyTypedItems, LegacyRecordFields
    <3> QED
      BY <1>0, <1>a, <3>1, <3>3, <3>4 DEF LegacyTypedStore
  <2> QED
    BY <2>1, <2>2
<1> DEFINE Ended(status) == [store.task[c.id] EXCEPT !.status = status]
<1>7. CASE Legacy!ConfirmImport(c)
  <2>1. CASE Legacy!Refused(c)
    BY <1>0, <1>b, <2>1
  <2>2. CASE ~Legacy!Refused(c)
    <3>1. Legacy!Written(c) /\
          \/ store' = [store EXCEPT !.task[c.id].status = "done"]
          \/ \E i : store' = [store EXCEPT !.task[c.id].status = "done",
                        !.item[i] = Legacy!New("document", store.task[c.id].folder, c.service)]
      BY <1>7, <2>2 DEF Legacy!ConfirmImport
    <3>2. /\ store'.service = store.service
          /\ store'.task = [store.task EXCEPT ![c.id] = Ended("done")]
          /\ \/ store'.item = store.item
             \/ \E i : store'.item = [store.item EXCEPT
                         ![i] = Legacy!New("document", store.task[c.id].folder, c.service)]
          /\ DOMAIN store' = DOMAIN store
      BY <1>0, <3>1 DEF LegacyTypedStore
    <3>3. \A x : DOMAIN Legacy!New("document", x, c.service) = LegacyRecordFields
      BY DEF Legacy!New, LegacyRecordFields
    <3>4. c.id \in Legacy!Tasks => DOMAIN Ended("done") = {"folder", "status"}
                              /\ Ended("done").status \in LegacyTaskStatuses
      BY <1>0 DEF LegacyTypedStore, LegacyTypedTasks, LegacyTaskStatuses
    <3> HIDE DEF Ended
    <3>5. LegacyTypedTasks(store'.task)
      BY <1>0, <3>2, <3>4 DEF LegacyTypedStore, LegacyTypedTasks
    <3>6. LegacyTypedItems(store'.item)
      BY <1>0, <3>2, <3>3 DEF LegacyTypedStore, LegacyTypedItems
    <3> QED
      BY <1>0, <1>a, <3>1, <3>2, <3>5, <3>6 DEF LegacyTypedStore
  <2> QED
    BY <2>1, <2>2
<1>8. CASE Legacy!CancelImport(c)
  <2>1. CASE Legacy!Refused(c)
    BY <1>0, <1>b, <2>1
  <2>2. CASE ~Legacy!Refused(c)
    <3>1. Legacy!Written(c) /\ store' = [store EXCEPT !.task[c.id] = Ended("cancelled")]
      BY <1>0, <1>8, <2>2 DEF Legacy!CancelImport, LegacyTypedStore, LegacyTypedTasks
    <3>2. c.id \in Legacy!Tasks => DOMAIN Ended("cancelled") = {"folder", "status"}
                              /\ Ended("cancelled").status \in LegacyTaskStatuses
      BY <1>0 DEF LegacyTypedStore, LegacyTypedTasks, LegacyTaskStatuses
    <3> HIDE DEF Ended
    <3> QED
      BY <1>0, <1>a, <3>1, <3>2, LegacyTypedTask
  <2> QED
    BY <2>1, <2>2
<1>9. CASE Legacy!DeleteImportTask(c)
  <2>1. CASE Legacy!Refused(c)
    BY <1>0, <1>b, <2>1
  <2>2. CASE ~Legacy!Refused(c)
    <3> DEFINE r == [store.task[c.id] EXCEPT !.folder = None]
    <3>1. Legacy!Written(c) /\ store' = [store EXCEPT !.task[c.id] = r]
      BY <1>0, <1>9, <2>2 DEF Legacy!DeleteImportTask, LegacyTypedStore, LegacyTypedTasks
    <3>2. c.id \in Legacy!Tasks => DOMAIN r = {"folder", "status"} /\ r.status \in LegacyTaskStatuses
      BY <1>0 DEF LegacyTypedStore, LegacyTypedTasks
    <3> HIDE DEF r
    <3> QED
      BY <1>0, <1>a, <3>1, <3>2, LegacyTypedTask
  <2> QED
    BY <2>1, <2>2
<1> QED
  BY <1>1, <1>2, <1>3, <1>4, <1>5, <1>6, <1>7, <1>8, <1>9
  DEF Legacy!Answered, Legacy!UpdateRunbook, Legacy!DeleteRunbook, Legacy!UpdateDocument, Legacy!DeleteDocument, c


LEMMA LegacyTypedPublished ==
  ASSUME NEW snapshot, "status" \in DOMAIN snapshot, NEW t, NEW f, NEW status
  PROVE  /\ "status" \in DOMAIN Legacy!Publish(snapshot, t, f, status)
         /\ Legacy!Publish(snapshot, t, f, status).status = snapshot.status
  BY DEF Legacy!Publish

LEMMA LegacyTypedSelectFolder ==
  ASSUME LegacyTypedPage(page), NEW f \in FoldersOf["knowledge"], Legacy!SelectFolder(f)
  PROVE  LegacyTypedPage(page') /\ store' = store
<1> DEFINE s == Legacy!Disowned(Legacy!Mute(Legacy!Released(page.streams)))
<1>1. s \in Seq(LegacyStreams)
  BY LegacyMutedIs, LegacyReleasedIs, LegacyDisownedIs DEF LegacyTypedPage
<1> HIDE DEF s
<1>2. /\ page' = [page EXCEPT !.folder = f, !.snapshot = [status |-> "loading"],
                    !.mutation = "idle", !.importing = FALSE, !.dialog = None, !.reading = 0,
                    !.streams = s]
      /\ store' = store
  BY DEF Legacy!SelectFolder, s
<1>3. "status" \in DOMAIN [status |-> "loading"]
  OBVIOUS
<1> QED
  BY <1>1, <1>2, <1>3 DEF LegacyTypedPage, LegacyPageFields

LEMMA LegacyTypedLoadAnswered ==
  ASSUME LegacyTypedPage(page), Legacy!LoadAnswered
  PROVE  LegacyTypedPage(page') /\ store' = store
<1> DEFINE c == Head(calls)
           d == [status |-> "success", data |-> Legacy!View(store, c.id)]
           p == IF c.fresh THEN [page EXCEPT !.snapshot = d] ELSE page
<1>1. "status" \in DOMAIN d /\ d.status = "success"
  OBVIOUS
<1>2. /\ \/ page' = [p EXCEPT !.mutation = "success"]
         \/ page' = [p EXCEPT !.mutation = "success", !.dialog = None]
         \/ page' = p
      /\ store' = store
  BY DEF Legacy!LoadAnswered
<1> HIDE DEF d
<1>3. LegacyTypedPage(p)
  BY <1>1 DEF LegacyTypedPage, LegacyPageFields
<1> HIDE DEF p
<1> QED
  BY <1>2, <1>3 DEF LegacyTypedPage, LegacyPageFields

LEMMA LegacyTypedResetMutation ==
  ASSUME LegacyTypedPage(page), Legacy!ResetMutation
  PROVE  LegacyTypedPage(page') /\ store' = store
<1> DEFINE s == Legacy!Mute(page.streams)
<1>1. s \in Seq(LegacyStreams) /\ (LegacyOwned(page.streams) => LegacyOwned(s))
  BY LegacyMutedIs DEF LegacyTypedPage
<1> HIDE DEF s
<1>2. page' = [page EXCEPT !.mutation = "idle", !.streams = s] /\ store' = store
  BY DEF Legacy!ResetMutation, s
<1> QED
  BY <1>1, <1>2 DEF LegacyTypedPage, LegacyPageFields

LEMMA LegacyTypedDialogs ==
  ASSUME LegacyTypedPage(page), Legacy!OpenDialog \/ Legacy!CloseDialog
  PROVE  LegacyTypedPage(page') /\ store' = store
<1>1. (\E d : page' = [page EXCEPT !.dialog = d]) /\ store' = store
  BY DEF Legacy!OpenDialog, Legacy!CloseDialog
<1> QED
  BY <1>1 DEF LegacyTypedPage, LegacyPageFields

LEMMA LegacyTypedBeginImport ==
  ASSUME LegacyTypedPage(page), Legacy!BeginImport
  PROVE  LegacyTypedPage(page') /\ store' = store
<1> DEFINE n == page.reading + 1
<1>1. page' = [page EXCEPT !.reading = n] /\ store' = store
  BY DEF Legacy!BeginImport, LegacyTypedPage, LegacyPageFields
<1> HIDE DEF n
<1> QED
  BY <1>1 DEF LegacyTypedPage, LegacyPageFields

LEMMA LegacyTypedStartImport ==
  ASSUME LegacyTyped, NEW t \in Legacy!Tasks, Legacy!StartImport(t)
  PROVE  LegacyTypedPage(page') /\ LegacyTypedStore(store')
<1> DEFINE e == [task |-> t, folder |-> page.folder, at |-> 10,
                 own |-> TRUE, live |-> TRUE, held |-> TRUE]
           q == page.streams
           s == [i \in DOMAIN q |-> [q[i] EXCEPT !.live = FALSE, !.own = FALSE, !.held = FALSE]]
           n == page.reading - 1
           d == Legacy!Publish(page.snapshot, t, page.folder, "parsing")
           r == [folder |-> page.folder, status |-> "parsing"]
<1>1. LegacyTypedPage(page) /\ LegacyTypedStore(store)
  BY DEF LegacyTyped
<1>2. Len(q) \in Nat /\ DOMAIN q = 1 .. Len(q) /\ \A i \in DOMAIN q : q[i] \in LegacyStreams
  <2>1. q \in Seq(LegacyStreams)
    BY <1>1 DEF LegacyTypedPage
  <2> HIDE DEF q
  <2> QED
    BY <2>1, LegacyIsSequence, Zenon
<1>3. \A i \in DOMAIN q : s[i] \in LegacyStreams
  BY <1>2 DEF LegacyStreams
<1>4. DOMAIN s = DOMAIN q /\ s = [i \in DOMAIN q |-> s[i]]
  OBVIOUS
<1>5. e \in LegacyStreams /\ e.own
  BY <1>1 DEF LegacyStreams, LegacyTypedPage
<1>6. page' = [page EXCEPT !.reading = n, !.importing = TRUE, !.mutation = "loading",
                 !.snapshot = d, !.streams = Append(s, e)]
  BY <1>1 DEF Legacy!StartImport, LegacyTypedPage, LegacyPageFields
<1>7. store' = [store EXCEPT !.task[t] = r]
  BY DEF Legacy!StartImport
<1>8. "status" \in DOMAIN d /\ d.status = page.snapshot.status
  BY <1>1, LegacyTypedPublished DEF LegacyTypedPage
<1>9. DOMAIN r = {"folder", "status"} /\ r.status \in LegacyTaskStatuses
  BY DEF LegacyTaskStatuses
<1> HIDE DEF e, s, n, d, r
<1>10. s \in [1 .. Len(q) -> LegacyStreams]
  BY <1>2, <1>3, <1>4, Zenon
<1>11. s \in Seq(LegacyStreams)
  BY <1>2, <1>10, LegacySequenceOf, Zenon
<1> DEFINE w == Append(s, e)
<1>12. w \in Seq(LegacyStreams) /\ LegacyOwned(w)
  <2>1. w \in Seq(LegacyStreams) /\ Len(s) + 1 \in DOMAIN w /\ w[Len(s) + 1] = e
    BY <1>5, <1>11, LegacyAppendedIs, Zenon
  <2> QED
    BY <1>5, <2>1 DEF LegacyOwned
<1> HIDE DEF w
<1>13. page' = [page EXCEPT !.reading = n, !.importing = TRUE, !.mutation = "loading",
                  !.snapshot = d, !.streams = w]
  BY <1>6 DEF w
<1>14. LegacyTypedPage(page')
  BY <1>1, <1>8, <1>12, <1>13 DEF LegacyTypedPage, LegacyPageFields
<1>15. LegacyTypedStore(store')
  BY <1>1, <1>7, <1>9, LegacyTypedTask
<1> QED
  BY <1>14, <1>15

LEMMA LegacyTypedNext45 ==
  ASSUME LegacyTyped, NEW i \in DOMAIN page.streams, Legacy!Next45(i)
  PROVE  LegacyTypedPage(page') /\ LegacyTypedStore(store')
<1> DEFINE q == page.streams
           s == [q EXCEPT ![i] = [q[i] EXCEPT !.at = 45]]
           r == [folder |-> page.streams[i].folder, status |-> "parsing"]
<1>1. LegacyTypedPage(page) /\ LegacyTypedStore(store)
  BY DEF LegacyTyped
<1>2. Len(q) \in Nat /\ DOMAIN q = 1 .. Len(q) /\ \A k \in DOMAIN q : q[k] \in LegacyStreams
  <2>1. q \in Seq(LegacyStreams)
    BY <1>1 DEF LegacyTypedPage
  <2> HIDE DEF q
  <2> QED
    BY <2>1, LegacyIsSequence, Zenon
<1>3. \A k \in DOMAIN q : s[k] \in LegacyStreams /\ s[k].own = q[k].own
  BY <1>2 DEF LegacyStreams
<1>4. DOMAIN s = DOMAIN q /\ s = [k \in DOMAIN q |-> s[k]]
  OBVIOUS
<1>5. page' = [page EXCEPT !.streams = s]
  BY <1>1 DEF Legacy!Next45, LegacyTypedPage, LegacyPageFields
<1>6. store' = [store EXCEPT !.task[page.streams[i].task] = r]
  BY DEF Legacy!Next45
<1>7. DOMAIN r = {"folder", "status"} /\ r.status \in LegacyTaskStatuses
  BY DEF LegacyTaskStatuses
<1>8. LegacyOwned(q) => LegacyOwned(s)
  BY <1>3, <1>4 DEF LegacyOwned
<1> HIDE DEF s, r
<1>9. s \in [1 .. Len(q) -> LegacyStreams]
  BY <1>2, <1>3, <1>4, Zenon
<1>10. s \in Seq(LegacyStreams)
  BY <1>2, <1>9, LegacySequenceOf, Zenon
<1>11. LegacyTypedPage(page')
  BY <1>1, <1>5, <1>8, <1>10 DEF LegacyTypedPage, LegacyPageFields
<1>12. LegacyTypedStore(store')
  BY <1>1, <1>6, <1>7, LegacyTypedTask
<1> QED
  BY <1>11, <1>12

LEMMA LegacyTypedReviewing ==
  ASSUME LegacyTyped, NEW i \in DOMAIN page.streams, Legacy!Reviewing(i)
  PROVE  LegacyTypedPage(page') /\ LegacyTypedStore(store')
<1> DEFINE s == page.streams[i]
           q == Legacy!Without(page.streams, i)
           d == IF s.own /\ s.live THEN Legacy!Publish(page.snapshot, s.task, s.folder, "reviewing")
                ELSE page.snapshot
           m == IF s.own /\ s.live THEN "success" ELSE page.mutation
           p == [page EXCEPT !.streams = q, !.snapshot = d, !.mutation = m]
           r == [folder |-> s.folder, status |-> "reviewing"]
<1>1. LegacyTypedPage(page) /\ LegacyTypedStore(store)
  BY DEF LegacyTyped
<1>2. /\ q \in Seq(LegacyStreams)
      /\ \A k \in DOMAIN page.streams \ {i} : \E j \in DOMAIN q : q[j] = page.streams[k]
  BY <1>1, LegacyWithoutIs DEF LegacyTypedPage
<1>3. "status" \in DOMAIN d /\ d.status = page.snapshot.status
  BY <1>1, LegacyTypedPublished DEF LegacyTypedPage
<1>4. m \in {"idle", "loading", "success", "error"}
  BY <1>1 DEF LegacyTypedPage
<1>5. page' = (IF s.own THEN [p EXCEPT !.importing = FALSE] ELSE p)
  BY <1>1 DEF Legacy!Reviewing, Legacy!Settle, LegacyTypedPage, LegacyPageFields
<1>6. store' = [store EXCEPT !.task[s.task] = r]
  BY DEF Legacy!Reviewing
<1>7. DOMAIN r = {"folder", "status"} /\ r.status \in LegacyTaskStatuses
  BY DEF LegacyTaskStatuses
<1>8. ~s.own /\ LegacyOwned(page.streams) => LegacyOwned(q)
  BY <1>2 DEF LegacyOwned
<1> HIDE DEF q, d, m, r
<1>9. LegacyTypedPage(page')
  BY <1>1, <1>2, <1>3, <1>4, <1>5, <1>8 DEF LegacyTypedPage, LegacyPageFields
<1>10. LegacyTypedStore(store')
  BY <1>1, <1>6, <1>7, LegacyTypedTask
<1> QED
  BY <1>9, <1>10

LEMMA LegacyTypedCancelTask ==
  ASSUME LegacyTypedPage(page), NEW t, Legacy!CancelTask(t)
  PROVE  LegacyTypedPage(page') /\ store' = store
<1> DEFINE s == Legacy!Disowned(Legacy!Released(page.streams))
           p == [page EXCEPT !.streams = s]
<1>1. s \in Seq(LegacyStreams)
  BY LegacyReleasedIs, LegacyDisownedIs DEF LegacyTypedPage
<1>2. Legacy!Mutate(p, Legacy!Call("cancel task", t, 0, None)) /\ ~page.importing
  BY DEF Legacy!CancelTask
<1> HIDE DEF s
<1>3. LegacyTypedPage(p)
  BY <1>1, <1>2 DEF LegacyTypedPage, LegacyPageFields
<1> HIDE DEF p
<1> QED
  BY <1>2, <1>3, LegacyTypedMutate

LEMMA LegacyTypedInit ==
  ASSUME Legacy!Parameters, Legacy!Init
  PROVE  LegacyTyped
<1>1. PICK f \in FoldersOf["knowledge"] :
        /\ page = [folder |-> f, snapshot |-> [status |-> "loading"], mutation |-> "idle",
                   importing |-> FALSE, dialog |-> None, reading |-> 0, streams |-> <<>>]
        /\ store = [service |-> [s \in Legacy!Services |->
                      IF s = 1 THEN Legacy!New("service", f, None) ELSE Legacy!Absent],
                    item |-> [i \in Legacy!Items |-> Legacy!Absent],
                    task |-> [t \in Legacy!Tasks |-> [folder |-> None, status |-> "none"]]]
  BY DEF Legacy!Init
<1>2. <<>> \in Seq(LegacyStreams)
  OBVIOUS
<1>3. LegacyTypedPage(page)
  BY <1>1, <1>2 DEF LegacyTypedPage, LegacyPageFields
<1>4. LegacyTypedServices(store.service)
  BY <1>1 DEF LegacyTypedServices, LegacyRecordFields, Legacy!New, Legacy!Absent
<1>5. LegacyTypedItems(store.item)
  BY <1>1 DEF LegacyTypedItems, LegacyRecordFields, Legacy!Absent
<1>6. LegacyTypedTasks(store.task)
  BY <1>1 DEF LegacyTypedTasks, LegacyTaskStatuses
<1>7. DOMAIN store = {"service", "item", "task"}
  BY <1>1
<1>8. LegacyWithinVersions
  BY <1>1 DEF LegacyWithinVersions, Legacy!New, Legacy!Absent, Legacy!Parameters
<1> QED
  BY <1>3, <1>4, <1>5, <1>6, <1>7, <1>8 DEF LegacyTyped, LegacyTypedStore

LEMMA LegacyTypedNext ==
  ASSUME LegacyTyped, [Legacy!Next]_Legacy!vars
  PROVE  LegacyTyped'
<1> USE DEF LegacyTyped
<1>0. LegacyTypedPage(page) /\ LegacyTypedStore(store) /\ LegacyWithinVersions
  OBVIOUS
<1> SUFFICES /\ LegacyTypedPage(page') /\ LegacyTypedStore(store')
             /\ LegacyWithinVersions'
  BY LegacyTypedBy
<1>a. store' = store => LegacyTypedStore(store') /\ LegacyWithinVersions'
  BY <1>0 DEF LegacyWithinVersions
<1>1. CASE UNCHANGED Legacy!vars
  BY <1>0, <1>1, <1>a DEF Legacy!vars
<1>2. CASE \E f \in FoldersOf["knowledge"] : Legacy!SelectFolder(f)
  BY <1>0, <1>2, <1>a, LegacyTypedSelectFolder
<1>3. CASE Legacy!LoadAnswered
  BY <1>0, <1>3, <1>a, LegacyTypedLoadAnswered
<1>4. CASE Legacy!ResetMutation
  BY <1>0, <1>4, <1>a, LegacyTypedResetMutation
<1>5. CASE Legacy!OpenDialog \/ Legacy!CloseDialog
  BY <1>0, <1>5, <1>a, LegacyTypedDialogs
<1>6. CASE Legacy!SubmitDialog
  BY <1>0, <1>6, <1>a, LegacyTypedMutate DEF Legacy!SubmitDialog
<1>7. CASE Legacy!Answered /\ Legacy!Bounded
  BY <1>0, <1>7, LegacyTypedAnswered DEF Legacy!Bounded, LegacyWithinVersions
<1>8. CASE Legacy!BeginImport
  BY <1>0, <1>8, <1>a, LegacyTypedBeginImport
<1>9. ASSUME NEW t \in Legacy!Tasks, Legacy!StartImport(t)
      PROVE  LegacyTypedPage(page') /\ LegacyTypedStore(store') /\ LegacyWithinVersions'
  <2>1. store'.service = store.service
    BY <1>0, <1>9 DEF Legacy!StartImport, LegacyTypedStore
  <2> QED
    BY <1>0, <1>9, <2>1, LegacyTypedStartImport DEF LegacyWithinVersions
<1>10. ASSUME NEW t \in Legacy!Tasks, Legacy!CancelTask(t)
       PROVE  LegacyTypedPage(page') /\ LegacyTypedStore(store') /\ LegacyWithinVersions'
  BY <1>0, <1>10, <1>a, LegacyTypedCancelTask
<1>11. ASSUME NEW t \in Legacy!Tasks, Legacy!DeleteTask(t)
       PROVE  LegacyTypedPage(page') /\ LegacyTypedStore(store') /\ LegacyWithinVersions'
  BY <1>0, <1>11, <1>a, LegacyTypedMutate DEF Legacy!DeleteTask
<1>12. ASSUME NEW i \in DOMAIN page.streams, Legacy!Next45(i)
       PROVE  LegacyTypedPage(page') /\ LegacyTypedStore(store') /\ LegacyWithinVersions'
  <2>1. store'.service = store.service
    BY <1>0, <1>12 DEF Legacy!Next45, LegacyTypedStore
  <2> QED
    BY <1>0, <1>12, <2>1, LegacyTypedNext45 DEF LegacyWithinVersions
<1>13. ASSUME NEW i \in DOMAIN page.streams, Legacy!Reviewing(i)
       PROVE  LegacyTypedPage(page') /\ LegacyTypedStore(store') /\ LegacyWithinVersions'
  <2>1. store'.service = store.service
    BY <1>0, <1>13 DEF Legacy!Reviewing, LegacyTypedStore
  <2> QED
    BY <1>0, <1>13, <2>1, LegacyTypedReviewing DEF LegacyWithinVersions
<1> QED
  BY <1>1, <1>2, <1>3, <1>4, <1>5, <1>6, <1>7, <1>8, <1>9, <1>10, <1>11, <1>12, <1>13
     DEF Legacy!Next


-----------------------------------------------------------------------------
(* What is under way before the first import: one write at most, and the   *)
(* snapshot that it or a change of the folder asks for.                    *)

LegacyReads == {"snapshot", "load", "load for dialog"}
LegacyServiceKinds == {"save service", "delete service"}
LegacyItemKinds == {"save runbook", "delete runbook", "save document", "delete document"}
LegacyNewKinds == {"create service", "create runbook"}
LegacyKinds == LegacyServiceKinds \cup LegacyItemKinds \cup LegacyNewKinds
LegacyCallFields == {"kind", "id", "version", "service", "live", "fresh"}

LegacyNoTasks == \A t \in Legacy!Tasks : store.task[t].status = "none"

LegacyIsThere(s) == s \in Legacy!Services /\ store.service[s].folder # None

\* A write goes through: its record is there in its version, and so is the service it names.
LegacyGoes(c) ==
  /\ DOMAIN c = LegacyCallFields /\ c.kind \in LegacyKinds
  /\ c.kind \in LegacyServiceKinds =>
       c.id \in Legacy!Services /\ Legacy!Fits(store.service[c.id], c)
  /\ c.kind \in LegacyItemKinds => c.id \in Legacy!Items /\ Legacy!Fits(store.item[c.id], c)
  /\ c.kind \in LegacyNewKinds => c.id \in FoldersOf["knowledge"]
  /\ c.service # None => LegacyIsThere(c.service)

\* The snapshot that will be shown.
LegacyAsks(r) ==
  /\ DOMAIN r = LegacyCallFields /\ r.fresh /\ r.id = page.folder
  /\ page.snapshot = [status |-> "loading"]

LegacyAsksFirst(r) ==
  /\ LegacyAsks(r) /\ r.kind = "snapshot"
  /\ page.dialog = None /\ page.mutation = "idle"

LegacyShowsStorage ==
  page.snapshot = [status |-> "success", data |-> Legacy!View(store, page.folder)]

\* No call; a write; the snapshot after it; the first snapshot of a folder; and that one behind a
\* call of the folder before.
LegacyQuiet ==
  /\ calls = <<>> /\ LegacyShowsStorage /\ page.mutation # "loading"
  /\ page.dialog # None => page.dialog.live /\ LegacyGoes(page.dialog)
LegacyWrites ==
  /\ calls = <<page.dialog>> /\ page.dialog # None
  /\ page.dialog.live /\ LegacyGoes(page.dialog)
  /\ LegacyShowsStorage /\ page.mutation = "loading"
LegacyRefreshes ==
  \E r : /\ calls = <<r>> /\ LegacyAsks(r) /\ r.kind = "load for dialog" /\ r.live
         /\ page.mutation = "loading"
LegacyOpens == \E r : calls = <<r>> /\ LegacyAsksFirst(r)
LegacyDropped(x) ==
  /\ DOMAIN x = LegacyCallFields /\ ~x.live
  /\ LegacyGoes(x) \/ (x.kind = "load for dialog" /\ ~x.fresh)
LegacyLeaves == \E x, r : calls = <<x, r>> /\ LegacyDropped(x) /\ LegacyAsksFirst(r)

LegacyPhase == LegacyQuiet \/ LegacyWrites \/ LegacyRefreshes \/ LegacyOpens \/ LegacyLeaves

LegacyLinked ==
  \A i \in Legacy!Items : store.item[i].service # None => LegacyIsThere(store.item[i].service)

LegacyAlone ==
  LegacyNoTasks =>
    /\ page.streams = <<>>
    /\ \A t \in Legacy!Tasks : store.task[t].folder = None
    /\ LegacyLinked /\ LegacyPhase

-----------------------------------------------------------------------------
(* Queues of one call and of two.                                          *)

LEMMA LegacySingle ==
  ASSUME NEW x
  PROVE  /\ Head(<<x>>) = x /\ Tail(<<x>>) = <<>> /\ <<x>> # <<>>
         /\ Append(<<>>, x) = <<x>>
<1>1. Tail(<<x>>) = <<>>
  OBVIOUS
<1>2. Append(<<>>, x) = <<x>>
  OBVIOUS
<1> QED
  BY <1>1, <1>2

LEMMA LegacyPair ==
  ASSUME NEW x, NEW y
  PROVE  /\ Head(<<x, y>>) = x /\ Tail(<<x, y>>) = <<y>> /\ <<x, y>> # <<>>
         /\ Append(<<x>>, y) = <<x, y>>
<1>1. Head(<<x, y>>) = x /\ <<x, y>> # <<>>
  OBVIOUS
<1>2. Tail(<<x, y>>) = <<y>>
  OBVIOUS
<1>3. Append(<<x>>, y) = <<x, y>>
  <2>1. <<x>> \in Seq({x, y}) /\ Len(<<x>>) = 1
    OBVIOUS
  <2> DEFINE s == Append(<<x>>, y)
  <2>2. s \in Seq({x, y}) /\ Len(s) = 2 /\ s[1] = x /\ s[2] = y
    BY <2>1
  <2> HIDE DEF s
  <2>3. DOMAIN s = 1 .. 2 /\ s = [i \in 1 .. 2 |-> s[i]]
    BY <2>2
  <2>4. s = [i \in 1 .. 2 |-> <<x, y>>[i]]
    BY <2>2, <2>3
  <2>5. <<x, y>> = [i \in 1 .. 2 |-> <<x, y>>[i]]
    OBVIOUS
  <2> QED
    BY <2>4, <2>5 DEF s
<1> QED
  BY <1>1, <1>2, <1>3

LEMMA LegacyEmptyQueue ==
  Legacy!Dead(<<>>) = <<>> /\ Legacy!Stale(<<>>) = <<>> /\ Legacy!Aborted(<<>>) = <<>>
<1>1. Legacy!Dead(<<>>) = <<>>
  BY DEF Legacy!Dead
<1>2. Legacy!Stale(<<>>) = <<>>
  BY DEF Legacy!Stale
<1>3. Legacy!Aborted(<<>>) = <<>>
  BY DEF Legacy!Aborted
<1> QED
  BY <1>1, <1>2, <1>3

LEMMA LegacyMarkedSingle ==
  ASSUME NEW x
  PROVE  /\ Legacy!Dead(<<x>>) = <<[x EXCEPT !.live = FALSE]>>
         /\ Legacy!Stale(<<x>>) = <<[x EXCEPT !.fresh = FALSE]>>
<1>1. Legacy!Dead(<<x>>) = <<[x EXCEPT !.live = FALSE]>>
  <2> DEFINE y == [x EXCEPT !.live = FALSE]
  <2>1. DOMAIN <<x>> = 1 .. 1 /\ <<x>>[1] = x
    OBVIOUS
  <2>2. \A i \in 1 .. 1 : [<<x>>[i] EXCEPT !.live = FALSE] = y
    <3> SUFFICES ASSUME NEW i \in 1 .. 1 PROVE [<<x>>[i] EXCEPT !.live = FALSE] = y
      OBVIOUS
    <3>1. i = 1
      OBVIOUS
    <3>2. <<x>>[i] = x
      BY <2>1, <3>1
    <3> QED
      BY <3>2
  <2> HIDE DEF y
  <2>4. Legacy!Dead(<<x>>) = [i \in 1 .. 1 |-> y]
    BY <2>1, <2>2 DEF Legacy!Dead
  <2>3. <<y>> = [i \in 1 .. 1 |-> y]
    OBVIOUS
  <2> QED
    BY <2>3, <2>4 DEF y
<1>2. Legacy!Stale(<<x>>) = <<[x EXCEPT !.fresh = FALSE]>>
  <2> DEFINE y == [x EXCEPT !.fresh = FALSE]
  <2>1. DOMAIN <<x>> = 1 .. 1 /\ <<x>>[1] = x
    OBVIOUS
  <2>2. \A i \in 1 .. 1 : [<<x>>[i] EXCEPT !.fresh = FALSE] = y
    <3> SUFFICES ASSUME NEW i \in 1 .. 1 PROVE [<<x>>[i] EXCEPT !.fresh = FALSE] = y
      OBVIOUS
    <3>1. i = 1
      OBVIOUS
    <3>2. <<x>>[i] = x
      BY <2>1, <3>1
    <3> QED
      BY <3>2
  <2> HIDE DEF y
  <2>4. Legacy!Stale(<<x>>) = [i \in 1 .. 1 |-> y]
    BY <2>1, <2>2 DEF Legacy!Stale
  <2>3. <<y>> = [i \in 1 .. 1 |-> y]
    OBVIOUS
  <2> QED
    BY <2>3, <2>4 DEF y
<1> QED
  BY <1>1, <1>2

LEMMA LegacyAbortedSingle ==
  ASSUME NEW x
  PROVE  /\ x.kind = "snapshot" => Legacy!Aborted(<<x>>) = <<>>
         /\ x.kind # "snapshot" => Legacy!Aborted(<<x>>) = <<x>>
<1> DEFINE at(q) == {i \in DOMAIN q : q[i].kind = "snapshot"}
<1>1. ASSUME x.kind # "snapshot" PROVE Legacy!Aborted(<<x>>) = <<x>>
  <2>1. at(<<x>>) = {}
    BY <1>1
  <2> QED
    BY <2>1 DEF Legacy!Aborted
<1>2. ASSUME x.kind = "snapshot" PROVE Legacy!Aborted(<<x>>) = <<>>
  <2>1. at(<<x>>) = {1}
    BY <1>2
  <2>2. (CHOOSE i \in {1} : TRUE) = 1
    OBVIOUS
  <2>3. Legacy!Aborted(<<x>>) = Legacy!Without(<<x>>, 1)
    BY <2>1, <2>2 DEF Legacy!Aborted
  <2> QED
    BY <2>3 DEF Legacy!Without
<1> QED
  BY <1>1, <1>2

LEMMA LegacyAbortedPair ==
  ASSUME NEW x, NEW y, x.kind # "snapshot", y.kind = "snapshot"
  PROVE  Legacy!Aborted(<<x, y>>) = <<x>>
<1> DEFINE at(q) == {i \in DOMAIN q : q[i].kind = "snapshot"}
<1>1. at(<<x, y>>) = {2}
  OBVIOUS
<1>2. (CHOOSE i \in {2} : TRUE) = 2
  OBVIOUS
<1>3. Legacy!Aborted(<<x, y>>) = Legacy!Without(<<x, y>>, 2)
  BY <1>1, <1>2 DEF Legacy!Aborted
<1> QED
  BY <1>3 DEF Legacy!Without


LEMMA LegacyNoStreams ==
  /\ Legacy!Mute(<<>>) = <<>>
  /\ Legacy!Disowned(Legacy!Mute(Legacy!Released(<<>>))) = <<>>
<1>1. Legacy!Mute(<<>>) = <<>>
  BY DEF Legacy!Mute
<1>2. Legacy!Disowned(<<>>) = <<>>
  BY DEF Legacy!Disowned
<1>3. Legacy!Released(<<>>) = <<>>
  BY DEF Legacy!Released
<1> QED
  BY <1>1, <1>2, <1>3

LEMMA LegacyCallIs ==
  ASSUME NEW kind, NEW id, NEW version, NEW service
  PROVE  /\ DOMAIN Legacy!Call(kind, id, version, service) = LegacyCallFields
         /\ Legacy!Call(kind, id, version, service).kind = kind
         /\ Legacy!Call(kind, id, version, service).id = id
         /\ Legacy!Call(kind, id, version, service).version = version
         /\ Legacy!Call(kind, id, version, service).service = service
         /\ Legacy!Call(kind, id, version, service).live
         /\ Legacy!Call(kind, id, version, service).fresh
  BY DEF Legacy!Call, LegacyCallFields

-----------------------------------------------------------------------------
(* The steps that leave the storage alone.                                 *)

LEMMA LegacyAloneBy ==
  ASSUME LegacyAlone, store' = store,
         page.streams = <<>> /\ LegacyNoTasks /\ LegacyLinked
         /\ (\A t \in Legacy!Tasks : store.task[t].folder = None) /\ LegacyPhase
           => page'.streams = <<>> /\ LegacyPhase'
  PROVE  LegacyAlone'
  BY DEF LegacyAlone, LegacyNoTasks, LegacyLinked, LegacyIsThere

LEMMA LegacyGoesOn ==
  ASSUME store' = store, NEW c, LegacyGoes(c)
  PROVE  LegacyGoes(c)'
  BY DEF LegacyGoes, LegacyIsThere

\* A call that a change of the folder leaves behind.
LEMMA LegacyDroppedIs ==
  ASSUME NEW x, DOMAIN x = LegacyCallFields, LegacyGoes(x) \/ x.kind = "load for dialog"
  PROVE  LegacyDropped([[x EXCEPT !.fresh = FALSE] EXCEPT !.live = FALSE])
<1> DEFINE y == [[x EXCEPT !.fresh = FALSE] EXCEPT !.live = FALSE]
<1>1. /\ DOMAIN y = LegacyCallFields /\ ~y.live /\ ~y.fresh /\ y.kind = x.kind /\ y.id = x.id
      /\ y.version = x.version /\ y.service = x.service
  BY DEF LegacyCallFields
<1> HIDE DEF y
<1>2. LegacyGoes(x) => LegacyGoes(y)
  BY <1>1 DEF LegacyGoes, Legacy!Fits
<1> QED
  BY <1>1, <1>2 DEF LegacyDropped, y

LEMMA LegacyDroppedOn ==
  ASSUME store' = store, NEW x, LegacyDropped(x)
  PROVE  LegacyDropped(x)'
  BY LegacyGoesOn DEF LegacyDropped

LEMMA LegacyAloneSelectFolder ==
  ASSUME LegacyTyped, LegacyAlone, NEW f \in FoldersOf["knowledge"], Legacy!SelectFolder(f)
  PROVE  LegacyAlone'
<1> SUFFICES ASSUME page.streams = <<>>, LegacyPhase
             PROVE  page'.streams = <<>> /\ LegacyPhase'
  BY LegacyAloneBy DEF Legacy!SelectFolder
<1> DEFINE c == Legacy!Call("snapshot", f, 0, None)
           marked(x) == [[x EXCEPT !.fresh = FALSE] EXCEPT !.live = FALSE]
<1>1. /\ page'.streams = <<>> /\ page'.folder = f /\ page'.snapshot = [status |-> "loading"]
      /\ page'.dialog = None /\ page'.mutation = "idle" /\ store' = store
  BY LegacyNoStreams DEF Legacy!SelectFolder, LegacyTyped, LegacyTypedPage, LegacyPageFields
<1>2. calls' = Append(Legacy!Dead(Legacy!Stale(Legacy!Aborted(calls))), c)
  BY DEF Legacy!SelectFolder
<1>3. DOMAIN c = LegacyCallFields /\ c.kind = "snapshot" /\ c.id = f /\ c.fresh
  BY LegacyCallIs
<1> HIDE DEF c
<1>4. LegacyAsksFirst(c)'
  BY <1>1, <1>3 DEF LegacyAsksFirst, LegacyAsks
<1>5. ASSUME Legacy!Aborted(calls) = <<>> PROVE LegacyPhase'
  <2>1. calls' = <<c>>
    BY <1>2, <1>5, LegacyEmptyQueue, LegacySingle
  <2> QED
    BY <1>4, <2>1 DEF LegacyPhase, LegacyOpens
<1>6. ASSUME NEW x, Legacy!Aborted(calls) = <<x>>, DOMAIN x = LegacyCallFields,
             LegacyGoes(x) \/ x.kind = "load for dialog"
      PROVE  LegacyPhase'
  <2> DEFINE y == marked(x)
  <2>1. LegacyDropped(y)'
    <3>1. LegacyDropped(y)
      BY <1>6, LegacyDroppedIs
    <3> HIDE DEF y
    <3> QED
      BY <1>1, <3>1, LegacyDroppedOn
  <2>2. Legacy!Dead(Legacy!Stale(<<x>>)) = <<y>>
    BY LegacyMarkedSingle
  <2> HIDE DEF y
  <2>3. calls' = <<y, c>>
    BY <1>2, <1>6, <2>2, LegacyPair
  <2> QED
    BY <1>4, <2>1, <2>3 DEF LegacyPhase, LegacyLeaves
<1>7. CASE LegacyQuiet
  BY <1>1, <1>5, <1>7, LegacyEmptyQueue DEF LegacyQuiet
<1>8. CASE LegacyWrites
  <2> DEFINE w == page.dialog
  <2>1. calls = <<w>> /\ DOMAIN w = LegacyCallFields /\ w.kind \in LegacyKinds /\ LegacyGoes(w)
    BY <1>8 DEF LegacyWrites, LegacyGoes
  <2>2. w.kind # "snapshot"
    BY <2>1 DEF LegacyKinds, LegacyServiceKinds, LegacyItemKinds, LegacyNewKinds
  <2> QED
    BY <1>1, <1>6, <2>1, <2>2, LegacyAbortedSingle
<1>9. CASE LegacyRefreshes
  <2>1. PICK r : calls = <<r>> /\ DOMAIN r = LegacyCallFields /\ r.kind = "load for dialog"
    BY <1>9 DEF LegacyRefreshes, LegacyAsks
  <2> QED
    BY <1>1, <1>6, <2>1, LegacyAbortedSingle
<1>10. CASE LegacyOpens
  <2>1. PICK r : calls = <<r>> /\ r.kind = "snapshot"
    BY <1>10 DEF LegacyOpens, LegacyAsksFirst
  <2> QED
    BY <1>1, <1>5, <2>1, LegacyAbortedSingle
<1>11. CASE LegacyLeaves
  <2>1. PICK x, r : /\ calls = <<x, r>> /\ r.kind = "snapshot" /\ DOMAIN x = LegacyCallFields
                    /\ LegacyGoes(x) \/ x.kind = "load for dialog"
    BY <1>11 DEF LegacyLeaves, LegacyAsksFirst, LegacyDropped
  <2>2. x.kind # "snapshot"
    BY <2>1 DEF LegacyGoes, LegacyKinds, LegacyServiceKinds, LegacyItemKinds, LegacyNewKinds
  <2> QED
    BY <1>1, <1>6, <2>1, <2>2, LegacyAbortedPair
<1> QED
  BY <1>1, <1>7, <1>8, <1>9, <1>10, <1>11 DEF LegacyPhase

LEMMA LegacyAloneResetMutation ==
  ASSUME LegacyTyped, LegacyAlone, Legacy!ResetMutation
  PROVE  LegacyAlone'
<1> SUFFICES ASSUME page.streams = <<>>, LegacyPhase
             PROVE  page'.streams = <<>> /\ LegacyPhase'
  BY LegacyAloneBy DEF Legacy!ResetMutation
<1>1. /\ page.mutation = "error" /\ page'.streams = <<>> /\ page'.folder = page.folder
      /\ page'.snapshot = page.snapshot /\ page'.dialog = page.dialog
      /\ page'.mutation = "idle" /\ store' = store /\ calls' = Legacy!Dead(calls)
  BY LegacyNoStreams DEF Legacy!ResetMutation, LegacyTyped, LegacyTypedPage, LegacyPageFields
<1>2. LegacyQuiet
  BY <1>1 DEF LegacyPhase, LegacyWrites, LegacyRefreshes, LegacyOpens, LegacyLeaves, LegacyAsksFirst
<1>3. calls' = <<>>
  BY <1>1, <1>2, LegacyEmptyQueue DEF LegacyQuiet
<1>4. PICK d : d = page.dialog
  OBVIOUS
<1>5. d # None => d.live /\ LegacyGoes(d)'
  BY <1>1, <1>2, <1>4, LegacyGoesOn DEF LegacyQuiet
<1> QED
  BY <1>1, <1>2, <1>3, <1>4, <1>5 DEF LegacyQuiet, LegacyShowsStorage, LegacyPhase

LEMMA LegacyAloneCloseDialog ==
  ASSUME LegacyTyped, LegacyAlone, Legacy!CloseDialog
  PROVE  LegacyAlone'
<1> SUFFICES ASSUME page.streams = <<>>, LegacyPhase
             PROVE  page'.streams = <<>> /\ LegacyPhase'
  BY LegacyAloneBy DEF Legacy!CloseDialog
<1>1. /\ page.dialog # None /\ page.mutation # "loading" /\ page'.streams = <<>>
      /\ page'.folder = page.folder
      /\ page'.snapshot = page.snapshot /\ page'.dialog = None
      /\ page'.mutation = page.mutation /\ store' = store /\ calls' = calls
  BY DEF Legacy!CloseDialog, LegacyTyped, LegacyTypedPage, LegacyPageFields
<1>2. LegacyQuiet
  BY <1>1 DEF LegacyPhase, LegacyWrites, LegacyRefreshes, LegacyOpens, LegacyLeaves, LegacyAsksFirst
<1> QED
  BY <1>1, <1>2 DEF LegacyQuiet, LegacyShowsStorage, LegacyPhase

LEMMA LegacyAloneSubmitDialog ==
  ASSUME LegacyTyped, LegacyAlone, Legacy!SubmitDialog
  PROVE  LegacyAlone'
<1> SUFFICES ASSUME page.streams = <<>>, LegacyPhase
             PROVE  page'.streams = <<>> /\ LegacyPhase'
  BY LegacyAloneBy DEF Legacy!SubmitDialog, Legacy!Mutate
<1>1. /\ page.dialog # None /\ page.mutation # "loading" /\ page'.streams = <<>>
      /\ page'.folder = page.folder
      /\ page'.snapshot = page.snapshot /\ page'.dialog = page.dialog
      /\ page'.mutation = "loading" /\ store' = store
      /\ calls' = Append(Legacy!Dead(calls), page.dialog)
  BY LegacyNoStreams DEF Legacy!SubmitDialog, Legacy!Mutate, LegacyTyped, LegacyTypedPage,
         LegacyPageFields
<1>2. LegacyQuiet
  BY <1>1 DEF LegacyPhase, LegacyWrites, LegacyRefreshes, LegacyOpens, LegacyLeaves, LegacyAsksFirst
<1>3. calls' = <<page.dialog>>
  BY <1>1, <1>2, LegacyEmptyQueue, LegacySingle DEF LegacyQuiet
<1>4. PICK d : d = page.dialog
  OBVIOUS
<1>7. d # None /\ d.live /\ LegacyGoes(d)'
  BY <1>1, <1>2, <1>4, LegacyGoesOn DEF LegacyQuiet
<1>5. LegacyShowsStorage'
  BY <1>1, <1>2 DEF LegacyQuiet, LegacyShowsStorage
<1>6. calls' = <<page'.dialog>>
  BY <1>1, <1>3
<1> QED
  BY <1>1, <1>4, <1>5, <1>6, <1>7 DEF LegacyWrites, LegacyPhase

\* What a dialog can be opened on: the records of the folder, which are there as they are shown.
LEMMA LegacyDialogGoes ==
  ASSUME LegacyTyped, Legacy!Parameters, LegacyShowsStorage, \A t \in Legacy!Tasks : store.task[t].folder = None,
         NEW service \in {None} \cup {s.id : s \in Legacy!Shown.service},
         NEW d \in Legacy!ServiceDialogs \cup Legacy!RunbookDialogs(service)
                   \cup Legacy!DocumentDialogs(service) \cup Legacy!ReviewDialogs(service)
  PROVE  d.live /\ LegacyGoes(d)
<1> DEFINE f == page.folder
<1>1. Legacy!Shown = Legacy!View(store, f) /\ f \in FoldersOf["knowledge"] /\ f # None
  BY DEF LegacyShowsStorage, Legacy!Shown, LegacyTyped, LegacyTypedPage, Legacy!Parameters
<1>2. Legacy!Shown.service = {[id |-> s, version |-> store.service[s].version] :
                           s \in {s \in Legacy!Services : store.service[s].folder = f}}
  BY <1>1 DEF Legacy!View
<1>3. Legacy!Shown.item = {[id |-> i, version |-> store.item[i].version, is |-> store.item[i].is] :
                        i \in {i \in Legacy!Items : store.item[i].folder = f}}
  BY <1>1 DEF Legacy!View
<1>4. DOMAIN Legacy!Shown.task = {}
  <2>1. DOMAIN Legacy!Shown.task = {t \in Legacy!Tasks : store.task[t].folder = f}
    BY <1>1 DEF Legacy!View
  <2> QED
    BY <1>1, <2>1
<1>5. \A r \in Legacy!Shown.service : /\ r.id \in Legacy!Services /\ store.service[r.id].folder = f
                                 /\ store.service[r.id].version = r.version
  BY <1>2
<1>6. \A r \in Legacy!Shown.item : /\ r.id \in Legacy!Items /\ store.item[r.id].folder = f
                              /\ store.item[r.id].version = r.version
  BY <1>3
<1> HIDE DEF f
<1>7. service # None => LegacyIsThere(service)
  BY <1>1, <1>5 DEF LegacyIsThere
<1>8. Legacy!Absent.folder = None
  BY DEF Legacy!Absent
<1>9. ASSUME NEW kind, NEW id, NEW version, NEW s, d = Legacy!Call(kind, id, version, s),
             kind \in LegacyKinds,
             kind \in LegacyServiceKinds => Legacy!Fits(store.service[id], d) /\ id \in Legacy!Services,
             kind \in LegacyItemKinds => Legacy!Fits(store.item[id], d) /\ id \in Legacy!Items,
             kind \in LegacyNewKinds => id \in FoldersOf["knowledge"],
             s # None => LegacyIsThere(s)
      PROVE  d.live /\ LegacyGoes(d)
  <2>1. DOMAIN d = LegacyCallFields /\ d.kind = kind /\ d.id = id /\ d.service = s /\ d.live
    BY <1>9, LegacyCallIs
  <2> QED
    BY <1>9, <2>1 DEF LegacyGoes
<1>10. ASSUME NEW kind \in LegacyServiceKinds, d \in Legacy!DialogsOn(kind, Legacy!Shown.service, None)
       PROVE  d.live /\ LegacyGoes(d)
  <2>1. PICK r \in Legacy!Shown.service : d = Legacy!Call(kind, r.id, r.version, None)
    BY <1>10 DEF Legacy!DialogsOn
  <2>2. d.version = r.version
    <3>1. Legacy!Call(kind, r.id, r.version, None).version = r.version
      BY DEF Legacy!Call
    <3> QED
      BY <2>1, <3>1
  <2>3. r.id \in Legacy!Services /\ Legacy!Fits(store.service[r.id], d)
    BY <1>1, <1>5, <1>8, <2>2 DEF Legacy!Fits
  <2> QED
    BY <1>9, <1>10, <2>1, <2>3 DEF LegacyKinds, LegacyServiceKinds, LegacyItemKinds, LegacyNewKinds
<1>11. ASSUME NEW kind \in LegacyItemKinds, NEW S, S \subseteq Legacy!Shown.item,
              d \in Legacy!DialogsOn(kind, S, service)
       PROVE  d.live /\ LegacyGoes(d)
  <2>1. PICK r \in S : d = Legacy!Call(kind, r.id, r.version, service)
    BY <1>11 DEF Legacy!DialogsOn
  <2>2. d.version = r.version
    <3>1. Legacy!Call(kind, r.id, r.version, service).version = r.version
      BY DEF Legacy!Call
    <3> QED
      BY <2>1, <3>1
  <2>3. r \in Legacy!Shown.item
    BY <1>11
  <2>4. r.id \in Legacy!Items /\ Legacy!Fits(store.item[r.id], d)
    BY <1>1, <1>6, <1>8, <2>2, <2>3 DEF Legacy!Fits
  <2> QED
    BY <1>7, <1>9, <1>11, <2>1, <2>4 DEF LegacyKinds, LegacyServiceKinds, LegacyItemKinds,
           LegacyNewKinds
<1>12. CASE d \in Legacy!ServiceDialogs
  <2>1. CASE d = Legacy!Call("create service", f, 0, None)
    BY <1>1, <1>9, <2>1 DEF LegacyKinds, LegacyServiceKinds, LegacyItemKinds, LegacyNewKinds
  <2>2. "save service" \in LegacyServiceKinds /\ "delete service" \in LegacyServiceKinds
    BY DEF LegacyServiceKinds
  <2> QED
    BY <1>10, <1>12, <2>1, <2>2 DEF Legacy!ServiceDialogs, f
<1> DEFINE things(is) == {i \in Legacy!Shown.item : i.is = is}
<1>15. \A is : things(is) \subseteq Legacy!Shown.item
  OBVIOUS
<1>16. \A kind \in LegacyItemKinds : \A is :
         d \in Legacy!DialogsOn(kind, things(is), service) => d.live /\ LegacyGoes(d)
  BY <1>11, <1>15
<1>17. /\ "save runbook" \in LegacyItemKinds /\ "delete runbook" \in LegacyItemKinds
       /\ "save document" \in LegacyItemKinds /\ "delete document" \in LegacyItemKinds
  BY DEF LegacyItemKinds
<1>13. CASE d \in Legacy!RunbookDialogs(service) \cup Legacy!DocumentDialogs(service)
  <2>1. CASE d = Legacy!Call("create runbook", f, 0, service)
    BY <1>1, <1>7, <1>9, <2>1 DEF LegacyKinds, LegacyServiceKinds, LegacyItemKinds, LegacyNewKinds
  <2>2. \/ d = Legacy!Call("create runbook", f, 0, service)
        \/ d \in Legacy!DialogsOn("save runbook", things("runbook"), service)
        \/ d \in Legacy!DialogsOn("delete runbook", things("runbook"), service)
        \/ d \in Legacy!DialogsOn("save document", things("document"), service)
        \/ d \in Legacy!DialogsOn("delete document", things("document"), service)
    BY <1>13 DEF Legacy!RunbookDialogs, Legacy!DocumentDialogs, f
  <2> HIDE DEF things
  <2> QED
    BY <1>16, <1>17, <2>1, <2>2
<1>14. d \notin Legacy!ReviewDialogs(service)
  BY <1>4 DEF Legacy!ReviewDialogs
<1> QED
  BY <1>12, <1>13, <1>14

LEMMA LegacyQuietIf ==
  ASSUME LegacyPhase, page.dialog = None, page.snapshot.status = "success"
  PROVE  LegacyQuiet
<1>1. ~LegacyWrites
  BY DEF LegacyWrites
<1>2. page.snapshot # [status |-> "loading"]
  OBVIOUS
<1>3. ~LegacyRefreshes /\ ~LegacyOpens /\ ~LegacyLeaves
  BY <1>2 DEF LegacyRefreshes, LegacyOpens, LegacyLeaves, LegacyAsksFirst, LegacyAsks
<1> QED
  BY <1>1, <1>3 DEF LegacyPhase

LEMMA LegacyAloneOpenDialog ==
  ASSUME LegacyTyped, LegacyAlone, Legacy!Parameters, Legacy!OpenDialog
  PROVE  LegacyAlone'
<1> SUFFICES ASSUME page.streams = <<>>, LegacyPhase, \A t \in Legacy!Tasks : store.task[t].folder = None
             PROVE  page'.streams = <<>> /\ LegacyPhase'
  BY LegacyAloneBy DEF Legacy!OpenDialog
<1>1. PICK service \in {None} \cup {s.id : s \in Legacy!Shown.service} :
        \E d \in Legacy!ServiceDialogs \cup Legacy!RunbookDialogs(service) \cup Legacy!DocumentDialogs(service)
                 \cup Legacy!ReviewDialogs(service) :
          page' = [page EXCEPT !.dialog = d]
  BY DEF Legacy!OpenDialog
<1>2. PICK d \in Legacy!ServiceDialogs \cup Legacy!RunbookDialogs(service) \cup Legacy!DocumentDialogs(service)
                 \cup Legacy!ReviewDialogs(service) :
        page' = [page EXCEPT !.dialog = d]
  BY <1>1
<1>3. /\ page.dialog = None /\ page.snapshot.status = "success" /\ calls' = calls /\ store' = store
  BY DEF Legacy!OpenDialog, Legacy!Showing
<1>4. LegacyQuiet
  BY <1>3, LegacyQuietIf
<1>5. d.live /\ LegacyGoes(d)
  BY <1>4, LegacyDialogGoes DEF LegacyQuiet
<1>6. LegacyGoes(d)'
  BY <1>3, <1>5, LegacyGoesOn
<1>7. /\ page'.streams = <<>> /\ page'.folder = page.folder /\ page'.snapshot = page.snapshot
      /\ page'.mutation = page.mutation /\ page'.dialog = d
  BY <1>2 DEF LegacyTyped, LegacyTypedPage, LegacyPageFields
<1> QED
  BY <1>3, <1>4, <1>5, <1>6, <1>7 DEF LegacyQuiet, LegacyShowsStorage, LegacyPhase

LEMMA LegacyAloneBeginImport ==
  ASSUME LegacyTyped, LegacyAlone, Legacy!BeginImport
  PROVE  LegacyAlone'
<1> SUFFICES ASSUME page.streams = <<>>, LegacyPhase
             PROVE  page'.streams = <<>> /\ LegacyPhase'
  BY LegacyAloneBy DEF Legacy!BeginImport
<1> DEFINE n == page.reading + 1
<1>1. page' = [page EXCEPT !.reading = n]
  BY DEF Legacy!BeginImport, LegacyTyped, LegacyTypedPage, LegacyPageFields
<1> HIDE DEF n
<1>2. /\ page.dialog = None /\ page.snapshot.status = "success" /\ calls' = calls /\ store' = store
  BY DEF Legacy!BeginImport, Legacy!Showing
<1>3. LegacyQuiet
  BY <1>2, LegacyQuietIf
<1>4. /\ page'.streams = <<>> /\ page'.folder = page.folder /\ page'.snapshot = page.snapshot
      /\ page'.mutation = page.mutation /\ page'.dialog = None
  BY <1>1, <1>2 DEF LegacyTyped, LegacyTypedPage, LegacyPageFields
<1> QED
  BY <1>2, <1>3, <1>4 DEF LegacyQuiet, LegacyShowsStorage, LegacyPhase

LEMMA LegacyAloneLoadAnswered ==
  ASSUME LegacyTyped, LegacyAlone, Legacy!LoadAnswered
  PROVE  LegacyAlone'
<1> SUFFICES ASSUME page.streams = <<>>, LegacyPhase
             PROVE  page'.streams = <<>> /\ LegacyPhase'
  BY LegacyAloneBy DEF Legacy!LoadAnswered
<1>0. DOMAIN page = LegacyPageFields /\ store' = store /\ calls' = Tail(calls)
      /\ calls # <<>> /\ Head(calls).kind \in LegacyReads
  BY DEF Legacy!LoadAnswered, LegacyTyped, LegacyTypedPage, LegacyReads
<1>1. ~LegacyQuiet
  BY <1>0 DEF LegacyQuiet
<1>2. ~LegacyWrites
  <2> SUFFICES ASSUME LegacyWrites PROVE FALSE
    OBVIOUS
  <2>1. Head(calls) = page.dialog
    BY LegacySingle DEF LegacyWrites
  <2> QED
    BY <1>0, <2>1 DEF LegacyWrites, LegacyGoes, LegacyKinds, LegacyServiceKinds, LegacyItemKinds,
           LegacyNewKinds, LegacyReads
<1>3. CASE LegacyRefreshes
  <2>1. PICK r : /\ calls = <<r>> /\ r.fresh /\ r.live /\ r.id = page.folder
                 /\ r.kind = "load for dialog"
    BY <1>3 DEF LegacyRefreshes, LegacyAsks
  <2> DEFINE d == [status |-> "success", data |-> Legacy!View(store, page.folder)]
  <2>2. Head(calls) = r /\ calls' = <<>>
    BY <1>0, <2>1, LegacySingle, LegacyPair
  <2>3. page' = [[page EXCEPT !.snapshot = d] EXCEPT !.mutation = "success", !.dialog = None]
    BY <2>1, <2>2 DEF Legacy!LoadAnswered
  <2> HIDE DEF d
  <2>4. /\ page'.streams = <<>> /\ page'.folder = page.folder /\ page'.snapshot = d
        /\ page'.mutation = "success" /\ page'.dialog = None
    BY <1>0, <2>3 DEF LegacyPageFields
  <2> QED
    BY <1>0, <2>2, <2>4 DEF LegacyQuiet, LegacyShowsStorage, LegacyPhase, d
<1>4. CASE LegacyOpens
  <2>1. PICK r : /\ calls = <<r>> /\ r.fresh /\ r.id = page.folder /\ r.kind = "snapshot"
                 /\ page.dialog = None /\ page.mutation = "idle"
    BY <1>4 DEF LegacyOpens, LegacyAsksFirst, LegacyAsks
  <2> DEFINE d == [status |-> "success", data |-> Legacy!View(store, page.folder)]
  <2>2. Head(calls) = r /\ calls' = <<>>
    BY <1>0, <2>1, LegacySingle, LegacyPair
  <2>3. page' = [page EXCEPT !.snapshot = d]
    BY <2>1, <2>2 DEF Legacy!LoadAnswered
  <2> HIDE DEF d
  <2>4. /\ page'.streams = <<>> /\ page'.folder = page.folder /\ page'.snapshot = d
        /\ page'.mutation = "idle" /\ page'.dialog = None
    BY <1>0, <2>1, <2>3 DEF LegacyPageFields
  <2> QED
    BY <1>0, <2>2, <2>4 DEF LegacyQuiet, LegacyShowsStorage, LegacyPhase, d
<1>5. CASE LegacyLeaves
  <2>1. PICK x, r : calls = <<x, r>> /\ LegacyDropped(x) /\ LegacyAsksFirst(r)
    BY <1>5 DEF LegacyLeaves
  <2>2. Head(calls) = x /\ calls' = <<r>>
    BY <1>0, <2>1, LegacySingle, LegacyPair
  <2>3. x.kind = "load for dialog" /\ ~x.fresh /\ ~x.live
    BY <1>0, <2>1, <2>2
    DEF LegacyDropped, LegacyGoes, LegacyKinds, LegacyServiceKinds, LegacyItemKinds, LegacyNewKinds, LegacyReads
  <2>4. page' = page
    BY <2>2, <2>3 DEF Legacy!LoadAnswered
  <2> QED
    BY <2>1, <2>2, <2>4 DEF LegacyOpens, LegacyAsksFirst, LegacyAsks, LegacyPhase
<1> QED
  BY <1>1, <1>2, <1>3, <1>4, <1>5 DEF LegacyPhase


-----------------------------------------------------------------------------
(* The steps that change the storage.                                      *)

\* No task is taken back: what is under way has never seen one.
LEMMA LegacyTasksGoOn ==
  ASSUME LegacyTyped, Legacy!Answered
  PROVE  LegacyNoTasks' => LegacyNoTasks
<1> DEFINE c == Head(calls)
<1> HIDE DEF c
<1>1. LegacyTypedStore(store)
  BY DEF LegacyTyped
<1> DEFINE Kept == \A t \in Legacy!Tasks :
                     store'.task[t].status = "none" => store.task[t].status = "none"
<1>a. Legacy!Refused(c) => Kept
  BY DEF Legacy!Refused
<1>2. CASE Legacy!CreateService(c) \/ Legacy!UpdateService(c) \/ Legacy!DeleteService(c) \/ Legacy!CreateRunbook(c)
           \/ Legacy!UpdateRunbook(c) \/ Legacy!DeleteRunbook(c) \/ Legacy!UpdateDocument(c)
           \/ Legacy!DeleteDocument(c)
  <2>1. Legacy!Refused(c) \/ store'.task = store.task
    BY <1>1, <1>2
    DEF Legacy!CreateService, Legacy!UpdateService, Legacy!DeleteService, Legacy!CreateRunbook, Legacy!UpdateRunbook,
        Legacy!DeleteRunbook, Legacy!UpdateDocument, Legacy!DeleteDocument, Legacy!SaveItem, Legacy!RemoveItem,
        LegacyTypedStore
  <2> QED
    BY <1>a, <2>1 DEF LegacyNoTasks
<1>3. CASE Legacy!ConfirmImport(c)
  <2>1. Legacy!Refused(c)
        \/ store'.task = [store.task EXCEPT ![c.id] = [store.task[c.id] EXCEPT !.status = "done"]]
    BY <1>1, <1>3 DEF Legacy!ConfirmImport, LegacyTypedStore
  <2>2. c.id \in Legacy!Tasks => [store.task[c.id] EXCEPT !.status = "done"].status = "done"
    BY <1>1 DEF LegacyTypedStore, LegacyTypedTasks
  <2> QED
    BY <1>1, <1>a, <2>1, <2>2 DEF LegacyNoTasks, LegacyTypedStore, LegacyTypedTasks
<1>4. CASE Legacy!CancelImport(c)
  <2>1. Legacy!Refused(c)
        \/ store'.task = [store.task EXCEPT
                            ![c.id] = [store.task[c.id] EXCEPT !.status = "cancelled"]]
    BY <1>1, <1>4 DEF Legacy!CancelImport, LegacyTypedStore
  <2>2. c.id \in Legacy!Tasks => [store.task[c.id] EXCEPT !.status = "cancelled"].status = "cancelled"
    BY <1>1 DEF LegacyTypedStore, LegacyTypedTasks
  <2> QED
    BY <1>1, <1>a, <2>1, <2>2 DEF LegacyNoTasks, LegacyTypedStore, LegacyTypedTasks
<1>5. CASE Legacy!DeleteImportTask(c)
  <2>1. Legacy!Refused(c)
        \/ store'.task = [store.task EXCEPT
                            ![c.id] = [store.task[c.id] EXCEPT !.folder = None]]
    BY <1>1, <1>5 DEF Legacy!DeleteImportTask, LegacyTypedStore
  <2>2. c.id \in Legacy!Tasks =>
          [store.task[c.id] EXCEPT !.folder = None].status = store.task[c.id].status
    BY <1>1 DEF LegacyTypedStore, LegacyTypedTasks
  <2> QED
    BY <1>1, <1>a, <2>1, <2>2 DEF LegacyNoTasks, LegacyTypedStore, LegacyTypedTasks
<1> QED
  BY <1>2, <1>3, <1>4, <1>5 DEF Legacy!Answered, c

\* A write that is answered before the first import, and what it does.
LEMMA LegacyAnsweredGoes ==
  ASSUME LegacyPhase, Legacy!Answered
  PROVE  LegacyGoes(Head(calls)) /\ (LegacyWrites \/ LegacyLeaves)
<1> DEFINE c == Head(calls)
<1>1. calls # <<>> /\ c.kind \notin LegacyReads
  BY DEF Legacy!Answered, Legacy!CreateService, Legacy!UpdateService, Legacy!DeleteService,
         Legacy!CreateRunbook,
         Legacy!UpdateRunbook, Legacy!DeleteRunbook, Legacy!UpdateDocument, Legacy!DeleteDocument, Legacy!ConfirmImport,
         Legacy!CancelImport, Legacy!DeleteImportTask, LegacyReads
<1>2. CASE LegacyWrites
  BY <1>2, LegacySingle DEF LegacyWrites
<1>3. CASE LegacyLeaves
  <2>1. PICK x, r : calls = <<x, r>> /\ LegacyDropped(x)
    BY <1>3 DEF LegacyLeaves
  <2>2. c = x
    BY <2>1, LegacyPair
  <2> QED
    BY <1>1, <1>3, <2>1, <2>2 DEF LegacyDropped, LegacyReads
<1>4. ~LegacyQuiet
  BY <1>1 DEF LegacyQuiet
<1>5. ~LegacyRefreshes
  BY <1>1, LegacySingle DEF LegacyRefreshes, LegacyReads
<1>6. ~LegacyOpens
  BY <1>1, LegacySingle DEF LegacyOpens, LegacyAsksFirst, LegacyReads
<1> QED
  BY <1>2, <1>3, <1>4, <1>5, <1>6 DEF LegacyPhase

LEMMA LegacyAnsweredPhase ==
  ASSUME LegacyTyped, LegacyPhase, page.streams = <<>>, NEW c, c = Head(calls), Legacy!Answered,
         Legacy!Written(c) \/ Legacy!Refused(c)
  PROVE  page'.streams = <<>> /\ LegacyPhase'
<1>0. DOMAIN page = LegacyPageFields
  BY DEF LegacyTyped, LegacyTypedPage
<1>1. CASE LegacyLeaves
  <2>1. PICK x, r : calls = <<x, r>> /\ LegacyDropped(x) /\ LegacyAsksFirst(r)
    BY <1>1 DEF LegacyLeaves
  <2>2. c = x /\ Tail(calls) = <<r>>
    BY <2>1, LegacyPair
  <2>3. page' = page /\ calls' = <<r>>
    BY <2>1, <2>2 DEF LegacyDropped, Legacy!Written, Legacy!Refused
  <2> QED
    BY <2>1, <2>3 DEF LegacyOpens, LegacyAsksFirst, LegacyAsks, LegacyPhase
<1>2. CASE LegacyWrites
  <2>1. c = page.dialog /\ c.live /\ Tail(calls) = <<>> /\ LegacyGoes(c)
    BY <1>2, LegacySingle DEF LegacyWrites
  <2>2. CASE Legacy!Refused(c)
    <3>1. page' = [page EXCEPT !.mutation = "error"] /\ calls' = <<>> /\ store' = store
      BY <2>1, <2>2 DEF Legacy!Refused
    <3>2. /\ page'.streams = <<>> /\ page'.folder = page.folder
          /\ page'.snapshot = page.snapshot /\ page'.dialog = c /\ page'.mutation = "error"
      BY <1>0, <2>1, <3>1 DEF LegacyPageFields
    <3>3. LegacyGoes(c)'
      BY <2>1, <3>1, LegacyGoesOn
    <3> QED
      BY <1>2, <2>1, <3>1, <3>2, <3>3 DEF LegacyQuiet, LegacyWrites, LegacyShowsStorage, LegacyPhase
  <2>3. CASE Legacy!Written(c)
    <3> DEFINE r == Legacy!Call("load for dialog", page.folder, 0, None)
    <3>1. c.kind \notin {"cancel task", "delete task"}
      BY <2>1 DEF LegacyGoes, LegacyKinds, LegacyServiceKinds, LegacyItemKinds, LegacyNewKinds
    <3>2. page' = [page EXCEPT !.snapshot = [status |-> "loading"]]
          /\ calls' = Append(Legacy!Stale(Tail(calls)), r)
      BY <2>1, <2>3, <3>1 DEF Legacy!Written
    <3>3. DOMAIN r = LegacyCallFields /\ r.kind = "load for dialog" /\ r.id = page.folder
          /\ r.live /\ r.fresh
      BY DEF Legacy!Call, LegacyCallFields
    <3> HIDE DEF r
    <3>4. calls' = <<r>>
      BY <2>1, <3>2, LegacyEmptyQueue, LegacySingle
    <3>5. /\ page'.streams = <<>> /\ page'.folder = page.folder
          /\ page'.snapshot = [status |-> "loading"] /\ page'.mutation = "loading"
      BY <1>0, <1>2, <3>2 DEF LegacyPageFields, LegacyWrites
    <3>6. LegacyRefreshes'
      BY <3>3, <3>4, <3>5 DEF LegacyRefreshes, LegacyAsks
    <3> QED
      BY <3>5, <3>6 DEF LegacyPhase
  <2> QED
    BY <2>2, <2>3
<1> QED
  BY <1>1, <1>2, LegacyAnsweredGoes

\* A link goes on leading to a service while services stay in their folders.
LEMMA LegacyLinkedBy ==
  ASSUME LegacyLinked,
         \A s \in Legacy!Services : store.service[s].folder # None => store'.service[s].folder # None,
         \A i \in Legacy!Items : store'.item[i].service # store.item[i].service
           /\ store'.item[i].service # None => LegacyIsThere(store'.item[i].service)
  PROVE  LegacyLinked'
<1> SUFFICES ASSUME NEW i \in Legacy!Items, store'.item[i].service # None
             PROVE  /\ store'.item[i].service \in Legacy!Services
                    /\ store'.service[store'.item[i].service].folder # None
  BY DEF LegacyLinked, LegacyIsThere
<1>1. LegacyIsThere(store'.item[i].service)
  BY DEF LegacyLinked
<1> QED
  BY <1>1 DEF LegacyIsThere

LEMMA LegacyAnsweredLinked ==
  ASSUME LegacyTyped, Legacy!Parameters, NEW c, c = Head(calls), Legacy!Answered, LegacyGoes(c), LegacyLinked
  PROVE  /\ LegacyLinked' /\ store'.task = store.task
         /\ Legacy!Written(c) \/ Legacy!Refused(c)
<1>1. /\ DOMAIN store = {"service", "item", "task"} /\ LegacyTypedServices(store.service)
      /\ LegacyTypedItems(store.item)
  BY DEF LegacyTyped, LegacyTypedStore
<1>2. c.kind \in LegacyKinds /\ (c.service # None => LegacyIsThere(c.service))
  BY DEF LegacyGoes
<1>3. CASE Legacy!Refused(c)
  BY <1>3 DEF Legacy!Refused, LegacyLinked, LegacyIsThere
<1>4. CASE Legacy!CreateService(c) /\ ~Legacy!Refused(c)
  <2>1. PICK s : store' = [store EXCEPT !.service[s] = Legacy!New("service", c.id, None)]
                 /\ Legacy!Written(c)
    BY <1>4 DEF Legacy!CreateService
  <2>2. Legacy!New("service", c.id, None).folder # None
    BY <1>4 DEF Legacy!New, LegacyGoes, Legacy!CreateService, LegacyNewKinds, Legacy!Parameters
  <2>3. /\ store'.item = store.item /\ store'.task = store.task
        /\ store'.service = [store.service EXCEPT ![s] = Legacy!New("service", c.id, None)]
    BY <1>1, <2>1
  <2>4. \A x \in Legacy!Services : store.service[x].folder # None => store'.service[x].folder # None
    BY <1>1, <2>2, <2>3 DEF LegacyTypedServices
  <2> QED
    BY <2>1, <2>3, <2>4, LegacyLinkedBy
<1>5. CASE Legacy!UpdateService(c) /\ ~Legacy!Refused(c)
  <2> DEFINE v == store.service[c.id].version + 1
  <2>1. store' = [store EXCEPT !.service[c.id].version = @ + 1] /\ Legacy!Written(c)
    BY <1>5 DEF Legacy!UpdateService
  <2>2. /\ store'.item = store.item /\ store'.task = store.task
        /\ store'.service = [store.service EXCEPT ![c.id] =
                               [store.service[c.id] EXCEPT !.version = v]]
    BY <1>1, <2>1
  <2> HIDE DEF v
  <2>3. \A x \in Legacy!Services : store.service[x].folder # None => store'.service[x].folder # None
    BY <1>1, <2>2 DEF LegacyTypedServices, LegacyRecordFields
  <2> QED
    BY <2>1, <2>2, <2>3, LegacyLinkedBy
<1>6. CASE Legacy!DeleteService(c) /\ ~Legacy!Refused(c)
  <2> DEFINE items == Legacy!Unlinked(store.item, c.id)
  <2>1. /\ store' = [store EXCEPT !.service[c.id].folder = None, !.item = items]
        /\ Legacy!Written(c)
    BY <1>1, <1>6 DEF Legacy!DeleteService
  <2>2. \A i \in Legacy!Items :
          items[i].service = IF store.item[i].service = c.id THEN None ELSE store.item[i].service
    BY <1>1 DEF Legacy!Unlinked, LegacyTypedItems, LegacyRecordFields
  <2> HIDE DEF items
  <2>3. /\ store'.item = items /\ store'.task = store.task
        /\ store'.service = [store.service EXCEPT ![c.id] =
                               [store.service[c.id] EXCEPT !.folder = None]]
    BY <1>1, <2>1
  <2>4. \A x \in Legacy!Services : x # c.id => store'.service[x] = store.service[x]
    BY <1>1, <2>3 DEF LegacyTypedServices
  <2>5. LegacyLinked'
    BY <2>2, <2>3, <2>4 DEF LegacyLinked, LegacyIsThere
  <2> QED
    BY <2>1, <2>3, <2>5
<1>7. CASE Legacy!CreateRunbook(c) /\ ~Legacy!Refused(c)
  <2>1. PICK i : store' = [store EXCEPT !.item[i] = Legacy!New("runbook", c.id, c.service)]
                 /\ Legacy!Written(c)
    BY <1>7 DEF Legacy!CreateRunbook
  <2>2. Legacy!New("runbook", c.id, c.service).service = c.service
    BY DEF Legacy!New
  <2>3. /\ store'.service = store.service /\ store'.task = store.task
        /\ store'.item = [store.item EXCEPT ![i] = Legacy!New("runbook", c.id, c.service)]
    BY <1>1, <2>1
  <2>4. \A k \in Legacy!Items : store'.item[k].service \in {store.item[k].service, c.service}
    BY <1>1, <2>2, <2>3 DEF LegacyTypedItems
  <2> QED
    BY <1>2, <2>1, <2>3, <2>4, LegacyLinkedBy
<1>8. ASSUME Legacy!SaveItem(c), ~Legacy!Refused(c)
      PROVE  LegacyLinked' /\ store'.task = store.task /\ Legacy!Written(c)
  <2> DEFINE v == store.item[c.id].version + 1
             items == [store.item EXCEPT ![c.id] = [store.item[c.id] EXCEPT !.version = v]]
  <2>1. /\ store' = [store EXCEPT !.item[c.id].version = @ + 1, !.item[c.id].service = c.service]
        /\ Legacy!Written(c)
    BY <1>8 DEF Legacy!SaveItem
  <2>2. /\ store'.service = store.service /\ store'.task = store.task
        /\ store'.item = [items EXCEPT ![c.id] = [items[c.id] EXCEPT !.service = c.service]]
    BY <1>1, <2>1
  <2>3. \A k \in Legacy!Items : items[k].service = store.item[k].service
                           /\ DOMAIN items[k] = LegacyRecordFields
    BY <1>1 DEF LegacyTypedItems, LegacyRecordFields
  <2>4. DOMAIN items = Legacy!Items
    BY <1>1 DEF LegacyTypedItems
  <2> HIDE DEF v, items
  <2>5. \A k \in Legacy!Items : store'.item[k].service \in {store.item[k].service, c.service}
    BY <2>2, <2>3, <2>4 DEF LegacyRecordFields
  <2> QED
    BY <1>2, <2>1, <2>2, <2>5, LegacyLinkedBy
<1>9. ASSUME Legacy!RemoveItem(c), ~Legacy!Refused(c)
      PROVE  LegacyLinked' /\ store'.task = store.task /\ Legacy!Written(c)
  <2> DEFINE items == [store.item EXCEPT ![c.id] = [store.item[c.id] EXCEPT !.folder = None]]
  <2>1. /\ store' = [store EXCEPT !.item[c.id].folder = None, !.item[c.id].service = None]
        /\ Legacy!Written(c)
    BY <1>9 DEF Legacy!RemoveItem
  <2>2. /\ store'.service = store.service /\ store'.task = store.task
        /\ store'.item = [items EXCEPT ![c.id] = [items[c.id] EXCEPT !.service = None]]
    BY <1>1, <2>1
  <2>3. \A k \in Legacy!Items : items[k].service = store.item[k].service
                           /\ DOMAIN items[k] = LegacyRecordFields
    BY <1>1 DEF LegacyTypedItems, LegacyRecordFields
  <2>4. DOMAIN items = Legacy!Items
    BY <1>1 DEF LegacyTypedItems
  <2> HIDE DEF items
  <2>5. \A k \in Legacy!Items : store'.item[k].service \in {store.item[k].service, None}
    BY <2>2, <2>3, <2>4 DEF LegacyRecordFields
  <2> QED
    BY <2>1, <2>2, <2>5, LegacyLinkedBy
<1>10. ~Legacy!ConfirmImport(c) /\ ~Legacy!CancelImport(c) /\ ~Legacy!DeleteImportTask(c)
  BY <1>2 DEF Legacy!ConfirmImport, Legacy!CancelImport, Legacy!DeleteImportTask, LegacyKinds,
         LegacyServiceKinds,
              LegacyItemKinds, LegacyNewKinds
<1>11. \/ Legacy!CreateService(c) \/ Legacy!UpdateService(c) \/ Legacy!DeleteService(c) \/ Legacy!CreateRunbook(c)
       \/ Legacy!SaveItem(c) \/ Legacy!RemoveItem(c)
  BY <1>10 DEF Legacy!Answered, Legacy!UpdateRunbook, Legacy!DeleteRunbook, Legacy!UpdateDocument,
         Legacy!DeleteDocument
<1> QED
  BY <1>3, <1>4, <1>5, <1>6, <1>7, <1>8, <1>9, <1>11

LEMMA LegacyAloneAnswered ==
  ASSUME LegacyTyped, LegacyAlone, Legacy!Parameters, Legacy!Answered
  PROVE  LegacyAlone'
<1> SUFFICES ASSUME LegacyNoTasks'
             PROVE  /\ page'.streams = <<>> /\ LegacyLinked' /\ LegacyPhase'
                    /\ \A t \in Legacy!Tasks : store'.task[t].folder = None
  BY DEF LegacyAlone
<1>1. LegacyNoTasks
  BY LegacyTasksGoOn
<1>2. /\ page.streams = <<>> /\ LegacyLinked /\ LegacyPhase
      /\ \A t \in Legacy!Tasks : store.task[t].folder = None
  BY <1>1 DEF LegacyAlone
<1>3. PICK c : c = Head(calls)
  OBVIOUS
<1>4. LegacyGoes(c)
  BY <1>2, <1>3, LegacyAnsweredGoes
<1>5. LegacyLinked' /\ store'.task = store.task /\ (Legacy!Written(c) \/ Legacy!Refused(c))
  BY <1>2, <1>3, <1>4, LegacyAnsweredLinked
<1>6. page'.streams = <<>> /\ LegacyPhase'
  BY <1>2, <1>3, <1>5, LegacyAnsweredPhase
<1> QED
  BY <1>2, <1>5, <1>6

-----------------------------------------------------------------------------
(* The first import ends all this, and nothing of an import comes before.  *)

LEMMA LegacyAloneStartImport ==
  ASSUME LegacyTyped, NEW t \in Legacy!Tasks, Legacy!StartImport(t)
  PROVE  LegacyAlone'
<1>1. store' = [store EXCEPT !.task[t] = [folder |-> page.folder, status |-> "parsing"]]
  BY DEF Legacy!StartImport
<1>2. store'.task[t].status = "parsing"
  BY <1>1 DEF LegacyTyped, LegacyTypedStore, LegacyTypedTasks
<1> QED
  BY <1>2 DEF LegacyAlone, LegacyNoTasks

LEMMA LegacyAloneStreams ==
  ASSUME LegacyTyped, LegacyAlone, NEW i \in DOMAIN page.streams, Legacy!Next45(i) \/ Legacy!Reviewing(i)
  PROVE  LegacyAlone'
<1>1. ~LegacyNoTasks
  BY DEF LegacyAlone
<1>2. ASSUME NEW u, NEW f, NEW status, status # "none",
             store' = [store EXCEPT !.task[u] = [folder |-> f, status |-> status]]
      PROVE  LegacyAlone'
  <2>1. store'.task = [store.task EXCEPT ![u] = [folder |-> f, status |-> status]]
    BY <1>2 DEF LegacyTyped, LegacyTypedStore
  <2>2. ~LegacyNoTasks'
    BY <1>1, <1>2, <2>1 DEF LegacyNoTasks, LegacyTyped, LegacyTypedStore, LegacyTypedTasks
  <2> QED
    BY <2>2 DEF LegacyAlone
<1> DEFINE s == page.streams[i]
<1>3. \/ store' = [store EXCEPT !.task[s.task] = [folder |-> s.folder, status |-> "parsing"]]
      \/ store' = [store EXCEPT !.task[s.task] = [folder |-> s.folder, status |-> "reviewing"]]
  BY DEF Legacy!Next45, Legacy!Reviewing
<1>4. "parsing" # "none" /\ "reviewing" # "none"
  OBVIOUS
<1> QED
  BY <1>2, <1>3, <1>4

LEMMA LegacyAloneTaskButtons ==
  ASSUME LegacyTyped, Legacy!Parameters, LegacyAlone, NEW t \in Legacy!Tasks, Legacy!CancelTask(t) \/ Legacy!DeleteTask(t)
  PROVE  LegacyAlone'
<1>1. /\ store' = store /\ t \in DOMAIN Legacy!Shown.task
      /\ page.dialog = None /\ page.snapshot.status = "success"
  BY DEF Legacy!CancelTask, Legacy!DeleteTask, Legacy!Mutate, Legacy!Showing
<1> SUFFICES ASSUME LegacyPhase, \A u \in Legacy!Tasks : store.task[u].folder = None PROVE FALSE
  BY <1>1, LegacyAloneBy
<1>2. LegacyShowsStorage
  BY <1>1, LegacyQuietIf DEF LegacyQuiet
<1>3. Legacy!Shown = Legacy!View(store, page.folder) /\ page.folder # None
  BY <1>2 DEF LegacyShowsStorage, Legacy!Shown, LegacyTyped, LegacyTypedPage, Legacy!Parameters
<1>4. DOMAIN Legacy!Shown.task = {u \in Legacy!Tasks : store.task[u].folder = page.folder}
  BY <1>3 DEF Legacy!View
<1> QED
  BY <1>1, <1>3, <1>4

LEMMA LegacyAloneNext ==
  ASSUME Legacy!Parameters, LegacyTyped, LegacyAlone, [Legacy!Next]_Legacy!vars
  PROVE  LegacyAlone'
<1>1. CASE UNCHANGED Legacy!vars
  BY <1>1
  DEF Legacy!vars, LegacyAlone, LegacyNoTasks, LegacyLinked, LegacyIsThere, LegacyPhase, LegacyQuiet, LegacyWrites, LegacyRefreshes,
      LegacyOpens, LegacyLeaves, LegacyDropped, LegacyAsksFirst, LegacyAsks, LegacyShowsStorage, LegacyGoes
<1>2. CASE \E f \in FoldersOf["knowledge"] : Legacy!SelectFolder(f)
  BY <1>2, LegacyAloneSelectFolder
<1>3. CASE Legacy!LoadAnswered
  BY <1>3, LegacyAloneLoadAnswered
<1>4. CASE Legacy!ResetMutation
  BY <1>4, LegacyAloneResetMutation
<1>5. CASE Legacy!OpenDialog
  BY <1>5, LegacyAloneOpenDialog
<1>6. CASE Legacy!CloseDialog
  BY <1>6, LegacyAloneCloseDialog
<1>7. CASE Legacy!SubmitDialog
  BY <1>7, LegacyAloneSubmitDialog
<1>8. CASE Legacy!Answered /\ Legacy!Bounded
  BY <1>8, LegacyAloneAnswered
<1>9. CASE Legacy!BeginImport
  BY <1>9, LegacyAloneBeginImport
<1>10. CASE \E t \in Legacy!Tasks : Legacy!StartImport(t) \/ Legacy!CancelTask(t) \/ Legacy!DeleteTask(t)
  BY <1>10, LegacyAloneStartImport, LegacyAloneTaskButtons
<1>11. CASE \E i \in DOMAIN page.streams : Legacy!Next45(i) \/ Legacy!Reviewing(i)
  BY <1>11, LegacyAloneStreams
<1> QED
  BY <1>1, <1>2, <1>3, <1>4, <1>5, <1>6, <1>7, <1>8, <1>9, <1>10, <1>11 DEF Legacy!Next

LEMMA LegacyAloneInit ==
  ASSUME Legacy!Parameters, Legacy!Init
  PROVE  LegacyAlone
<1>1. PICK f \in FoldersOf["knowledge"] :
        /\ page = [folder |-> f, snapshot |-> [status |-> "loading"], mutation |-> "idle",
                   importing |-> FALSE, dialog |-> None, reading |-> 0, streams |-> <<>>]
        /\ calls = <<Legacy!Call("snapshot", f, 0, None)>>
        /\ store = [service |-> [s \in Legacy!Services |->
                      IF s = 1 THEN Legacy!New("service", f, None) ELSE Legacy!Absent],
                    item |-> [i \in Legacy!Items |-> Legacy!Absent],
                    task |-> [t \in Legacy!Tasks |-> [folder |-> None, status |-> "none"]]]
  BY DEF Legacy!Init
<1>2. LegacyLinked
  BY <1>1 DEF LegacyLinked, Legacy!Absent
<1>3. \A t \in Legacy!Tasks : store.task[t].folder = None
  BY <1>1
<1>4. LegacyOpens
  <2> DEFINE c == Legacy!Call("snapshot", f, 0, None)
  <2>1. DOMAIN c = LegacyCallFields /\ c.kind = "snapshot" /\ c.id = f /\ c.fresh
    BY LegacyCallIs
  <2> HIDE DEF c
  <2>2. calls = <<c>>
    BY <1>1 DEF c
  <2> QED
    BY <1>1, <2>1, <2>2 DEF LegacyOpens, LegacyAsksFirst, LegacyAsks
<1> QED
  BY <1>1, <1>2, <1>3, <1>4 DEF LegacyAlone, LegacyPhase

-----------------------------------------------------------------------------
(* The page over its fixtures keeps its types; before the first import no  *)
(* save is refused for its version and no link leads to a service that is  *)
(* gone; and a page that says an import runs has one.                      *)

LegacyPromises ==
  Legacy!TypeOK /\ Legacy!SavesFit /\ Legacy!LinksAreThere /\ Legacy!ImportingHasStream

LEMMA LegacyIsPromised ==
  ASSUME Legacy!Parameters, LegacyTyped, LegacyAlone
  PROVE  LegacyPromises
<1>1. Legacy!TypeOK
  BY DEF Legacy!TypeOK, LegacyTyped, LegacyTypedPage, LegacyTypedStore, LegacyTypedServices,
         LegacyTypedTasks,
         LegacyTaskStatuses, LegacyWithinVersions, Legacy!Parameters
<1>2. Legacy!ImportingHasStream
  BY DEF Legacy!ImportingHasStream, LegacyTyped, LegacyTypedPage, LegacyOwned
<1>3. Legacy!LinksAreThere
  BY DEF Legacy!LinksAreThere, LegacyAlone, LegacyNoTasks, LegacyLinked, LegacyIsThere
<1>4. Legacy!SavesFit
  <2> SUFFICES ASSUME calls # <<>>, LegacyNoTasks, NEW c, c = Head(calls)
               PROVE  /\ c.kind = "save service" => Legacy!Fits(store.service[c.id], c)
                      /\ c.kind \in {"save runbook", "save document"} =>
                           Legacy!Fits(store.item[c.id], c)
    BY DEF Legacy!SavesFit, LegacyNoTasks
  <2>1. LegacyPhase
    BY DEF LegacyAlone
  <2>2. CASE LegacyGoes(c)
    BY <2>2 DEF LegacyGoes, LegacyServiceKinds, LegacyItemKinds
  <2>3. CASE LegacyWrites
    BY <2>2, <2>3, LegacySingle DEF LegacyWrites
  <2>4. CASE LegacyLeaves
    <3>1. PICK x, r : calls = <<x, r>> /\ LegacyDropped(x)
      BY <2>4 DEF LegacyLeaves
    <3>2. c = x
      BY <3>1, LegacyPair
    <3> QED
      BY <2>2, <3>1, <3>2 DEF LegacyDropped
  <2>5. CASE LegacyRefreshes
    BY <2>5, LegacySingle DEF LegacyRefreshes
  <2>6. CASE LegacyOpens
    BY <2>6, LegacySingle DEF LegacyOpens, LegacyAsksFirst
  <2> QED
    BY <2>1, <2>3, <2>4, <2>5, <2>6 DEF LegacyPhase, LegacyQuiet
<1> QED
  BY <1>1, <1>2, <1>3, <1>4 DEF LegacyPromises

\* LegacyKnowledgePage and fixtureKnowledgeGateway: what a dialog sends before the first import is
\* never refused for a version the user could not have seen, what names a service names one that
\* is there, and an import that the page shows as running has a stream.
THEOREM LegacySavesFit ==
  ASSUME Legacy!Parameters
  PROVE  Legacy!Spec => []LegacyPromises
<1>1. Legacy!Init => LegacyTyped /\ LegacyAlone
  BY LegacyTypedInit, LegacyAloneInit
<1>2. LegacyTyped /\ LegacyAlone /\ [Legacy!Next]_Legacy!vars => (LegacyTyped /\ LegacyAlone)'
  BY LegacyTypedNext, LegacyAloneNext
<1>3. LegacyTyped /\ LegacyAlone => LegacyPromises
  BY LegacyIsPromised
<1> QED
  BY <1>1, <1>2, <1>3, PTL DEF Legacy!Spec

-----------------------------------------------------------------------------
(* The playbooks, for any folders, keys, editors, playbooks and requests.  *)

PlaybooksFields ==
  {"folder", "route", "id", "editors", "list", "timer", "document", "editor", "deleting",
   "migrating", "panel"}
PlaybooksWriteFields == {"kind", "stage", "mine", "id", "run", "source", "status"}

PlaybooksShape ==
  /\ DOMAIN page = PlaybooksFields /\ page.editors \in Nat
  /\ DOMAIN calls = {"lists", "document", "writes"}
  /\ \A q \in calls.lists : DOMAIN q = {"current", "data"}

PlaybooksEdits(e) == DOMAIN e = {"key", "source", "saving"}

\* An editor is open where its route is, and the one of a new playbook has a key of its own.
PlaybooksEditors ==
  /\ page.route = "new" =>
       /\ PlaybooksEdits(page.editor) /\ page.editor.key \in 1 .. page.editors
       /\ ~calls.document /\ page.document.status = "loading"
  /\ page.route = "edit" => page.editor = None \/ PlaybooksEdits(page.editor)
  /\ page.route \notin {"new", "edit"} => page.editor = None

\* A save of the component that is there still finds its editor, and creates under its key.
PlaybooksWrite(w) ==
  /\ DOMAIN w = PlaybooksWriteFields
  /\ w.kind = "create" => w.id[2] \in 1 .. page.editors
  /\ w.mine /\ w.kind \in {"create", "update"} =>
       page.route \in {"new", "edit"} /\ PlaybooksEdits(page.editor)

\* What was created was created under the key of an editor.
PlaybooksStored(s) ==
  /\ DOMAIN s = {"playbook", "run"} /\ DOMAIN s.playbook = Playbooks!Ids
  /\ \A id \in Playbooks!Ids :
       /\ DOMAIN s.playbook[id] = {"status", "source", "by"}
       /\ s.playbook[id].by = "create" => id[2] \in 1 .. page.editors

\* The request that counts is the one of the list that is mounted, and of its folder.
PlaybooksListing ==
  /\ page.timer => page.route = "list"
  /\ \A q \in calls.lists :
       q.current => page.route = "list" /\ \A id \in q.data : id[1] = page.folder

PlaybooksInv ==
  /\ PlaybooksShape /\ PlaybooksEditors /\ PlaybooksStored(store) /\ PlaybooksListing
  /\ \A w \in calls.writes : PlaybooksWrite(w)

-----------------------------------------------------------------------------
(* What the steps have in common.                                          *)

\* What the Control Plane has written was created by an editor, if it was created.
LEMMA PlaybooksWritten ==
  ASSUME PlaybooksInv, NEW w \in calls.writes, NEW s \in Playbooks!Written(w)
  PROVE  PlaybooksStored(s)
<1>1. /\ DOMAIN store = {"playbook", "run"} /\ DOMAIN store.playbook = Playbooks!Ids
      /\ \A id \in Playbooks!Ids :
           /\ DOMAIN store.playbook[id] = {"status", "source", "by"}
           /\ store.playbook[id].by = "create" => id[2] \in 1 .. page.editors
  BY DEF PlaybooksInv, PlaybooksStored
<1>2. CASE w.kind \in {"create", "update"}
  <2> DEFINE old == store.playbook[w.id]
             new == [old EXCEPT !.status = "active", !.source = w.source,
                                !.by = IF w.kind = "create" THEN w.kind ELSE @]
  <2>1. s = [store EXCEPT !.playbook[w.id].status = "active", !.playbook[w.id].source = w.source,
                          !.playbook[w.id].by = IF w.kind = "create" THEN w.kind ELSE @]
    BY <1>2 DEF Playbooks!Written
  <2>2. DOMAIN s = {"playbook", "run"} /\ s.playbook = [store.playbook EXCEPT ![w.id] = new]
    BY <1>1, <2>1
  <2>3. w.id \in Playbooks!Ids =>
          /\ DOMAIN new = {"status", "source", "by"}
          /\ new.by = "create" => w.kind = "create" \/ old.by = "create"
    BY <1>1
  <2>4. w.kind = "create" => w.id[2] \in 1 .. page.editors
    BY DEF PlaybooksInv, PlaybooksWrite
  <2> HIDE DEF old, new
  <2> QED
    BY <1>1, <2>2, <2>3, <2>4 DEF PlaybooksStored, old
<1>3. CASE w.kind = "migrate"
  <2> DEFINE new == [status |-> "active", source |-> "first", by |-> w.kind]
  <2>1. PICK key \in Playbooks!FreshKeys(w.id[1]) : s = [store EXCEPT !.playbook[key] = new]
    BY <1>3 DEF Playbooks!Written
  <2>2. DOMAIN new = {"status", "source", "by"} /\ new.by # "create"
    BY <1>3
  <2> HIDE DEF new
  <2>3. DOMAIN s = {"playbook", "run"} /\ s.playbook = [store.playbook EXCEPT ![key] = new]
    BY <1>1, <2>1
  <2> QED
    BY <1>1, <2>2, <2>3 DEF PlaybooksStored
<1>4. CASE w.kind = "delete"
  <2> DEFINE old == store.playbook[w.id]
             new == [old EXCEPT !.status = "deleted"]
  <2>1. s = [store EXCEPT !.playbook[w.id].status = "deleted"]
    BY <1>4 DEF Playbooks!Written
  <2>2. DOMAIN s = {"playbook", "run"} /\ s.playbook = [store.playbook EXCEPT ![w.id] = new]
    BY <1>1, <2>1
  <2>3. w.id \in Playbooks!Ids => DOMAIN new = {"status", "source", "by"} /\ new.by = old.by
    BY <1>1
  <2> HIDE DEF old, new
  <2> QED
    BY <1>1, <2>2, <2>3 DEF PlaybooksStored, old
<1>5. CASE w.kind \notin {"create", "update", "migrate", "delete"}
  <2>1. DOMAIN s = {"playbook", "run"} /\ s.playbook = store.playbook
    <3>1. CASE w.kind \in {"start", "retry"}
      <4>1. \E r \in Playbooks!FreshRun : s = [store EXCEPT !.run[r] = [of |-> w.id,
            status |-> "running"]]
        BY <1>5, <3>1 DEF Playbooks!Written
      <4> QED
        BY <1>1, <4>1
    <3>2. CASE w.kind \in {"cancel", "reject"}
      <4>1. s = [store EXCEPT !.run[w.run].status = "failed"]
        BY <1>5, <3>2 DEF Playbooks!Written
      <4> QED
        BY <1>1, <4>1
    <3>3. CASE w.kind \notin {"start", "retry", "cancel", "reject"}
      <4>1. s = [store EXCEPT !.run[w.run].status = "running"]
        BY <1>5, <3>3 DEF Playbooks!Written
      <4> QED
        BY <1>1, <4>1
    <3> QED
      BY <3>1, <3>2, <3>3
  <2> QED
    BY <1>1, <2>1 DEF PlaybooksStored
<1> QED
  BY <1>2, <1>3, <1>4, <1>5

\* A step that leaves the route, the lists and the document as they are.
LEMMA PlaybooksKeeps ==
  ASSUME PlaybooksInv, DOMAIN page' = PlaybooksFields, DOMAIN calls' = DOMAIN calls,
         \A x \in PlaybooksFields \ {"editor", "deleting", "migrating", "panel"} :
           page'[x] = page[x],
         page'.editor = page.editor
           \/ (PlaybooksEdits(page.editor) /\ PlaybooksEdits(page'.editor)
               /\ page'.editor.key = page.editor.key /\ page.route \in {"new", "edit"}),
         calls'.lists = calls.lists, calls'.document = calls.document,
         \A w \in calls'.writes : PlaybooksWrite(w),
         PlaybooksStored(store')
  PROVE  PlaybooksInv' /\ Playbooks!AppearsForFolder
<1>1. /\ page'.folder = page.folder /\ page'.route = page.route /\ page'.editors = page.editors
      /\ page'.list = page.list /\ page'.timer = page.timer /\ page'.document = page.document
  BY DEF PlaybooksFields
<1>2. PlaybooksShape' /\ PlaybooksStored(store)' /\ PlaybooksListing'
  BY <1>1 DEF PlaybooksInv, PlaybooksShape, PlaybooksStored, PlaybooksListing
<1>3. PlaybooksEditors'
  BY <1>1 DEF PlaybooksInv, PlaybooksEditors, PlaybooksEdits
<1>4. \A w \in calls'.writes : PlaybooksWrite(w)'
  BY <1>1 DEF PlaybooksWrite, PlaybooksEdits
<1> QED
  BY <1>1, <1>2, <1>3, <1>4 DEF PlaybooksInv, Playbooks!AppearsForFolder

\* The components of another route have asked for nothing yet, and the writes are not theirs.
LEMMA PlaybooksGo ==
  ASSUME PlaybooksInv, NEW p, p.editors = page.editors, p = page \/ p.folder # page.folder,
         NEW at, NEW id, NEW writes, writes \subseteq calls.writes,
         PlaybooksStored(store'), Playbooks!Go(p, at, id, writes)
  PROVE  PlaybooksInv' /\ Playbooks!AppearsForFolder
<1> DEFINE stays == page.route = at /\ page.id = id /\ page.folder = p.folder
           editors == p.editors + (IF at = "new" THEN 1 ELSE 0)
<1>1. CASE stays
  <2>1. page' = page /\ calls' = [calls EXCEPT !.writes = writes]
    BY <1>1 DEF Playbooks!Go
  <2>2. DOMAIN calls' = DOMAIN calls /\ calls'.lists = calls.lists
        /\ calls'.document = calls.document /\ calls'.writes = writes
    BY <2>1 DEF PlaybooksInv, PlaybooksShape
  <2>3. DOMAIN page = PlaybooksFields /\ \A w \in writes : PlaybooksWrite(w)
    BY DEF PlaybooksInv, PlaybooksShape
  <2> QED
    BY <2>1, <2>2, <2>3, PlaybooksKeeps
<1>2. CASE ~stays
  <2>1. page' = [folder |-> p.folder, route |-> at, id |-> id, editors |-> editors,
                 list |-> Playbooks!Loading, timer |-> at = "list", document |-> Playbooks!Loading,
                 editor |-> IF at = "new" THEN Playbooks!NewEditor(editors) ELSE None,
                 deleting |-> FALSE, migrating |-> FALSE, panel |-> None]
    BY <1>2 DEF Playbooks!Go
  <2>2. calls' = [lists |-> Playbooks!Invalidated(calls.lists),
        writes |-> Playbooks!NotMine(writes),
                  document |-> at \in {"detail", "edit"}]
    BY <1>2 DEF Playbooks!Go
  <2>3. page.editors \in Nat /\ editors \in Nat /\ editors >= page.editors
        /\ (at = "new" => editors \in 1 .. editors)
    BY DEF PlaybooksInv, PlaybooksShape
  <2> HIDE DEF editors, stays
  <2>4. \A q \in calls'.lists : DOMAIN q = {"current", "data"} /\ q.current = FALSE
    BY <2>2 DEF Playbooks!Invalidated, PlaybooksInv, PlaybooksShape
  <2>5. \A w \in calls'.writes : PlaybooksWrite(w)'
    <3>1. SUFFICES ASSUME NEW v \in writes PROVE PlaybooksWrite([v EXCEPT !.mine = FALSE])'
      BY <2>2 DEF Playbooks!NotMine
    <3>2. PlaybooksWrite(v)
      BY DEF PlaybooksInv
    <3> QED
      BY <2>1, <2>3, <3>2 DEF PlaybooksWrite, PlaybooksWriteFields
  <2>6. PlaybooksShape'
    BY <2>1, <2>2, <2>3, <2>4 DEF PlaybooksShape, PlaybooksFields
  <2>7. PlaybooksStored(store)'
    BY <2>1, <2>3 DEF PlaybooksStored
  <2>8. PlaybooksEditors'
    BY <2>1, <2>2, <2>3 DEF PlaybooksEditors, PlaybooksEdits, Playbooks!NewEditor, Playbooks!Loading
  <2>9. PlaybooksListing'
    BY <2>1, <2>4 DEF PlaybooksListing
  <2> QED
    BY <2>1, <2>5, <2>6, <2>7, <2>8, <2>9
    DEF PlaybooksInv, Playbooks!AppearsForFolder, Playbooks!Loading
<1> QED
  BY <1>1, <1>2

-----------------------------------------------------------------------------
(* The actions.                                                            *)

LEMMA PlaybooksSelectInv ==
  ASSUME PlaybooksInv, NEW f, Playbooks!SelectFolder(f)
  PROVE  PlaybooksInv' /\ Playbooks!AppearsForFolder
<1> DEFINE p == [page EXCEPT !.folder = f]
<1>1. f # page.folder /\ store' = store /\ PlaybooksStored(store')
  BY DEF Playbooks!SelectFolder, PlaybooksInv
<1>2. p.editors = page.editors /\ p.folder = f /\ DOMAIN page = PlaybooksFields
  BY DEF PlaybooksInv, PlaybooksShape, PlaybooksFields
<1>3. CASE page.route = "list"
  <2>1. page' = [page EXCEPT !.folder = f, !.timer = TRUE]
        /\ calls' = [calls EXCEPT !.lists = Playbooks!Invalidated(calls.lists)]
    BY <1>3 DEF Playbooks!SelectFolder
  <2>2. /\ DOMAIN page' = PlaybooksFields
        /\ \A x \in PlaybooksFields \ {"folder", "timer"} : page'[x] = page[x]
    BY <1>2, <2>1
  <2>3. /\ page'.editors = page.editors /\ page'.route = page.route /\ page'.list = page.list
        /\ page'.editor = page.editor /\ page'.document = page.document
    BY <2>2 DEF PlaybooksFields
  <2>4. /\ DOMAIN calls' = DOMAIN calls /\ calls'.document = calls.document
        /\ calls'.writes = calls.writes
        /\ \A q \in calls'.lists : DOMAIN q = {"current", "data"} /\ q.current = FALSE
    BY <2>1 DEF Playbooks!Invalidated, PlaybooksInv, PlaybooksShape
  <2>5. PlaybooksShape' /\ PlaybooksStored(store)' /\ PlaybooksListing' /\ PlaybooksEditors'
    BY <1>1, <1>3, <2>2, <2>3, <2>4
    DEF PlaybooksInv, PlaybooksShape, PlaybooksStored, PlaybooksListing, PlaybooksEditors,
        PlaybooksEdits
  <2>6. \A w \in calls'.writes : PlaybooksWrite(w)'
    BY <2>3, <2>4 DEF PlaybooksInv, PlaybooksWrite, PlaybooksEdits
  <2> QED
    BY <2>3, <2>5, <2>6 DEF PlaybooksInv, Playbooks!AppearsForFolder
<1>4. CASE page.route = "new"
  <2>1. page' = p /\ calls' = calls
    BY <1>4 DEF Playbooks!SelectFolder
  <2>2. /\ DOMAIN page' = PlaybooksFields
        /\ \A x \in PlaybooksFields \ {"folder"} : page'[x] = page[x]
    BY <1>2, <2>1
  <2>3. /\ page'.editors = page.editors /\ page'.route = page.route /\ page'.list = page.list
        /\ page'.editor = page.editor /\ page'.document = page.document
        /\ page'.timer = page.timer
    BY <2>2 DEF PlaybooksFields
  <2>4. PlaybooksShape' /\ PlaybooksStored(store)' /\ PlaybooksListing' /\ PlaybooksEditors'
    BY <1>1, <1>4, <2>1, <2>2, <2>3
    DEF PlaybooksInv, PlaybooksShape, PlaybooksStored, PlaybooksListing, PlaybooksEditors,
        PlaybooksEdits
  <2>5. \A w \in calls'.writes : PlaybooksWrite(w)'
    BY <2>1, <2>3 DEF PlaybooksInv, PlaybooksWrite, PlaybooksEdits
  <2> QED
    BY <2>3, <2>4, <2>5 DEF PlaybooksInv, Playbooks!AppearsForFolder
<1>5. CASE page.route \notin {"list", "new"}
  <2>1. Playbooks!Go(p, page.route, page.id, calls.writes)
    BY <1>5 DEF Playbooks!SelectFolder
  <2> HIDE DEF p
  <2> QED
    BY <1>1, <1>2, <2>1, PlaybooksGo
<1> QED
  BY <1>3, <1>4, <1>5

LEMMA PlaybooksLoadInv ==
  ASSUME PlaybooksInv, Playbooks!Load
  PROVE  PlaybooksInv' /\ Playbooks!AppearsForFolder
<1> DEFINE q == [current |-> TRUE, data |-> Playbooks!Listed(page.folder)]
<1>1. /\ page' = [page EXCEPT !.timer = FALSE, !.list = Playbooks!Loading]
      /\ calls' = [calls EXCEPT !.lists = Playbooks!Invalidated(calls.lists) \cup {q}]
      /\ store' = store /\ page.route = "list"
  BY DEF Playbooks!Load, PlaybooksInv, PlaybooksListing
<1>2. /\ DOMAIN page' = PlaybooksFields /\ page'.timer = FALSE /\ page'.list = Playbooks!Loading
      /\ \A x \in PlaybooksFields \ {"timer", "list"} : page'[x] = page[x]
  BY <1>1 DEF PlaybooksInv, PlaybooksShape, PlaybooksFields
<1>3. /\ page'.editors = page.editors /\ page'.route = page.route /\ page'.folder = page.folder
      /\ page'.editor = page.editor /\ page'.document = page.document
  BY <1>2 DEF PlaybooksFields
<1>4. DOMAIN q = {"current", "data"} /\ \A id \in q.data : id[1] = page.folder
  BY DEF Playbooks!Listed
<1> HIDE DEF q
<1>5. \A o \in Playbooks!Invalidated(calls.lists) : DOMAIN o = {"current", "data"}
      /\ o.current = FALSE
  BY DEF Playbooks!Invalidated, PlaybooksInv, PlaybooksShape
<1>6. /\ DOMAIN calls' = DOMAIN calls /\ calls'.document = calls.document
      /\ calls'.writes = calls.writes
      /\ calls'.lists = Playbooks!Invalidated(calls.lists) \cup {q}
  BY <1>1 DEF PlaybooksInv, PlaybooksShape
<1>7. PlaybooksShape' /\ PlaybooksStored(store)' /\ PlaybooksListing' /\ PlaybooksEditors'
  BY <1>1, <1>2, <1>3, <1>4, <1>5, <1>6
  DEF PlaybooksInv, PlaybooksShape, PlaybooksStored, PlaybooksListing, PlaybooksEditors,
      PlaybooksEdits
<1>8. \A w \in calls'.writes : PlaybooksWrite(w)'
  BY <1>3, <1>6 DEF PlaybooksInv, PlaybooksWrite, PlaybooksEdits
<1> QED
  BY <1>2, <1>7, <1>8 DEF PlaybooksInv, Playbooks!AppearsForFolder, Playbooks!Loading

LEMMA PlaybooksListAnsweredInv ==
  ASSUME PlaybooksInv, NEW q \in calls.lists, Playbooks!ListAnswered(q)
  PROVE  PlaybooksInv' /\ Playbooks!AppearsForFolder
<1>1. /\ DOMAIN calls' = DOMAIN calls /\ calls'.lists = calls.lists \ {q}
      /\ calls'.document = calls.document /\ calls'.writes = calls.writes /\ store' = store
  BY DEF Playbooks!ListAnswered, PlaybooksInv, PlaybooksShape
<1>2. /\ DOMAIN page' = PlaybooksFields
      /\ \A x \in PlaybooksFields \ {"list"} : page'[x] = page[x]
      /\ page'.list # page.list /\ page'.list.status = "success" =>
           q.current /\ page'.list.data = q.data
  <2>1. CASE page' = page
    BY <2>1 DEF PlaybooksInv, PlaybooksShape
  <2>2. CASE q.current /\ page' = [page EXCEPT !.list = Playbooks!Shown(q.data)]
    BY <2>2 DEF PlaybooksInv, PlaybooksShape, PlaybooksFields, Playbooks!Shown
  <2>3. CASE page' = [page EXCEPT !.list = Playbooks!Failed]
    BY <2>3 DEF PlaybooksInv, PlaybooksShape, PlaybooksFields, Playbooks!Failed
  <2> QED
    BY <2>1, <2>2, <2>3 DEF Playbooks!ListAnswered
<1>3. /\ page'.editors = page.editors /\ page'.route = page.route /\ page'.folder = page.folder
      /\ page'.editor = page.editor /\ page'.document = page.document
      /\ page'.timer = page.timer
  BY <1>2 DEF PlaybooksFields
<1>4. PlaybooksShape' /\ PlaybooksStored(store)' /\ PlaybooksListing' /\ PlaybooksEditors'
  BY <1>1, <1>2, <1>3
  DEF PlaybooksInv, PlaybooksShape, PlaybooksStored, PlaybooksListing, PlaybooksEditors,
      PlaybooksEdits
<1>5. \A w \in calls'.writes : PlaybooksWrite(w)'
  BY <1>1, <1>3 DEF PlaybooksInv, PlaybooksWrite, PlaybooksEdits
<1>6. Playbooks!AppearsForFolder
  BY <1>2, <1>3 DEF PlaybooksInv, PlaybooksListing, Playbooks!AppearsForFolder
<1> QED
  BY <1>4, <1>5, <1>6 DEF PlaybooksInv

LEMMA PlaybooksDocumentInv ==
  ASSUME PlaybooksInv, Playbooks!DocumentAnswered \/ Playbooks!RetryDocument
  PROVE  PlaybooksInv' /\ Playbooks!AppearsForFolder
<1>1. page.route # "new"
  BY DEF PlaybooksInv, PlaybooksEditors, Playbooks!DocumentAnswered, Playbooks!RetryDocument
<1>2. /\ DOMAIN calls' = DOMAIN calls /\ calls'.lists = calls.lists
      /\ calls'.writes = calls.writes /\ store' = store
  BY DEF Playbooks!DocumentAnswered, Playbooks!RetryDocument, PlaybooksInv, PlaybooksShape
<1>3. /\ DOMAIN page' = PlaybooksFields
      /\ \A x \in PlaybooksFields \ {"document", "editor"} : page'[x] = page[x]
      /\ \/ page'.editor = page.editor
         \/ page.route = "edit" /\ PlaybooksEdits(page'.editor)
         \/ page.route # "edit" /\ page'.editor = None
  <2> DEFINE playbook == store.playbook[page.id]
  <2>1. CASE page' = [page EXCEPT !.document = Playbooks!Shown(playbook),
               !.editor = IF page.route =
                   "edit" THEN Playbooks!OldEditor(playbook.source) ELSE None]
    BY <2>1 DEF PlaybooksInv, PlaybooksShape, PlaybooksFields, PlaybooksEdits, Playbooks!OldEditor
  <2>2. CASE page' = [page EXCEPT !.document = Playbooks!Failed]
    BY <2>2 DEF PlaybooksInv, PlaybooksShape, PlaybooksFields
  <2>3. CASE page' = [page EXCEPT !.document = Playbooks!Loading]
    BY <2>3 DEF PlaybooksInv, PlaybooksShape, PlaybooksFields
  <2> QED
    BY <2>1, <2>2, <2>3 DEF Playbooks!DocumentAnswered, Playbooks!RetryDocument
<1>4. /\ page'.editors = page.editors /\ page'.route = page.route /\ page'.folder = page.folder
      /\ page'.list = page.list /\ page'.timer = page.timer
  BY <1>3 DEF PlaybooksFields
<1>5. PlaybooksShape' /\ PlaybooksStored(store)' /\ PlaybooksListing' /\ PlaybooksEditors'
  BY <1>1, <1>2, <1>3, <1>4
  DEF PlaybooksInv, PlaybooksShape, PlaybooksStored, PlaybooksListing, PlaybooksEditors,
      PlaybooksEdits
<1>6. \A w \in calls'.writes : PlaybooksWrite(w)'
  BY <1>1, <1>2, <1>3, <1>4 DEF PlaybooksInv, PlaybooksWrite, PlaybooksEditors, PlaybooksEdits
<1> QED
  BY <1>4, <1>5, <1>6 DEF PlaybooksInv, Playbooks!AppearsForFolder

\* The moves of the user from one route to another.
LEMMA PlaybooksWalkInv ==
  ASSUME PlaybooksInv,
         \/ Playbooks!ToList \/ Playbooks!NewPlaybook \/ Playbooks!EditPlaybook
         \/ Playbooks!CancelEdit \/ \E id \in Playbooks!Ids : Playbooks!OpenPlaybook(id)
  PROVE  PlaybooksInv' /\ Playbooks!AppearsForFolder
<1>1. PICK at, id : Playbooks!Go(page, at, id, calls.writes) /\ store' = store
  BY DEF Playbooks!ToList, Playbooks!NewPlaybook, Playbooks!EditPlaybook, Playbooks!CancelEdit,
         Playbooks!OpenPlaybook
<1>2. PlaybooksStored(store')
  BY <1>1 DEF PlaybooksInv
<1> QED
  BY <1>1, <1>2, PlaybooksGo

LEMMA PlaybooksEditInv ==
  ASSUME PlaybooksInv, Playbooks!Edit
  PROVE  PlaybooksInv' /\ Playbooks!AppearsForFolder
<1>1. PICK s \in Playbooks!Sources : page' = [page EXCEPT !.editor.source = s]
  BY DEF Playbooks!Edit
<1>2. calls' = calls /\ store' = store /\ page.editor # None
  BY DEF Playbooks!Edit
<1>3. page.route \in {"new", "edit"} /\ PlaybooksEdits(page.editor)
  BY <1>2 DEF PlaybooksInv, PlaybooksEditors
<1>4. /\ DOMAIN page' = PlaybooksFields
      /\ \A x \in PlaybooksFields \ {"editor"} : page'[x] = page[x]
      /\ page'.editor = [page.editor EXCEPT !.source = s]
  BY <1>1 DEF PlaybooksInv, PlaybooksShape, PlaybooksFields
<1>5. PlaybooksEdits(page'.editor) /\ page'.editor.key = page.editor.key
  BY <1>3, <1>4 DEF PlaybooksEdits
<1>6. PlaybooksStored(store') /\ \A w \in calls'.writes : PlaybooksWrite(w)
  BY <1>2 DEF PlaybooksInv
<1> QED
  BY <1>2, <1>3, <1>4, <1>5, <1>6, PlaybooksKeeps

\* The writes of the page: with the step another one is under way, or some have come to an end.
LEMMA PlaybooksCallsInv ==
  ASSUME PlaybooksInv, NEW new, new = {} \/ \E w : new = {w} /\ PlaybooksWrite(w),
         NEW some, some \subseteq calls.writes,
         calls' = [calls EXCEPT !.writes = some \cup new],
         PlaybooksStored(store'),
         DOMAIN page' = PlaybooksFields,
         \A x \in PlaybooksFields \ {"editor", "deleting", "migrating", "panel"} :
           page'[x] = page[x],
         page'.editor = page.editor
           \/ (PlaybooksEdits(page.editor) /\ PlaybooksEdits(page'.editor)
               /\ page'.editor.key = page.editor.key /\ page.route \in {"new", "edit"})
  PROVE  PlaybooksInv' /\ Playbooks!AppearsForFolder
<1>1. /\ DOMAIN calls' = DOMAIN calls /\ calls'.lists = calls.lists
      /\ calls'.document = calls.document /\ calls'.writes = some \cup new
  BY DEF PlaybooksInv, PlaybooksShape
<1>2. \A w \in calls'.writes : PlaybooksWrite(w)
  BY <1>1 DEF PlaybooksInv
<1> QED
  BY <1>1, <1>2, PlaybooksKeeps

LEMMA PlaybooksSaveInv ==
  ASSUME PlaybooksInv, Playbooks!Save
  PROVE  PlaybooksInv' /\ Playbooks!AppearsForFolder
<1> DEFINE first == IF page.route = "new"
                    THEN Playbooks!Write("create", <<page.folder, page.editor.key>>)
                    ELSE Playbooks!Write("update", page.id)
           w == [first EXCEPT !.stage = "validate", !.source = page.editor.source]
           new == {w}
           some == calls.writes
<1>1. /\ page.editor # None /\ page' = [page EXCEPT !.editor.saving = TRUE]
      /\ calls' = [calls EXCEPT !.writes = some \cup new] /\ store' = store
  BY DEF Playbooks!Save
<1>2. page.route \in {"new", "edit"} /\ PlaybooksEdits(page.editor)
  BY <1>1 DEF PlaybooksInv, PlaybooksEditors
<1>3. /\ DOMAIN page' = PlaybooksFields
      /\ \A x \in PlaybooksFields \ {"editor"} : page'[x] = page[x]
      /\ page'.editor = [page.editor EXCEPT !.saving = TRUE]
  BY <1>1 DEF PlaybooksInv, PlaybooksShape, PlaybooksFields
<1>4. PlaybooksEdits(page'.editor) /\ page'.editor.key = page.editor.key
  BY <1>2, <1>3 DEF PlaybooksEdits
<1>5. /\ DOMAIN first = PlaybooksWriteFields
      /\ first.kind = "create" => page.route = "new" /\ first.id[2] = page.editor.key
  BY DEF Playbooks!Write, PlaybooksWriteFields
<1> HIDE DEF first
<1>6. /\ DOMAIN w = PlaybooksWriteFields
      /\ w.kind = "create" => page.route = "new" /\ w.id[2] = page.editor.key
  BY <1>5 DEF PlaybooksWriteFields
<1> HIDE DEF w
<1>7. PlaybooksWrite(w)
  BY <1>2, <1>6 DEF PlaybooksWrite, PlaybooksInv, PlaybooksEditors
<1>8. PlaybooksStored(store')
  BY <1>1 DEF PlaybooksInv
<1> HIDE DEF some
<1>9. some \subseteq calls.writes /\ \E v : new = {v} /\ PlaybooksWrite(v)
  BY <1>7 DEF some
<1> HIDE DEF new
<1> QED
  BY <1>1, <1>2, <1>3, <1>4, <1>8, <1>9, PlaybooksCallsInv

LEMMA PlaybooksValidatedInv ==
  ASSUME PlaybooksInv, NEW w \in calls.writes, Playbooks!Validated(w)
  PROVE  PlaybooksInv' /\ Playbooks!AppearsForFolder
<1> DEFINE v == [w EXCEPT !.stage = "write"]
           new == {v}
           some == calls.writes \ {w}
<1>1. calls' = [calls EXCEPT !.writes = some \cup new] /\ page' = page /\ store' = store
  BY DEF Playbooks!Validated
<1>2. PlaybooksWrite(w)
  BY DEF PlaybooksInv
<1>3. PlaybooksWrite(v)
  BY <1>2 DEF PlaybooksWrite, PlaybooksWriteFields
<1>4. PlaybooksStored(store') /\ DOMAIN page' = PlaybooksFields
  BY <1>1 DEF PlaybooksInv, PlaybooksShape
<1> HIDE DEF v
<1>5. some \subseteq calls.writes /\ \E u : new = {u} /\ PlaybooksWrite(u)
  BY <1>3
<1> HIDE DEF new, some
<1> QED
  BY <1>1, <1>4, <1>5, PlaybooksCallsInv

\* A write ends: the page goes to a route of its own, or only marks the end.
LEMMA PlaybooksEndsInv ==
  ASSUME PlaybooksInv, NEW w \in calls.writes,
         calls' = [calls EXCEPT !.writes = Playbooks!Rest(w)], PlaybooksStored(store'),
         DOMAIN page' = PlaybooksFields,
         \A x \in PlaybooksFields \ {"editor", "deleting", "migrating", "panel"} :
           page'[x] = page[x],
         page'.editor = page.editor
           \/ (PlaybooksEdits(page.editor) /\ PlaybooksEdits(page'.editor)
               /\ page'.editor.key = page.editor.key /\ page.route \in {"new", "edit"})
  PROVE  PlaybooksInv' /\ Playbooks!AppearsForFolder
<1> DEFINE some == Playbooks!Rest(w)
           new == {}
<1>1. some \subseteq calls.writes /\ some = some \cup new
  BY DEF Playbooks!Rest
<1> HIDE DEF some
<1>2. calls' = [calls EXCEPT !.writes = some \cup new]
  BY <1>1 DEF some
<1> QED
  BY <1>1, <1>2, PlaybooksCallsInv

LEMMA PlaybooksSavedInv ==
  ASSUME PlaybooksInv, NEW w \in calls.writes, Playbooks!SaveAnswered(w) \/ Playbooks!SaveFails(w)
  PROVE  PlaybooksInv' /\ Playbooks!AppearsForFolder
<1>1. PlaybooksStored(store')
  <2>1. store' = store \/ store' \in Playbooks!Written(w)
    BY DEF Playbooks!SaveAnswered, Playbooks!SaveFails
  <2> QED
    BY <2>1, PlaybooksWritten DEF PlaybooksInv
<1>2. CASE Playbooks!SaveAnswered(w) /\ w.mine
  <2>1. Playbooks!Go(page, "detail", w.id, Playbooks!Rest(w))
        /\ Playbooks!Rest(w) \subseteq calls.writes
    BY <1>2 DEF Playbooks!SaveAnswered, Playbooks!Rest
  <2> QED
    BY <1>1, <2>1, PlaybooksGo
<1>3. CASE page' = page /\ calls' = [calls EXCEPT !.writes = Playbooks!Rest(w)]
  <2>1. DOMAIN page' = PlaybooksFields
    BY <1>3 DEF PlaybooksInv, PlaybooksShape
  <2> QED
    BY <1>1, <1>3, <2>1, PlaybooksEndsInv
<1>4. CASE Playbooks!SaveFails(w) /\ w.mine
  <2>1. /\ page' = [page EXCEPT !.editor.saving = FALSE]
        /\ calls' = [calls EXCEPT !.writes = Playbooks!Rest(w)]
        /\ w.kind \in {"create", "update"}
    BY <1>4 DEF Playbooks!SaveFails, Playbooks!SaveFailed, Playbooks!SaveEnds, Playbooks!Saving
  <2>2. page.route \in {"new", "edit"} /\ PlaybooksEdits(page.editor)
    BY <1>4, <2>1 DEF PlaybooksInv, PlaybooksWrite
  <2>3. /\ DOMAIN page' = PlaybooksFields
        /\ \A x \in PlaybooksFields \ {"editor"} : page'[x] = page[x]
        /\ page'.editor = [page.editor EXCEPT !.saving = FALSE]
    BY <2>1 DEF PlaybooksInv, PlaybooksShape, PlaybooksFields
  <2>4. PlaybooksEdits(page'.editor) /\ page'.editor.key = page.editor.key
    BY <2>2, <2>3 DEF PlaybooksEdits
  <2> QED
    BY <1>1, <2>1, <2>2, <2>3, <2>4, PlaybooksEndsInv
<1> QED
  BY <1>2, <1>3, <1>4 DEF Playbooks!SaveAnswered, Playbooks!SaveFails

LEMMA PlaybooksDetailInv ==
  ASSUME PlaybooksInv, NEW w \in calls.writes,
         Playbooks!DetailWriteAnswered(w) \/ Playbooks!DetailWriteFails(w)
  PROVE  PlaybooksInv' /\ Playbooks!AppearsForFolder
<1>1. PlaybooksStored(store')
  <2>1. store' = store \/ store' \in Playbooks!Written(w)
    BY DEF Playbooks!DetailWriteAnswered, Playbooks!DetailWriteFails
  <2> QED
    BY <2>1, PlaybooksWritten DEF PlaybooksInv
<1>2. CASE Playbooks!DetailWriteAnswered(w)
  <2>1. PICK at, id : Playbooks!Go(page, at, id, Playbooks!Rest(w))
    BY <1>2 DEF Playbooks!DetailWriteAnswered
  <2>2. Playbooks!Rest(w) \subseteq calls.writes
    BY DEF Playbooks!Rest
  <2> QED
    BY <1>1, <2>1, <2>2, PlaybooksGo
<1>3. CASE Playbooks!DetailWriteFails(w)
  <2>1. calls' = [calls EXCEPT !.writes = Playbooks!Rest(w)]
    BY <1>3 DEF Playbooks!DetailWriteFails
  <2>2. page' \in {page, [page EXCEPT !.deleting = FALSE], [page EXCEPT !.migrating = FALSE]}
    BY <1>3 DEF Playbooks!DetailWriteFails
  <2>3. /\ DOMAIN page' = PlaybooksFields
        /\ \A x \in PlaybooksFields \ {"deleting", "migrating"} : page'[x] = page[x]
        /\ page'.editor = page.editor
    BY <2>2 DEF PlaybooksInv, PlaybooksShape, PlaybooksFields
  <2> QED
    BY <1>1, <2>1, <2>3, PlaybooksEndsInv
<1> QED
  BY <1>2, <1>3

\* A write of the page that no editor is concerned with.
LEMMA PlaybooksPlainWrite ==
  ASSUME NEW kind, kind \notin {"create", "update"}, NEW id
  PROVE  PlaybooksWrite(Playbooks!Write(kind, id))
         /\ \A r : PlaybooksWrite([Playbooks!Write(kind, id) EXCEPT !.run = r])
<1>1. /\ DOMAIN Playbooks!Write(kind, id) = PlaybooksWriteFields
      /\ Playbooks!Write(kind, id).kind = kind
  BY DEF Playbooks!Write, PlaybooksWriteFields
<1> QED
  BY <1>1 DEF PlaybooksWrite, PlaybooksWriteFields

LEMMA PlaybooksDetailWriteInv ==
  ASSUME PlaybooksInv, Playbooks!Delete \/ Playbooks!Migrate
  PROVE  PlaybooksInv' /\ Playbooks!AppearsForFolder
<1> DEFINE some == calls.writes
<1>1. PICK kind \in {"delete", "migrate"} :
        calls' = [calls EXCEPT !.writes = some \cup {Playbooks!Write(kind, page.id)}]
  BY DEF Playbooks!Delete, Playbooks!Migrate
<1> DEFINE w == Playbooks!Write(kind, page.id)
           new == {w}
<1>2. page' \in {[page EXCEPT !.deleting = TRUE], [page EXCEPT !.migrating = TRUE]}
      /\ store' = store
  BY DEF Playbooks!Delete, Playbooks!Migrate
<1>3. /\ DOMAIN page' = PlaybooksFields
      /\ \A x \in PlaybooksFields \ {"deleting", "migrating"} : page'[x] = page[x]
      /\ page'.editor = page.editor
  BY <1>2 DEF PlaybooksInv, PlaybooksShape, PlaybooksFields
<1>4. PlaybooksWrite(w) /\ PlaybooksStored(store')
  BY <1>2, PlaybooksPlainWrite DEF PlaybooksInv
<1> HIDE DEF w
<1>5. some \subseteq calls.writes /\ \E v : new = {v} /\ PlaybooksWrite(v)
  BY <1>4
<1>6. calls' = [calls EXCEPT !.writes = some \cup new]
  BY <1>1 DEF w
<1> HIDE DEF new, some
<1> QED
  BY <1>3, <1>4, <1>5, <1>6, PlaybooksCallsInv

-----------------------------------------------------------------------------
(* The panel of runs writes runs only.                                     *)

\* The step changes nothing of the page but its panel.
LEMMA PlaybooksPanelFacts ==
  ASSUME PlaybooksInv, DOMAIN page' = DOMAIN page,
         \A x \in DOMAIN page \ {"panel"} : page'[x] = page[x]
  PROVE  /\ DOMAIN page' = PlaybooksFields /\ page'.editor = page.editor
         /\ \A x \in PlaybooksFields \ {"editor", "deleting", "migrating", "panel"} :
              page'[x] = page[x]
  BY DEF PlaybooksInv, PlaybooksShape, PlaybooksFields

LEMMA PlaybooksPanelInv ==
  ASSUME PlaybooksInv,
         \/ Playbooks!OpenRuns \/ Playbooks!RunsAnswered \/ Playbooks!StreamMoves
         \/ Playbooks!SnapshotAnswered \/ Playbooks!ArtifactsAnswered
  PROVE  PlaybooksInv' /\ Playbooks!AppearsForFolder
<1>1. calls' = calls /\ store' = store
  BY DEF Playbooks!OpenRuns, Playbooks!RunsAnswered, Playbooks!StreamMoves,
         Playbooks!SnapshotAnswered, Playbooks!ArtifactsAnswered
<1>2. \E panel : page' = [page EXCEPT !.panel = panel]
  <2>1. CASE Playbooks!OpenRuns \/ Playbooks!SnapshotAnswered
    BY <2>1 DEF Playbooks!OpenRuns, Playbooks!SnapshotAnswered
  <2>2. CASE Playbooks!RunsAnswered \/ Playbooks!ArtifactsAnswered
    BY <2>2 DEF Playbooks!RunsAnswered, Playbooks!ArtifactsAnswered
  <2>3. CASE Playbooks!StreamMoves
    <3>1. \E stage, status : Playbooks!Stage(stage, status)
      BY <2>3 DEF Playbooks!StreamMoves
    <3> QED
      BY <3>1 DEF Playbooks!Stage
  <2> QED
    BY <2>1, <2>2, <2>3
<1>3. DOMAIN page' = DOMAIN page /\ \A x \in DOMAIN page \ {"panel"} : page'[x] = page[x]
  BY <1>2
<1>4. PlaybooksStored(store') /\ \A w \in calls'.writes : PlaybooksWrite(w)
  BY <1>1 DEF PlaybooksInv
<1> QED
  BY <1>1, <1>3, <1>4, PlaybooksPanelFacts, PlaybooksKeeps

LEMMA PlaybooksCloseInv ==
  ASSUME PlaybooksInv, Playbooks!CloseRuns
  PROVE  PlaybooksInv' /\ Playbooks!AppearsForFolder
<1> DEFINE runs == Playbooks!RunWrites
<1>1. /\ page' = [page EXCEPT !.panel = None] /\ store' = store
      /\ calls' = [calls EXCEPT !.writes = (calls.writes \ runs) \cup Playbooks!NotMine(runs)]
  BY DEF Playbooks!CloseRuns
<1>2. runs \subseteq calls.writes
  BY DEF Playbooks!RunWrites
<1> HIDE DEF runs
<1>3. DOMAIN page' = DOMAIN page /\ \A x \in DOMAIN page \ {"panel"} : page'[x] = page[x]
  BY <1>1
<1>4. \A w \in Playbooks!NotMine(runs) : PlaybooksWrite(w)
  <2>1. SUFFICES ASSUME NEW v \in runs PROVE PlaybooksWrite([v EXCEPT !.mine = FALSE])
    BY DEF Playbooks!NotMine
  <2>2. PlaybooksWrite(v)
    BY <1>2 DEF PlaybooksInv
  <2> QED
    BY <2>2 DEF PlaybooksWrite, PlaybooksWriteFields
<1>5. /\ DOMAIN calls' = DOMAIN calls /\ calls'.lists = calls.lists
      /\ calls'.document = calls.document
      /\ \A w \in calls'.writes : PlaybooksWrite(w)
  BY <1>1, <1>4 DEF PlaybooksInv, PlaybooksShape
<1>6. PlaybooksStored(store')
  BY <1>1 DEF PlaybooksInv
<1> QED
  BY <1>3, <1>5, <1>6, PlaybooksPanelFacts, PlaybooksKeeps

LEMMA PlaybooksOnRunsInv ==
  ASSUME PlaybooksInv, Playbooks!OnRuns
  PROVE  PlaybooksInv' /\ Playbooks!AppearsForFolder
<1>1. PICK kind, r : kind \notin {"create", "update"} /\ Playbooks!RunWrite(kind, r)
  BY DEF Playbooks!OnRuns
<1> DEFINE w == [Playbooks!Write(kind, page.id) EXCEPT !.run = r]
           new == {w}
           some == calls.writes
<1>2. calls' = [calls EXCEPT !.writes = some \cup new] /\ store' = store
  BY <1>1 DEF Playbooks!RunWrite
<1>3. \E panel : page' = [page EXCEPT !.panel = panel]
  BY <1>1 DEF Playbooks!RunWrite
<1>4. DOMAIN page' = DOMAIN page /\ \A x \in DOMAIN page \ {"panel"} : page'[x] = page[x]
  BY <1>3
<1>5. PlaybooksWrite(w) /\ PlaybooksStored(store')
  BY <1>1, <1>2, PlaybooksPlainWrite DEF PlaybooksInv
<1> HIDE DEF w
<1>6. some \subseteq calls.writes /\ \E v : new = {v} /\ PlaybooksWrite(v)
  BY <1>5
<1> HIDE DEF new, some
<1> QED
  BY <1>2, <1>4, <1>5, <1>6, PlaybooksPanelFacts, PlaybooksCallsInv

LEMMA PlaybooksRunWriteInv ==
  ASSUME PlaybooksInv, NEW w \in calls.writes,
         Playbooks!RunWriteAnswered(w) \/ Playbooks!RunReadAnswered(w) \/ Playbooks!RunWriteFails(w)
  PROVE  PlaybooksInv' /\ Playbooks!AppearsForFolder
<1> DEFINE read == [w EXCEPT !.stage = "read", !.status = store'.run[w.run].status]
<1>1. PlaybooksStored(store')
  <2>1. store' = store \/ store' \in Playbooks!Written(w)
    BY DEF Playbooks!RunWriteAnswered, Playbooks!RunReadAnswered, Playbooks!RunWriteFails
  <2> QED
    BY <2>1, PlaybooksWritten DEF PlaybooksInv
<1>2. PlaybooksWrite(w) /\ w.kind \notin {"create", "update"}
  BY DEF PlaybooksInv, Playbooks!RunWrites, Playbooks!RunWriteAnswered,
         Playbooks!RunReadAnswered, Playbooks!RunWriteFails
<1>3. page' = page \/ \E panel : page' = [page EXCEPT !.panel = panel]
  BY DEF Playbooks!RunWriteAnswered, Playbooks!RunReadAnswered, Playbooks!RunWriteFails
<1>4. DOMAIN page' = DOMAIN page /\ \A x \in DOMAIN page \ {"panel"} : page'[x] = page[x]
  BY <1>3
<1>5. PlaybooksWrite(read)
  BY <1>2 DEF PlaybooksWrite, PlaybooksWriteFields
<1>6. \/ calls' = [calls EXCEPT !.writes = Playbooks!Rest(w)]
      \/ calls' = [calls EXCEPT !.writes = Playbooks!Rest(w) \cup {read}]
  BY DEF Playbooks!RunWriteAnswered, Playbooks!RunReadAnswered, Playbooks!RunWriteFails
<1> HIDE DEF read
<1>7. CASE calls' = [calls EXCEPT !.writes = Playbooks!Rest(w)]
  BY <1>1, <1>4, <1>7, PlaybooksPanelFacts, PlaybooksEndsInv
<1>8. CASE calls' = [calls EXCEPT !.writes = Playbooks!Rest(w) \cup {read}]
  <2> DEFINE some == Playbooks!Rest(w)
             new == {read}
  <2>1. some \subseteq calls.writes /\ \E v : new = {v} /\ PlaybooksWrite(v)
    BY <1>5 DEF Playbooks!Rest
  <2>2. calls' = [calls EXCEPT !.writes = some \cup new]
    BY <1>8
  <2> HIDE DEF some, new
  <2> QED
    BY <1>1, <1>4, <2>1, <2>2, PlaybooksPanelFacts, PlaybooksCallsInv
<1> QED
  BY <1>6, <1>7, <1>8

LEMMA PlaybooksRunMovesInv ==
  ASSUME PlaybooksInv, NEW r, Playbooks!RunMoves(r)
  PROVE  PlaybooksInv' /\ Playbooks!AppearsForFolder
<1>1. page' = page /\ calls' = calls
      /\ \E status : store' = [store EXCEPT !.run[r].status = status]
  BY DEF Playbooks!RunMoves
<1>2. DOMAIN store' = {"playbook", "run"} /\ store'.playbook = store.playbook
  BY <1>1 DEF PlaybooksInv, PlaybooksStored
<1>3. PlaybooksStored(store')
  BY <1>2 DEF PlaybooksInv, PlaybooksStored
<1>4. DOMAIN page' = PlaybooksFields /\ \A w \in calls'.writes : PlaybooksWrite(w)
  BY <1>1 DEF PlaybooksInv, PlaybooksShape
<1> QED
  BY <1>1, <1>3, <1>4, PlaybooksKeeps

-----------------------------------------------------------------------------
(* The invariant.                                                          *)

LEMMA PlaybooksInitInv ==
  ASSUME Playbooks!Parameters, Playbooks!Init
  PROVE  PlaybooksInv
<1>1. PlaybooksShape
  BY DEF Playbooks!Init, PlaybooksShape, PlaybooksFields
<1>2. PlaybooksEditors /\ PlaybooksListing /\ \A w \in calls.writes : PlaybooksWrite(w)
  BY DEF Playbooks!Init, PlaybooksEditors, PlaybooksListing
<1>3. PlaybooksStored(store)
  <2> DEFINE first == <<CHOOSE f \in FoldersOf["playbooks"] : TRUE, 0>>
             playbook(kind) ==
               [id \in Playbooks!Ids |->
                  IF id = first THEN [status |-> kind, source |-> "first", by |-> None]
                  ELSE [status |-> "none", source |-> None, by |-> None]]
             run == [r \in Playbooks!Runs |-> [of |-> None, status |-> "none"]]
  <2>1. \E kind \in {"active", "legacy"} : store = [playbook |-> playbook(kind), run |-> run]
    BY DEF Playbooks!Init
  <2>3. \A kind : /\ DOMAIN playbook(kind) = Playbooks!Ids
                  /\ \A id \in Playbooks!Ids :
                       /\ DOMAIN playbook(kind)[id] = {"status", "source", "by"}
                       /\ playbook(kind)[id].by = None
    <3> HIDE DEF first
    <3> QED
      OBVIOUS
  <2> HIDE DEF playbook, run
  <2>2. None # "create"
    BY DEF Playbooks!Parameters
  <2>4. /\ DOMAIN store = {"playbook", "run"} /\ DOMAIN store.playbook = Playbooks!Ids
        /\ \A id \in Playbooks!Ids :
             /\ DOMAIN store.playbook[id] = {"status", "source", "by"}
             /\ store.playbook[id].by = None
    BY <2>1, <2>3
  <2> QED
    BY <2>2, <2>4 DEF PlaybooksStored
<1> QED
  BY <1>1, <1>2, <1>3 DEF PlaybooksInv

LEMMA PlaybooksNextInv ==
  PlaybooksInv /\ [Playbooks!Next]_(Playbooks!vars) => PlaybooksInv' /\ Playbooks!AppearsForFolder
<1> SUFFICES ASSUME PlaybooksInv, [Playbooks!Next]_(Playbooks!vars)
             PROVE  PlaybooksInv' /\ Playbooks!AppearsForFolder
  OBVIOUS
<1>1. ASSUME NEW f, Playbooks!SelectFolder(f) PROVE PlaybooksInv' /\ Playbooks!AppearsForFolder
  BY <1>1, PlaybooksSelectInv
<1>2. CASE \/ Playbooks!ToList \/ Playbooks!NewPlaybook \/ Playbooks!EditPlaybook
           \/ Playbooks!CancelEdit \/ \E id \in Playbooks!Ids : Playbooks!OpenPlaybook(id)
  BY <1>2, PlaybooksWalkInv
<1>3. CASE Playbooks!Load
  BY <1>3, PlaybooksLoadInv
<1>4. CASE Playbooks!DocumentAnswered \/ Playbooks!RetryDocument
  BY <1>4, PlaybooksDocumentInv
<1>5. ASSUME NEW q \in calls.lists, Playbooks!ListAnswered(q)
      PROVE  PlaybooksInv' /\ Playbooks!AppearsForFolder
  BY <1>5, PlaybooksListAnsweredInv
<1>6. CASE Playbooks!Edit \/ Playbooks!Save
  BY <1>6, PlaybooksEditInv, PlaybooksSaveInv
<1>7. CASE Playbooks!Delete \/ Playbooks!Migrate
  BY <1>7, PlaybooksDetailWriteInv
<1>8. ASSUME NEW w \in calls.writes,
             \/ Playbooks!Validated(w) \/ Playbooks!SaveAnswered(w) \/ Playbooks!SaveFails(w)
             \/ Playbooks!DetailWriteAnswered(w) \/ Playbooks!DetailWriteFails(w)
             \/ Playbooks!RunWriteAnswered(w) \/ Playbooks!RunReadAnswered(w)
             \/ Playbooks!RunWriteFails(w)
      PROVE  PlaybooksInv' /\ Playbooks!AppearsForFolder
  BY <1>8, PlaybooksValidatedInv, PlaybooksSavedInv, PlaybooksDetailInv, PlaybooksRunWriteInv
<1>9. CASE \/ Playbooks!OpenRuns \/ Playbooks!RunsAnswered \/ Playbooks!StreamMoves
           \/ Playbooks!SnapshotAnswered \/ Playbooks!ArtifactsAnswered
  BY <1>9, PlaybooksPanelInv
<1>10. CASE Playbooks!CloseRuns \/ Playbooks!OnRuns
  BY <1>10, PlaybooksCloseInv, PlaybooksOnRunsInv
<1>11. ASSUME NEW r, Playbooks!RunMoves(r) PROVE PlaybooksInv' /\ Playbooks!AppearsForFolder
  BY <1>11, PlaybooksRunMovesInv
<1>12. CASE UNCHANGED Playbooks!vars
  <2>1. page' = page /\ calls' = calls /\ store' = store
    BY <1>12 DEF Playbooks!vars
  <2>2. DOMAIN page' = PlaybooksFields /\ PlaybooksStored(store')
        /\ \A w \in calls'.writes : PlaybooksWrite(w)
    BY <2>1 DEF PlaybooksInv, PlaybooksShape
  <2> QED
    BY <2>1, <2>2, PlaybooksKeeps
<1> QED
  BY <1>1, <1>2, <1>3, <1>4, <1>5, <1>6, <1>7, <1>8, <1>9, <1>10, <1>11, <1>12
  DEF Playbooks!Next

LEMMA PlaybooksAlwaysInv == ASSUME Playbooks!Parameters PROVE Playbooks!Spec => []PlaybooksInv
<1>1. PlaybooksInv /\ [Playbooks!Next]_(Playbooks!vars) => PlaybooksInv'
  BY PlaybooksNextInv
<1>2. Playbooks!Init => PlaybooksInv
  BY PlaybooksInitInv
<1> QED
  BY <1>1, <1>2, PTL DEF Playbooks!Spec

\* The keys of what was created are among those of the editors that were opened.
THEOREM PlaybooksSaveOnce ==
  ASSUME Playbooks!Parameters
  PROVE  Playbooks!Spec => []Playbooks!SavedOnce
<1>1. PlaybooksInv => Playbooks!SavedOnce
  <2> SUFFICES ASSUME PlaybooksInv PROVE Playbooks!SavedOnce
    OBVIOUS
  <2> SUFFICES ASSUME NEW f \in FoldersOf["playbooks"]
               PROVE  Playbooks!Cardinality({k \in Playbooks!Keys : store.playbook[<<f,
                      k>>].by = "create"})
                        <= page.editors
    BY DEF Playbooks!SavedOnce
  <2> DEFINE keys == {k \in Playbooks!Keys : store.playbook[<<f, k>>].by = "create"}
  <2>1. page.editors \in Nat
    BY DEF PlaybooksInv, PlaybooksShape
  <2>2. keys \subseteq 1 .. page.editors
    BY DEF PlaybooksInv, PlaybooksStored, Playbooks!Ids
  <2> HIDE DEF keys
  <2>3. IsFiniteSet(1 .. page.editors) /\ Cardinality(1 .. page.editors) = page.editors
    BY <2>1, FS_Interval
  <2>4. Cardinality(keys) <= Cardinality(1 .. page.editors)
    BY <2>2, <2>3, FS_Subset
  <2>5. Playbooks!Cardinality(keys) = Cardinality(keys)
    BY DEF Playbooks!Cardinality, Cardinality
  <2> QED
    BY <2>3, <2>4, <2>5 DEF keys
<1> QED
  BY <1>1, PlaybooksAlwaysInv, PTL

-----------------------------------------------------------------------------
(* The types of the page of playbooks.                                     *)

PlaybookStatuses == {"loading", "error", "success"}
PlaybookRoutes == {"list", "new", "detail", "edit"}
PlaybookUids == Playbooks!Ids \cup {None}

\* The editor of a new playbook has a key that is there, and no document takes its place.
PlaybookTypedPage ==
  /\ DOMAIN page = PlaybooksFields
  /\ page.folder \in FoldersOf["playbooks"] /\ page.route \in PlaybookRoutes
  /\ page.id \in PlaybookUids /\ page.editors \in 0 .. Most.editors
  /\ page.list.status \in PlaybookStatuses /\ page.document.status \in PlaybookStatuses
  /\ page.deleting \in BOOLEAN /\ page.migrating \in BOOLEAN
  /\ page.editor = None \/ PlaybooksEdits(page.editor)
  /\ page.route \notin {"new", "edit"} => page.editor = None
  /\ page.route = "new" =>
       /\ PlaybooksEdits(page.editor) /\ page.editor.key \in Playbooks!Keys
       /\ ~calls.document /\ page.document.status = "loading"

PlaybookTypedWrite(w) ==
  /\ DOMAIN w = PlaybooksWriteFields /\ w.stage \in {"validate", "write", "read"}
  /\ w.id \in PlaybookUids
  /\ w.mine /\ w.kind \in {"create", "update"} =>
       page.route \in {"new", "edit"} /\ PlaybooksEdits(page.editor)

PlaybookTypedStore(s) == DOMAIN s = {"playbook", "run"} /\ DOMAIN s.playbook = Playbooks!Ids

PlaybookTyped ==
  /\ PlaybookTypedPage /\ DOMAIN calls = {"lists", "document", "writes"}
  /\ PlaybookTypedStore(store)
  /\ \A w \in calls.writes : PlaybookTypedWrite(w)

LEMMA PlaybookTypedFields ==
  ASSUME PlaybookTyped
  PROVE  /\ DOMAIN page = PlaybooksFields /\ DOMAIN calls = {"lists", "document", "writes"}
         /\ PlaybookTypedStore(store) /\ \A w \in calls.writes : PlaybookTypedWrite(w)
  BY DEF PlaybookTyped, PlaybookTypedPage

\* A write leaves the playbooks that there may be.
LEMMA PlaybookTypedWritten ==
  ASSUME PlaybookTyped, NEW w \in calls.writes, NEW s \in Playbooks!Written(w)
  PROVE  PlaybookTypedStore(s)
<1>1. DOMAIN store = {"playbook", "run"} /\ DOMAIN store.playbook = Playbooks!Ids
  BY DEF PlaybookTyped, PlaybookTypedStore
<1>2. CASE w.kind \in {"create", "update"}
  <2> DEFINE new == [store.playbook[w.id] EXCEPT !.status = "active", !.source = w.source,
                       !.by = IF w.kind = "create" THEN w.kind ELSE @]
  <2>1. s = [store EXCEPT !.playbook[w.id].status = "active", !.playbook[w.id].source = w.source,
                          !.playbook[w.id].by = IF w.kind = "create" THEN w.kind ELSE @]
    BY <1>2 DEF Playbooks!Written
  <2>2. DOMAIN s = {"playbook", "run"} /\ s.playbook = [store.playbook EXCEPT ![w.id] = new]
    BY <1>1, <2>1
  <2> HIDE DEF new
  <2> QED
    BY <1>1, <2>2 DEF PlaybookTypedStore
<1>3. CASE w.kind = "migrate"
  BY <1>1, <1>3 DEF Playbooks!Written, PlaybookTypedStore
<1>4. CASE w.kind = "delete"
  BY <1>1, <1>4 DEF Playbooks!Written, PlaybookTypedStore
<1>5. CASE w.kind \in {"start", "retry"}
  BY <1>1, <1>5 DEF Playbooks!Written, PlaybookTypedStore
<1>6. CASE w.kind \in {"cancel", "reject"}
  BY <1>1, <1>6 DEF Playbooks!Written, PlaybookTypedStore
<1>7. CASE w.kind \notin {"create", "update", "migrate", "delete", "start", "retry", "cancel",
                          "reject"}
  BY <1>1, <1>7 DEF Playbooks!Written, PlaybookTypedStore
<1> QED
  BY <1>2, <1>3, <1>4, <1>5, <1>6, <1>7

\* A step that stays at the route and at the editor that is open.
LEMMA PlaybookTypedKeeps ==
  ASSUME PlaybookTyped, DOMAIN page' = PlaybooksFields, DOMAIN calls' = DOMAIN calls,
         \A x \in {"folder", "route", "id", "editors"} : page'[x] = page[x],
         page'.list.status \in PlaybookStatuses, page'.document.status \in PlaybookStatuses,
         page'.deleting \in BOOLEAN, page'.migrating \in BOOLEAN,
         \/ page'.editor = page.editor
         \/ (PlaybooksEdits(page.editor) /\ PlaybooksEdits(page'.editor)
               /\ page'.editor.key = page.editor.key /\ page.route \in {"new", "edit"}),
         \/ page.route # "new"
         \/ (calls'.document = calls.document /\ page'.document = page.document),
         \A w \in calls'.writes : PlaybookTypedWrite(w),
         PlaybookTypedStore(store')
  PROVE  PlaybookTyped'
<1>1. /\ page'.folder = page.folder /\ page'.route = page.route /\ page'.id = page.id
      /\ page'.editors = page.editors
  OBVIOUS
<1>2. /\ DOMAIN page' = PlaybooksFields
      /\ page'.folder \in FoldersOf["playbooks"] /\ page'.route \in PlaybookRoutes
      /\ page'.id \in PlaybookUids /\ page'.editors \in 0 .. Most.editors
  BY <1>1 DEF PlaybookTyped, PlaybookTypedPage
<1>3. /\ page'.editor = None \/ PlaybooksEdits(page'.editor)
      /\ page'.route \notin {"new", "edit"} => page'.editor = None
  BY <1>1 DEF PlaybookTyped, PlaybookTypedPage
<1>4. page'.route = "new" => PlaybooksEdits(page'.editor) /\ page'.editor.key \in Playbooks!Keys
  BY <1>1 DEF PlaybookTyped, PlaybookTypedPage
<1>5. page'.route = "new" => ~calls'.document /\ page'.document.status = "loading"
  BY <1>1 DEF PlaybookTyped, PlaybookTypedPage
<1>6. PlaybookTypedPage'
  BY <1>2, <1>3, <1>4, <1>5 DEF PlaybookTypedPage, PlaybooksEdits
<1>7. \A w \in calls'.writes : PlaybookTypedWrite(w)'
  BY <1>1 DEF PlaybookTypedWrite, PlaybooksEdits
<1> QED
  BY <1>6, <1>7 DEF PlaybookTyped, PlaybookTypedStore

\* Leave the components of the route.
LEMMA PlaybookTypedGo ==
  ASSUME Playbooks!Parameters, PlaybookTyped,
         NEW p, p.folder \in FoldersOf["playbooks"], p.editors = page.editors,
         p = page \/ p.folder # page.folder,
         NEW at \in PlaybookRoutes, at = "new" => page.editors < Most.editors,
         NEW id \in PlaybookUids, NEW writes, writes \subseteq calls.writes,
         PlaybookTypedStore(store'), Playbooks!Go(p, at, id, writes)
  PROVE  PlaybookTyped'
<1> DEFINE stays == page.route = at /\ page.id = id /\ page.folder = p.folder
           editors == p.editors + (IF at = "new" THEN 1 ELSE 0)
<1>1. CASE stays
  <2>1. page' = page /\ calls' = [calls EXCEPT !.writes = writes]
    BY <1>1 DEF Playbooks!Go
  <2>2. /\ DOMAIN calls' = DOMAIN calls /\ calls'.document = calls.document
        /\ \A w \in calls'.writes : PlaybookTypedWrite(w)
    BY <2>1, PlaybookTypedFields
  <2> QED
    BY <2>1, <2>2, PlaybookTypedKeeps, PlaybookTypedFields DEF PlaybookTyped, PlaybookTypedPage
<1>2. CASE ~stays
  <2>1. page' = [folder |-> p.folder, route |-> at, id |-> id, editors |-> editors,
                 list |-> Playbooks!Loading, timer |-> at = "list", document |-> Playbooks!Loading,
                 editor |-> IF at = "new" THEN Playbooks!NewEditor(editors) ELSE None,
                 deleting |-> FALSE, migrating |-> FALSE, panel |-> None]
    BY <1>2 DEF Playbooks!Go
  <2>2. calls' = [lists |-> Playbooks!Invalidated(calls.lists),
                  writes |-> Playbooks!NotMine(writes), document |-> at \in {"detail", "edit"}]
    BY <1>2 DEF Playbooks!Go
  <2>3. page.editors \in 0 .. Most.editors /\ Most.editors \in Playbooks!Keys
    BY DEF PlaybookTyped, PlaybookTypedPage, Playbooks!Parameters, Playbooks!Keys
  <2>4. editors \in 0 .. Most.editors /\ editors \in Playbooks!Keys
    BY <2>3 DEF Playbooks!Parameters, Playbooks!Keys
  <2> HIDE DEF editors, stays
  <2>5. \A w \in calls'.writes : PlaybookTypedWrite(w)'
    <3>1. SUFFICES ASSUME NEW v \in writes PROVE PlaybookTypedWrite([v EXCEPT !.mine = FALSE])'
      BY <2>2 DEF Playbooks!NotMine
    <3>2. PlaybookTypedWrite(v)
      BY PlaybookTypedFields
    <3> QED
      BY <3>2 DEF PlaybookTypedWrite, PlaybooksWriteFields
  <2>6. DOMAIN page' = PlaybooksFields
    BY <2>1 DEF PlaybooksFields
  <2>7. /\ page'.folder = p.folder /\ page'.route = at /\ page'.id = id
        /\ page'.editors = editors /\ page'.list.status = "loading"
        /\ page'.document.status = "loading" /\ page'.deleting = FALSE
        /\ page'.migrating = FALSE /\ calls'.document = (at \in {"detail", "edit"})
    BY <2>1, <2>2 DEF Playbooks!Loading
  <2>8. /\ at = "new" => PlaybooksEdits(page'.editor) /\ page'.editor.key = editors
        /\ at # "new" => page'.editor = None
    BY <2>1 DEF Playbooks!NewEditor, PlaybooksEdits
  <2>9. PlaybookTypedPage'
    BY <2>4, <2>6, <2>7, <2>8 DEF PlaybookTypedPage, PlaybookStatuses
  <2>10. DOMAIN calls' = {"lists", "document", "writes"}
    BY <2>2
  <2> QED
    BY <2>5, <2>9, <2>10 DEF PlaybookTyped, PlaybookTypedStore
<1> QED
  BY <1>1, <1>2

LEMMA PlaybookTypedSelect ==
  ASSUME Playbooks!Parameters, PlaybookTyped, NEW f \in FoldersOf["playbooks"],
         Playbooks!SelectFolder(f)
  PROVE  PlaybookTyped'
<1> DEFINE p == [page EXCEPT !.folder = f]
<1>1. f # page.folder /\ store' = store /\ PlaybookTypedStore(store')
  BY PlaybookTypedFields DEF Playbooks!SelectFolder
<1>2. p.editors = page.editors /\ p.folder = f /\ DOMAIN page = PlaybooksFields
  BY PlaybookTypedFields DEF PlaybooksFields
<1>3. CASE page.route \in {"list", "new"}
  <2>1. /\ page' \in {[page EXCEPT !.folder = f, !.timer = TRUE], p}
        /\ calls' \in {[calls EXCEPT !.lists = Playbooks!Invalidated(calls.lists)], calls}
    BY <1>3 DEF Playbooks!SelectFolder
  <2>2. /\ DOMAIN page' = PlaybooksFields /\ page'.folder = f
        /\ \A x \in PlaybooksFields \ {"folder", "timer"} : page'[x] = page[x]
    BY <1>2, <2>1 DEF PlaybooksFields
  <2>3. /\ page'.route = page.route /\ page'.id = page.id /\ page'.editors = page.editors
        /\ page'.list = page.list /\ page'.document = page.document
        /\ page'.editor = page.editor /\ page'.deleting = page.deleting
        /\ page'.migrating = page.migrating
    BY <2>2 DEF PlaybooksFields
  <2>4. DOMAIN calls' = {"lists", "document", "writes"} /\ calls'.document = calls.document
        /\ calls'.writes = calls.writes
    BY <2>1, PlaybookTypedFields
  <2>5. PlaybookTypedPage'
    BY <2>2, <2>3, <2>4 DEF PlaybookTyped, PlaybookTypedPage, PlaybooksEdits
  <2>6. \A w \in calls'.writes : PlaybookTypedWrite(w)'
    BY <2>3, <2>4 DEF PlaybookTyped, PlaybookTypedWrite, PlaybooksEdits
  <2> QED
    BY <1>1, <2>4, <2>5, <2>6 DEF PlaybookTyped, PlaybookTypedStore
<1>4. CASE page.route \notin {"list", "new"}
  <2>1. Playbooks!Go(p, page.route, page.id, calls.writes)
    BY <1>4 DEF Playbooks!SelectFolder
  <2>2. page.route \in PlaybookRoutes /\ page.id \in PlaybookUids
    BY DEF PlaybookTyped, PlaybookTypedPage
  <2> HIDE DEF p
  <2> QED
    BY <1>1, <1>2, <1>4, <2>1, <2>2, PlaybookTypedGo
<1> QED
  BY <1>3, <1>4

LEMMA PlaybookTypedWalk ==
  ASSUME Playbooks!Parameters, PlaybookTyped,
         \/ Playbooks!ToList \/ Playbooks!NewPlaybook \/ Playbooks!EditPlaybook
         \/ Playbooks!CancelEdit \/ \E id \in Playbooks!Ids : Playbooks!OpenPlaybook(id)
  PROVE  PlaybookTyped'
<1>1. page.id \in PlaybookUids /\ page.folder \in FoldersOf["playbooks"]
  BY DEF PlaybookTyped, PlaybookTypedPage
<1>2. PICK at \in PlaybookRoutes, id \in PlaybookUids :
        /\ Playbooks!Go(page, at, id, calls.writes) /\ store' = store
        /\ at = "new" => page.editors < Most.editors
  BY <1>1 DEF Playbooks!ToList, Playbooks!NewPlaybook, Playbooks!EditPlaybook,
         Playbooks!CancelEdit, Playbooks!OpenPlaybook, PlaybookRoutes, PlaybookUids
<1>3. PlaybookTypedStore(store')
  BY <1>2, PlaybookTypedFields
<1> QED
  BY <1>1, <1>2, <1>3, PlaybookTypedGo

LEMMA PlaybookTypedRead ==
  ASSUME PlaybookTyped,
         \/ Playbooks!Load \/ \E q \in calls.lists : Playbooks!ListAnswered(q)
  PROVE  PlaybookTyped'
<1>1. /\ store' = store /\ \E some : calls' = [calls EXCEPT !.lists = some]
  BY DEF Playbooks!Load, Playbooks!ListAnswered
<1>2. /\ DOMAIN calls' = DOMAIN calls /\ calls'.document = calls.document
      /\ calls'.writes = calls.writes
  BY <1>1, PlaybookTypedFields
<1>3. /\ Playbooks!Loading.status \in PlaybookStatuses /\ Playbooks!Failed.status \in PlaybookStatuses
      /\ \A data : Playbooks!Shown(data).status \in PlaybookStatuses
  BY DEF Playbooks!Loading, Playbooks!Shown, Playbooks!Failed, PlaybookStatuses
<1>4. /\ DOMAIN page' = PlaybooksFields
      /\ \A x \in PlaybooksFields \ {"list", "timer"} : page'[x] = page[x]
      /\ page'.list.status \in PlaybookStatuses
  <2>1. /\ DOMAIN page = PlaybooksFields /\ page.list.status \in PlaybookStatuses
    BY DEF PlaybookTyped, PlaybookTypedPage
  <2>2. CASE page' = page
    BY <2>1, <2>2
  <2>3. CASE page' = [page EXCEPT !.timer = FALSE, !.list = Playbooks!Loading]
    BY <1>3, <2>1, <2>3 DEF PlaybooksFields
  <2>4. ASSUME NEW data, page' = [page EXCEPT !.list = Playbooks!Shown(data)]
        PROVE  /\ DOMAIN page' = PlaybooksFields
               /\ \A x \in PlaybooksFields \ {"list", "timer"} : page'[x] = page[x]
               /\ page'.list.status \in PlaybookStatuses
    BY <1>3, <2>1, <2>4 DEF PlaybooksFields
  <2>5. CASE page' = [page EXCEPT !.list = Playbooks!Failed]
    BY <1>3, <2>1, <2>5 DEF PlaybooksFields
  <2>6. \/ page' = page
        \/ page' = [page EXCEPT !.timer = FALSE, !.list = Playbooks!Loading]
        \/ \E data : page' = [page EXCEPT !.list = Playbooks!Shown(data)]
        \/ page' = [page EXCEPT !.list = Playbooks!Failed]
    BY DEF Playbooks!Load, Playbooks!ListAnswered
  <2> QED
    BY <2>2, <2>3, <2>4, <2>5, <2>6
<1>5. /\ \A x \in {"folder", "route", "id", "editors"} : page'[x] = page[x]
      /\ page'.document = page.document /\ page'.editor = page.editor
      /\ page'.deleting = page.deleting /\ page'.migrating = page.migrating
  BY <1>4 DEF PlaybooksFields
<1>6. /\ page.document.status \in PlaybookStatuses
      /\ page.deleting \in BOOLEAN /\ page.migrating \in BOOLEAN
  BY DEF PlaybookTyped, PlaybookTypedPage
<1> QED
  BY <1>1, <1>2, <1>4, <1>5, <1>6, PlaybookTypedKeeps, PlaybookTypedFields

LEMMA PlaybookTypedDocument ==
  ASSUME PlaybookTyped, Playbooks!DocumentAnswered \/ Playbooks!RetryDocument
  PROVE  PlaybookTyped'
<1>1. page.route # "new"
  BY DEF PlaybookTyped, PlaybookTypedPage, Playbooks!DocumentAnswered, Playbooks!RetryDocument
<1>2. /\ DOMAIN calls' = DOMAIN calls /\ calls'.writes = calls.writes /\ store' = store
  BY PlaybookTypedFields DEF Playbooks!DocumentAnswered, Playbooks!RetryDocument
<1>3. /\ DOMAIN page' = PlaybooksFields
      /\ \A x \in PlaybooksFields \ {"document", "editor"} : page'[x] = page[x]
      /\ page'.document.status \in PlaybookStatuses
      /\ \/ page'.editor = page.editor
         \/ page.route = "edit" /\ PlaybooksEdits(page'.editor)
         \/ page.route # "edit" /\ page'.editor = None
  <2> DEFINE playbook == store.playbook[page.id]
  <2>1. CASE page' = [page EXCEPT !.document = Playbooks!Shown(playbook),
               !.editor = IF page.route =
                   "edit" THEN Playbooks!OldEditor(playbook.source) ELSE None]
    BY <2>1 DEF PlaybookTyped, PlaybookTypedPage, PlaybooksFields, PlaybooksEdits,
               Playbooks!OldEditor, Playbooks!Shown, PlaybookStatuses
  <2>2. CASE page' = [page EXCEPT !.document = Playbooks!Failed]
    BY <2>2 DEF PlaybookTyped, PlaybookTypedPage, PlaybooksFields, Playbooks!Failed,
               PlaybookStatuses
  <2>3. CASE page' = [page EXCEPT !.document = Playbooks!Loading]
    BY <2>3 DEF PlaybookTyped, PlaybookTypedPage, PlaybooksFields, Playbooks!Loading,
               PlaybookStatuses
  <2> QED
    BY <2>1, <2>2, <2>3 DEF Playbooks!DocumentAnswered, Playbooks!RetryDocument
<1>4. /\ page'.folder = page.folder /\ page'.route = page.route /\ page'.id = page.id
      /\ page'.editors = page.editors /\ page'.list = page.list
      /\ page'.deleting = page.deleting /\ page'.migrating = page.migrating
  BY <1>3 DEF PlaybooksFields
<1>5. PlaybookTypedPage'
  BY <1>1, <1>3, <1>4 DEF PlaybookTyped, PlaybookTypedPage, PlaybooksEdits
<1>6. \A w \in calls'.writes : PlaybookTypedWrite(w)'
  BY <1>1, <1>2, <1>3, <1>4 DEF PlaybookTyped, PlaybookTypedWrite, PlaybooksEdits
<1> QED
  BY <1>2, <1>5, <1>6 DEF PlaybookTyped, PlaybookTypedStore

\* The steps that work with the writes stay at the page, but for the marks of the write.
LEMMA PlaybookTypedWrites ==
  ASSUME PlaybookTyped, DOMAIN calls' = DOMAIN calls, calls'.document = calls.document,
         \A w \in calls'.writes : PlaybookTypedWrite(w),
         PlaybookTypedStore(store'), DOMAIN page' = PlaybooksFields,
         \A x \in PlaybooksFields \ {"editor", "deleting", "migrating", "panel"} :
           page'[x] = page[x],
         page'.deleting \in BOOLEAN, page'.migrating \in BOOLEAN,
         \/ page'.editor = page.editor
         \/ (PlaybooksEdits(page.editor) /\ PlaybooksEdits(page'.editor)
               /\ page'.editor.key = page.editor.key /\ page.route \in {"new", "edit"})
  PROVE  PlaybookTyped'
<1>1. /\ \A x \in {"folder", "route", "id", "editors"} : page'[x] = page[x]
      /\ page'.list = page.list /\ page'.document = page.document
  BY DEF PlaybooksFields
<1>2. page.list.status \in PlaybookStatuses /\ page.document.status \in PlaybookStatuses
  BY DEF PlaybookTyped, PlaybookTypedPage
<1> QED
  BY <1>1, <1>2, PlaybookTypedKeeps

\* The marks of a write on the page.
LEMMA PlaybookTypedMarks ==
  ASSUME PlaybookTyped,
         \/ page' = page
         \/ \E b \in BOOLEAN : page' \in {[page EXCEPT !.deleting = b], [page EXCEPT !.migrating = b]}
         \/ \E panel : page' = [page EXCEPT !.panel = panel]
         \/ /\ PlaybooksEdits(page.editor) /\ page.route \in {"new", "edit"}
            /\ \E x : page' \in {[page EXCEPT !.editor.saving = x], [page EXCEPT !.editor.source = x]}
  PROVE  /\ DOMAIN page' = PlaybooksFields
         /\ \A x \in PlaybooksFields \ {"editor", "deleting", "migrating", "panel"} :
              page'[x] = page[x]
         /\ page'.deleting \in BOOLEAN /\ page'.migrating \in BOOLEAN
         /\ \/ page'.editor = page.editor
            \/ (PlaybooksEdits(page.editor) /\ PlaybooksEdits(page'.editor)
                  /\ page'.editor.key = page.editor.key /\ page.route \in {"new", "edit"})
<1>1. /\ DOMAIN page = PlaybooksFields
      /\ page.deleting \in BOOLEAN /\ page.migrating \in BOOLEAN
  BY DEF PlaybookTyped, PlaybookTypedPage
<1>2. CASE page' = page
  BY <1>1, <1>2
<1>3. ASSUME NEW b \in BOOLEAN,
             page' \in {[page EXCEPT !.deleting = b], [page EXCEPT !.migrating = b]}
      PROVE  /\ DOMAIN page' = PlaybooksFields
             /\ \A x \in PlaybooksFields \ {"editor", "deleting", "migrating", "panel"} :
                  page'[x] = page[x]
             /\ page'.deleting \in BOOLEAN /\ page'.migrating \in BOOLEAN
             /\ page'.editor = page.editor
  BY <1>1, <1>3 DEF PlaybooksFields
<1>4. ASSUME NEW panel, page' = [page EXCEPT !.panel = panel]
      PROVE  /\ DOMAIN page' = PlaybooksFields
             /\ \A x \in PlaybooksFields \ {"editor", "deleting", "migrating", "panel"} :
                  page'[x] = page[x]
             /\ page'.deleting = page.deleting /\ page'.migrating = page.migrating
             /\ page'.editor = page.editor
  BY <1>1, <1>4 DEF PlaybooksFields
<1>5. ASSUME PlaybooksEdits(page.editor), NEW x,
             page' \in {[page EXCEPT !.editor.saving = x], [page EXCEPT !.editor.source = x]}
      PROVE  /\ DOMAIN page' = PlaybooksFields
             /\ \A y \in PlaybooksFields \ {"editor", "deleting", "migrating", "panel"} :
                  page'[y] = page[y]
             /\ page'.deleting = page.deleting /\ page'.migrating = page.migrating
             /\ PlaybooksEdits(page'.editor) /\ page'.editor.key = page.editor.key
  BY <1>1, <1>5 DEF PlaybooksFields, PlaybooksEdits
<1> QED
  BY <1>1, <1>2, <1>3, <1>4, <1>5

LEMMA PlaybookTypedEdit ==
  ASSUME PlaybookTyped, Playbooks!Edit
  PROVE  PlaybookTyped'
<1>1. page.editor # None /\ calls' = calls /\ store' = store
      /\ \E s : page' = [page EXCEPT !.editor.source = s]
  BY DEF Playbooks!Edit
<1>2. PlaybooksEdits(page.editor) /\ page.route \in {"new", "edit"}
  BY <1>1 DEF PlaybookTyped, PlaybookTypedPage
<1>3. PlaybookTypedStore(store') /\ \A w \in calls'.writes : PlaybookTypedWrite(w)
  BY <1>1, PlaybookTypedFields
<1> QED
  BY <1>1, <1>2, <1>3, PlaybookTypedMarks, PlaybookTypedWrites

\* A write that is new on the page, or goes on there.
LEMMA PlaybookTypedNew ==
  ASSUME NEW kind, NEW id \in PlaybookUids, NEW stage \in {"validate", "write", "read"},
         NEW source, NEW r,
         kind \in {"create", "update"} =>
           page.route \in {"new", "edit"} /\ PlaybooksEdits(page.editor)
  PROVE  /\ PlaybookTypedWrite(Playbooks!Write(kind, id))
         /\ PlaybookTypedWrite([Playbooks!Write(kind, id) EXCEPT !.run = r])
         /\ PlaybookTypedWrite([Playbooks!Write(kind, id) EXCEPT !.stage = stage, !.source = source])
  BY DEF Playbooks!Write, PlaybookTypedWrite, PlaybooksWriteFields

LEMMA PlaybookTypedNext ==
  ASSUME NEW w, PlaybookTypedWrite(w), NEW stage \in {"validate", "write", "read"}, NEW status
  PROVE  /\ PlaybookTypedWrite([w EXCEPT !.stage = stage])
         /\ PlaybookTypedWrite([w EXCEPT !.stage = stage, !.status = status])
         /\ PlaybookTypedWrite([w EXCEPT !.mine = FALSE])
  BY DEF PlaybookTypedWrite, PlaybooksWriteFields

LEMMA PlaybookTypedSave ==
  ASSUME PlaybookTyped, Playbooks!Save
  PROVE  PlaybookTyped'
<1> DEFINE w == [(IF page.route = "new"
                    THEN Playbooks!Write("create", <<page.folder, page.editor.key>>)
                    ELSE Playbooks!Write("update", page.id))
                   EXCEPT !.stage = "validate", !.source = page.editor.source]
<1>1. /\ page.editor # None /\ page' = [page EXCEPT !.editor.saving = TRUE]
      /\ calls' = [calls EXCEPT !.writes = calls.writes \cup {w}] /\ store' = store
  BY DEF Playbooks!Save
<1>2. PlaybooksEdits(page.editor) /\ page.route \in {"new", "edit"}
  BY <1>1 DEF PlaybookTyped, PlaybookTypedPage
<1>3. CASE page.route = "new"
  <2>1. <<page.folder, page.editor.key>> \in PlaybookUids
    BY <1>3 DEF PlaybookTyped, PlaybookTypedPage, PlaybookUids, Playbooks!Ids
  <2>2. PlaybookTypedWrite(w)
    BY <1>2, <1>3, <2>1, PlaybookTypedNew
  <2> HIDE DEF w
  <2>3. /\ DOMAIN calls' = DOMAIN calls /\ calls'.document = calls.document
        /\ \A v \in calls'.writes : PlaybookTypedWrite(v)
    <3>1. /\ DOMAIN calls' = DOMAIN calls /\ calls'.document = calls.document
          /\ calls'.writes = calls.writes \cup {w}
      BY <1>1, <2>2, PlaybookTypedFields
    <3> QED
      BY <3>1, <1>1, <2>2, PlaybookTypedFields
  <2>4. PlaybookTypedStore(store')
    BY <1>1, PlaybookTypedFields
  <2> QED
    BY <1>1, <1>2, <2>3, <2>4, PlaybookTypedMarks, PlaybookTypedWrites
<1>4. CASE page.route # "new"
  <2>1. page.route = "edit" /\ page.id \in PlaybookUids
    BY <1>1, <1>4 DEF PlaybookTyped, PlaybookTypedPage
  <2>2. PlaybookTypedWrite(w)
    BY <1>2, <1>4, <2>1, PlaybookTypedNew
  <2> HIDE DEF w
  <2>3. /\ DOMAIN calls' = DOMAIN calls /\ calls'.document = calls.document
        /\ \A v \in calls'.writes : PlaybookTypedWrite(v)
    <3>1. /\ DOMAIN calls' = DOMAIN calls /\ calls'.document = calls.document
          /\ calls'.writes = calls.writes \cup {w}
      BY <1>1, <2>2, PlaybookTypedFields
    <3> QED
      BY <3>1, <1>1, <2>2, PlaybookTypedFields
  <2>4. PlaybookTypedStore(store')
    BY <1>1, PlaybookTypedFields
  <2> QED
    BY <1>1, <1>2, <2>3, <2>4, PlaybookTypedMarks, PlaybookTypedWrites
<1> QED
  BY <1>3, <1>4

LEMMA PlaybookTypedValidated ==
  ASSUME PlaybookTyped, NEW w \in calls.writes, Playbooks!Validated(w)
  PROVE  PlaybookTyped'
<1> DEFINE v == [w EXCEPT !.stage = "write"]
<1>1. calls' = [calls EXCEPT !.writes = (calls.writes \ {w}) \cup {v}]
      /\ page' = page /\ store' = store
  BY DEF Playbooks!Validated
<1>2. PlaybookTypedWrite(v)
  BY PlaybookTypedFields, PlaybookTypedNext
<1> HIDE DEF v
<1>3. /\ DOMAIN calls' = DOMAIN calls /\ calls'.document = calls.document
      /\ \A u \in calls'.writes : PlaybookTypedWrite(u)
  <2>1. /\ DOMAIN calls' = DOMAIN calls /\ calls'.document = calls.document
        /\ calls'.writes = (calls.writes \ {w}) \cup {v}
    BY <1>1, <1>2, PlaybookTypedFields
  <2> QED
    BY <2>1, <1>1, <1>2, PlaybookTypedFields
<1>4. PlaybookTypedStore(store')
  BY <1>1, PlaybookTypedFields
<1> QED
  BY <1>1, <1>3, <1>4, PlaybookTypedMarks, PlaybookTypedWrites

LEMMA PlaybookTypedSaved ==
  ASSUME Playbooks!Parameters, PlaybookTyped, NEW w \in calls.writes,
         Playbooks!SaveAnswered(w) \/ Playbooks!SaveFails(w)
  PROVE  PlaybookTyped'
<1>1. PlaybookTypedStore(store')
  <2>1. store' = store \/ store' \in Playbooks!Written(w)
    BY DEF Playbooks!SaveAnswered, Playbooks!SaveFails
  <2> QED
    BY <2>1, PlaybookTypedWritten, PlaybookTypedFields
<1>2. Playbooks!Rest(w) \subseteq calls.writes /\ PlaybookTypedWrite(w)
  BY PlaybookTypedFields DEF Playbooks!Rest
<1>3. CASE Playbooks!SaveAnswered(w) /\ w.mine
  <2>1. Playbooks!Go(page, "detail", w.id, Playbooks!Rest(w))
    BY <1>3 DEF Playbooks!SaveAnswered
  <2>2. w.id \in PlaybookUids /\ "detail" \in PlaybookRoutes
        /\ page.folder \in FoldersOf["playbooks"]
    BY <1>2 DEF PlaybookTypedWrite, PlaybookTyped, PlaybookTypedPage, PlaybookRoutes
  <2> QED
    BY <1>1, <1>2, <2>1, <2>2, PlaybookTypedGo
<1>4. CASE ~(Playbooks!SaveAnswered(w) /\ w.mine)
  <2>1. calls' = [calls EXCEPT !.writes = Playbooks!Rest(w)]
    BY <1>4 DEF Playbooks!SaveAnswered, Playbooks!SaveFails
  <2>2. \/ page' = page
        \/ /\ PlaybooksEdits(page.editor) /\ page.route \in {"new", "edit"}
           /\ page' = [page EXCEPT !.editor.saving = FALSE]
    BY <1>2, <1>4
    DEF Playbooks!SaveAnswered, Playbooks!SaveFails, Playbooks!SaveFailed, Playbooks!SaveEnds,
        Playbooks!Saving, PlaybookTypedWrite
  <2>3. /\ DOMAIN calls' = DOMAIN calls /\ calls'.document = calls.document
        /\ \A v \in calls'.writes : PlaybookTypedWrite(v)
    <3>1. /\ DOMAIN calls' = DOMAIN calls /\ calls'.document = calls.document
          /\ calls'.writes = Playbooks!Rest(w)
      BY <1>2, <2>1, PlaybookTypedFields
    <3> QED
      BY <3>1, <1>2, <2>1, PlaybookTypedFields
  <2> QED
    BY <1>1, <2>2, <2>3, PlaybookTypedMarks, PlaybookTypedWrites
<1> QED
  BY <1>3, <1>4

LEMMA PlaybookTypedDetailWrite ==
  ASSUME PlaybookTyped, Playbooks!Delete \/ Playbooks!Migrate
  PROVE  PlaybookTyped'
<1>1. page.id \in PlaybookUids
  BY DEF PlaybookTyped, PlaybookTypedPage
<1>2. PICK w : /\ PlaybookTypedWrite(w)
               /\ calls' = [calls EXCEPT !.writes = calls.writes \cup {w}]
  BY <1>1, PlaybookTypedNew DEF Playbooks!Delete, Playbooks!Migrate
<1>3. /\ page' \in {[page EXCEPT !.deleting = TRUE], [page EXCEPT !.migrating = TRUE]}
      /\ store' = store
  BY DEF Playbooks!Delete, Playbooks!Migrate
<1>4. /\ DOMAIN calls' = DOMAIN calls /\ calls'.document = calls.document
      /\ \A v \in calls'.writes : PlaybookTypedWrite(v)
  <2>1. /\ DOMAIN calls' = DOMAIN calls /\ calls'.document = calls.document
        /\ calls'.writes = calls.writes \cup {w}
    BY <1>2, PlaybookTypedFields
  <2> QED
    BY <2>1, <1>2, PlaybookTypedFields
<1>5. PlaybookTypedStore(store')
  BY <1>3, PlaybookTypedFields
<1> QED
  BY <1>3, <1>4, <1>5, PlaybookTypedMarks, PlaybookTypedWrites

LEMMA PlaybookTypedDetail ==
  ASSUME Playbooks!Parameters, PlaybookTyped, NEW w \in calls.writes,
         Playbooks!DetailWriteAnswered(w) \/ Playbooks!DetailWriteFails(w)
  PROVE  PlaybookTyped'
<1>1. PlaybookTypedStore(store')
  <2>1. store' = store \/ store' \in Playbooks!Written(w)
    BY DEF Playbooks!DetailWriteAnswered, Playbooks!DetailWriteFails
  <2> QED
    BY <2>1, PlaybookTypedWritten, PlaybookTypedFields
<1>2. Playbooks!Rest(w) \subseteq calls.writes /\ page.folder \in FoldersOf["playbooks"]
  BY DEF Playbooks!Rest, PlaybookTyped, PlaybookTypedPage
<1>3. CASE Playbooks!DetailWriteAnswered(w) /\ w.kind = "delete"
  <2>1. Playbooks!Go(page, "list", None, Playbooks!Rest(w))
    BY <1>3 DEF Playbooks!DetailWriteAnswered
  <2>2. None \in PlaybookUids /\ "list" \in PlaybookRoutes
    BY DEF PlaybookUids, PlaybookRoutes
  <2> QED
    BY <1>1, <1>2, <2>1, <2>2, PlaybookTypedGo
<1>4. CASE Playbooks!DetailWriteAnswered(w) /\ w.kind = "migrate"
  <2> DEFINE one == [status |-> "active", source |-> "first", by |-> w.kind]
             new == CHOOSE id \in Playbooks!Ids : store'.playbook[id] # store.playbook[id]
  <2>1. Playbooks!Go(page, "detail", new, Playbooks!Rest(w))
    BY <1>4 DEF Playbooks!DetailWriteAnswered
  <2>2. PICK key \in Playbooks!FreshKeys(w.id[1]) : store' = [store EXCEPT !.playbook[key] = one]
    BY <1>4 DEF Playbooks!DetailWriteAnswered, Playbooks!Written
  <2>3. key \in Playbooks!Ids /\ store.playbook[key].status = "none" /\ one.status = "active"
    BY DEF Playbooks!FreshKeys
  <2> HIDE DEF one
  <2>4. store'.playbook[key] = one
    BY <2>2, <2>3 DEF PlaybookTyped, PlaybookTypedStore
  <2>5. \E id \in Playbooks!Ids : store'.playbook[id] # store.playbook[id]
    BY <2>3, <2>4
  <2>6. new \in Playbooks!Ids
    BY <2>5
  <2> HIDE DEF new
  <2>7. new \in PlaybookUids /\ "detail" \in PlaybookRoutes
    BY <2>6 DEF PlaybookUids, PlaybookRoutes
  <2> QED
    BY <1>1, <1>2, <2>1, <2>7, PlaybookTypedGo
<1>5. CASE Playbooks!DetailWriteFails(w)
  <2>1. calls' = [calls EXCEPT !.writes = Playbooks!Rest(w)]
    BY <1>5 DEF Playbooks!DetailWriteFails
  <2>2. page' \in {page, [page EXCEPT !.deleting = FALSE], [page EXCEPT !.migrating = FALSE]}
    BY <1>5 DEF Playbooks!DetailWriteFails
  <2>3. /\ DOMAIN calls' = DOMAIN calls /\ calls'.document = calls.document
        /\ \A v \in calls'.writes : PlaybookTypedWrite(v)
    <3>1. /\ DOMAIN calls' = DOMAIN calls /\ calls'.document = calls.document
          /\ calls'.writes = Playbooks!Rest(w)
      BY <1>2, <2>1, PlaybookTypedFields
    <3> QED
      BY <3>1, <1>2, <2>1, PlaybookTypedFields
  <2> QED
    BY <1>1, <2>2, <2>3, PlaybookTypedMarks, PlaybookTypedWrites
<1> QED
  BY <1>3, <1>4, <1>5 DEF Playbooks!DetailWriteAnswered

LEMMA PlaybookTypedPanel ==
  ASSUME PlaybookTyped,
         \/ Playbooks!OpenRuns \/ Playbooks!RunsAnswered \/ Playbooks!StreamMoves
         \/ Playbooks!SnapshotAnswered \/ Playbooks!ArtifactsAnswered
  PROVE  PlaybookTyped'
<1>1. calls' = calls /\ store' = store
  BY DEF Playbooks!OpenRuns, Playbooks!RunsAnswered, Playbooks!StreamMoves,
         Playbooks!SnapshotAnswered, Playbooks!ArtifactsAnswered
<1>2. \E panel : page' = [page EXCEPT !.panel = panel]
  <2>1. CASE Playbooks!OpenRuns \/ Playbooks!SnapshotAnswered
    BY <2>1 DEF Playbooks!OpenRuns, Playbooks!SnapshotAnswered
  <2>2. CASE Playbooks!RunsAnswered \/ Playbooks!ArtifactsAnswered
    BY <2>2 DEF Playbooks!RunsAnswered, Playbooks!ArtifactsAnswered
  <2>3. CASE Playbooks!StreamMoves
    <3>1. \E stage, status : Playbooks!Stage(stage, status)
      BY <2>3 DEF Playbooks!StreamMoves
    <3> QED
      BY <3>1 DEF Playbooks!Stage
  <2> QED
    BY <2>1, <2>2, <2>3
<1>3. PlaybookTypedStore(store') /\ \A w \in calls'.writes : PlaybookTypedWrite(w)
  BY <1>1, PlaybookTypedFields
<1> QED
  BY <1>1, <1>2, <1>3, PlaybookTypedMarks, PlaybookTypedWrites

LEMMA PlaybookTypedClose ==
  ASSUME PlaybookTyped, Playbooks!CloseRuns
  PROVE  PlaybookTyped'
<1> DEFINE runs == Playbooks!RunWrites
<1>1. /\ page' = [page EXCEPT !.panel = None] /\ store' = store
      /\ calls' = [calls EXCEPT !.writes = (calls.writes \ runs) \cup Playbooks!NotMine(runs)]
  BY DEF Playbooks!CloseRuns
<1>2. runs \subseteq calls.writes
  BY DEF Playbooks!RunWrites
<1> HIDE DEF runs
<1>3. \A w \in Playbooks!NotMine(runs) : PlaybookTypedWrite(w)
  BY <1>2, PlaybookTypedFields, PlaybookTypedNext DEF Playbooks!NotMine
<1>4. /\ DOMAIN calls' = DOMAIN calls /\ calls'.document = calls.document
      /\ \A v \in calls'.writes : PlaybookTypedWrite(v)
  <2>1. /\ DOMAIN calls' = DOMAIN calls /\ calls'.document = calls.document
        /\ calls'.writes = (calls.writes \ runs) \cup Playbooks!NotMine(runs)
    BY <1>1, <1>3, PlaybookTypedFields
  <2> QED
    BY <2>1, <1>1, <1>3, PlaybookTypedFields
<1>5. PlaybookTypedStore(store')
  BY <1>1, PlaybookTypedFields
<1> QED
  BY <1>1, <1>4, <1>5, PlaybookTypedMarks, PlaybookTypedWrites

LEMMA PlaybookTypedOnRuns ==
  ASSUME PlaybookTyped, Playbooks!OnRuns
  PROVE  PlaybookTyped'
<1>1. PICK kind, r : kind \notin {"create", "update"} /\ Playbooks!RunWrite(kind, r)
  BY DEF Playbooks!OnRuns
<1> DEFINE w == [Playbooks!Write(kind, page.id) EXCEPT !.run = r]
<1>2. /\ calls' = [calls EXCEPT !.writes = calls.writes \cup {w}] /\ store' = store
      /\ \E panel : page' = [page EXCEPT !.panel = panel]
  BY <1>1 DEF Playbooks!RunWrite
<1>3. page.id \in PlaybookUids
  BY DEF PlaybookTyped, PlaybookTypedPage
<1>4. PlaybookTypedWrite(w)
  BY <1>1, <1>3, PlaybookTypedNew
<1> HIDE DEF w
<1>5. /\ DOMAIN calls' = DOMAIN calls /\ calls'.document = calls.document
      /\ \A v \in calls'.writes : PlaybookTypedWrite(v)
  <2>1. /\ DOMAIN calls' = DOMAIN calls /\ calls'.document = calls.document
        /\ calls'.writes = calls.writes \cup {w}
    BY <1>2, <1>4, PlaybookTypedFields
  <2> QED
    BY <2>1, <1>2, <1>4, PlaybookTypedFields
<1>6. PlaybookTypedStore(store')
  BY <1>2, PlaybookTypedFields
<1> QED
  BY <1>2, <1>5, <1>6, PlaybookTypedMarks, PlaybookTypedWrites

LEMMA PlaybookTypedRunWrite ==
  ASSUME PlaybookTyped, NEW w \in calls.writes,
         Playbooks!RunWriteAnswered(w) \/ Playbooks!RunReadAnswered(w) \/ Playbooks!RunWriteFails(w)
  PROVE  PlaybookTyped'
<1> DEFINE read == [w EXCEPT !.stage = "read", !.status = store'.run[w.run].status]
<1>1. PlaybookTypedStore(store')
  <2>1. store' = store \/ store' \in Playbooks!Written(w)
    BY DEF Playbooks!RunWriteAnswered, Playbooks!RunReadAnswered, Playbooks!RunWriteFails
  <2> QED
    BY <2>1, PlaybookTypedWritten, PlaybookTypedFields
<1>2. page' = page \/ \E panel : page' = [page EXCEPT !.panel = panel]
  BY DEF Playbooks!RunWriteAnswered, Playbooks!RunReadAnswered, Playbooks!RunWriteFails
<1>3. PlaybookTypedWrite(read) /\ Playbooks!Rest(w) \subseteq calls.writes
  BY PlaybookTypedFields, PlaybookTypedNext DEF Playbooks!Rest
<1>4. \/ calls' = [calls EXCEPT !.writes = Playbooks!Rest(w)]
      \/ calls' = [calls EXCEPT !.writes = Playbooks!Rest(w) \cup {read}]
  BY DEF Playbooks!RunWriteAnswered, Playbooks!RunReadAnswered, Playbooks!RunWriteFails
<1> HIDE DEF read
<1>5. /\ DOMAIN calls' = DOMAIN calls /\ calls'.document = calls.document
      /\ \A v \in calls'.writes : PlaybookTypedWrite(v)
  <2>1. /\ DOMAIN calls' = DOMAIN calls /\ calls'.document = calls.document
        /\ calls'.writes \in {Playbooks!Rest(w), Playbooks!Rest(w) \cup {read}}
    BY <1>3, <1>4, PlaybookTypedFields
  <2> QED
    BY <2>1, <1>3, <1>4, PlaybookTypedFields
<1> QED
  BY <1>1, <1>2, <1>5, PlaybookTypedMarks, PlaybookTypedWrites

LEMMA PlaybookTypedRunMoves ==
  ASSUME PlaybookTyped, NEW r, Playbooks!RunMoves(r)
  PROVE  PlaybookTyped'
<1>1. page' = page /\ calls' = calls
      /\ \E status : store' = [store EXCEPT !.run[r].status = status]
  BY DEF Playbooks!RunMoves
<1>2. PlaybookTypedStore(store')
  BY <1>1 DEF PlaybookTyped, PlaybookTypedStore
<1>3. \A w \in calls'.writes : PlaybookTypedWrite(w)
  BY <1>1, PlaybookTypedFields
<1> QED
  BY <1>1, <1>2, <1>3, PlaybookTypedMarks, PlaybookTypedWrites

LEMMA PlaybookTypedInit ==
  ASSUME Playbooks!Parameters, Playbooks!Init
  PROVE  PlaybookTyped
<1>1. /\ page.folder \in FoldersOf["playbooks"] /\ page.route = "list" /\ page.id = None
      /\ page.editors = 0 /\ page.list = Playbooks!Loading /\ page.document = Playbooks!Loading
      /\ page.editor = None /\ page.deleting = FALSE /\ page.migrating = FALSE
      /\ DOMAIN page = PlaybooksFields
  BY DEF Playbooks!Init, Playbooks!Parameters, PlaybooksFields
<1>2. 0 \in 0 .. Most.editors
  BY DEF Playbooks!Parameters
<1>3. page.list.status \in PlaybookStatuses /\ page.document.status \in PlaybookStatuses
  BY <1>1 DEF PlaybookStatuses, Playbooks!Loading
<1>6. page.route \in PlaybookRoutes /\ page.id \in PlaybookUids /\ page.route # "new"
  BY <1>1 DEF PlaybookRoutes, PlaybookUids
<1>7. PlaybookTypedPage
  BY <1>1, <1>2, <1>3, <1>6 DEF PlaybookTypedPage
<1>4. DOMAIN calls = {"lists", "document", "writes"} /\ calls.writes = {}
  BY DEF Playbooks!Init
<1>5. PlaybookTypedStore(store)
  BY DEF Playbooks!Init, PlaybookTypedStore
<1> QED
  BY <1>7, <1>4, <1>5 DEF PlaybookTyped

LEMMA PlaybookTypedStep ==
  ASSUME Playbooks!Parameters
  PROVE  PlaybookTyped /\ [Playbooks!Next]_(Playbooks!vars) => PlaybookTyped'
<1> SUFFICES ASSUME PlaybookTyped, [Playbooks!Next]_(Playbooks!vars)
             PROVE  PlaybookTyped'
  OBVIOUS
<1>1. ASSUME NEW f \in FoldersOf["playbooks"], Playbooks!SelectFolder(f) PROVE PlaybookTyped'
  BY <1>1, PlaybookTypedSelect
<1>2. CASE \/ Playbooks!ToList \/ Playbooks!NewPlaybook \/ Playbooks!EditPlaybook
           \/ Playbooks!CancelEdit \/ \E id \in Playbooks!Ids : Playbooks!OpenPlaybook(id)
  BY <1>2, PlaybookTypedWalk
<1>3. CASE Playbooks!Load \/ \E q \in calls.lists : Playbooks!ListAnswered(q)
  BY <1>3, PlaybookTypedRead
<1>4. CASE Playbooks!DocumentAnswered \/ Playbooks!RetryDocument
  BY <1>4, PlaybookTypedDocument
<1>5. CASE Playbooks!Edit \/ Playbooks!Save \/ Playbooks!Delete \/ Playbooks!Migrate
  BY <1>5, PlaybookTypedEdit, PlaybookTypedSave, PlaybookTypedDetailWrite
<1>6. ASSUME NEW w \in calls.writes,
             \/ Playbooks!Validated(w) \/ Playbooks!SaveAnswered(w) \/ Playbooks!SaveFails(w)
             \/ Playbooks!DetailWriteAnswered(w) \/ Playbooks!DetailWriteFails(w)
             \/ Playbooks!RunWriteAnswered(w) \/ Playbooks!RunReadAnswered(w)
             \/ Playbooks!RunWriteFails(w)
      PROVE  PlaybookTyped'
  BY <1>6, PlaybookTypedValidated, PlaybookTypedSaved, PlaybookTypedDetail, PlaybookTypedRunWrite
<1>7. CASE \/ Playbooks!OpenRuns \/ Playbooks!RunsAnswered \/ Playbooks!StreamMoves
           \/ Playbooks!SnapshotAnswered \/ Playbooks!ArtifactsAnswered
  BY <1>7, PlaybookTypedPanel
<1>8. CASE Playbooks!CloseRuns \/ Playbooks!OnRuns
  BY <1>8, PlaybookTypedClose, PlaybookTypedOnRuns
<1>9. ASSUME NEW r, Playbooks!RunMoves(r) PROVE PlaybookTyped'
  BY <1>9, PlaybookTypedRunMoves
<1>10. CASE UNCHANGED Playbooks!vars
  <2>1. page' = page /\ calls' = calls /\ store' = store
    BY <1>10 DEF Playbooks!vars
  <2>2. PlaybookTypedStore(store') /\ \A w \in calls'.writes : PlaybookTypedWrite(w)
    BY <2>1, PlaybookTypedFields
  <2> QED
    BY <2>1, <2>2, PlaybookTypedMarks, PlaybookTypedWrites
<1> QED
  BY <1>1, <1>2, <1>3, <1>4, <1>5, <1>6, <1>7, <1>8, <1>9, <1>10 DEF Playbooks!Next

\* usePlaybooks, usePlaybook and the editor: the route names a playbook there may be, whatever
\* save, deletion or migration has taken the page to it.
THEOREM PlaybookRoutesAreKnown ==
  ASSUME Playbooks!Parameters
  PROVE  Playbooks!Spec => []Playbooks!TypeOK
<1>1. PlaybookTyped => Playbooks!TypeOK
  BY DEF PlaybookTyped, PlaybookTypedPage, PlaybookTypedWrite, PlaybookRoutes, PlaybookUids,
         PlaybookStatuses, Playbooks!TypeOK
<1> QED
  BY <1>1, PlaybookTypedInit, PlaybookTypedStep, PTL DEF Playbooks!Spec

-----------------------------------------------------------------------------
(* The types of the runs of a playbook that is there.                      *)

RunUids == PlaybookRuns!Ids \cup {None}

\* The editor of a new playbook has a key that is there, and no document takes its place.
RunsTypedPage ==
  /\ DOMAIN page = PlaybooksFields
  /\ page.folder \in FoldersOf["runs"] /\ page.route \in PlaybookRoutes
  /\ page.id \in RunUids /\ page.editors \in 0 .. 0
  /\ page.list.status \in PlaybookStatuses /\ page.document.status \in PlaybookStatuses
  /\ page.deleting \in BOOLEAN /\ page.migrating \in BOOLEAN
  /\ page.editor = None \/ PlaybooksEdits(page.editor)
  /\ page.route \notin {"new", "edit"} => page.editor = None
  /\ page.route = "new" =>
       /\ PlaybooksEdits(page.editor) /\ page.editor.key \in PlaybookRuns!Keys
       /\ ~calls.document /\ page.document.status = "loading"

RunsTypedWrite(w) ==
  /\ DOMAIN w = PlaybooksWriteFields /\ w.stage \in {"validate", "write", "read"}
  /\ w.id \in RunUids
  /\ w.mine /\ w.kind \in {"create", "update"} =>
       page.route \in {"new", "edit"} /\ PlaybooksEdits(page.editor)

RunsTypedStore(s) == DOMAIN s = {"playbook", "run"} /\ DOMAIN s.playbook = PlaybookRuns!Ids

RunsTyped ==
  /\ RunsTypedPage /\ DOMAIN calls = {"lists", "document", "writes"}
  /\ RunsTypedStore(store)
  /\ \A w \in calls.writes : RunsTypedWrite(w)

LEMMA RunsTypedFields ==
  ASSUME RunsTyped
  PROVE  /\ DOMAIN page = PlaybooksFields /\ DOMAIN calls = {"lists", "document", "writes"}
         /\ RunsTypedStore(store) /\ \A w \in calls.writes : RunsTypedWrite(w)
  BY DEF RunsTyped, RunsTypedPage

\* A write leaves the playbooks that there may be.
LEMMA RunsTypedWritten ==
  ASSUME RunsTyped, NEW w \in calls.writes, NEW s \in PlaybookRuns!Written(w)
  PROVE  RunsTypedStore(s)
<1>1. DOMAIN store = {"playbook", "run"} /\ DOMAIN store.playbook = PlaybookRuns!Ids
  BY DEF RunsTyped, RunsTypedStore
<1>2. CASE w.kind \in {"create", "update"}
  <2> DEFINE new == [store.playbook[w.id] EXCEPT !.status = "active", !.source = w.source,
                       !.by = IF w.kind = "create" THEN w.kind ELSE @]
  <2>1. s = [store EXCEPT !.playbook[w.id].status = "active", !.playbook[w.id].source = w.source,
                          !.playbook[w.id].by = IF w.kind = "create" THEN w.kind ELSE @]
    BY <1>2 DEF PlaybookRuns!Written
  <2>2. DOMAIN s = {"playbook", "run"} /\ s.playbook = [store.playbook EXCEPT ![w.id] = new]
    BY <1>1, <2>1
  <2> HIDE DEF new
  <2> QED
    BY <1>1, <2>2 DEF RunsTypedStore
<1>3. CASE w.kind = "migrate"
  BY <1>1, <1>3 DEF PlaybookRuns!Written, RunsTypedStore
<1>4. CASE w.kind = "delete"
  BY <1>1, <1>4 DEF PlaybookRuns!Written, RunsTypedStore
<1>5. CASE w.kind \in {"start", "retry"}
  BY <1>1, <1>5 DEF PlaybookRuns!Written, RunsTypedStore
<1>6. CASE w.kind \in {"cancel", "reject"}
  BY <1>1, <1>6 DEF PlaybookRuns!Written, RunsTypedStore
<1>7. CASE w.kind \notin {"create", "update", "migrate", "delete", "start", "retry", "cancel",
                          "reject"}
  BY <1>1, <1>7 DEF PlaybookRuns!Written, RunsTypedStore
<1> QED
  BY <1>2, <1>3, <1>4, <1>5, <1>6, <1>7

\* A step that stays at the route and at the editor that is open.
LEMMA RunsTypedKeeps ==
  ASSUME RunsTyped, DOMAIN page' = PlaybooksFields, DOMAIN calls' = DOMAIN calls,
         \A x \in {"folder", "route", "id", "editors"} : page'[x] = page[x],
         page'.list.status \in PlaybookStatuses, page'.document.status \in PlaybookStatuses,
         page'.deleting \in BOOLEAN, page'.migrating \in BOOLEAN,
         \/ page'.editor = page.editor
         \/ (PlaybooksEdits(page.editor) /\ PlaybooksEdits(page'.editor)
               /\ page'.editor.key = page.editor.key /\ page.route \in {"new", "edit"}),
         \/ page.route # "new"
         \/ (calls'.document = calls.document /\ page'.document = page.document),
         \A w \in calls'.writes : RunsTypedWrite(w),
         RunsTypedStore(store')
  PROVE  RunsTyped'
<1>1. /\ page'.folder = page.folder /\ page'.route = page.route /\ page'.id = page.id
      /\ page'.editors = page.editors
  OBVIOUS
<1>2. /\ DOMAIN page' = PlaybooksFields
      /\ page'.folder \in FoldersOf["runs"] /\ page'.route \in PlaybookRoutes
      /\ page'.id \in RunUids /\ page'.editors \in 0 .. 0
  BY <1>1 DEF RunsTyped, RunsTypedPage
<1>3. /\ page'.editor = None \/ PlaybooksEdits(page'.editor)
      /\ page'.route \notin {"new", "edit"} => page'.editor = None
  BY <1>1 DEF RunsTyped, RunsTypedPage
<1>4. page'.route = "new" => PlaybooksEdits(page'.editor) /\ page'.editor.key \in PlaybookRuns!Keys
  BY <1>1 DEF RunsTyped, RunsTypedPage
<1>5. page'.route = "new" => ~calls'.document /\ page'.document.status = "loading"
  BY <1>1 DEF RunsTyped, RunsTypedPage
<1>6. RunsTypedPage'
  BY <1>2, <1>3, <1>4, <1>5 DEF RunsTypedPage, PlaybooksEdits
<1>7. \A w \in calls'.writes : RunsTypedWrite(w)'
  BY <1>1 DEF RunsTypedWrite, PlaybooksEdits
<1> QED
  BY <1>6, <1>7 DEF RunsTyped, RunsTypedStore

\* Leave the components of the route.
LEMMA RunsTypedGo ==
  ASSUME PlaybookRuns!Parameters, RunsTyped,
         NEW p, p.folder \in FoldersOf["runs"], p.editors = page.editors,
         p = page \/ p.folder # page.folder,
         NEW at \in PlaybookRoutes, at = "new" => page.editors < 0,
         NEW id \in RunUids, NEW writes, writes \subseteq calls.writes,
         RunsTypedStore(store'), PlaybookRuns!Go(p, at, id, writes)
  PROVE  RunsTyped'
<1> DEFINE stays == page.route = at /\ page.id = id /\ page.folder = p.folder
           editors == p.editors + (IF at = "new" THEN 1 ELSE 0)
<1>1. CASE stays
  <2>1. page' = page /\ calls' = [calls EXCEPT !.writes = writes]
    BY <1>1 DEF PlaybookRuns!Go
  <2>2. /\ DOMAIN calls' = DOMAIN calls /\ calls'.document = calls.document
        /\ \A w \in calls'.writes : RunsTypedWrite(w)
    BY <2>1, RunsTypedFields
  <2> QED
    BY <2>1, <2>2, RunsTypedKeeps, RunsTypedFields DEF RunsTyped, RunsTypedPage
<1>2. CASE ~stays
  <2>1. page' = [folder |-> p.folder, route |-> at, id |-> id, editors |-> editors,
                 list |-> PlaybookRuns!Loading, timer |-> at = "list", document |-> PlaybookRuns!Loading,
                 editor |-> IF at = "new" THEN PlaybookRuns!NewEditor(editors) ELSE None,
                 deleting |-> FALSE, migrating |-> FALSE, panel |-> None]
    BY <1>2 DEF PlaybookRuns!Go
  <2>2. calls' = [lists |-> PlaybookRuns!Invalidated(calls.lists),
                  writes |-> PlaybookRuns!NotMine(writes), document |-> at \in {"detail", "edit"}]
    BY <1>2 DEF PlaybookRuns!Go
  <2>3. page.editors \in 0 .. 0 /\ 0 \in PlaybookRuns!Keys
    BY DEF RunsTyped, RunsTypedPage, PlaybookRuns!Parameters, PlaybookRuns!Keys
  <2>4. editors \in 0 .. 0 /\ editors \in PlaybookRuns!Keys
    BY <2>3 DEF PlaybookRuns!Parameters, PlaybookRuns!Keys
  <2> HIDE DEF editors, stays
  <2>5. \A w \in calls'.writes : RunsTypedWrite(w)'
    <3>1. SUFFICES ASSUME NEW v \in writes PROVE RunsTypedWrite([v EXCEPT !.mine = FALSE])'
      BY <2>2 DEF PlaybookRuns!NotMine
    <3>2. RunsTypedWrite(v)
      BY RunsTypedFields
    <3> QED
      BY <3>2 DEF RunsTypedWrite, PlaybooksWriteFields
  <2>6. DOMAIN page' = PlaybooksFields
    BY <2>1 DEF PlaybooksFields
  <2>7. /\ page'.folder = p.folder /\ page'.route = at /\ page'.id = id
        /\ page'.editors = editors /\ page'.list.status = "loading"
        /\ page'.document.status = "loading" /\ page'.deleting = FALSE
        /\ page'.migrating = FALSE /\ calls'.document = (at \in {"detail", "edit"})
    BY <2>1, <2>2 DEF PlaybookRuns!Loading
  <2>8. /\ at = "new" => PlaybooksEdits(page'.editor) /\ page'.editor.key = editors
        /\ at # "new" => page'.editor = None
    BY <2>1 DEF PlaybookRuns!NewEditor, PlaybooksEdits
  <2>9. RunsTypedPage'
    BY <2>4, <2>6, <2>7, <2>8 DEF RunsTypedPage, PlaybookStatuses
  <2>10. DOMAIN calls' = {"lists", "document", "writes"}
    BY <2>2
  <2> QED
    BY <2>5, <2>9, <2>10 DEF RunsTyped, RunsTypedStore
<1> QED
  BY <1>1, <1>2

LEMMA RunsTypedSelect ==
  ASSUME PlaybookRuns!Parameters, RunsTyped, NEW f \in FoldersOf["runs"],
         PlaybookRuns!SelectFolder(f)
  PROVE  RunsTyped'
<1> DEFINE p == [page EXCEPT !.folder = f]
<1>1. f # page.folder /\ store' = store /\ RunsTypedStore(store')
  BY RunsTypedFields DEF PlaybookRuns!SelectFolder
<1>2. p.editors = page.editors /\ p.folder = f /\ DOMAIN page = PlaybooksFields
  BY RunsTypedFields DEF PlaybooksFields
<1>3. CASE page.route \in {"list", "new"}
  <2>1. /\ page' \in {[page EXCEPT !.folder = f, !.timer = TRUE], p}
        /\ calls' \in {[calls EXCEPT !.lists = PlaybookRuns!Invalidated(calls.lists)], calls}
    BY <1>3 DEF PlaybookRuns!SelectFolder
  <2>2. /\ DOMAIN page' = PlaybooksFields /\ page'.folder = f
        /\ \A x \in PlaybooksFields \ {"folder", "timer"} : page'[x] = page[x]
    BY <1>2, <2>1 DEF PlaybooksFields
  <2>3. /\ page'.route = page.route /\ page'.id = page.id /\ page'.editors = page.editors
        /\ page'.list = page.list /\ page'.document = page.document
        /\ page'.editor = page.editor /\ page'.deleting = page.deleting
        /\ page'.migrating = page.migrating
    BY <2>2 DEF PlaybooksFields
  <2>4. DOMAIN calls' = {"lists", "document", "writes"} /\ calls'.document = calls.document
        /\ calls'.writes = calls.writes
    BY <2>1, RunsTypedFields
  <2>5. RunsTypedPage'
    BY <2>2, <2>3, <2>4 DEF RunsTyped, RunsTypedPage, PlaybooksEdits
  <2>6. \A w \in calls'.writes : RunsTypedWrite(w)'
    BY <2>3, <2>4 DEF RunsTyped, RunsTypedWrite, PlaybooksEdits
  <2> QED
    BY <1>1, <2>4, <2>5, <2>6 DEF RunsTyped, RunsTypedStore
<1>4. CASE page.route \notin {"list", "new"}
  <2>1. PlaybookRuns!Go(p, page.route, page.id, calls.writes)
    BY <1>4 DEF PlaybookRuns!SelectFolder
  <2>2. page.route \in PlaybookRoutes /\ page.id \in RunUids
    BY DEF RunsTyped, RunsTypedPage
  <2> HIDE DEF p
  <2> QED
    BY <1>1, <1>2, <1>4, <2>1, <2>2, RunsTypedGo
<1> QED
  BY <1>3, <1>4

LEMMA RunsTypedWalk ==
  ASSUME PlaybookRuns!Parameters, RunsTyped,
         \/ PlaybookRuns!ToList \/ PlaybookRuns!NewPlaybook \/ PlaybookRuns!EditPlaybook
         \/ PlaybookRuns!CancelEdit \/ \E id \in PlaybookRuns!Ids : PlaybookRuns!OpenPlaybook(id)
  PROVE  RunsTyped'
<1>1. page.id \in RunUids /\ page.folder \in FoldersOf["runs"]
  BY DEF RunsTyped, RunsTypedPage
<1>2. PICK at \in PlaybookRoutes, id \in RunUids :
        /\ PlaybookRuns!Go(page, at, id, calls.writes) /\ store' = store
        /\ at = "new" => page.editors < 0
  BY <1>1 DEF PlaybookRuns!ToList, PlaybookRuns!NewPlaybook, PlaybookRuns!EditPlaybook,
         PlaybookRuns!CancelEdit, PlaybookRuns!OpenPlaybook, PlaybookRoutes, RunUids
<1>3. RunsTypedStore(store')
  BY <1>2, RunsTypedFields
<1> QED
  BY <1>1, <1>2, <1>3, RunsTypedGo

LEMMA RunsTypedRead ==
  ASSUME RunsTyped,
         \/ PlaybookRuns!Load \/ \E q \in calls.lists : PlaybookRuns!ListAnswered(q)
  PROVE  RunsTyped'
<1>1. /\ store' = store /\ \E some : calls' = [calls EXCEPT !.lists = some]
  BY DEF PlaybookRuns!Load, PlaybookRuns!ListAnswered
<1>2. /\ DOMAIN calls' = DOMAIN calls /\ calls'.document = calls.document
      /\ calls'.writes = calls.writes
  BY <1>1, RunsTypedFields
<1>3. /\ PlaybookRuns!Loading.status \in PlaybookStatuses /\ PlaybookRuns!Failed.status \in PlaybookStatuses
      /\ \A data : PlaybookRuns!Shown(data).status \in PlaybookStatuses
  BY DEF PlaybookRuns!Loading, PlaybookRuns!Shown, PlaybookRuns!Failed, PlaybookStatuses
<1>4. /\ DOMAIN page' = PlaybooksFields
      /\ \A x \in PlaybooksFields \ {"list", "timer"} : page'[x] = page[x]
      /\ page'.list.status \in PlaybookStatuses
  <2>1. /\ DOMAIN page = PlaybooksFields /\ page.list.status \in PlaybookStatuses
    BY DEF RunsTyped, RunsTypedPage
  <2>2. CASE page' = page
    BY <2>1, <2>2
  <2>3. CASE page' = [page EXCEPT !.timer = FALSE, !.list = PlaybookRuns!Loading]
    BY <1>3, <2>1, <2>3 DEF PlaybooksFields
  <2>4. ASSUME NEW data, page' = [page EXCEPT !.list = PlaybookRuns!Shown(data)]
        PROVE  /\ DOMAIN page' = PlaybooksFields
               /\ \A x \in PlaybooksFields \ {"list", "timer"} : page'[x] = page[x]
               /\ page'.list.status \in PlaybookStatuses
    BY <1>3, <2>1, <2>4 DEF PlaybooksFields
  <2>5. CASE page' = [page EXCEPT !.list = PlaybookRuns!Failed]
    BY <1>3, <2>1, <2>5 DEF PlaybooksFields
  <2>6. \/ page' = page
        \/ page' = [page EXCEPT !.timer = FALSE, !.list = PlaybookRuns!Loading]
        \/ \E data : page' = [page EXCEPT !.list = PlaybookRuns!Shown(data)]
        \/ page' = [page EXCEPT !.list = PlaybookRuns!Failed]
    BY DEF PlaybookRuns!Load, PlaybookRuns!ListAnswered
  <2> QED
    BY <2>2, <2>3, <2>4, <2>5, <2>6
<1>5. /\ \A x \in {"folder", "route", "id", "editors"} : page'[x] = page[x]
      /\ page'.document = page.document /\ page'.editor = page.editor
      /\ page'.deleting = page.deleting /\ page'.migrating = page.migrating
  BY <1>4 DEF PlaybooksFields
<1>6. /\ page.document.status \in PlaybookStatuses
      /\ page.deleting \in BOOLEAN /\ page.migrating \in BOOLEAN
  BY DEF RunsTyped, RunsTypedPage
<1> QED
  BY <1>1, <1>2, <1>4, <1>5, <1>6, RunsTypedKeeps, RunsTypedFields

LEMMA RunsTypedDocument ==
  ASSUME RunsTyped, PlaybookRuns!DocumentAnswered \/ PlaybookRuns!RetryDocument
  PROVE  RunsTyped'
<1>1. page.route # "new"
  BY DEF RunsTyped, RunsTypedPage, PlaybookRuns!DocumentAnswered, PlaybookRuns!RetryDocument
<1>2. /\ DOMAIN calls' = DOMAIN calls /\ calls'.writes = calls.writes /\ store' = store
  BY RunsTypedFields DEF PlaybookRuns!DocumentAnswered, PlaybookRuns!RetryDocument
<1>3. /\ DOMAIN page' = PlaybooksFields
      /\ \A x \in PlaybooksFields \ {"document", "editor"} : page'[x] = page[x]
      /\ page'.document.status \in PlaybookStatuses
      /\ \/ page'.editor = page.editor
         \/ page.route = "edit" /\ PlaybooksEdits(page'.editor)
         \/ page.route # "edit" /\ page'.editor = None
  <2> DEFINE playbook == store.playbook[page.id]
  <2>1. CASE page' = [page EXCEPT !.document = PlaybookRuns!Shown(playbook),
               !.editor = IF page.route =
                   "edit" THEN PlaybookRuns!OldEditor(playbook.source) ELSE None]
    BY <2>1 DEF RunsTyped, RunsTypedPage, PlaybooksFields, PlaybooksEdits,
               PlaybookRuns!OldEditor, PlaybookRuns!Shown, PlaybookStatuses
  <2>2. CASE page' = [page EXCEPT !.document = PlaybookRuns!Failed]
    BY <2>2 DEF RunsTyped, RunsTypedPage, PlaybooksFields, PlaybookRuns!Failed,
               PlaybookStatuses
  <2>3. CASE page' = [page EXCEPT !.document = PlaybookRuns!Loading]
    BY <2>3 DEF RunsTyped, RunsTypedPage, PlaybooksFields, PlaybookRuns!Loading,
               PlaybookStatuses
  <2> QED
    BY <2>1, <2>2, <2>3 DEF PlaybookRuns!DocumentAnswered, PlaybookRuns!RetryDocument
<1>4. /\ page'.folder = page.folder /\ page'.route = page.route /\ page'.id = page.id
      /\ page'.editors = page.editors /\ page'.list = page.list
      /\ page'.deleting = page.deleting /\ page'.migrating = page.migrating
  BY <1>3 DEF PlaybooksFields
<1>5. RunsTypedPage'
  BY <1>1, <1>3, <1>4 DEF RunsTyped, RunsTypedPage, PlaybooksEdits
<1>6. \A w \in calls'.writes : RunsTypedWrite(w)'
  BY <1>1, <1>2, <1>3, <1>4 DEF RunsTyped, RunsTypedWrite, PlaybooksEdits
<1> QED
  BY <1>2, <1>5, <1>6 DEF RunsTyped, RunsTypedStore

\* The steps that work with the writes stay at the page, but for the marks of the write.
LEMMA RunsTypedWrites ==
  ASSUME RunsTyped, DOMAIN calls' = DOMAIN calls, calls'.document = calls.document,
         \A w \in calls'.writes : RunsTypedWrite(w),
         RunsTypedStore(store'), DOMAIN page' = PlaybooksFields,
         \A x \in PlaybooksFields \ {"editor", "deleting", "migrating", "panel"} :
           page'[x] = page[x],
         page'.deleting \in BOOLEAN, page'.migrating \in BOOLEAN,
         \/ page'.editor = page.editor
         \/ (PlaybooksEdits(page.editor) /\ PlaybooksEdits(page'.editor)
               /\ page'.editor.key = page.editor.key /\ page.route \in {"new", "edit"})
  PROVE  RunsTyped'
<1>1. /\ \A x \in {"folder", "route", "id", "editors"} : page'[x] = page[x]
      /\ page'.list = page.list /\ page'.document = page.document
  BY DEF PlaybooksFields
<1>2. page.list.status \in PlaybookStatuses /\ page.document.status \in PlaybookStatuses
  BY DEF RunsTyped, RunsTypedPage
<1> QED
  BY <1>1, <1>2, RunsTypedKeeps

\* The marks of a write on the page.
LEMMA RunsTypedMarks ==
  ASSUME RunsTyped,
         \/ page' = page
         \/ \E b \in BOOLEAN : page' \in {[page EXCEPT !.deleting = b], [page EXCEPT !.migrating = b]}
         \/ \E panel : page' = [page EXCEPT !.panel = panel]
         \/ /\ PlaybooksEdits(page.editor) /\ page.route \in {"new", "edit"}
            /\ \E x : page' \in {[page EXCEPT !.editor.saving = x], [page EXCEPT !.editor.source = x]}
  PROVE  /\ DOMAIN page' = PlaybooksFields
         /\ \A x \in PlaybooksFields \ {"editor", "deleting", "migrating", "panel"} :
              page'[x] = page[x]
         /\ page'.deleting \in BOOLEAN /\ page'.migrating \in BOOLEAN
         /\ \/ page'.editor = page.editor
            \/ (PlaybooksEdits(page.editor) /\ PlaybooksEdits(page'.editor)
                  /\ page'.editor.key = page.editor.key /\ page.route \in {"new", "edit"})
<1>1. /\ DOMAIN page = PlaybooksFields
      /\ page.deleting \in BOOLEAN /\ page.migrating \in BOOLEAN
  BY DEF RunsTyped, RunsTypedPage
<1>2. CASE page' = page
  BY <1>1, <1>2
<1>3. ASSUME NEW b \in BOOLEAN,
             page' \in {[page EXCEPT !.deleting = b], [page EXCEPT !.migrating = b]}
      PROVE  /\ DOMAIN page' = PlaybooksFields
             /\ \A x \in PlaybooksFields \ {"editor", "deleting", "migrating", "panel"} :
                  page'[x] = page[x]
             /\ page'.deleting \in BOOLEAN /\ page'.migrating \in BOOLEAN
             /\ page'.editor = page.editor
  BY <1>1, <1>3 DEF PlaybooksFields
<1>4. ASSUME NEW panel, page' = [page EXCEPT !.panel = panel]
      PROVE  /\ DOMAIN page' = PlaybooksFields
             /\ \A x \in PlaybooksFields \ {"editor", "deleting", "migrating", "panel"} :
                  page'[x] = page[x]
             /\ page'.deleting = page.deleting /\ page'.migrating = page.migrating
             /\ page'.editor = page.editor
  BY <1>1, <1>4 DEF PlaybooksFields
<1>5. ASSUME PlaybooksEdits(page.editor), NEW x,
             page' \in {[page EXCEPT !.editor.saving = x], [page EXCEPT !.editor.source = x]}
      PROVE  /\ DOMAIN page' = PlaybooksFields
             /\ \A y \in PlaybooksFields \ {"editor", "deleting", "migrating", "panel"} :
                  page'[y] = page[y]
             /\ page'.deleting = page.deleting /\ page'.migrating = page.migrating
             /\ PlaybooksEdits(page'.editor) /\ page'.editor.key = page.editor.key
  BY <1>1, <1>5 DEF PlaybooksFields, PlaybooksEdits
<1> QED
  BY <1>1, <1>2, <1>3, <1>4, <1>5

LEMMA RunsTypedEdit ==
  ASSUME RunsTyped, PlaybookRuns!Edit
  PROVE  RunsTyped'
<1>1. page.editor # None /\ calls' = calls /\ store' = store
      /\ \E s : page' = [page EXCEPT !.editor.source = s]
  BY DEF PlaybookRuns!Edit
<1>2. PlaybooksEdits(page.editor) /\ page.route \in {"new", "edit"}
  BY <1>1 DEF RunsTyped, RunsTypedPage
<1>3. RunsTypedStore(store') /\ \A w \in calls'.writes : RunsTypedWrite(w)
  BY <1>1, RunsTypedFields
<1> QED
  BY <1>1, <1>2, <1>3, RunsTypedMarks, RunsTypedWrites

\* A write that is new on the page, or goes on there.
LEMMA RunsTypedNew ==
  ASSUME NEW kind, NEW id \in RunUids, NEW stage \in {"validate", "write", "read"},
         NEW source, NEW r,
         kind \in {"create", "update"} =>
           page.route \in {"new", "edit"} /\ PlaybooksEdits(page.editor)
  PROVE  /\ RunsTypedWrite(PlaybookRuns!Write(kind, id))
         /\ RunsTypedWrite([PlaybookRuns!Write(kind, id) EXCEPT !.run = r])
         /\ RunsTypedWrite([PlaybookRuns!Write(kind, id) EXCEPT !.stage = stage, !.source = source])
  BY DEF PlaybookRuns!Write, RunsTypedWrite, PlaybooksWriteFields

LEMMA RunsTypedNext ==
  ASSUME NEW w, RunsTypedWrite(w), NEW stage \in {"validate", "write", "read"}, NEW status
  PROVE  /\ RunsTypedWrite([w EXCEPT !.stage = stage])
         /\ RunsTypedWrite([w EXCEPT !.stage = stage, !.status = status])
         /\ RunsTypedWrite([w EXCEPT !.mine = FALSE])
  BY DEF RunsTypedWrite, PlaybooksWriteFields

LEMMA RunsTypedSave ==
  ASSUME RunsTyped, PlaybookRuns!Save
  PROVE  RunsTyped'
<1> DEFINE w == [(IF page.route = "new"
                    THEN PlaybookRuns!Write("create", <<page.folder, page.editor.key>>)
                    ELSE PlaybookRuns!Write("update", page.id))
                   EXCEPT !.stage = "validate", !.source = page.editor.source]
<1>1. /\ page.editor # None /\ page' = [page EXCEPT !.editor.saving = TRUE]
      /\ calls' = [calls EXCEPT !.writes = calls.writes \cup {w}] /\ store' = store
  BY DEF PlaybookRuns!Save
<1>2. PlaybooksEdits(page.editor) /\ page.route \in {"new", "edit"}
  BY <1>1 DEF RunsTyped, RunsTypedPage
<1>3. CASE page.route = "new"
  <2>1. <<page.folder, page.editor.key>> \in RunUids
    BY <1>3 DEF RunsTyped, RunsTypedPage, RunUids, PlaybookRuns!Ids
  <2>2. RunsTypedWrite(w)
    BY <1>2, <1>3, <2>1, RunsTypedNew
  <2> HIDE DEF w
  <2>3. /\ DOMAIN calls' = DOMAIN calls /\ calls'.document = calls.document
        /\ \A v \in calls'.writes : RunsTypedWrite(v)
    <3>1. /\ DOMAIN calls' = DOMAIN calls /\ calls'.document = calls.document
          /\ calls'.writes = calls.writes \cup {w}
      BY <1>1, <2>2, RunsTypedFields
    <3> QED
      BY <3>1, <1>1, <2>2, RunsTypedFields
  <2>4. RunsTypedStore(store')
    BY <1>1, RunsTypedFields
  <2> QED
    BY <1>1, <1>2, <2>3, <2>4, RunsTypedMarks, RunsTypedWrites
<1>4. CASE page.route # "new"
  <2>1. page.route = "edit" /\ page.id \in RunUids
    BY <1>1, <1>4 DEF RunsTyped, RunsTypedPage
  <2>2. RunsTypedWrite(w)
    BY <1>2, <1>4, <2>1, RunsTypedNew
  <2> HIDE DEF w
  <2>3. /\ DOMAIN calls' = DOMAIN calls /\ calls'.document = calls.document
        /\ \A v \in calls'.writes : RunsTypedWrite(v)
    <3>1. /\ DOMAIN calls' = DOMAIN calls /\ calls'.document = calls.document
          /\ calls'.writes = calls.writes \cup {w}
      BY <1>1, <2>2, RunsTypedFields
    <3> QED
      BY <3>1, <1>1, <2>2, RunsTypedFields
  <2>4. RunsTypedStore(store')
    BY <1>1, RunsTypedFields
  <2> QED
    BY <1>1, <1>2, <2>3, <2>4, RunsTypedMarks, RunsTypedWrites
<1> QED
  BY <1>3, <1>4

LEMMA RunsTypedValidated ==
  ASSUME RunsTyped, NEW w \in calls.writes, PlaybookRuns!Validated(w)
  PROVE  RunsTyped'
<1> DEFINE v == [w EXCEPT !.stage = "write"]
<1>1. calls' = [calls EXCEPT !.writes = (calls.writes \ {w}) \cup {v}]
      /\ page' = page /\ store' = store
  BY DEF PlaybookRuns!Validated
<1>2. RunsTypedWrite(v)
  BY RunsTypedFields, RunsTypedNext
<1> HIDE DEF v
<1>3. /\ DOMAIN calls' = DOMAIN calls /\ calls'.document = calls.document
      /\ \A u \in calls'.writes : RunsTypedWrite(u)
  <2>1. /\ DOMAIN calls' = DOMAIN calls /\ calls'.document = calls.document
        /\ calls'.writes = (calls.writes \ {w}) \cup {v}
    BY <1>1, <1>2, RunsTypedFields
  <2> QED
    BY <2>1, <1>1, <1>2, RunsTypedFields
<1>4. RunsTypedStore(store')
  BY <1>1, RunsTypedFields
<1> QED
  BY <1>1, <1>3, <1>4, RunsTypedMarks, RunsTypedWrites

LEMMA RunsTypedSaved ==
  ASSUME PlaybookRuns!Parameters, RunsTyped, NEW w \in calls.writes,
         PlaybookRuns!SaveAnswered(w) \/ PlaybookRuns!SaveFails(w)
  PROVE  RunsTyped'
<1>1. RunsTypedStore(store')
  <2>1. store' = store \/ store' \in PlaybookRuns!Written(w)
    BY DEF PlaybookRuns!SaveAnswered, PlaybookRuns!SaveFails
  <2> QED
    BY <2>1, RunsTypedWritten, RunsTypedFields
<1>2. PlaybookRuns!Rest(w) \subseteq calls.writes /\ RunsTypedWrite(w)
  BY RunsTypedFields DEF PlaybookRuns!Rest
<1>3. CASE PlaybookRuns!SaveAnswered(w) /\ w.mine
  <2>1. PlaybookRuns!Go(page, "detail", w.id, PlaybookRuns!Rest(w))
    BY <1>3 DEF PlaybookRuns!SaveAnswered
  <2>2. w.id \in RunUids /\ "detail" \in PlaybookRoutes
        /\ page.folder \in FoldersOf["runs"]
    BY <1>2 DEF RunsTypedWrite, RunsTyped, RunsTypedPage, PlaybookRoutes
  <2> QED
    BY <1>1, <1>2, <2>1, <2>2, RunsTypedGo
<1>4. CASE ~(PlaybookRuns!SaveAnswered(w) /\ w.mine)
  <2>1. calls' = [calls EXCEPT !.writes = PlaybookRuns!Rest(w)]
    BY <1>4 DEF PlaybookRuns!SaveAnswered, PlaybookRuns!SaveFails
  <2>2. \/ page' = page
        \/ /\ PlaybooksEdits(page.editor) /\ page.route \in {"new", "edit"}
           /\ page' = [page EXCEPT !.editor.saving = FALSE]
    BY <1>2, <1>4
    DEF PlaybookRuns!SaveAnswered, PlaybookRuns!SaveFails, PlaybookRuns!SaveFailed, PlaybookRuns!SaveEnds,
        PlaybookRuns!Saving, RunsTypedWrite
  <2>3. /\ DOMAIN calls' = DOMAIN calls /\ calls'.document = calls.document
        /\ \A v \in calls'.writes : RunsTypedWrite(v)
    <3>1. /\ DOMAIN calls' = DOMAIN calls /\ calls'.document = calls.document
          /\ calls'.writes = PlaybookRuns!Rest(w)
      BY <1>2, <2>1, RunsTypedFields
    <3> QED
      BY <3>1, <1>2, <2>1, RunsTypedFields
  <2> QED
    BY <1>1, <2>2, <2>3, RunsTypedMarks, RunsTypedWrites
<1> QED
  BY <1>3, <1>4

LEMMA RunsTypedDetailWrite ==
  ASSUME RunsTyped, PlaybookRuns!Delete \/ PlaybookRuns!Migrate
  PROVE  RunsTyped'
<1>1. page.id \in RunUids
  BY DEF RunsTyped, RunsTypedPage
<1>2. PICK w : /\ RunsTypedWrite(w)
               /\ calls' = [calls EXCEPT !.writes = calls.writes \cup {w}]
  BY <1>1, RunsTypedNew DEF PlaybookRuns!Delete, PlaybookRuns!Migrate
<1>3. /\ page' \in {[page EXCEPT !.deleting = TRUE], [page EXCEPT !.migrating = TRUE]}
      /\ store' = store
  BY DEF PlaybookRuns!Delete, PlaybookRuns!Migrate
<1>4. /\ DOMAIN calls' = DOMAIN calls /\ calls'.document = calls.document
      /\ \A v \in calls'.writes : RunsTypedWrite(v)
  <2>1. /\ DOMAIN calls' = DOMAIN calls /\ calls'.document = calls.document
        /\ calls'.writes = calls.writes \cup {w}
    BY <1>2, RunsTypedFields
  <2> QED
    BY <2>1, <1>2, RunsTypedFields
<1>5. RunsTypedStore(store')
  BY <1>3, RunsTypedFields
<1> QED
  BY <1>3, <1>4, <1>5, RunsTypedMarks, RunsTypedWrites

LEMMA RunsTypedDetail ==
  ASSUME PlaybookRuns!Parameters, RunsTyped, NEW w \in calls.writes,
         PlaybookRuns!DetailWriteAnswered(w) \/ PlaybookRuns!DetailWriteFails(w)
  PROVE  RunsTyped'
<1>1. RunsTypedStore(store')
  <2>1. store' = store \/ store' \in PlaybookRuns!Written(w)
    BY DEF PlaybookRuns!DetailWriteAnswered, PlaybookRuns!DetailWriteFails
  <2> QED
    BY <2>1, RunsTypedWritten, RunsTypedFields
<1>2. PlaybookRuns!Rest(w) \subseteq calls.writes /\ page.folder \in FoldersOf["runs"]
  BY DEF PlaybookRuns!Rest, RunsTyped, RunsTypedPage
<1>3. CASE PlaybookRuns!DetailWriteAnswered(w) /\ w.kind = "delete"
  <2>1. PlaybookRuns!Go(page, "list", None, PlaybookRuns!Rest(w))
    BY <1>3 DEF PlaybookRuns!DetailWriteAnswered
  <2>2. None \in RunUids /\ "list" \in PlaybookRoutes
    BY DEF RunUids, PlaybookRoutes
  <2> QED
    BY <1>1, <1>2, <2>1, <2>2, RunsTypedGo
<1>4. CASE PlaybookRuns!DetailWriteAnswered(w) /\ w.kind = "migrate"
  <2> DEFINE one == [status |-> "active", source |-> "first", by |-> w.kind]
             new == CHOOSE id \in PlaybookRuns!Ids : store'.playbook[id] # store.playbook[id]
  <2>1. PlaybookRuns!Go(page, "detail", new, PlaybookRuns!Rest(w))
    BY <1>4 DEF PlaybookRuns!DetailWriteAnswered
  <2>2. PICK key \in PlaybookRuns!FreshKeys(w.id[1]) : store' = [store EXCEPT !.playbook[key] = one]
    BY <1>4 DEF PlaybookRuns!DetailWriteAnswered, PlaybookRuns!Written
  <2>3. key \in PlaybookRuns!Ids /\ store.playbook[key].status = "none" /\ one.status = "active"
    BY DEF PlaybookRuns!FreshKeys
  <2> HIDE DEF one
  <2>4. store'.playbook[key] = one
    BY <2>2, <2>3 DEF RunsTyped, RunsTypedStore
  <2>5. \E id \in PlaybookRuns!Ids : store'.playbook[id] # store.playbook[id]
    BY <2>3, <2>4
  <2>6. new \in PlaybookRuns!Ids
    BY <2>5
  <2> HIDE DEF new
  <2>7. new \in RunUids /\ "detail" \in PlaybookRoutes
    BY <2>6 DEF RunUids, PlaybookRoutes
  <2> QED
    BY <1>1, <1>2, <2>1, <2>7, RunsTypedGo
<1>5. CASE PlaybookRuns!DetailWriteFails(w)
  <2>1. calls' = [calls EXCEPT !.writes = PlaybookRuns!Rest(w)]
    BY <1>5 DEF PlaybookRuns!DetailWriteFails
  <2>2. page' \in {page, [page EXCEPT !.deleting = FALSE], [page EXCEPT !.migrating = FALSE]}
    BY <1>5 DEF PlaybookRuns!DetailWriteFails
  <2>3. /\ DOMAIN calls' = DOMAIN calls /\ calls'.document = calls.document
        /\ \A v \in calls'.writes : RunsTypedWrite(v)
    <3>1. /\ DOMAIN calls' = DOMAIN calls /\ calls'.document = calls.document
          /\ calls'.writes = PlaybookRuns!Rest(w)
      BY <1>2, <2>1, RunsTypedFields
    <3> QED
      BY <3>1, <1>2, <2>1, RunsTypedFields
  <2> QED
    BY <1>1, <2>2, <2>3, RunsTypedMarks, RunsTypedWrites
<1> QED
  BY <1>3, <1>4, <1>5 DEF PlaybookRuns!DetailWriteAnswered

LEMMA RunsTypedPanel ==
  ASSUME RunsTyped,
         \/ PlaybookRuns!OpenRuns \/ PlaybookRuns!RunsAnswered \/ PlaybookRuns!StreamMoves
         \/ PlaybookRuns!SnapshotAnswered \/ PlaybookRuns!ArtifactsAnswered
  PROVE  RunsTyped'
<1>1. calls' = calls /\ store' = store
  BY DEF PlaybookRuns!OpenRuns, PlaybookRuns!RunsAnswered, PlaybookRuns!StreamMoves,
         PlaybookRuns!SnapshotAnswered, PlaybookRuns!ArtifactsAnswered
<1>2. \E panel : page' = [page EXCEPT !.panel = panel]
  <2>1. CASE PlaybookRuns!OpenRuns \/ PlaybookRuns!SnapshotAnswered
    BY <2>1 DEF PlaybookRuns!OpenRuns, PlaybookRuns!SnapshotAnswered
  <2>2. CASE PlaybookRuns!RunsAnswered \/ PlaybookRuns!ArtifactsAnswered
    BY <2>2 DEF PlaybookRuns!RunsAnswered, PlaybookRuns!ArtifactsAnswered
  <2>3. CASE PlaybookRuns!StreamMoves
    <3>1. \E stage, status : PlaybookRuns!Stage(stage, status)
      BY <2>3 DEF PlaybookRuns!StreamMoves
    <3> QED
      BY <3>1 DEF PlaybookRuns!Stage
  <2> QED
    BY <2>1, <2>2, <2>3
<1>3. RunsTypedStore(store') /\ \A w \in calls'.writes : RunsTypedWrite(w)
  BY <1>1, RunsTypedFields
<1> QED
  BY <1>1, <1>2, <1>3, RunsTypedMarks, RunsTypedWrites

LEMMA RunsTypedClose ==
  ASSUME RunsTyped, PlaybookRuns!CloseRuns
  PROVE  RunsTyped'
<1> DEFINE runs == PlaybookRuns!RunWrites
<1>1. /\ page' = [page EXCEPT !.panel = None] /\ store' = store
      /\ calls' = [calls EXCEPT !.writes = (calls.writes \ runs) \cup PlaybookRuns!NotMine(runs)]
  BY DEF PlaybookRuns!CloseRuns
<1>2. runs \subseteq calls.writes
  BY DEF PlaybookRuns!RunWrites
<1> HIDE DEF runs
<1>3. \A w \in PlaybookRuns!NotMine(runs) : RunsTypedWrite(w)
  BY <1>2, RunsTypedFields, RunsTypedNext DEF PlaybookRuns!NotMine
<1>4. /\ DOMAIN calls' = DOMAIN calls /\ calls'.document = calls.document
      /\ \A v \in calls'.writes : RunsTypedWrite(v)
  <2>1. /\ DOMAIN calls' = DOMAIN calls /\ calls'.document = calls.document
        /\ calls'.writes = (calls.writes \ runs) \cup PlaybookRuns!NotMine(runs)
    BY <1>1, <1>3, RunsTypedFields
  <2> QED
    BY <2>1, <1>1, <1>3, RunsTypedFields
<1>5. RunsTypedStore(store')
  BY <1>1, RunsTypedFields
<1> QED
  BY <1>1, <1>4, <1>5, RunsTypedMarks, RunsTypedWrites

LEMMA RunsTypedOnRuns ==
  ASSUME RunsTyped, PlaybookRuns!OnRuns
  PROVE  RunsTyped'
<1>1. PICK kind, r : kind \notin {"create", "update"} /\ PlaybookRuns!RunWrite(kind, r)
  BY DEF PlaybookRuns!OnRuns
<1> DEFINE w == [PlaybookRuns!Write(kind, page.id) EXCEPT !.run = r]
<1>2. /\ calls' = [calls EXCEPT !.writes = calls.writes \cup {w}] /\ store' = store
      /\ \E panel : page' = [page EXCEPT !.panel = panel]
  BY <1>1 DEF PlaybookRuns!RunWrite
<1>3. page.id \in RunUids
  BY DEF RunsTyped, RunsTypedPage
<1>4. RunsTypedWrite(w)
  BY <1>1, <1>3, RunsTypedNew
<1> HIDE DEF w
<1>5. /\ DOMAIN calls' = DOMAIN calls /\ calls'.document = calls.document
      /\ \A v \in calls'.writes : RunsTypedWrite(v)
  <2>1. /\ DOMAIN calls' = DOMAIN calls /\ calls'.document = calls.document
        /\ calls'.writes = calls.writes \cup {w}
    BY <1>2, <1>4, RunsTypedFields
  <2> QED
    BY <2>1, <1>2, <1>4, RunsTypedFields
<1>6. RunsTypedStore(store')
  BY <1>2, RunsTypedFields
<1> QED
  BY <1>2, <1>5, <1>6, RunsTypedMarks, RunsTypedWrites

LEMMA RunsTypedRunWrite ==
  ASSUME RunsTyped, NEW w \in calls.writes,
         PlaybookRuns!RunWriteAnswered(w) \/ PlaybookRuns!RunReadAnswered(w) \/ PlaybookRuns!RunWriteFails(w)
  PROVE  RunsTyped'
<1> DEFINE read == [w EXCEPT !.stage = "read", !.status = store'.run[w.run].status]
<1>1. RunsTypedStore(store')
  <2>1. store' = store \/ store' \in PlaybookRuns!Written(w)
    BY DEF PlaybookRuns!RunWriteAnswered, PlaybookRuns!RunReadAnswered, PlaybookRuns!RunWriteFails
  <2> QED
    BY <2>1, RunsTypedWritten, RunsTypedFields
<1>2. page' = page \/ \E panel : page' = [page EXCEPT !.panel = panel]
  BY DEF PlaybookRuns!RunWriteAnswered, PlaybookRuns!RunReadAnswered, PlaybookRuns!RunWriteFails
<1>3. RunsTypedWrite(read) /\ PlaybookRuns!Rest(w) \subseteq calls.writes
  BY RunsTypedFields, RunsTypedNext DEF PlaybookRuns!Rest
<1>4. \/ calls' = [calls EXCEPT !.writes = PlaybookRuns!Rest(w)]
      \/ calls' = [calls EXCEPT !.writes = PlaybookRuns!Rest(w) \cup {read}]
  BY DEF PlaybookRuns!RunWriteAnswered, PlaybookRuns!RunReadAnswered, PlaybookRuns!RunWriteFails
<1> HIDE DEF read
<1>5. /\ DOMAIN calls' = DOMAIN calls /\ calls'.document = calls.document
      /\ \A v \in calls'.writes : RunsTypedWrite(v)
  <2>1. /\ DOMAIN calls' = DOMAIN calls /\ calls'.document = calls.document
        /\ calls'.writes \in {PlaybookRuns!Rest(w), PlaybookRuns!Rest(w) \cup {read}}
    BY <1>3, <1>4, RunsTypedFields
  <2> QED
    BY <2>1, <1>3, <1>4, RunsTypedFields
<1> QED
  BY <1>1, <1>2, <1>5, RunsTypedMarks, RunsTypedWrites

LEMMA RunsTypedRunMoves ==
  ASSUME RunsTyped, NEW r, PlaybookRuns!RunMoves(r)
  PROVE  RunsTyped'
<1>1. page' = page /\ calls' = calls
      /\ \E status : store' = [store EXCEPT !.run[r].status = status]
  BY DEF PlaybookRuns!RunMoves
<1>2. RunsTypedStore(store')
  BY <1>1 DEF RunsTyped, RunsTypedStore
<1>3. \A w \in calls'.writes : RunsTypedWrite(w)
  BY <1>1, RunsTypedFields
<1> QED
  BY <1>1, <1>2, <1>3, RunsTypedMarks, RunsTypedWrites

LEMMA RunsTypedInit ==
  ASSUME PlaybookRuns!Parameters, PlaybookRuns!Init
  PROVE  RunsTyped
<1>1. /\ page.folder \in FoldersOf["runs"] /\ page.route = "list" /\ page.id = None
      /\ page.editors = 0 /\ page.list = PlaybookRuns!Loading /\ page.document = PlaybookRuns!Loading
      /\ page.editor = None /\ page.deleting = FALSE /\ page.migrating = FALSE
      /\ DOMAIN page = PlaybooksFields
  BY DEF PlaybookRuns!Init, PlaybookRuns!Parameters, PlaybooksFields
<1>2. 0 \in 0 .. 0
  BY DEF PlaybookRuns!Parameters
<1>3. page.list.status \in PlaybookStatuses /\ page.document.status \in PlaybookStatuses
  BY <1>1 DEF PlaybookStatuses, PlaybookRuns!Loading
<1>6. page.route \in PlaybookRoutes /\ page.id \in RunUids /\ page.route # "new"
  BY <1>1 DEF PlaybookRoutes, RunUids
<1>7. RunsTypedPage
  BY <1>1, <1>2, <1>3, <1>6 DEF RunsTypedPage
<1>4. DOMAIN calls = {"lists", "document", "writes"} /\ calls.writes = {}
  BY DEF PlaybookRuns!Init
<1>5. RunsTypedStore(store)
  BY DEF PlaybookRuns!Init, RunsTypedStore
<1> QED
  BY <1>7, <1>4, <1>5 DEF RunsTyped

LEMMA RunsTypedStep ==
  ASSUME PlaybookRuns!Parameters
  PROVE  RunsTyped /\ [PlaybookRuns!Next]_(PlaybookRuns!vars) => RunsTyped'
<1> SUFFICES ASSUME RunsTyped, [PlaybookRuns!Next]_(PlaybookRuns!vars)
             PROVE  RunsTyped'
  OBVIOUS
<1>1. ASSUME NEW f \in FoldersOf["runs"], PlaybookRuns!SelectFolder(f) PROVE RunsTyped'
  BY <1>1, RunsTypedSelect
<1>2. CASE \/ PlaybookRuns!ToList \/ PlaybookRuns!NewPlaybook \/ PlaybookRuns!EditPlaybook
           \/ PlaybookRuns!CancelEdit \/ \E id \in PlaybookRuns!Ids : PlaybookRuns!OpenPlaybook(id)
  BY <1>2, RunsTypedWalk
<1>3. CASE PlaybookRuns!Load \/ \E q \in calls.lists : PlaybookRuns!ListAnswered(q)
  BY <1>3, RunsTypedRead
<1>4. CASE PlaybookRuns!DocumentAnswered \/ PlaybookRuns!RetryDocument
  BY <1>4, RunsTypedDocument
<1>5. CASE PlaybookRuns!Edit \/ PlaybookRuns!Save \/ PlaybookRuns!Delete \/ PlaybookRuns!Migrate
  BY <1>5, RunsTypedEdit, RunsTypedSave, RunsTypedDetailWrite
<1>6. ASSUME NEW w \in calls.writes,
             \/ PlaybookRuns!Validated(w) \/ PlaybookRuns!SaveAnswered(w) \/ PlaybookRuns!SaveFails(w)
             \/ PlaybookRuns!DetailWriteAnswered(w) \/ PlaybookRuns!DetailWriteFails(w)
             \/ PlaybookRuns!RunWriteAnswered(w) \/ PlaybookRuns!RunReadAnswered(w)
             \/ PlaybookRuns!RunWriteFails(w)
      PROVE  RunsTyped'
  BY <1>6, RunsTypedValidated, RunsTypedSaved, RunsTypedDetail, RunsTypedRunWrite
<1>7. CASE \/ PlaybookRuns!OpenRuns \/ PlaybookRuns!RunsAnswered \/ PlaybookRuns!StreamMoves
           \/ PlaybookRuns!SnapshotAnswered \/ PlaybookRuns!ArtifactsAnswered
  BY <1>7, RunsTypedPanel
<1>8. CASE PlaybookRuns!CloseRuns \/ PlaybookRuns!OnRuns
  BY <1>8, RunsTypedClose, RunsTypedOnRuns
<1>9. ASSUME NEW r, PlaybookRuns!RunMoves(r) PROVE RunsTyped'
  BY <1>9, RunsTypedRunMoves
<1>10. CASE UNCHANGED PlaybookRuns!vars
  <2>1. page' = page /\ calls' = calls /\ store' = store
    BY <1>10 DEF PlaybookRuns!vars
  <2>2. RunsTypedStore(store') /\ \A w \in calls'.writes : RunsTypedWrite(w)
    BY <2>1, RunsTypedFields
  <2> QED
    BY <2>1, <2>2, RunsTypedMarks, RunsTypedWrites
<1> QED
  BY <1>1, <1>2, <1>3, <1>4, <1>5, <1>6, <1>7, <1>8, <1>9, <1>10 DEF PlaybookRuns!Next

\* PlaybookRunsPanel beside the playbook of its route: whatever runs are started, followed and left,
\* the page keeps its types and the identifier of a playbook there may be.
THEOREM RunsRoutesAreKnown ==
  ASSUME PlaybookRuns!Parameters
  PROVE  PlaybookRuns!Spec => []PlaybookRuns!TypeOK
<1>1. RunsTyped => PlaybookRuns!TypeOK
  BY DEF RunsTyped, RunsTypedPage, RunsTypedWrite, PlaybookRoutes, RunUids,
         PlaybookStatuses, PlaybookRuns!TypeOK
<1> QED
  BY <1>1, RunsTypedInit, RunsTypedStep, PTL DEF PlaybookRuns!Spec

-----------------------------------------------------------------------------
(* The skills: a run that is cancelled, for any skills, tools and runs.    *)
(* The dialog gives up the stream of a run before it asks for the          *)
(* cancellation, and no stream plays a run that was cancelled.             *)

SkillsFields == {"folders", "route", "id", "list", "timer", "editor", "deleting", "dialog"}

\* A dialog, and the runs there are.
SkillsDialogFits(dialog, run) ==
  /\ DOMAIN dialog = {"skill", "run", "loading", "stream", "cancelling"}
  /\ dialog.cancelling => dialog.stream = None
  /\ dialog.stream # None /\ dialog.stream.run \in Skills!Runs =>
       run[dialog.stream.run].status # "cancelled"

SkillsPageFits(p, run) ==
  DOMAIN p = SkillsFields /\ (p.dialog # None => SkillsDialogFits(p.dialog, run))

SkillsStoreFits(s) ==
  /\ DOMAIN s = {"skills", "made", "run"} /\ DOMAIN s.run = Skills!Runs
  /\ \A r \in Skills!Runs : "status" \in DOMAIN s.run[r]

SkillsInv == SkillsStoreFits(store) /\ SkillsPageFits(page, store.run)

\* A page whose components are mounted anew has no dialog.
LEMMA SkillsMountFits ==
  ASSUME NEW p, DOMAIN p = SkillsFields, NEW run
  PROVE  SkillsPageFits(Skills!Mount(p), run)
  BY DEF Skills!Mount, SkillsPageFits, SkillsFields

LEMMA SkillsRelocatedFits ==
  ASSUME NEW p, DOMAIN p = SkillsFields, NEW at, NEW id, NEW run
  PROVE  SkillsPageFits(Skills!Relocated(p, at, id), run)
<1> DEFINE q == [p EXCEPT !.route = at, !.id = id, !.list = Skills!Loading, !.timer = TRUE]
<1>1. DOMAIN q = SkillsFields
  OBVIOUS
<1>2. Skills!Relocated(p, at, id) = Skills!Mount(q)
  BY DEF Skills!Relocated
<1> HIDE DEF q
<1> QED
  BY <1>1, <1>2, SkillsMountFits

\* What changes neither the runs nor the dialog.
LEMMA SkillsQuiet ==
  ASSUME SkillsInv, store' = store, DOMAIN page' = SkillsFields,
         page'.dialog = page.dialog \/ page'.dialog = None
  PROVE  SkillsInv' /\ Skills!StaysCancelled
  BY DEF SkillsInv, SkillsPageFits, Skills!StaysCancelled

LEMMA SkillsMountsQuietly ==
  ASSUME SkillsInv, store' = store, SkillsPageFits(page', store.run)
  PROVE  SkillsInv' /\ Skills!StaysCancelled
  BY DEF SkillsInv, Skills!StaysCancelled

LEMMA SkillsListStep ==
  ASSUME SkillsInv, \/ Skills!FoldersChange \/ Skills!TimerLoads \/ Skills!Walk
                    \/ \E q : Skills!ListAnswered(q)
  PROVE  SkillsInv' /\ Skills!StaysCancelled
<1>0. DOMAIN page = SkillsFields
  BY DEF SkillsInv, SkillsPageFits
<1>1. CASE Skills!FoldersChange
  <2>1. store' = store /\ \E folders :
          LET p == [page EXCEPT !.folders = folders, !.timer = TRUE]
          IN  page' = p \/ page' = Skills!Mount(p)
    BY <1>1 DEF Skills!FoldersChange
  <2>2. PICK folders :
          LET p == [page EXCEPT !.folders = folders, !.timer = TRUE]
          IN  page' = p \/ page' = Skills!Mount(p)
    BY <2>1
  <2> DEFINE p == [page EXCEPT !.folders = folders, !.timer = TRUE]
  <2>3. DOMAIN p = SkillsFields /\ p.dialog = page.dialog
    BY <1>0 DEF SkillsFields
  <2>4. page' = p \/ page' = Skills!Mount(p)
    BY <2>2
  <2> HIDE DEF p
  <2>5. CASE page' = p
    BY <2>1, <2>3, <2>5, SkillsQuiet
  <2>6. CASE page' = Skills!Mount(p)
    BY <2>1, <2>3, <2>6, SkillsMountFits, SkillsMountsQuietly
  <2> QED
    BY <2>4, <2>5, <2>6
<1>2. CASE Skills!TimerLoads
  <2> DEFINE p == [page EXCEPT !.list = Skills!Loading, !.timer = FALSE]
  <2>1. page' = Skills!Mount(p) /\ store' = store
    BY <1>2 DEF Skills!TimerLoads
  <2>2. DOMAIN p = SkillsFields
    BY <1>0
  <2> HIDE DEF p
  <2> QED
    BY <2>1, <2>2, SkillsMountFits, SkillsMountsQuietly
<1>3. CASE Skills!Walk
  <2>1. store' = store /\ \E at, id : page' = Skills!Relocated(page, at, id)
    BY <1>3 DEF Skills!Walk, Skills!Navigate
  <2> QED
    BY <1>0, <2>1, SkillsRelocatedFits, SkillsMountsQuietly
<1>4. ASSUME NEW q, Skills!ListAnswered(q)
      PROVE  SkillsInv' /\ Skills!StaysCancelled
  <2> DEFINE p == [page EXCEPT !.list = Skills!Shown(Skills!ListSkills(q.folders))]
             next == IF q.current THEN Skills!Mount(p) ELSE page
  <2>1. /\ store' = store
        /\ page' = next \/ page' = Skills!Relocated(next, q.then.route, q.then.id)
    BY <1>4 DEF Skills!ListAnswered
  <2>2. DOMAIN p = SkillsFields
    BY <1>0
  <2> HIDE DEF p
  <2>3. SkillsPageFits(next, store.run)
    BY <2>2, SkillsMountFits DEF SkillsInv
  <2> HIDE DEF next
  <2> QED
    BY <2>1, <2>3, SkillsRelocatedFits, SkillsMountsQuietly DEF SkillsPageFits
<1> QED
  BY <1>1, <1>2, <1>3, <1>4

\* A write changes no run but those it removes, and leaves the dialog or closes it.
LEMMA SkillsWritten ==
  ASSUME SkillsInv, NEW w, NEW then, Skills!LoadAfter(w, then), SkillsStoreFits(store'),
         \A r \in Skills!Runs : store'.run[r].status \in {store.run[r].status, "gone"}
  PROVE  SkillsInv' /\ Skills!StaysCancelled
<1>1. DOMAIN page = SkillsFields
  BY DEF SkillsInv, SkillsPageFits
<1> DEFINE p == [page EXCEPT !.list = Skills!Loading]
<1>2. page' = Skills!Mount(p) \/ page' = page
  BY DEF Skills!LoadAfter
<1>3. DOMAIN p = SkillsFields
  BY <1>1
<1> HIDE DEF p
<1>4. SkillsPageFits(page, store'.run)
  BY DEF SkillsInv, SkillsPageFits, SkillsDialogFits
<1>5. SkillsPageFits(page', store'.run)
  BY <1>2, <1>3, <1>4, SkillsMountFits
<1> QED
  BY <1>5 DEF SkillsInv, Skills!StaysCancelled

LEMMA SkillsWriteStep ==
  ASSUME SkillsInv, \/ Skills!Save \/ Skills!Delete
                    \/ \E w : \/ Skills!SaveAnswered(w) \/ Skills!DeleteAnswered(w)
                              \/ Skills!WriteFails(w)
  PROVE  SkillsInv' /\ Skills!StaysCancelled
<1>0. DOMAIN page = SkillsFields /\ SkillsStoreFits(store)
  BY DEF SkillsInv, SkillsPageFits
<1>1. CASE Skills!Save \/ Skills!Delete \/ \E w : Skills!WriteFails(w)
  <2>1. /\ store' = store
        /\ \/ page' = page
           \/ \E flag \in BOOLEAN : \/ page' = [page EXCEPT !.editor.saving = flag]
                                    \/ page' = [page EXCEPT !.deleting = flag]
    BY <1>1 DEF Skills!Save, Skills!Delete, Skills!WriteFails
  <2>2. DOMAIN page' = SkillsFields /\ page'.dialog = page.dialog
    BY <1>0, <2>1 DEF SkillsFields
  <2> QED
    BY <2>1, <2>2, SkillsQuiet
<1>2. ASSUME NEW w, Skills!SaveAnswered(w)
      PROVE  SkillsInv' /\ Skills!StaysCancelled
  <2>1. PICK then : Skills!LoadAfter(w, then)
    BY <1>2 DEF Skills!SaveAnswered
  <2>2. DOMAIN store' = {"skills", "made", "run"} /\ store'.run = store.run
    <3>1. (\E id : store' = Skills!Created(w, id)) \/ store' = Skills!Updated(w)
      BY <1>2 DEF Skills!SaveAnswered
    <3> QED
      BY <1>0, <3>1 DEF Skills!Created, Skills!Updated, SkillsStoreFits
  <2>3. SkillsStoreFits(store')
    BY <1>0, <2>2 DEF SkillsStoreFits
  <2> QED
    BY <2>1, <2>2, <2>3, SkillsWritten
<1>3. ASSUME NEW w, Skills!DeleteAnswered(w)
      PROVE  SkillsInv' /\ Skills!StaysCancelled
  <2>1. PICK then : Skills!LoadAfter(w, then)
    BY <1>3 DEF Skills!DeleteAnswered
  <2> DEFINE run == [r \in Skills!Runs |-> IF store.run[r].of = w.id
                                          THEN [store.run[r] EXCEPT !.status = "gone"]
                                          ELSE store.run[r]]
  <2>2. DOMAIN store' = {"skills", "made", "run"} /\ store'.run = run
    BY <1>0, <1>3 DEF Skills!DeleteAnswered, Skills!Deleted, SkillsStoreFits
  <2>3. ASSUME NEW r \in Skills!Runs
        PROVE  "status" \in DOMAIN run[r] /\ run[r].status \in {store.run[r].status, "gone"}
    BY <1>0 DEF SkillsStoreFits
  <2>4. DOMAIN run = Skills!Runs
    OBVIOUS
  <2> HIDE DEF run
  <2>5. SkillsStoreFits(store')
    BY <2>2, <2>3, <2>4 DEF SkillsStoreFits
  <2> QED
    BY <2>1, <2>2, <2>3, <2>5, SkillsWritten
<1> QED
  BY <1>1, <1>2, <1>3

\* The dialog: a run that is not cancelled is played, or one that had not begun.
LEMMA SkillsPlayed ==
  ASSUME SkillsInv, page.dialog # None, ~page.dialog.cancelling, NEW r, NEW run, NEW stage,
         Skills!Play(r, run, stage),
         r \in Skills!Runs => "status" \in DOMAIN run /\ store.run[r].status # "cancelled"
  PROVE  SkillsInv' /\ Skills!StaysCancelled
<1> DEFINE stream == IF run.status # "running" THEN None ELSE [run |-> r, stage |-> stage]
           playing == [id |-> r, status |-> run.status]
<1>1. /\ DOMAIN page = SkillsFields /\ SkillsStoreFits(store)
      /\ SkillsDialogFits(page.dialog, store.run)
  BY DEF SkillsInv, SkillsPageFits
<1>2. /\ store' = [store EXCEPT !.run[r] = run]
      /\ page' = [page EXCEPT !.dialog.run = playing, !.dialog.stream = stream]
  BY DEF Skills!Play
<1>3. stream # None => stream.run = r /\ run.status = "running"
  OBVIOUS
<1> HIDE DEF stream, playing
<1>4. /\ DOMAIN store' = {"skills", "made", "run"} /\ DOMAIN store'.run = Skills!Runs
      /\ \A q \in Skills!Runs : store'.run[q] = IF q = r THEN run ELSE store.run[q]
  BY <1>1, <1>2 DEF SkillsStoreFits
<1>5. /\ DOMAIN page' = SkillsFields
      /\ DOMAIN page'.dialog = {"skill", "run", "loading", "stream", "cancelling"}
      /\ page'.dialog.stream = stream /\ page'.dialog.cancelling = page.dialog.cancelling
  BY <1>1, <1>2 DEF SkillsFields, SkillsDialogFits
<1>6. SkillsStoreFits(store')
  BY <1>1, <1>4 DEF SkillsStoreFits
<1>7. SkillsDialogFits(page'.dialog, store'.run)
  BY <1>3, <1>4, <1>5 DEF SkillsDialogFits
<1>8. Skills!StaysCancelled
  BY <1>4 DEF Skills!StaysCancelled
<1> QED
  BY <1>5, <1>6, <1>7, <1>8 DEF SkillsInv, SkillsPageFits

LEMMA SkillsContinued ==
  ASSUME NEW run, "status" \in DOMAIN run
  PROVE  "status" \in DOMAIN Skills!Continued(run)
  BY DEF Skills!Continued

LEMMA SkillsRunStep ==
  ASSUME SkillsInv, Skills!StartDryRun \/ Skills!StreamMoves \/ Skills!ResolveRun
  PROVE  SkillsInv' /\ Skills!StaysCancelled
<1>0. \A r \in Skills!Runs : "status" \in DOMAIN store.run[r]
  BY DEF SkillsInv, SkillsStoreFits
<1>1. CASE Skills!StartDryRun
  <2> DEFINE run == [of |-> page.dialog.skill, status |-> "running",
                     call |-> [i \in DOMAIN Tools |-> "pending"]]
  <2>1. PICK r \in Skills!Runs :
          store.run[r].status = "none" /\ Skills!Play(r, Skills!Continued(run), "pause")
    BY <1>1 DEF Skills!StartDryRun
  <2>2. page.dialog # None /\ ~page.dialog.cancelling
    BY <1>1 DEF Skills!StartDryRun, Skills!Quiet, Skills!OnRun
  <2>3. "status" \in DOMAIN run
    OBVIOUS
  <2> HIDE DEF run
  <2> QED
    BY <2>1, <2>2, <2>3, SkillsContinued, SkillsPlayed
<1>2. CASE Skills!StreamMoves
  <2> DEFINE r == page.dialog.stream.run
             run == store.run[r]
  <2>1. /\ page.dialog # None /\ page.dialog.stream # None
        /\ \/ \E i : Skills!Play(r, [run EXCEPT !.call[i] = "running"], "call")
           \/ Skills!Play(r, [run EXCEPT !.status = "waiting"], "pause")
           \/ \E i : Skills!Play(r, Skills!Continued([run EXCEPT !.call[i] = "success"]), "pause")
    BY <1>2 DEF Skills!StreamMoves, Skills!Follows, Skills!OnRun
  <2>2. ~page.dialog.cancelling /\ (r \in Skills!Runs => run.status # "cancelled")
    BY <2>1 DEF SkillsInv, SkillsPageFits, SkillsDialogFits
  <2> HIDE DEF r
  <2>3. r \in Skills!Runs => "status" \in DOMAIN run
    BY <1>0
  <2> HIDE DEF run
  <2>4. \A new : \/ \E i : new = [run EXCEPT !.call[i] = "running"]
                 \/ new = [run EXCEPT !.status = "waiting"]
                 \/ \E i : new = Skills!Continued([run EXCEPT !.call[i] = "success"])
                 => (r \in Skills!Runs => "status" \in DOMAIN new)
    BY <2>3, SkillsContinued
  <2>5. r \in Skills!Runs => store.run[r].status # "cancelled"
    BY <2>2 DEF run
  <2> QED
    BY <2>1, <2>2, <2>4, <2>5, SkillsPlayed
<1>3. CASE Skills!ResolveRun
  <2> DEFINE r == page.dialog.run.id
             run == store.run[r]
  <2>1. /\ page.dialog # None /\ ~page.dialog.cancelling /\ run.status = "waiting"
        /\ \E i, decided :
             Skills!Play(r, Skills!Continued([run EXCEPT !.status = "running",
                                                         !.call[i] = decided]), "pause")
    BY <1>3 DEF Skills!ResolveRun, Skills!Quiet, Skills!OnRun
  <2> HIDE DEF r
  <2>2. r \in Skills!Runs => "status" \in DOMAIN run /\ store.run[r].status # "cancelled"
    BY <1>0, <2>1
  <2> HIDE DEF run
  <2>3. \A i, decided :
          r \in Skills!Runs =>
            "status" \in DOMAIN Skills!Continued([run EXCEPT !.status = "running",
                                                             !.call[i] = decided])
    BY <2>2, SkillsContinued
  <2> QED
    BY <2>1, <2>2, <2>3, SkillsPlayed
<1> QED
  BY <1>1, <1>2, <1>3

LEMMA SkillsDialogStep ==
  ASSUME SkillsInv, \/ Skills!OpenRun \/ Skills!CloseRun \/ Skills!RunsAnswered
                    \/ Skills!Cancel \/ Skills!NewRun
  PROVE  SkillsInv' /\ Skills!StaysCancelled
<1>0. /\ DOMAIN page = SkillsFields
      /\ page.dialog # None => SkillsDialogFits(page.dialog, store.run)
  BY DEF SkillsInv, SkillsPageFits
<1>1. CASE Skills!CloseRun
  <2>1. DOMAIN page' = SkillsFields /\ page'.dialog = None /\ store' = store
    BY <1>0, <1>1 DEF Skills!CloseRun, SkillsFields
  <2> QED
    BY <2>1, SkillsQuiet
<1>2. CASE Skills!OpenRun
  <2> DEFINE dialog == [skill |-> Skills!Selected.id, run |-> None, loading |-> TRUE,
                        stream |-> None, cancelling |-> FALSE]
  <2>1. page' = [page EXCEPT !.dialog = dialog] /\ store' = store
    BY <1>2 DEF Skills!OpenRun
  <2>2. SkillsDialogFits(dialog, store.run)
    BY DEF SkillsDialogFits
  <2> HIDE DEF dialog
  <2>3. DOMAIN page' = SkillsFields /\ page'.dialog = dialog
    BY <1>0, <2>1 DEF SkillsFields
  <2> QED
    BY <2>1, <2>2, <2>3, SkillsMountsQuietly DEF SkillsPageFits
<1>3. CASE Skills!RunsAnswered \/ Skills!NewRun
  <2>1. PICK run, loading :
          /\ page.dialog # None /\ store' = store
          /\ page' = [page EXCEPT !.dialog = [@ EXCEPT !.loading = loading, !.run = run]]
    <3>1. CASE Skills!RunsAnswered
      <4>1. PICK run : page' = [page EXCEPT !.dialog.loading = FALSE, !.dialog.run = run]
        BY <3>1 DEF Skills!RunsAnswered
      <4>2. page' = [page EXCEPT !.dialog = [@ EXCEPT !.loading = FALSE, !.run = run]]
        BY <1>0, <4>1
      <4> QED
        BY <3>1, <4>2 DEF Skills!RunsAnswered
    <3>2. CASE Skills!NewRun
      <4>1. page' = [page EXCEPT !.dialog = [@ EXCEPT !.loading = page.dialog.loading,
                                                      !.run = None]]
        BY <1>0, <3>2 DEF Skills!NewRun, Skills!OnRun, SkillsDialogFits
      <4> QED
        BY <3>2, <4>1 DEF Skills!NewRun, Skills!OnRun
    <3> QED
      BY <1>3, <3>1, <3>2
  <2>2. /\ DOMAIN page' = SkillsFields
        /\ page'.dialog = [page.dialog EXCEPT !.loading = loading, !.run = run]
    BY <1>0, <2>1 DEF SkillsFields
  <2>3. SkillsDialogFits(page'.dialog, store.run)
    BY <1>0, <2>1, <2>2 DEF SkillsDialogFits
  <2> QED
    BY <2>1, <2>2, <2>3, SkillsMountsQuietly DEF SkillsPageFits
<1>4. CASE Skills!Cancel
  <2>1. /\ page.dialog # None /\ store' = store
        /\ page' = [page EXCEPT !.dialog.cancelling = TRUE, !.dialog.stream = None]
    BY <1>4 DEF Skills!Cancel, Skills!OnRun
  <2>2. /\ DOMAIN page' = SkillsFields /\ DOMAIN page'.dialog = DOMAIN page.dialog
        /\ page'.dialog.stream = None
    BY <1>0, <2>1 DEF SkillsFields, SkillsDialogFits
  <2>3. SkillsDialogFits(page'.dialog, store.run)
    BY <1>0, <2>1, <2>2 DEF SkillsDialogFits
  <2> QED
    BY <2>1, <2>2, <2>3, SkillsMountsQuietly DEF SkillsPageFits
<1> QED
  BY <1>1, <1>2, <1>3, <1>4

\* The run that is cancelled has no stream any more.
LEMMA SkillsCancelled ==
  ASSUME SkillsInv, Skills!CancelAnswered
  PROVE  SkillsInv' /\ Skills!StaysCancelled
<1> DEFINE r == page.dialog.run.id
           to == IF store.run[r].status \in Skills!Ended THEN store.run[r].status ELSE "cancelled"
<1>1. /\ page.dialog # None /\ page.dialog.cancelling
      /\ store' = [store EXCEPT !.run[r].status = to]
      /\ page' = [page EXCEPT !.dialog.cancelling = FALSE, !.dialog.run.status = to]
  BY DEF Skills!CancelAnswered
<1>2. /\ DOMAIN page = SkillsFields /\ SkillsStoreFits(store)
      /\ SkillsDialogFits(page.dialog, store.run) /\ page.dialog.stream = None
  BY <1>1 DEF SkillsInv, SkillsPageFits, SkillsDialogFits
<1>3. store.run[r].status = "cancelled" => to = "cancelled"
  BY DEF Skills!Ended
<1> HIDE DEF r, to
<1>4. /\ DOMAIN store' = {"skills", "made", "run"} /\ DOMAIN store'.run = Skills!Runs
      /\ \A q \in Skills!Runs :
           store'.run[q] = IF q = r THEN [store.run[q] EXCEPT !.status = to] ELSE store.run[q]
  BY <1>1, <1>2 DEF SkillsStoreFits
<1>5. SkillsStoreFits(store')
  BY <1>2, <1>4 DEF SkillsStoreFits
<1>6. /\ DOMAIN page' = SkillsFields /\ DOMAIN page'.dialog = DOMAIN page.dialog
      /\ page'.dialog.stream = None
  BY <1>1, <1>2 DEF SkillsFields, SkillsDialogFits
<1>7. SkillsDialogFits(page'.dialog, store'.run)
  BY <1>2, <1>6 DEF SkillsDialogFits
<1>8. Skills!StaysCancelled
  BY <1>2, <1>3, <1>4 DEF Skills!StaysCancelled, SkillsStoreFits
<1> QED
  BY <1>5, <1>6, <1>7, <1>8 DEF SkillsInv, SkillsPageFits

LEMMA SkillsNextInv ==
  ASSUME SkillsInv, Skills!Next
  PROVE  SkillsInv' /\ Skills!StaysCancelled
<1>1. CASE \/ Skills!FoldersChange \/ Skills!TimerLoads \/ Skills!Walk
           \/ \E q : Skills!ListAnswered(q)
  BY <1>1, SkillsListStep
<1>2. CASE \/ Skills!Save \/ Skills!Delete
           \/ \E w : \/ Skills!SaveAnswered(w) \/ Skills!DeleteAnswered(w)
                     \/ Skills!WriteFails(w)
  BY <1>2, SkillsWriteStep
<1> QED
  BY <1>1, <1>2, SkillsRunStep, SkillsDialogStep, SkillsCancelled DEF Skills!Next

LEMMA SkillsInitInv == Skills!Init => SkillsInv
<1> SUFFICES ASSUME Skills!Init PROVE SkillsInv
  OBVIOUS
<1> DEFINE none == [of |-> None, status |-> "none", call |-> [i \in DOMAIN Tools |-> "pending"]]
<1>1. DOMAIN page = SkillsFields /\ page.dialog = None
  BY DEF Skills!Init, SkillsFields
<1>2. DOMAIN store = {"skills", "made", "run"} /\ store.run = [r \in Skills!Runs |-> none]
  BY DEF Skills!Init
<1>3. "status" \in DOMAIN none
  OBVIOUS
<1> HIDE DEF none
<1> QED
  BY <1>1, <1>2, <1>3 DEF SkillsInv, SkillsPageFits, SkillsStoreFits

LEMMA SkillsAlwaysInv == Skills!Spec => []SkillsInv
<1>1. SkillsInv /\ UNCHANGED Skills!vars => SkillsInv'
  BY DEF Skills!vars, SkillsInv
<1>2. SkillsInv /\ [Skills!Next]_(Skills!vars) => SkillsInv'
  BY <1>1, SkillsNextInv
<1> QED
  BY <1>2, SkillsInitInv, PTL DEF Skills!Spec

-----------------------------------------------------------------------------
(* The types of the page of skills: who waits for what.                    *)

SkillsRoutes == {"list", "new", "edit", "detail"}
SkillsStatuses == {"none", "running", "waiting", "gone", "success", "cancelled"}
SkillsWriteFields == {"kind", "id", "version", "folder", "folders", "mine", "here"}

SkillsPlace(p) ==
  /\ DOMAIN p = SkillsFields
  /\ p.folders \subseteq FoldersOf["skills"] /\ p.route \in SkillsRoutes
  /\ p.list.status \in {"loading", "success"}

\* An editor and a dialog are there only with a list.
SkillsTypedPage(p) ==
  /\ SkillsPlace(p)
  /\ p.editor \in {None} \cup [saving : BOOLEAN]
  /\ p.editor # None \/ p.dialog # None => p.list.status = "success"

\* At most one request counts, and only for a list that is awaited.
SkillsTypedLists(lists, p) ==
  /\ \A q \in lists : /\ DOMAIN q = {"current", "folders", "then"}
                      /\ q.then = None \/ q.then.route \in SkillsRoutes
                      /\ q.current => p.list.status = "loading"
  /\ \A q, r \in lists : q.current /\ r.current => q = r

\* A write belongs to the editor or to the detail that waits for it, which shows a list.
SkillsTypedWrites(writes, p) ==
  /\ \A w \in writes :
       /\ DOMAIN w = SkillsWriteFields
       /\ w.mine => /\ p.list.status = "success"
                    /\ IF w.kind = "delete" THEN p.deleting ELSE p.editor # None
  /\ \A w, v \in writes :
       w.mine /\ v.mine /\ w.kind = "delete" /\ v.kind = "delete" => w = v

SkillsTypedCalls(c, p) ==
  /\ DOMAIN c = {"lists", "writes"}
  /\ SkillsTypedLists(c.lists, p) /\ SkillsTypedWrites(c.writes, p)

SkillsTypedRuns(run) == \A r \in Skills!Runs : run[r].status \in SkillsStatuses

SkillsTyped ==
  /\ SkillsTypedPage(page) /\ SkillsTypedCalls(calls, page) /\ SkillsTypedRuns(store.run)

LEMMA SkillsTypedBy ==
  ASSUME SkillsTypedPage(page'), SkillsTypedCalls(calls', page'), SkillsTypedRuns(store'.run)
  PROVE  SkillsTyped'
  BY DEF SkillsTyped, SkillsTypedPage, SkillsPlace, SkillsTypedCalls, SkillsTypedLists,
         SkillsTypedWrites, SkillsTypedRuns

-----------------------------------------------------------------------------
(* What is mounted anew, and what is left behind.                          *)

LEMMA SkillsMounted ==
  ASSUME NEW p, SkillsPlace(p)
  PROVE  /\ SkillsTypedPage(Skills!Mount(p)) /\ Skills!Mount(p).list = p.list
<1>1. [saving |-> FALSE] \in [saving : BOOLEAN]
  OBVIOUS
<1>2. /\ Skills!EditorOf(p) \in {None} \cup [saving : BOOLEAN]
      /\ Skills!EditorOf(p) # None => p.list.status = "success"
  BY <1>1 DEF Skills!EditorOf
<1> DEFINE e == Skills!EditorOf(p)
<1> HIDE DEF e
<1>3. Skills!Mount(p) = [p EXCEPT !.editor = e, !.deleting = FALSE, !.dialog = None]
  BY DEF Skills!Mount, e
<1>4. e \in {None} \cup [saving : BOOLEAN] /\ (e # None => p.list.status = "success")
  BY <1>2 DEF e
<1> QED
  BY <1>3, <1>4 DEF SkillsTypedPage, SkillsPlace, SkillsFields

LEMMA SkillsRelocated ==
  ASSUME NEW p, SkillsPlace(p), NEW at \in SkillsRoutes, NEW id
  PROVE  /\ SkillsTypedPage(Skills!Relocated(p, at, id))
<1> DEFINE q == [p EXCEPT !.route = at, !.id = id, !.list = Skills!Loading, !.timer = TRUE]
<1>1. SkillsPlace(q)
  BY DEF SkillsPlace, SkillsFields, Skills!Loading
<1>2. Skills!Relocated(p, at, id) = Skills!Mount(q)
  BY DEF Skills!Relocated
<1> HIDE DEF q
<1> QED
  BY <1>1, <1>2, SkillsMounted

LEMMA SkillsNotMineAny ==
  ASSUME NEW writes, NEW p, NEW q, SkillsTypedWrites(writes, p)
  PROVE  /\ SkillsTypedWrites(Skills!NotMine(writes), q)
         /\ \A v \in Skills!NotMine(writes) : v.mine = FALSE
<1>1. \A v \in Skills!NotMine(writes) : DOMAIN v = SkillsWriteFields /\ v.mine = FALSE
  <2> SUFFICES ASSUME NEW w \in writes
               PROVE  /\ DOMAIN [w EXCEPT !.mine = FALSE] = SkillsWriteFields
                      /\ [w EXCEPT !.mine = FALSE].mine = FALSE
    BY DEF Skills!NotMine
  <2>1. DOMAIN w = SkillsWriteFields
    BY DEF SkillsTypedWrites
  <2> QED
    BY <2>1 DEF SkillsWriteFields
<1> QED
  BY <1>1 DEF SkillsTypedWrites

LEMMA SkillsInvalidatedAny ==
  ASSUME NEW lists, NEW p, NEW q, SkillsTypedLists(lists, p)
  PROVE  /\ SkillsTypedLists(Skills!Invalidated(lists), q)
         /\ \A r \in Skills!Invalidated(lists) : ~r.current
<1>1. \A r \in Skills!Invalidated(lists) :
        /\ DOMAIN r = {"current", "folders", "then"} /\ r.current = FALSE
        /\ r.then = None \/ r.then.route \in SkillsRoutes
  <2> SUFFICES ASSUME NEW x \in lists
               PROVE  LET r == [x EXCEPT !.current = FALSE]
                      IN  /\ DOMAIN r = {"current", "folders", "then"} /\ r.current = FALSE
                          /\ r.then = None \/ r.then.route \in SkillsRoutes
    BY DEF Skills!Invalidated
  <2>1. /\ DOMAIN x = {"current", "folders", "then"}
        /\ x.then = None \/ x.then.route \in SkillsRoutes
    BY DEF SkillsTypedLists
  <2> QED
    BY <2>1
<1> QED
  BY <1>1 DEF SkillsTypedLists

LEMMA SkillsFewer ==
  ASSUME NEW lists, NEW p, SkillsTypedLists(lists, p), NEW some, some \subseteq lists
  PROVE  SkillsTypedLists(some, p)
  BY DEF SkillsTypedLists

LEMMA SkillsFewerWrites ==
  ASSUME NEW writes, NEW p, SkillsTypedWrites(writes, p), NEW some, some \subseteq writes
  PROVE  SkillsTypedWrites(some, p)
  BY DEF SkillsTypedWrites

\* One request more, the only one that counts.
LEMMA SkillsAsked ==
  ASSUME NEW lists, NEW p, SkillsTypedLists(lists, p), NEW q,
         DOMAIN q = {"current", "folders", "then"}, q.then = None \/ q.then.route \in SkillsRoutes,
         q.current => p.list.status = "loading" /\ \A r \in lists : ~r.current
  PROVE  SkillsTypedLists(lists \cup {q}, p)
  BY DEF SkillsTypedLists

LEMMA SkillsLeft ==
  ASSUME NEW c, NEW p, NEW q, SkillsTypedCalls(c, p)
  PROVE  SkillsTypedCalls(Skills!Left(c), q)
<1> DEFINE waiting == {r \in c.lists : r.then # None}
           mine == Skills!NotMine(c.writes)
           writes == {[w EXCEPT !.here = FALSE] : w \in mine}
<1>1. SkillsTypedLists(waiting, p)
  BY SkillsFewer DEF SkillsTypedCalls
<1>2. SkillsTypedLists(Skills!Invalidated(waiting), q)
  BY <1>1, SkillsInvalidatedAny
<1>3. SkillsTypedWrites(mine, q)
  BY SkillsNotMineAny DEF SkillsTypedCalls
<1>4. \A w \in mine : w.mine = FALSE
  BY SkillsNotMineAny DEF SkillsTypedCalls
<1> HIDE DEF mine
<1>5. \A v \in writes : DOMAIN v = SkillsWriteFields /\ v.mine = FALSE
  <2> SUFFICES ASSUME NEW w \in mine
               PROVE  /\ DOMAIN [w EXCEPT !.here = FALSE] = SkillsWriteFields
                      /\ [w EXCEPT !.here = FALSE].mine = FALSE
    OBVIOUS
  <2>1. DOMAIN w = SkillsWriteFields /\ w.mine = FALSE
    BY <1>3, <1>4 DEF SkillsTypedWrites
  <2> QED
    BY <2>1 DEF SkillsWriteFields
<1> HIDE DEF writes, waiting
<1>6. SkillsTypedWrites(writes, q)
  BY <1>5 DEF SkillsTypedWrites
<1>7. Skills!Left(c) = [lists |-> Skills!Invalidated(waiting), writes |-> writes]
  BY DEF Skills!Left, mine, writes, waiting
<1> QED
  BY <1>2, <1>6, <1>7 DEF SkillsTypedCalls

-----------------------------------------------------------------------------
(* The list.                                                               *)

LEMMA SkillsTypedFoldersChange ==
  ASSUME SkillsTyped, Skills!FoldersChange
  PROVE  SkillsTypedPage(page') /\ SkillsTypedCalls(calls', page') /\ store' = store
<1>1. PICK folders \in SUBSET FoldersOf["skills"] :
        LET p == [page EXCEPT !.folders = folders, !.timer = TRUE]
            stays == Skills!EditorOf(p) = None <=> page.editor = None
        IN  /\ page' = IF stays THEN p ELSE Skills!Mount(p)
            /\ calls' = [lists |-> Skills!Invalidated({q \in calls.lists : q.then # None}),
                         writes |-> IF stays THEN calls.writes ELSE Skills!NotMine(calls.writes)]
  BY DEF Skills!FoldersChange
<1>2. store' = store /\ SkillsTypedPage(page) /\ SkillsTypedCalls(calls, page)
  BY DEF Skills!FoldersChange, SkillsTyped
<1> DEFINE p == [page EXCEPT !.folders = folders, !.timer = TRUE]
           waiting == {q \in calls.lists : q.then # None}
<1>3. SkillsTypedPage(p) /\ p.list = page.list /\ p.editor = page.editor /\ p.deleting = page.deleting
  BY <1>2 DEF SkillsTypedPage, SkillsPlace, SkillsFields
<1>4. SkillsTypedLists(waiting, page)
  BY <1>2, SkillsFewer DEF SkillsTypedCalls
<1> HIDE DEF waiting
<1>5. calls'.lists = Skills!Invalidated(waiting) /\ DOMAIN calls' = {"lists", "writes"}
  BY <1>1 DEF waiting
<1>6. SkillsTypedLists(calls'.lists, page')
  BY <1>4, <1>5, SkillsInvalidatedAny
<1>7. \/ page' = p /\ calls'.writes = calls.writes
      \/ page' = Skills!Mount(p) /\ calls'.writes = Skills!NotMine(calls.writes)
  BY <1>1
<1> HIDE DEF p
<1>8. CASE page' = p /\ calls'.writes = calls.writes
  <2>1. SkillsTypedWrites(calls'.writes, page')
    BY <1>2, <1>3, <1>8 DEF SkillsTypedCalls, SkillsTypedWrites
  <2> QED
    BY <1>2, <1>3, <1>5, <1>6, <1>8, <2>1 DEF SkillsTypedCalls
<1>9. CASE page' = Skills!Mount(p) /\ calls'.writes = Skills!NotMine(calls.writes)
  <2>1. SkillsTypedWrites(calls'.writes, page')
    BY <1>2, <1>9, SkillsNotMineAny DEF SkillsTypedCalls
  <2>2. SkillsTypedPage(page')
    BY <1>3, <1>9, SkillsMounted DEF SkillsTypedPage
  <2> QED
    BY <1>2, <1>5, <1>6, <2>1, <2>2 DEF SkillsTypedCalls
<1> QED
  BY <1>7, <1>8, <1>9

LEMMA SkillsTypedTimerLoads ==
  ASSUME SkillsTyped, Skills!TimerLoads
  PROVE  SkillsTypedPage(page') /\ SkillsTypedCalls(calls', page') /\ store' = store
<1> DEFINE p == [page EXCEPT !.list = Skills!Loading, !.timer = FALSE]
           q == [current |-> TRUE, folders |-> page.folders, then |-> None]
<1>1. SkillsTypedPage(page) /\ SkillsTypedCalls(calls, page)
  BY DEF SkillsTyped
<1>2. /\ page' = Skills!Mount(p) /\ store' = store
      /\ calls' = [lists |-> Skills!Invalidated(calls.lists) \cup {q},
                   writes |-> Skills!NotMine(calls.writes)]
  BY DEF Skills!TimerLoads
<1>3. SkillsPlace(p) /\ p.list.status = "loading"
  BY <1>1 DEF SkillsTypedPage, SkillsPlace, SkillsFields, Skills!Loading
<1>4. DOMAIN q = {"current", "folders", "then"} /\ q.then = None
  OBVIOUS
<1> HIDE DEF p, q
<1>5. SkillsTypedPage(page') /\ page'.list.status = "loading"
  BY <1>2, <1>3, SkillsMounted
<1>6. /\ SkillsTypedLists(Skills!Invalidated(calls.lists), page')
      /\ \A r \in Skills!Invalidated(calls.lists) : ~r.current
  BY <1>1, SkillsInvalidatedAny DEF SkillsTypedCalls
<1>7. SkillsTypedLists(Skills!Invalidated(calls.lists) \cup {q}, page')
  BY <1>4, <1>5, <1>6, SkillsAsked
<1>8. SkillsTypedWrites(Skills!NotMine(calls.writes), page')
  BY <1>1, SkillsNotMineAny DEF SkillsTypedCalls
<1> QED
  BY <1>2, <1>5, <1>7, <1>8 DEF SkillsTypedCalls

LEMMA SkillsTypedWalk ==
  ASSUME SkillsTyped, Skills!Walk
  PROVE  SkillsTypedPage(page') /\ SkillsTypedCalls(calls', page') /\ store' = store
<1>1. SkillsTypedPage(page) /\ SkillsTypedCalls(calls, page)
  BY DEF SkillsTyped
<1>2. \E at \in SkillsRoutes : \E id : Skills!Navigate(at, id)
  BY DEF Skills!Walk, SkillsRoutes
<1> PICK at \in SkillsRoutes : \E id : Skills!Navigate(at, id)
  BY <1>2
<1> PICK id : Skills!Navigate(at, id)
  OBVIOUS
<1>3. page' = Skills!Relocated(page, at, id) /\ calls' = Skills!Left(calls) /\ store' = store
  BY DEF Skills!Navigate, Skills!Walk
<1> QED
  BY <1>1, <1>3, SkillsRelocated, SkillsLeft DEF SkillsTypedPage

LEMMA SkillsTypedListAnswered ==
  ASSUME SkillsTyped, NEW q, Skills!ListAnswered(q)
  PROVE  SkillsTypedPage(page') /\ SkillsTypedCalls(calls', page') /\ store' = store
<1> DEFINE p == [page EXCEPT !.list = Skills!Shown(Skills!ListSkills(q.folders))]
           next == IF q.current THEN Skills!Mount(p) ELSE page
           rest == [calls EXCEPT !.lists = calls.lists \ {q}]
<1>1. SkillsTypedPage(page) /\ SkillsTypedCalls(calls, page) /\ q \in calls.lists /\ store' = store
  BY DEF SkillsTyped, Skills!ListAnswered
<1>2. SkillsPlace(p) /\ p.list.status = "success"
  BY <1>1 DEF SkillsTypedPage, SkillsPlace, SkillsFields, Skills!Shown
<1>3. DOMAIN rest = {"lists", "writes"} /\ rest.lists = calls.lists \ {q} /\ rest.writes = calls.writes
  BY <1>1 DEF SkillsTypedCalls
<1>4. \/ page' = next /\ calls' = rest
      \/ /\ q.then # None
         /\ page' = Skills!Relocated(next, q.then.route, q.then.id) /\ calls' = Skills!Left(rest)
  BY <1>1 DEF Skills!ListAnswered, SkillsTypedCalls
<1> HIDE DEF rest, p
<1>5. SkillsTypedPage(next)
  BY <1>1, <1>2, SkillsMounted
<1>6. SkillsTypedCalls(rest, next)
  <2>1. CASE q.current
    <3>1. page.list.status = "loading" /\ \A r \in calls.lists \ {q} : ~r.current
      BY <1>1, <2>1 DEF SkillsTypedCalls, SkillsTypedLists
    <3>2. \A w \in calls.writes : DOMAIN w = SkillsWriteFields /\ ~w.mine
      BY <1>1, <3>1 DEF SkillsTypedCalls, SkillsTypedWrites
    <3>3. SkillsTypedLists(calls.lists \ {q}, next)
      BY <1>1, <3>1 DEF SkillsTypedCalls, SkillsTypedLists
    <3>4. SkillsTypedWrites(calls.writes, next)
      BY <3>2 DEF SkillsTypedWrites
    <3> QED
      BY <1>3, <3>3, <3>4 DEF SkillsTypedCalls
  <2>2. CASE ~q.current
    <3>1. SkillsTypedLists(calls.lists \ {q}, page)
      BY <1>1, SkillsFewer DEF SkillsTypedCalls
    <3> QED
      BY <1>1, <1>3, <2>2, <3>1 DEF SkillsTypedCalls
  <2> QED
    BY <2>1, <2>2
<1>7. q.then # None => q.then.route \in SkillsRoutes
  BY <1>1 DEF SkillsTypedCalls, SkillsTypedLists
<1> HIDE DEF next
<1>8. CASE page' = next /\ calls' = rest
  BY <1>1, <1>5, <1>6, <1>8
<1>9. CASE /\ q.then # None
           /\ page' = Skills!Relocated(next, q.then.route, q.then.id) /\ calls' = Skills!Left(rest)
  BY <1>1, <1>5, <1>6, <1>7, <1>9, SkillsRelocated, SkillsLeft DEF SkillsTypedPage
<1> QED
  BY <1>4, <1>8, <1>9

-----------------------------------------------------------------------------
(* The writes.                                                             *)

\* One write more: an editor's, or the only deletion of a detail.
LEMMA SkillsWrites ==
  ASSUME NEW writes, NEW p, NEW q, SkillsTypedWrites(writes, p), NEW w,
         DOMAIN w = SkillsWriteFields, p.list = q.list, q.list.status = "success",
         \/ w.kind # "delete" /\ q.editor # None /\ (p.editor # None) /\ q.deleting = p.deleting
         \/ w.kind = "delete" /\ ~p.deleting /\ q.deleting /\ q.editor = p.editor
  PROVE  SkillsTypedWrites(writes \cup {w}, q)
  BY DEF SkillsTypedWrites

LEMMA SkillsWriteTyped ==
  ASSUME NEW kind, NEW id, NEW version, NEW folder_
  PROVE  /\ DOMAIN Skills!Write(kind, id, version, folder_) = SkillsWriteFields
         /\ Skills!Write(kind, id, version, folder_).kind = kind
  BY DEF Skills!Write, SkillsWriteFields

LEMMA SkillsTypedSave ==
  ASSUME SkillsTyped, Skills!Save, Skills!Parameters
  PROVE  SkillsTypedPage(page') /\ SkillsTypedCalls(calls', page') /\ store' = store
<1>1. /\ SkillsTypedPage(page) /\ SkillsTypedCalls(calls, page) /\ page.editor # None
      /\ page' = [page EXCEPT !.editor = [@ EXCEPT !.saving = TRUE]] /\ store' = store
  BY DEF SkillsTyped, Skills!Save
<1>2. PICK w : /\ DOMAIN w = SkillsWriteFields /\ w.kind # "delete"
               /\ calls' = [calls EXCEPT !.writes = @ \cup {w}]
  <2>1. PICK folder_ :
          calls' = [calls EXCEPT !.writes = @ \cup
            {IF page.route = "new" THEN Skills!Write("create", page.id, 0, folder_)
             ELSE Skills!Write("update", page.id, Skills!Get(page.list.data, page.id).version, folder_)}]
    BY DEF Skills!Save
  <2> DEFINE create == Skills!Write("create", page.id, 0, folder_)
             update == Skills!Write("update", page.id,
                                    Skills!Get(page.list.data, page.id).version, folder_)
  <2>2. /\ DOMAIN create = SkillsWriteFields /\ create.kind # "delete"
        /\ DOMAIN update = SkillsWriteFields /\ update.kind # "delete"
    BY SkillsWriteTyped
  <2>3. \/ calls' = [calls EXCEPT !.writes = @ \cup {create}]
        \/ calls' = [calls EXCEPT !.writes = @ \cup {update}]
    BY <2>1
  <2> HIDE DEF create, update
  <2> QED
    BY <2>2, <2>3
<1> DEFINE editor == [page.editor EXCEPT !.saving = TRUE]
<1>3. editor \in [saving : BOOLEAN]
  BY <1>1 DEF SkillsTypedPage
<1>4. editor # None
  BY <1>3 DEF Skills!Parameters
<1>5. page' = [page EXCEPT !.editor = editor]
  BY <1>1
<1> HIDE DEF editor
<1>6. /\ DOMAIN page' = SkillsFields /\ page'.editor = editor /\ page'.list = page.list
      /\ page'.deleting = page.deleting /\ page'.folders = page.folders
      /\ page'.route = page.route /\ page'.dialog = page.dialog
  BY <1>1, <1>5 DEF SkillsTypedPage, SkillsPlace, SkillsFields
<1>7. page.list.status = "success"
  BY <1>1 DEF SkillsTypedPage
<1>8. SkillsTypedPage(page')
  BY <1>1, <1>3, <1>6, <1>7 DEF SkillsTypedPage, SkillsPlace
<1>9. /\ DOMAIN calls' = {"lists", "writes"} /\ calls'.lists = calls.lists
      /\ calls'.writes = calls.writes \cup {w}
  BY <1>1, <1>2 DEF SkillsTypedCalls
<1>10. SkillsTypedLists(calls'.lists, page')
  BY <1>1, <1>6, <1>9 DEF SkillsTypedCalls, SkillsTypedLists
<1>11. SkillsTypedWrites(calls.writes \cup {w}, page')
  BY <1>1, <1>2, <1>4, <1>6, <1>7, SkillsWrites DEF SkillsTypedCalls
<1> QED
  BY <1>1, <1>8, <1>9, <1>10, <1>11 DEF SkillsTypedCalls

LEMMA SkillsTypedDelete ==
  ASSUME SkillsTyped, Skills!Delete
  PROVE  SkillsTypedPage(page') /\ SkillsTypedCalls(calls', page') /\ store' = store
<1> DEFINE w == Skills!Write("delete", Skills!Selected.id, Skills!Selected.version, None)
<1>1. /\ SkillsTypedPage(page) /\ SkillsTypedCalls(calls, page) /\ ~page.deleting
      /\ page' = [page EXCEPT !.deleting = TRUE] /\ store' = store
      /\ calls' = [calls EXCEPT !.writes = @ \cup {w}]
  BY DEF SkillsTyped, Skills!Delete
<1>2. page.list.status = "success"
  BY DEF Skills!Delete, Skills!CanEdit, Skills!Selected, Skills!Showing
<1>3. DOMAIN w = SkillsWriteFields /\ w.kind = "delete"
  BY SkillsWriteTyped
<1> HIDE DEF w
<1>6. /\ DOMAIN page' = SkillsFields /\ page'.editor = page.editor /\ page'.list = page.list
      /\ page'.deleting = TRUE /\ page'.folders = page.folders
      /\ page'.route = page.route /\ page'.dialog = page.dialog
  BY <1>1 DEF SkillsTypedPage, SkillsPlace, SkillsFields
<1>8. SkillsTypedPage(page')
  BY <1>1, <1>6 DEF SkillsTypedPage, SkillsPlace
<1>9. /\ DOMAIN calls' = {"lists", "writes"} /\ calls'.lists = calls.lists
      /\ calls'.writes = calls.writes \cup {w}
  BY <1>1 DEF SkillsTypedCalls
<1>10. SkillsTypedLists(calls'.lists, page')
  BY <1>1, <1>6, <1>9 DEF SkillsTypedCalls, SkillsTypedLists
<1>11. SkillsTypedWrites(calls.writes \cup {w}, page')
  BY <1>1, <1>2, <1>3, <1>6, SkillsWrites DEF SkillsTypedCalls
<1> QED
  BY <1>1, <1>8, <1>9, <1>10, <1>11 DEF SkillsTypedCalls

\* What goes on after a write, on its page or without it.
LEMMA SkillsTypedLoadAfter ==
  ASSUME SkillsTyped, NEW w \in calls.writes, NEW then, then.route \in SkillsRoutes,
         Skills!LoadAfter(w, then)
  PROVE  SkillsTypedPage(page') /\ SkillsTypedCalls(calls', page')
<1> DEFINE q == [current |-> w.here, folders |-> w.folders, then |-> then]
           p == [page EXCEPT !.list = Skills!Loading]
<1>1. SkillsTypedPage(page) /\ SkillsTypedCalls(calls, page)
  BY DEF SkillsTyped
<1>2. /\ DOMAIN q = {"current", "folders", "then"} /\ q.then.route \in SkillsRoutes
      /\ q.current = w.here
  OBVIOUS
<1>3. SkillsPlace(p) /\ p.list.status = "loading"
  BY <1>1 DEF SkillsTypedPage, SkillsPlace, SkillsFields, Skills!Loading
<1>4. \/ /\ page' = Skills!Mount(p)
         /\ calls' = [lists |-> Skills!Invalidated(calls.lists) \cup {q},
                      writes |-> Skills!NotMine(calls.writes \ {w})]
      \/ /\ page' = page /\ ~w.here
         /\ calls' = [lists |-> calls.lists \cup {q}, writes |-> calls.writes \ {w}]
  BY DEF Skills!LoadAfter
<1>5. SkillsTypedWrites(calls.writes \ {w}, page)
  BY <1>1, SkillsFewerWrites DEF SkillsTypedCalls
<1> HIDE DEF p, q
<1>6. CASE /\ page' = Skills!Mount(p)
           /\ calls' = [lists |-> Skills!Invalidated(calls.lists) \cup {q},
                        writes |-> Skills!NotMine(calls.writes \ {w})]
  <2>1. SkillsTypedPage(page') /\ page'.list.status = "loading"
    BY <1>3, <1>6, SkillsMounted
  <2>2. /\ SkillsTypedLists(Skills!Invalidated(calls.lists), page')
        /\ \A r \in Skills!Invalidated(calls.lists) : ~r.current
    BY <1>1, SkillsInvalidatedAny DEF SkillsTypedCalls
  <2>3. SkillsTypedLists(Skills!Invalidated(calls.lists) \cup {q}, page')
    BY <1>2, <2>1, <2>2, SkillsAsked
  <2>4. SkillsTypedWrites(Skills!NotMine(calls.writes \ {w}), page')
    BY <1>5, SkillsNotMineAny
  <2> QED
    BY <1>6, <2>1, <2>3, <2>4 DEF SkillsTypedCalls
<1>7. CASE /\ page' = page /\ ~w.here
           /\ calls' = [lists |-> calls.lists \cup {q}, writes |-> calls.writes \ {w}]
  <2>1. SkillsTypedLists(calls.lists \cup {q}, page)
    BY <1>1, <1>2, <1>7, SkillsAsked DEF SkillsTypedCalls
  <2> QED
    BY <1>1, <1>5, <1>7, <2>1 DEF SkillsTypedCalls
<1> QED
  BY <1>4, <1>6, <1>7

LEMMA SkillsTypedAnswered ==
  ASSUME SkillsInv, SkillsTyped, NEW w, Skills!SaveAnswered(w) \/ Skills!DeleteAnswered(w)
  PROVE  /\ SkillsTypedPage(page') /\ SkillsTypedCalls(calls', page')
         /\ SkillsTypedRuns(store'.run)
<1>0. /\ DOMAIN store = {"skills", "made", "run"} /\ DOMAIN store.run = Skills!Runs
      /\ SkillsTypedRuns(store.run)
      /\ \A r \in Skills!Runs : "status" \in DOMAIN store.run[r]
  BY DEF SkillsInv, SkillsStoreFits, SkillsTyped
<1>1. w \in calls.writes /\ \E then : then.route \in SkillsRoutes /\ Skills!LoadAfter(w, then)
  <2>1. \/ \E id : Skills!LoadAfter(w, [route |-> "detail", id |-> id])
        \/ Skills!LoadAfter(w, [route |-> "list", id |-> None])
    BY DEF Skills!SaveAnswered, Skills!DeleteAnswered
  <2>2. \A id : [route |-> "detail", id |-> id].route \in SkillsRoutes
    BY DEF SkillsRoutes
  <2>3. [route |-> "list", id |-> None].route \in SkillsRoutes
    BY DEF SkillsRoutes
  <2>4. w \in calls.writes
    BY DEF Skills!SaveAnswered, Skills!DeleteAnswered
  <2> QED
    BY <2>1, <2>2, <2>3, <2>4
<1>2. SkillsTypedPage(page') /\ SkillsTypedCalls(calls', page')
  BY <1>1, SkillsTypedLoadAfter
<1>3. CASE Skills!SaveAnswered(w)
  <2>1. (\E id : store' = Skills!Created(w, id)) \/ store' = Skills!Updated(w)
    BY <1>3 DEF Skills!SaveAnswered
  <2>2. store'.run = store.run
    BY <1>0, <2>1 DEF Skills!Created, Skills!Updated
  <2> QED
    BY <1>0, <1>2, <2>2
<1>4. CASE Skills!DeleteAnswered(w)
  <2> DEFINE run == [r \in Skills!Runs |-> IF store.run[r].of = w.id
                                          THEN [store.run[r] EXCEPT !.status = "gone"]
                                          ELSE store.run[r]]
  <2>1. store'.run = run
    BY <1>0, <1>4 DEF Skills!DeleteAnswered, Skills!Deleted
  <2>2. ASSUME NEW r \in Skills!Runs PROVE run[r].status \in SkillsStatuses
    BY <1>0 DEF SkillsTypedRuns, SkillsStatuses
  <2> HIDE DEF run
  <2> QED
    BY <1>2, <2>1, <2>2 DEF SkillsTypedRuns
<1> QED
  BY <1>3, <1>4

LEMMA SkillsTypedWriteFails ==
  ASSUME SkillsTyped, NEW w, Skills!WriteFails(w), Skills!Parameters
  PROVE  SkillsTypedPage(page') /\ SkillsTypedCalls(calls', page') /\ store' = store
<1>1. /\ SkillsTypedPage(page) /\ SkillsTypedCalls(calls, page) /\ w \in calls.writes
      /\ store' = store /\ calls' = [calls EXCEPT !.writes = @ \ {w}]
      /\ page' = IF ~w.mine THEN page
                 ELSE IF w.kind = "delete" THEN [page EXCEPT !.deleting = FALSE]
                 ELSE [page EXCEPT !.editor.saving = FALSE]
  BY DEF SkillsTyped, Skills!WriteFails
<1>2. /\ DOMAIN calls' = {"lists", "writes"} /\ calls'.lists = calls.lists
      /\ calls'.writes = calls.writes \ {w}
  BY <1>1 DEF SkillsTypedCalls
<1>3. /\ \A v \in calls.writes :
           /\ DOMAIN v = SkillsWriteFields
           /\ v.mine => /\ page.list.status = "success"
                        /\ IF v.kind = "delete" THEN page.deleting ELSE page.editor # None
      /\ \A u, v \in calls.writes :
           u.mine /\ v.mine /\ u.kind = "delete" /\ v.kind = "delete" => u = v
  BY <1>1 DEF SkillsTypedCalls, SkillsTypedWrites
<1>4. CASE ~w.mine
  BY <1>1, <1>2, <1>4, SkillsFewerWrites DEF SkillsTypedCalls
<1>5. CASE w.mine /\ w.kind = "delete"
  <2>1. /\ DOMAIN page' = SkillsFields /\ page'.editor = page.editor /\ page'.list = page.list
        /\ page'.folders = page.folders /\ page'.route = page.route /\ page'.dialog = page.dialog
    BY <1>1, <1>5 DEF SkillsTypedPage, SkillsPlace, SkillsFields
  <2>2. SkillsTypedPage(page')
    BY <1>1, <2>1 DEF SkillsTypedPage, SkillsPlace
  <2>3. SkillsTypedLists(calls'.lists, page')
    BY <1>1, <1>2, <2>1 DEF SkillsTypedCalls, SkillsTypedLists
  <2>4. SkillsTypedWrites(calls'.writes, page')
    BY <1>2, <1>3, <1>5, <2>1, <1>1 DEF SkillsTypedWrites
  <2> QED
    BY <1>1, <1>2, <2>2, <2>3, <2>4 DEF SkillsTypedCalls
<1>6. CASE w.mine /\ w.kind # "delete"
  <2> DEFINE editor == [page.editor EXCEPT !.saving = FALSE]
  <2>1. editor \in [saving : BOOLEAN]
    BY <1>1, <1>3, <1>6 DEF SkillsTypedPage
  <2>2. editor # None
    BY <2>1 DEF Skills!Parameters
  <2>3. page' = [page EXCEPT !.editor = editor]
    BY <1>1, <1>6
  <2> HIDE DEF editor
  <2>4. /\ DOMAIN page' = SkillsFields /\ page'.editor = editor /\ page'.list = page.list
        /\ page'.deleting = page.deleting /\ page'.folders = page.folders
        /\ page'.route = page.route /\ page'.dialog = page.dialog
    BY <1>1, <2>3 DEF SkillsTypedPage, SkillsPlace, SkillsFields
  <2>5. page.list.status = "success"
    BY <1>1, <1>3, <1>6
  <2>6. SkillsTypedPage(page')
    BY <1>1, <2>1, <2>4, <2>5 DEF SkillsTypedPage, SkillsPlace
  <2>7. SkillsTypedLists(calls'.lists, page')
    BY <1>1, <1>2, <2>4 DEF SkillsTypedCalls, SkillsTypedLists
  <2>8. SkillsTypedWrites(calls'.writes, page')
    BY <1>2, <1>3, <2>2, <2>4 DEF SkillsTypedWrites
  <2> QED
    BY <1>1, <1>2, <2>6, <2>7, <2>8 DEF SkillsTypedCalls
<1> QED
  BY <1>4, <1>5, <1>6

-----------------------------------------------------------------------------
(* The dialog and the runs.                                                *)

\* What leaves all of the page but its dialog.
LEMMA SkillsDialogOnly ==
  ASSUME SkillsTyped, calls' = calls, NEW dialog, page' = [page EXCEPT !.dialog = dialog],
         page.list.status = "success"
  PROVE  SkillsTypedPage(page') /\ SkillsTypedCalls(calls', page')
<1>1. /\ DOMAIN page' = SkillsFields /\ page'.editor = page.editor /\ page'.list = page.list
      /\ page'.folders = page.folders /\ page'.route = page.route
      /\ page'.deleting = page.deleting
  BY DEF SkillsTyped, SkillsTypedPage, SkillsPlace, SkillsFields
<1>2. SkillsTypedPage(page')
  BY <1>1 DEF SkillsTyped, SkillsTypedPage, SkillsPlace
<1> QED
  BY <1>1, <1>2 DEF SkillsTyped, SkillsTypedCalls, SkillsTypedLists, SkillsTypedWrites

LEMMA SkillsTypedPlay ==
  ASSUME SkillsInv, SkillsTyped, page.dialog # None, NEW r, NEW run, NEW stage,
         Skills!Play(r, run, stage), r \in Skills!Runs => run.status \in SkillsStatuses
  PROVE  SkillsTyped'
<1> DEFINE stream == IF run.status # "running" THEN None ELSE [run |-> r, stage |-> stage]
           playing == [id |-> r, status |-> run.status]
<1>1. /\ store' = [store EXCEPT !.run[r] = run] /\ calls' = calls
      /\ page' = [page EXCEPT !.dialog.run = playing, !.dialog.stream = stream]
  BY DEF Skills!Play
<1> HIDE DEF stream, playing
<1> DEFINE dialog == [page.dialog EXCEPT !.run = playing, !.stream = stream]
<1>2. page' = [page EXCEPT !.dialog = dialog]
  BY <1>1 DEF SkillsTyped, SkillsTypedPage, SkillsPlace, SkillsFields
<1> HIDE DEF dialog
<1>3. SkillsTypedPage(page') /\ SkillsTypedCalls(calls', page')
  BY <1>1, <1>2, SkillsDialogOnly DEF SkillsTyped, SkillsTypedPage
<1>4. SkillsTypedRuns(store'.run)
  BY <1>1 DEF SkillsInv, SkillsStoreFits, SkillsTyped, SkillsTypedRuns
<1> QED
  BY <1>3, <1>4, SkillsTypedBy

LEMMA SkillsContinuedTyped ==
  ASSUME NEW run, "status" \in DOMAIN run, run.status \in SkillsStatuses
  PROVE  Skills!Continued(run).status \in SkillsStatuses
  BY DEF Skills!Continued, SkillsStatuses

LEMMA SkillsTypedRunStep ==
  ASSUME SkillsInv, SkillsTyped,
         Skills!StartDryRun \/ Skills!StreamMoves \/ Skills!ResolveRun
  PROVE  SkillsTyped'
<1>0. /\ \A r \in Skills!Runs : "status" \in DOMAIN store.run[r]
      /\ \A r \in Skills!Runs : store.run[r].status \in SkillsStatuses
  BY DEF SkillsInv, SkillsStoreFits, SkillsTyped, SkillsTypedRuns
<1>1. CASE Skills!StartDryRun
  <2> DEFINE run == [of |-> page.dialog.skill, status |-> "running",
                     call |-> [i \in DOMAIN Tools |-> "pending"]]
  <2>1. PICK r \in Skills!Runs : Skills!Play(r, Skills!Continued(run), "pause")
    BY <1>1 DEF Skills!StartDryRun
  <2>2. page.dialog # None
    BY <1>1 DEF Skills!StartDryRun, Skills!Quiet, Skills!OnRun
  <2>3. "status" \in DOMAIN run /\ run.status \in SkillsStatuses
    BY DEF SkillsStatuses
  <2> HIDE DEF run
  <2> QED
    BY <2>1, <2>2, <2>3, SkillsContinuedTyped, SkillsTypedPlay
<1>2. CASE Skills!StreamMoves
  <2> DEFINE r == page.dialog.stream.run
             run == store.run[r]
  <2>1. /\ page.dialog # None
        /\ \/ \E i : Skills!Play(r, [run EXCEPT !.call[i] = "running"], "call")
           \/ Skills!Play(r, [run EXCEPT !.status = "waiting"], "pause")
           \/ \E i : Skills!Play(r, Skills!Continued([run EXCEPT !.call[i] = "success"]), "pause")
    BY <1>2 DEF Skills!StreamMoves, Skills!Follows, Skills!OnRun
  <2> HIDE DEF r
  <2>2. r \in Skills!Runs => "status" \in DOMAIN run /\ run.status \in SkillsStatuses
    BY <1>0
  <2> HIDE DEF run
  <2>3. ASSUME NEW i
        PROVE  r \in Skills!Runs =>
                 /\ [run EXCEPT !.call[i] = "running"].status \in SkillsStatuses
                 /\ [run EXCEPT !.status = "waiting"].status \in SkillsStatuses
                 /\ Skills!Continued([run EXCEPT !.call[i] = "success"]).status \in SkillsStatuses
    <3> SUFFICES ASSUME r \in Skills!Runs
                 PROVE  /\ [run EXCEPT !.call[i] = "running"].status \in SkillsStatuses
                        /\ [run EXCEPT !.status = "waiting"].status \in SkillsStatuses
                        /\ Skills!Continued([run EXCEPT !.call[i] = "success"]).status
                             \in SkillsStatuses
      OBVIOUS
    <3>1. /\ [run EXCEPT !.call[i] = "running"].status \in SkillsStatuses
          /\ [run EXCEPT !.status = "waiting"].status \in SkillsStatuses
      BY <2>2 DEF SkillsStatuses
    <3>2. /\ "status" \in DOMAIN [run EXCEPT !.call[i] = "success"]
          /\ [run EXCEPT !.call[i] = "success"].status \in SkillsStatuses
      BY <2>2
    <3> QED
      BY <3>1, <3>2, SkillsContinuedTyped
  <2> QED
    BY <2>1, <2>3, SkillsTypedPlay
<1>3. CASE Skills!ResolveRun
  <2> DEFINE r == page.dialog.run.id
             run == store.run[r]
  <2>1. /\ page.dialog # None
        /\ \E i, decided :
             Skills!Play(r, Skills!Continued([run EXCEPT !.status = "running",
                                                         !.call[i] = decided]), "pause")
    BY <1>3 DEF Skills!ResolveRun, Skills!Quiet, Skills!OnRun
  <2> HIDE DEF r
  <2>2. r \in Skills!Runs => "status" \in DOMAIN run
    BY <1>0
  <2> HIDE DEF run
  <2>3. ASSUME NEW i, NEW decided, r \in Skills!Runs
        PROVE  Skills!Continued([run EXCEPT !.status = "running", !.call[i] = decided]).status
                 \in SkillsStatuses
    <3>1. /\ "status" \in DOMAIN [run EXCEPT !.status = "running", !.call[i] = decided]
          /\ [run EXCEPT !.status = "running", !.call[i] = decided].status \in SkillsStatuses
      BY <2>2, <2>3 DEF SkillsStatuses
    <3> QED
      BY <3>1, SkillsContinuedTyped
  <2> QED
    BY <2>1, <2>3, SkillsTypedPlay
<1> QED
  BY <1>1, <1>2, <1>3

LEMMA SkillsTypedDialogStep ==
  ASSUME SkillsInv, SkillsTyped,
         \/ Skills!OpenRun \/ Skills!CloseRun \/ Skills!RunsAnswered
         \/ Skills!Cancel \/ Skills!NewRun
  PROVE  SkillsTypedPage(page') /\ SkillsTypedCalls(calls', page') /\ store' = store
<1>1. store' = store /\ calls' = calls
  BY DEF Skills!OpenRun, Skills!CloseRun, Skills!RunsAnswered, Skills!Cancel, Skills!NewRun
<1>2. page.list.status = "success"
  <2>1. page.dialog # None \/ Skills!Selected # None
    BY DEF Skills!OpenRun, Skills!CloseRun, Skills!RunsAnswered, Skills!Cancel, Skills!NewRun,
           Skills!OnRun
  <2> QED
    BY <2>1 DEF SkillsTyped, SkillsTypedPage, Skills!Selected, Skills!Showing
<1>3. DOMAIN page = SkillsFields
  BY DEF SkillsTyped, SkillsTypedPage, SkillsPlace
<1>4. \E dialog : page' = [page EXCEPT !.dialog = dialog]
  <2>1. CASE Skills!OpenRun
    BY <2>1 DEF Skills!OpenRun
  <2>2. CASE Skills!CloseRun
    BY <2>2 DEF Skills!CloseRun
  <2>3. CASE Skills!RunsAnswered
    <3>1. PICK run : page' = [page EXCEPT !.dialog.loading = FALSE, !.dialog.run = run]
      BY <2>3 DEF Skills!RunsAnswered
    <3>2. page' = [page EXCEPT !.dialog = [page.dialog EXCEPT !.loading = FALSE, !.run = run]]
      BY <1>3, <3>1 DEF SkillsFields
    <3> QED
      BY <3>2
  <2>4. CASE Skills!Cancel
    <3>1. page' = [page EXCEPT !.dialog = [page.dialog EXCEPT !.cancelling = TRUE, !.stream = None]]
      BY <1>3, <2>4 DEF Skills!Cancel, SkillsFields
    <3> QED
      BY <3>1
  <2>5. CASE Skills!NewRun
    <3>1. page' = [page EXCEPT !.dialog = [page.dialog EXCEPT !.run = None]]
      BY <2>5 DEF Skills!NewRun
    <3> QED
      BY <3>1
  <2> QED
    BY <2>1, <2>2, <2>3, <2>4, <2>5
<1> QED
  BY <1>1, <1>2, <1>4, SkillsDialogOnly

LEMMA SkillsTypedCancelAnswered ==
  ASSUME SkillsInv, SkillsTyped, Skills!CancelAnswered
  PROVE  SkillsTyped'
<1> DEFINE r == page.dialog.run.id
           to == IF store.run[r].status \in Skills!Ended THEN store.run[r].status ELSE "cancelled"
<1>1. /\ page.dialog # None /\ calls' = calls
      /\ store' = [store EXCEPT !.run[r].status = to]
      /\ page' = [page EXCEPT !.dialog.cancelling = FALSE, !.dialog.run.status = to]
  BY DEF Skills!CancelAnswered
<1>2. to \in SkillsStatuses
  BY DEF Skills!Ended, SkillsStatuses
<1> HIDE DEF r, to
<1> DEFINE playing == [page.dialog.run EXCEPT !.status = to]
           dialog == [page.dialog EXCEPT !.cancelling = FALSE, !.run = playing]
<1>3. /\ DOMAIN page = SkillsFields
      /\ DOMAIN page.dialog = {"skill", "run", "loading", "stream", "cancelling"}
  BY <1>1 DEF SkillsInv, SkillsPageFits, SkillsDialogFits
<1>4. page' = [page EXCEPT !.dialog = dialog]
  BY <1>1, <1>3 DEF SkillsFields
<1> HIDE DEF dialog
<1>5. SkillsTypedPage(page') /\ SkillsTypedCalls(calls', page')
  BY <1>1, <1>4, SkillsDialogOnly DEF SkillsTyped, SkillsTypedPage
<1>6. SkillsTypedRuns(store'.run)
  BY <1>1, <1>2 DEF SkillsInv, SkillsStoreFits, SkillsTyped, SkillsTypedRuns
<1> QED
  BY <1>5, <1>6, SkillsTypedBy

-----------------------------------------------------------------------------
(* The specification.                                                      *)

LEMMA SkillsNextTyped ==
  ASSUME SkillsInv, SkillsTyped, Skills!Next, Skills!Parameters
  PROVE  SkillsTyped'
<1>1. ASSUME SkillsTypedPage(page'), SkillsTypedCalls(calls', page'), store' = store
      PROVE  SkillsTyped'
  <2>1. SkillsTypedRuns(store'.run)
    BY <1>1 DEF SkillsTyped
  <2> QED
    BY <1>1, <2>1, SkillsTypedBy
<1>2. CASE \/ Skills!FoldersChange \/ Skills!TimerLoads \/ Skills!Walk
           \/ \E q \in calls.lists : Skills!ListAnswered(q)
  BY <1>1, <1>2, SkillsTypedFoldersChange, SkillsTypedTimerLoads, SkillsTypedWalk,
     SkillsTypedListAnswered
<1>3. CASE \/ Skills!Save \/ Skills!Delete \/ \E w \in calls.writes : Skills!WriteFails(w)
  BY <1>1, <1>3, SkillsTypedSave, SkillsTypedDelete, SkillsTypedWriteFails
<1>4. CASE \E w \in calls.writes : Skills!SaveAnswered(w) \/ Skills!DeleteAnswered(w)
  BY <1>4, SkillsTypedAnswered, SkillsTypedBy
<1>5. CASE Skills!StartDryRun \/ Skills!StreamMoves \/ Skills!ResolveRun
  BY <1>5, SkillsTypedRunStep
<1>6. CASE \/ Skills!OpenRun \/ Skills!CloseRun \/ Skills!RunsAnswered
           \/ Skills!Cancel \/ Skills!NewRun
  BY <1>1, <1>6, SkillsTypedDialogStep
<1>7. CASE Skills!CancelAnswered
  BY <1>7, SkillsTypedCancelAnswered
<1> QED
  BY <1>2, <1>3, <1>4, <1>5, <1>6, <1>7 DEF Skills!Next

LEMMA SkillsInitTyped == Skills!Init => SkillsTyped
<1> SUFFICES ASSUME Skills!Init PROVE SkillsTyped
  OBVIOUS
<1> DEFINE none == [of |-> None, status |-> "none", call |-> [i \in DOMAIN Tools |-> "pending"]]
<1>1. SkillsTypedPage(page)
  BY DEF Skills!Init, Skills!Loading, SkillsTypedPage, SkillsPlace, SkillsFields, SkillsRoutes
<1>2. SkillsTypedCalls(calls, page)
  BY DEF Skills!Init, SkillsTypedCalls, SkillsTypedLists, SkillsTypedWrites
<1>3. store.run = [r \in Skills!Runs |-> none]
  BY DEF Skills!Init
<1>4. none.status \in SkillsStatuses
  BY DEF SkillsStatuses
<1> HIDE DEF none
<1> QED
  BY <1>1, <1>2, <1>3, <1>4 DEF SkillsTyped, SkillsTypedRuns

\* useSkillsController: a write is the page's own only while its editor is open or, for a deletion,
\* the page says that it deletes; and the dialog of a run is there only with a list.
THEOREM SkillsWritesAreAwaited ==
  ASSUME Skills!Parameters
  PROVE  Skills!Spec => []Skills!TypeOK
<1>1. SkillsTyped /\ UNCHANGED Skills!vars => SkillsTyped'
  BY DEF Skills!vars, SkillsTyped
<1>2. SkillsInv /\ SkillsTyped /\ [Skills!Next]_(Skills!vars) => SkillsTyped'
  BY <1>1, SkillsNextTyped
<1>3. SkillsTyped => Skills!TypeOK
  BY DEF SkillsTyped, SkillsTypedPage, SkillsPlace, SkillsTypedCalls, SkillsTypedWrites,
         SkillsTypedRuns, SkillsRoutes, SkillsStatuses, Skills!TypeOK, Skills!Showing,
         Skills!Ended
<1> QED
  BY <1>2, <1>3, SkillsInitTyped, SkillsAlwaysInv, PTL DEF Skills!Spec

-----------------------------------------------------------------------------
(* The shared queries of the panels, for any number of views, charts and   *)
(* retries.  What is shown follows from how entries are counted: an entry  *)
(* is forgotten by the last of its views only, so no view is left with a   *)
(* key whose entry is gone, or is another's that was made later.           *)

\* The views of a page p that are subscribed to a query.
PanelsSubs(p, k) == {v \in Views : p[v] # None /\ p[v].key = k}

PanelsEntryOf(q, p, k) ==
  /\ DOMAIN q[k] = {"references", "last"} /\ q[k].last \in Panels!States
  /\ IsFiniteSet(PanelsSubs(p, k)) /\ q[k].references = Cardinality(PanelsSubs(p, k))
  /\ q[k].references \in Nat \ {0}

PanelsFollows(q, view) ==
  view # None /\ view.key # None => view.key \in DOMAIN q /\ view.state = q[view.key].last

\* The queries q are those of the views of p.
PanelsShared(q, p) ==
  /\ DOMAIN q \subseteq Panels!Keys
  /\ \A k \in DOMAIN q : PanelsEntryOf(q, p, k)
  /\ \A v \in Views : PanelsFollows(q, p[v])

\* A view whose effect has run has the query of its chart.
PanelsSettled(view) ==
  view # None /\ Panels!Parses(view.chart) /\ ~view.due => view.key = <<view.chart.query, view.retry>>

PanelsInv ==
  /\ page \in [Views -> Panels!ViewStates \cup {None}]
  /\ PanelsShared(store, page) /\ DOMAIN calls = DOMAIN store
  /\ \A v \in Views : PanelsSettled(page[v])

PanelsWithout(v) == [page EXCEPT ![v] = None]

-----------------------------------------------------------------------------
(* How the sharing changes.                                                *)

\* The views keep their keys and what they show.
LEMMA PanelsSameKeysShare ==
  ASSUME NEW q, NEW p, NEW r, PanelsShared(q, p),
         \A v \in Views : /\ (r[v] # None <=> p[v] # None)
                          /\ (p[v] # None => r[v].key = p[v].key /\ r[v].state = p[v].state)
  PROVE  PanelsShared(q, r)
<1>1. \A k : PanelsSubs(r, k) = PanelsSubs(p, k)
  BY DEF PanelsSubs
<1>2. \A v \in Views : PanelsFollows(q, r[v])
  BY DEF PanelsShared, PanelsFollows
<1>3. \A k \in DOMAIN q : PanelsEntryOf(q, r, k)
  BY <1>1 DEF PanelsShared, PanelsEntryOf
<1> QED
  BY <1>2, <1>3 DEF PanelsShared

\* So does a view that changes otherwise.
LEMMA PanelsChangedShares ==
  ASSUME PanelsInv, NEW v \in Views, page[v] # None,
         NEW view, view # None, view.key = page[v].key, view.state = page[v].state
  PROVE  PanelsShared(store, [page EXCEPT ![v] = view])
<1> DEFINE r == [page EXCEPT ![v] = view]
<1>1. r[v] = view /\ \A u \in Views \ {v} : r[u] = page[u]
  BY DEF PanelsInv
<1>2. PanelsShared(store, page)
  BY DEF PanelsInv
<1> HIDE DEF r
<1>3. \A u \in Views : /\ (r[u] # None <=> page[u] # None)
                       /\ (page[u] # None => r[u].key = page[u].key /\ r[u].state = page[u].state)
  BY <1>1
<1>4. PanelsShared(store, r)
  BY <1>2, <1>3, PanelsSameKeysShare
<1> QED
  BY <1>4 DEF r

\* A view that has no key yet has no part in it.
LEMMA PanelsKeylessShares ==
  ASSUME Panels!Parameters, PanelsInv, NEW q, NEW v \in Views, PanelsShared(q, PanelsWithout(v)),
         NEW view, view.key = None
  PROVE  PanelsShared(q, [page EXCEPT ![v] = view])
<1> DEFINE p == PanelsWithout(v)
           r == [page EXCEPT ![v] = view]
<1>1. /\ p[v] = None /\ r[v] = view
      /\ \A u \in Views \ {v} : p[u] = page[u] /\ r[u] = page[u]
  BY DEF PanelsInv, PanelsWithout
<1> HIDE DEF p, r
<1>2. None \notin Panels!Keys
  BY DEF Panels!Parameters
<1>3. \A k \in Panels!Keys : PanelsSubs(r, k) = PanelsSubs(p, k)
  BY <1>1, <1>2 DEF PanelsSubs
<1>4. PanelsShared(q, p)
  BY DEF p
<1>5. \A u \in Views : PanelsFollows(q, r[u])
  BY <1>1, <1>4 DEF PanelsShared, PanelsFollows
<1>6. \A k \in DOMAIN q : PanelsEntryOf(q, r, k)
  BY <1>3, <1>4 DEF PanelsShared, PanelsEntryOf
<1>7. PanelsShared(q, r)
  BY <1>4, <1>5, <1>6 DEF PanelsShared
<1> QED
  BY <1>7 DEF r

\* A view leaves: its entry goes with the last of its views.
LEMMA PanelsReleasedShares ==
  ASSUME Panels!Parameters, PanelsInv, NEW v \in Views, page[v] # None
  PROVE  LET held == Panels!Released(page[v].key)
         IN  PanelsShared(held.queries, PanelsWithout(v)) /\ DOMAIN held.executions = DOMAIN held.queries
<1> DEFINE k == page[v].key
           held == Panels!Released(k)
           p == PanelsWithout(v)
<1>1. /\ p[v] = None /\ \A u \in Views \ {v} : p[u] = page[u]
      /\ DOMAIN calls = DOMAIN store /\ PanelsShared(store, page)
  BY DEF PanelsInv, PanelsWithout
<1>2. \A l : l # k => PanelsSubs(p, l) = PanelsSubs(page, l)
  BY <1>1 DEF PanelsSubs
<1>3. CASE k = None
  <2>1. held.queries = store /\ held.executions = calls
    BY <1>3 DEF Panels!Released
  <2>2. None \notin Panels!Keys
    BY DEF Panels!Parameters
  <2> HIDE DEF held, p
  <2>3. \A l \in DOMAIN store : PanelsEntryOf(store, p, l)
    BY <1>1, <1>2, <1>3, <2>2 DEF PanelsShared, PanelsEntryOf
  <2>4. \A u \in Views : PanelsFollows(store, p[u])
    BY <1>1 DEF PanelsShared, PanelsFollows
  <2>5. PanelsShared(held.queries, p) /\ DOMAIN held.executions = DOMAIN held.queries
    BY <1>1, <2>1, <2>3, <2>4 DEF PanelsShared
  <2> QED
    BY <2>5 DEF held, p
<1>4. CASE k # None
  <2>1. k \in DOMAIN store /\ PanelsEntryOf(store, page, k) /\ v \in PanelsSubs(page, k)
    BY <1>1, <1>4 DEF PanelsShared, PanelsFollows, PanelsSubs
  <2>2. PanelsSubs(p, k) = PanelsSubs(page, k) \ {v}
    BY <1>1 DEF PanelsSubs
  <2>3. IsFiniteSet(PanelsSubs(p, k)) /\ Cardinality(PanelsSubs(p, k)) = store[k].references - 1
    BY <2>1, <2>2, FS_RemoveElement DEF PanelsEntryOf
  <2>4. CASE store[k].references > 1
    <3>1. held.queries = [store EXCEPT ![k].references = @ - 1] /\ held.executions = calls
      BY <1>4, <2>4 DEF Panels!Released
    <3> DEFINE q == [store EXCEPT ![k].references = @ - 1]
    <3>2. /\ DOMAIN q = DOMAIN store /\ DOMAIN q[k] = {"references", "last"}
          /\ q[k].references = store[k].references - 1 /\ q[k].last = store[k].last
          /\ \A l \in DOMAIN store \ {k} : q[l] = store[l]
      BY <2>1 DEF PanelsEntryOf
    <3> HIDE DEF q, held, p
    <3>3. PanelsEntryOf(q, p, k)
      BY <2>1, <2>3, <2>4, <3>2 DEF PanelsEntryOf
    <3>4. \A l \in DOMAIN q : PanelsEntryOf(q, p, l)
      <4> SUFFICES ASSUME NEW l \in DOMAIN q, l # k PROVE PanelsEntryOf(q, p, l)
        BY <3>3
      <4> QED
        BY <1>1, <1>2, <3>2 DEF PanelsShared, PanelsEntryOf
    <3>5. \A u \in Views : PanelsFollows(q, p[u])
      BY <1>1, <3>2 DEF PanelsShared, PanelsFollows
    <3>6. PanelsShared(q, p)
      BY <1>1, <3>2, <3>4, <3>5 DEF PanelsShared
    <3>7. held.queries = q /\ held.executions = calls
      BY <3>1 DEF q
    <3>8. PanelsShared(held.queries, p) /\ DOMAIN held.executions = DOMAIN held.queries
      BY <1>1, <3>2, <3>6, <3>7
    <3> QED
      BY <3>8 DEF held, p
  <2>5. CASE ~(store[k].references > 1)
    <3>1. held.queries = Panels!Forget(store, k) /\ held.executions = Panels!Forget(calls, k)
      BY <1>4, <2>5 DEF Panels!Released
    <3> DEFINE q == Panels!Forget(store, k)
    <3>2. /\ DOMAIN q = DOMAIN store \ {k} /\ DOMAIN Panels!Forget(calls, k) = DOMAIN calls \ {k}
          /\ \A l \in DOMAIN store \ {k} : q[l] = store[l]
      BY DEF Panels!Forget
    <3>3. PanelsSubs(p, k) = {}
      BY <2>1, <2>3, <2>5, FS_EmptySet DEF PanelsEntryOf
    <3> HIDE DEF q, held, p
    <3>4. \A l \in DOMAIN q : PanelsEntryOf(q, p, l)
      BY <1>1, <1>2, <3>2 DEF PanelsShared, PanelsEntryOf
    <3>5. \A u \in Views : PanelsFollows(q, p[u])
      BY <1>1, <3>2, <3>3 DEF PanelsShared, PanelsFollows, PanelsSubs
    <3>6. PanelsShared(q, p)
      BY <1>1, <3>2, <3>4, <3>5 DEF PanelsShared
    <3>7. held.queries = q /\ DOMAIN held.executions = DOMAIN q
      BY <1>1, <3>1, <3>2 DEF q
    <3>8. PanelsShared(held.queries, p) /\ DOMAIN held.executions = DOMAIN held.queries
      BY <3>6, <3>7
    <3> QED
      BY <3>8 DEF held, p
  <2> QED
    BY <2>4, <2>5
<1> QED
  BY <1>3, <1>4

\* A view joins: it is counted, and shows what was said last.
LEMMA PanelsAcquiredShares ==
  ASSUME Panels!Parameters, PanelsInv, NEW v \in Views, NEW held, PanelsShared(held.queries, PanelsWithout(v)),
         DOMAIN held.executions = DOMAIN held.queries, DOMAIN held = {"queries", "executions"},
         NEW k \in Panels!Keys, NEW view, view # None, view.key = k,
         view.state = Panels!Acquired(held, k).queries[k].last
  PROVE  LET got == Panels!Acquired(held, k)
         IN  /\ PanelsShared(got.queries, [page EXCEPT ![v] = view])
             /\ DOMAIN got.executions = DOMAIN got.queries
<1> DEFINE got == Panels!Acquired(held, k)
           p == PanelsWithout(v)
           r == [page EXCEPT ![v] = view]
           old == held.queries
           new == got.queries
<1>1. /\ p[v] = None /\ r[v] = view /\ PanelsShared(old, p)
      /\ \A u \in Views \ {v} : p[u] = page[u] /\ r[u] = page[u]
  BY DEF PanelsInv, PanelsWithout
<1>2. None \notin Panels!Keys
  BY DEF Panels!Parameters
<1>3. /\ PanelsSubs(r, k) = PanelsSubs(p, k) \cup {v} /\ v \notin PanelsSubs(p, k)
      /\ \A l : l # k => PanelsSubs(r, l) = PanelsSubs(p, l)
  BY <1>1 DEF PanelsSubs
<1>4. /\ DOMAIN new = DOMAIN old \cup {k} /\ DOMAIN got.executions = DOMAIN new
      /\ DOMAIN new[k] = {"references", "last"} /\ new[k].last \in Panels!States
      /\ \A l \in DOMAIN old \ {k} : new[l] = old[l]
      /\ k \in DOMAIN old => new[k].last = old[k].last
      /\ IsFiniteSet(PanelsSubs(p, k)) /\ new[k].references = Cardinality(PanelsSubs(p, k)) + 1
  <2>1. CASE k \in DOMAIN old
    <3>1. PanelsEntryOf(old, p, k)
      BY <1>1, <2>1 DEF PanelsShared
    <3>2. got = [held EXCEPT !.queries[k].references = @ + 1]
      BY <2>1 DEF Panels!Acquired
    <3>3. new = [old EXCEPT ![k].references = @ + 1] /\ got.executions = held.executions
      BY <3>2
    <3> HIDE DEF new, old, got
    <3> QED
      BY <2>1, <3>1, <3>3 DEF PanelsEntryOf, old
  <2>2. CASE k \notin DOMAIN old
    <3>1. /\ new = [l \in DOMAIN old \cup {k} |->
                      IF l = k THEN [references |-> 1, last |-> Panels!Loading] ELSE old[l]]
          /\ DOMAIN got.executions = DOMAIN held.queries \cup {k}
      BY <2>2 DEF Panels!Acquired
    <3>2. PanelsSubs(p, k) = {}
      BY <1>1, <1>2, <2>2 DEF PanelsShared, PanelsFollows, PanelsSubs
    <3>3. IsFiniteSet(PanelsSubs(p, k)) /\ Cardinality(PanelsSubs(p, k)) = 0
      BY <3>2, FS_EmptySet
    <3>4. Panels!Loading \in Panels!States
      BY DEF Panels!Loading, Panels!States
    <3> HIDE DEF got, p
    <3> QED
      BY <2>2, <3>1, <3>3, <3>4
  <2> QED
    BY <2>1, <2>2
<1>5. view.state = new[k].last
  OBVIOUS
<1> HIDE DEF got, p, r, old, new
<1>6. IsFiniteSet(PanelsSubs(r, k)) /\ Cardinality(PanelsSubs(r, k)) = Cardinality(PanelsSubs(p, k)) + 1
      /\ Cardinality(PanelsSubs(p, k)) \in Nat
  BY <1>3, <1>4, FS_AddElement, FS_CardinalityType
<1>7. \A l \in DOMAIN new : PanelsEntryOf(new, r, l)
  <2>1. PanelsEntryOf(new, r, k)
    BY <1>4, <1>6 DEF PanelsEntryOf
  <2>2. ASSUME NEW l \in DOMAIN new, l # k PROVE PanelsEntryOf(new, r, l)
    BY <1>1, <1>3, <1>4, <2>2 DEF PanelsShared, PanelsEntryOf
  <2> QED
    BY <2>1, <2>2
<1>8. \A u \in Views : PanelsFollows(new, r[u])
  <2>1. PanelsFollows(new, r[v])
    BY <1>1, <1>4, <1>5 DEF PanelsFollows
  <2>2. ASSUME NEW u \in Views \ {v} PROVE PanelsFollows(new, r[u])
    BY <1>1, <1>4 DEF PanelsShared, PanelsFollows
  <2> QED
    BY <2>1, <2>2
<1>9. PanelsShared(new, r) /\ DOMAIN got.executions = DOMAIN new
  BY <1>1, <1>4, <1>7, <1>8 DEF PanelsShared
<1> QED
  BY <1>9 DEF new, r, got

-----------------------------------------------------------------------------
(* The views.                                                              *)

\* A view of its own type, settled, takes its place.
LEMMA PanelsViewTakesPlace ==
  ASSUME PanelsInv, NEW v \in Views, NEW view \in Panels!ViewStates \cup {None}, PanelsSettled(view),
         page' = [page EXCEPT ![v] = view], PanelsShared(store', page'), DOMAIN calls' = DOMAIN store'
  PROVE  PanelsInv'
<1>1. /\ page' \in [Views -> Panels!ViewStates \cup {None}] /\ page'[v] = view
      /\ \A u \in Views \ {v} : page'[u] = page[u]
  BY DEF PanelsInv
<1>2. \A u \in Views : PanelsSettled(page'[u])
  BY <1>1 DEF PanelsInv
<1> QED
  BY <1>1, <1>2 DEF PanelsInv, PanelsSettled

LEMMA PanelsNewViewFits ==
  ASSUME Panels!Parameters, NEW chart \in Charts
  PROVE  Panels!NewView(chart) \in Panels!ViewStates /\ Panels!NewView(chart).key = None /\ PanelsSettled(Panels!NewView(chart))
<1>1. Panels!Loading \in Panels!States /\ 0 \in 0 .. Most.retries /\ Panels!Parses(chart) \in BOOLEAN
  BY DEF Panels!Loading, Panels!States, Panels!Parameters, Panels!Parses
<1>2. Panels!NewView(chart) \in Panels!ViewStates /\ Panels!NewView(chart).key = None
  BY <1>1 DEF Panels!NewView, Panels!ViewStates
<1>3. Panels!NewView(chart).due = Panels!Parses(chart) /\ Panels!NewView(chart).chart = chart
  BY DEF Panels!NewView
<1> QED
  BY <1>2, <1>3 DEF PanelsSettled

LEMMA PanelsMountKeeps ==
  ASSUME Panels!Parameters, PanelsInv, NEW v \in Views, Panels!Mount(v)
  PROVE  PanelsInv'
<1>1. PICK chart \in Charts : page' = [page EXCEPT ![v] = Panels!NewView(chart)]
  BY DEF Panels!Mount
<1>2. page[v] = None /\ UNCHANGED <<calls, store>>
  BY DEF Panels!Mount
<1>3. PanelsWithout(v) = page
  BY <1>2 DEF PanelsWithout, PanelsInv
<1>4. PanelsShared(store, page')
  BY <1>1, <1>3, PanelsNewViewFits, PanelsKeylessShares DEF PanelsInv
<1> QED
  BY <1>1, <1>2, <1>4, PanelsNewViewFits, PanelsViewTakesPlace DEF PanelsInv

LEMMA PanelsUnmountKeeps ==
  ASSUME Panels!Parameters, PanelsInv, NEW v \in Views, Panels!Unmount(v)
  PROVE  PanelsInv'
<1>1. /\ page[v] # None /\ page' = [page EXCEPT ![v] = None]
      /\ calls' = Panels!Released(page[v].key).executions /\ store' = Panels!Released(page[v].key).queries
  BY DEF Panels!Unmount
<1>2. PanelsShared(store', page') /\ DOMAIN calls' = DOMAIN store'
  BY <1>1, PanelsReleasedShares DEF PanelsWithout
<1>3. PanelsSettled(None)
  BY DEF PanelsSettled
<1> QED
  BY <1>1, <1>2, <1>3, PanelsViewTakesPlace

LEMMA PanelsRerenderKeeps ==
  ASSUME Panels!Parameters, PanelsInv, NEW v \in Views, Panels!Rerender(v)
  PROVE  PanelsInv'
<1>1. page[v] # None /\ page[v] \in Panels!ViewStates
  BY DEF Panels!Rerender, PanelsInv
<1>2. PICK chart \in Charts \ {page[v].chart} :
        IF Panels!Parses(chart) /\ Panels!Parses(page[v].chart)
        THEN /\ page' = [page EXCEPT ![v].chart = chart,
                           ![v].due = page[v].key # <<chart.query, page[v].retry>>]
             /\ UNCHANGED <<calls, store>>
        ELSE /\ page' = [page EXCEPT ![v] = Panels!NewView(chart)]
             /\ calls' = Panels!Released(page[v].key).executions
             /\ store' = Panels!Released(page[v].key).queries
  BY DEF Panels!Rerender
<1>3. CASE Panels!Parses(chart) /\ Panels!Parses(page[v].chart)
  <2> DEFINE other == page[v].key # <<chart.query, page[v].retry>>
             view == [page[v] EXCEPT !.chart = chart, !.due = other]
  <2>1. page' = [page EXCEPT ![v] = view] /\ UNCHANGED <<calls, store>>
    BY <1>2, <1>3 DEF PanelsInv
  <2>2. other \in BOOLEAN
    OBVIOUS
  <2>3. /\ view.chart = chart /\ view.due = other /\ view.retry = page[v].retry
        /\ view.key = page[v].key /\ view.state = page[v].state
    BY <1>1 DEF Panels!ViewStates
  <2>4. view \in Panels!ViewStates
    <3> HIDE DEF other
    <3> QED
      BY <1>1, <2>2 DEF Panels!ViewStates
  <2>5. PanelsSettled(view)
    <3> HIDE DEF view
    <3> QED
      BY <2>3 DEF PanelsSettled
  <2>6. view # None
    BY <2>4 DEF Panels!Parameters
  <2> HIDE DEF view
  <2>7. PanelsShared(store, page')
    BY <1>1, <2>1, <2>3, <2>6, PanelsChangedShares
  <2> QED
    BY <2>1, <2>4, <2>5, <2>7, PanelsViewTakesPlace DEF PanelsInv
<1>4. CASE ~(Panels!Parses(chart) /\ Panels!Parses(page[v].chart))
  <2>1. /\ page' = [page EXCEPT ![v] = Panels!NewView(chart)]
        /\ calls' = Panels!Released(page[v].key).executions /\ store' = Panels!Released(page[v].key).queries
    BY <1>2, <1>4
  <2>2. PanelsShared(store', PanelsWithout(v)) /\ DOMAIN calls' = DOMAIN store'
    BY <1>1, <2>1, PanelsReleasedShares
  <2>3. PanelsShared(store', page')
    BY <2>1, <2>2, PanelsNewViewFits, PanelsKeylessShares
  <2> QED
    BY <2>1, <2>2, <2>3, PanelsNewViewFits, PanelsViewTakesPlace
<1> QED
  BY <1>3, <1>4

LEMMA PanelsEffectKeeps ==
  ASSUME Panels!Parameters, PanelsInv, NEW v \in Views, Panels!EffectRuns(v)
  PROVE  PanelsInv'
<1> DEFINE k == Panels!Key(v)
           held == Panels!Released(page[v].key)
           got == Panels!Acquired(held, k)
           state == got.queries[k].last
           view == Panels!Subscribe(v, state)
<1>1. /\ page[v] # None /\ page' = [page EXCEPT ![v] = view]
      /\ calls' = got.executions /\ store' = got.queries
  BY DEF Panels!EffectRuns
<1>2. page[v] \in Panels!ViewStates
  BY <1>1 DEF PanelsInv
<1>3. k \in Panels!Keys /\ k = <<page[v].chart.query, page[v].retry>>
  BY <1>2 DEF Panels!Key, Panels!Keys, Panels!ViewStates
<1>4. /\ PanelsShared(held.queries, PanelsWithout(v)) /\ DOMAIN held.executions = DOMAIN held.queries
      /\ DOMAIN held = {"queries", "executions"}
  BY <1>1, PanelsReleasedShares DEF Panels!Released
<1> HIDE DEF k, held
<1>5. state \in Panels!States
  <2>1. CASE k \in DOMAIN held.queries
    <3>1. held.queries[k].last \in Panels!States /\ DOMAIN held.queries[k] = {"references", "last"}
      BY <1>4, <2>1 DEF PanelsShared, PanelsEntryOf
    <3>2. state = held.queries[k].last
      BY <1>4, <2>1, <3>1 DEF Panels!Acquired
    <3> QED
      BY <3>1, <3>2
  <2>2. CASE k \notin DOMAIN held.queries
    BY <2>2 DEF Panels!Acquired, Panels!Loading, Panels!States
  <2> QED
    BY <2>1, <2>2
<1> HIDE DEF got, state
<1>6. /\ view.state = state /\ view.due = FALSE /\ view.key = k
      /\ view.chart = page[v].chart /\ view.retry = page[v].retry
  BY <1>2 DEF Panels!Subscribe, Panels!Showing, Panels!ViewStates, k
<1>7. view \in Panels!ViewStates
  <2>1. (page[v].broken /\ state.series) \in BOOLEAN
    OBVIOUS
  <2>2. view = [page[v] EXCEPT !.state = state, !.broken = page[v].broken /\ state.series,
                               !.due = FALSE, !.key = k]
    BY <1>2 DEF Panels!Subscribe, Panels!Showing, Panels!ViewStates, k
  <2> QED
    BY <1>2, <1>3, <1>5, <2>1, <2>2 DEF Panels!ViewStates
<1> HIDE DEF view
<1>8. view # None
  BY <1>7 DEF Panels!Parameters
<1>9. PanelsShared(got.queries, [page EXCEPT ![v] = view]) /\ DOMAIN got.executions = DOMAIN got.queries
  BY <1>3, <1>4, <1>6, <1>8, PanelsAcquiredShares DEF got, state
<1>10. PanelsSettled(view)
  BY <1>3, <1>6 DEF PanelsSettled
<1> QED
  BY <1>1, <1>7, <1>9, <1>10, PanelsViewTakesPlace

LEMMA PanelsViewChanges ==
  ASSUME Panels!Parameters, PanelsInv, NEW v \in Views, Panels!Retry(v) \/ Panels!RenderFails(v)
  PROVE  PanelsInv'
<1>1. page[v] # None /\ page[v] \in Panels!ViewStates /\ UNCHANGED <<calls, store>>
  BY DEF Panels!Retry, Panels!RenderFails, PanelsInv
<1>2. PICK view : page' = [page EXCEPT ![v] = view] /\
        \/ /\ view = [page[v] EXCEPT !.retry = @ + 1, !.due = TRUE] /\ page[v].retry < Most.retries
        \/ view = [page[v] EXCEPT !.broken = TRUE]
  BY DEF Panels!Retry, Panels!RenderFails, PanelsInv
<1>3. view \in Panels!ViewStates
  <2>1. CASE view = [page[v] EXCEPT !.retry = @ + 1, !.due = TRUE] /\ page[v].retry < Most.retries
    <3>1. page[v].retry + 1 \in 0 .. Most.retries
      BY <1>1, <2>1 DEF Panels!ViewStates, Panels!Parameters
    <3> DEFINE n == page[v].retry + 1
    <3>2. view = [page[v] EXCEPT !.retry = n, !.due = TRUE] /\ n \in 0 .. Most.retries
      BY <1>1, <2>1, <3>1 DEF Panels!ViewStates
    <3> HIDE DEF n
    <3> QED
      BY <1>1, <3>2 DEF Panels!ViewStates
  <2>2. CASE view = [page[v] EXCEPT !.broken = TRUE]
    BY <1>1, <2>2 DEF Panels!ViewStates
  <2> QED
    BY <1>2, <2>1, <2>2
<1>4. view # None /\ view.key = page[v].key /\ view.state = page[v].state
  BY <1>1, <1>2, <1>3 DEF Panels!ViewStates, Panels!Parameters
<1>5. PanelsSettled(view)
  <2>1. PanelsSettled(page[v])
    BY DEF PanelsInv
  <2> QED
    BY <1>1, <1>2, <2>1 DEF PanelsSettled, Panels!ViewStates
<1>6. PanelsShared(store, page')
  BY <1>1, <1>2, <1>4, PanelsChangedShares
<1> QED
  BY <1>1, <1>2, <1>3, <1>5, <1>6, PanelsViewTakesPlace DEF PanelsInv

-----------------------------------------------------------------------------
(* The executions.                                                         *)

\* What a query says, all views that are subscribed to it show.
LEMMA PanelsEmitKeeps ==
  ASSUME Panels!Parameters, PanelsInv, NEW k \in DOMAIN calls, NEW state \in Panels!States, Panels!Emit(k, state),
         DOMAIN calls' = DOMAIN calls
  PROVE  PanelsInv'
<1>1. /\ store' = [store EXCEPT ![k].last = state]
      /\ page' = [v \in Views |-> IF v \in Panels!Subscribed(k) THEN Panels!Showing(page[v], state) ELSE page[v]]
      /\ k \in DOMAIN store /\ DOMAIN store' = DOMAIN store
  BY DEF Panels!Emit, PanelsInv
<1>2. ASSUME NEW v \in Views
      PROVE  /\ page'[v] \in Panels!ViewStates \cup {None} /\ (page'[v] # None <=> page[v] # None)
             /\ (page[v] # None =>
                   /\ page'[v].key = page[v].key /\ page'[v].chart = page[v].chart
                   /\ page'[v].retry = page[v].retry /\ page'[v].due = page[v].due
                   /\ page'[v].state = (IF page[v].key = k THEN state ELSE page[v].state))
  <2>1. page[v] \in Panels!ViewStates \cup {None}
    BY DEF PanelsInv
  <2>2. CASE v \in Panels!Subscribed(k)
    <3> DEFINE view == Panels!Showing(page[v], state)
               broken == page[v].broken /\ state.series
    <3>1. page'[v] = view /\ page[v] \in Panels!ViewStates /\ page[v].key = k
      BY <1>1, <2>1, <2>2 DEF Panels!Subscribed
    <3>2. broken \in BOOLEAN /\ view = [page[v] EXCEPT !.state = state, !.broken = broken]
      BY <3>1 DEF Panels!Showing, Panels!ViewStates
    <3> HIDE DEF broken, view
    <3>3. /\ view \in Panels!ViewStates /\ view.key = page[v].key /\ view.chart = page[v].chart
          /\ view.retry = page[v].retry /\ view.due = page[v].due /\ view.state = state
      BY <3>1, <3>2 DEF Panels!ViewStates
    <3>4. view # None /\ page[v] # None
      BY <3>1, <3>3 DEF Panels!Parameters
    <3> QED
      BY <3>1, <3>3, <3>4
  <2>3. CASE v \notin Panels!Subscribed(k)
    BY <1>1, <2>1, <2>3 DEF Panels!Subscribed
  <2> QED
    BY <2>2, <2>3
<1>3. /\ store'[k].last = state /\ DOMAIN store'[k] = {"references", "last"}
      /\ store'[k].references = store[k].references
      /\ \A l \in DOMAIN store \ {k} : store'[l] = store[l]
  <2>1. PanelsEntryOf(store, page, k)
    BY <1>1 DEF PanelsInv, PanelsShared
  <2> QED
    BY <1>1, <2>1 DEF PanelsEntryOf
<1>4. \A l : PanelsSubs(page', l) = PanelsSubs(page, l)
  BY <1>2 DEF PanelsSubs
<1>5. PanelsShared(store, page)
  BY DEF PanelsInv
<1>6. \A l \in DOMAIN store' : PanelsEntryOf(store', page', l)
  <2>1. PanelsEntryOf(store', page', k)
    BY <1>1, <1>3, <1>4, <1>5 DEF PanelsShared, PanelsEntryOf
  <2>2. ASSUME NEW l \in DOMAIN store, l # k PROVE PanelsEntryOf(store', page', l)
    BY <1>3, <1>4, <1>5, <2>2 DEF PanelsShared, PanelsEntryOf
  <2> QED
    BY <1>1, <2>1, <2>2
<1>7. \A v \in Views : PanelsFollows(store', page'[v])
  BY <1>1, <1>2, <1>3, <1>5 DEF PanelsShared, PanelsFollows
<1>8. PanelsShared(store', page')
  BY <1>1, <1>5, <1>6, <1>7 DEF PanelsShared
<1>9. \A v \in Views : PanelsSettled(page'[v])
  BY <1>2 DEF PanelsInv, PanelsSettled
<1>10. page' \in [Views -> Panels!ViewStates \cup {None}]
  BY <1>1, <1>2
<1> QED
  BY <1>1, <1>8, <1>9, <1>10 DEF PanelsInv, PanelsSettled

LEMMA PanelsExecutionKeeps ==
  ASSUME Panels!Parameters, PanelsInv, NEW k \in DOMAIN calls,
         Panels!DatasourceFound(k) \/ Panels!QueryFails(k) \/ Panels!Responds(k)
  PROVE  PanelsInv'
<1>1. DOMAIN calls' = DOMAIN calls
  BY DEF Panels!DatasourceFound, Panels!QueryFails, Panels!Responds
<1>2. \E state \in Panels!States : Panels!Emit(k, state)
  <2>1. Panels!Loading \in Panels!States /\ Panels!State("error", FALSE) \in Panels!States
    BY DEF Panels!Loading, Panels!State, Panels!States
  <2>2. CASE Panels!DatasourceFound(k) \/ Panels!QueryFails(k)
    BY <2>1, <2>2 DEF Panels!DatasourceFound, Panels!QueryFails
  <2>3. CASE Panels!Responds(k)
    <3>1. PICK part \in Parts \cup {None}, series \in BOOLEAN, errors \in BOOLEAN,
               said \in {None, "Done", "Streaming", "Error"} :
            Panels!Emit(k, Panels!Said(Panels!AnySeries(k, part, series), said, errors))
      BY <2>3 DEF Panels!Responds
    <3>2. Panels!AnySeries(k, part, series) \in BOOLEAN
      BY DEF Panels!AnySeries
    <3>3. ASSUME NEW any \in BOOLEAN PROVE Panels!Said(any, said, errors) \in Panels!States
      BY DEF Panels!Said, Panels!State, Panels!States
    <3> QED
      BY <3>1, <3>2, <3>3
  <2> QED
    BY <2>2, <2>3
<1> QED
  BY <1>1, <1>2, PanelsEmitKeeps

-----------------------------------------------------------------------------
LEMMA PanelsStep == ASSUME Panels!Parameters PROVE PanelsInv /\ [Panels!Next]_(Panels!vars) => PanelsInv'
<1> SUFFICES ASSUME PanelsInv, [Panels!Next]_(Panels!vars) PROVE PanelsInv'
  OBVIOUS
<1>1. CASE \E v \in Views :
             Panels!Mount(v) \/ Panels!Unmount(v) \/ Panels!Rerender(v) \/ Panels!EffectRuns(v) \/ Panels!Retry(v) \/ Panels!RenderFails(v)
  BY <1>1, PanelsMountKeeps, PanelsUnmountKeeps, PanelsRerenderKeeps, PanelsEffectKeeps,
       PanelsViewChanges
<1>2. CASE \E k \in DOMAIN calls : Panels!DatasourceFound(k) \/ Panels!QueryFails(k) \/ Panels!Responds(k)
  BY <1>2, PanelsExecutionKeeps
<1>3. CASE UNCHANGED Panels!vars \/ \E k \in DOMAIN calls : Panels!Completes(k)
  <2>1. page' = page /\ store' = store /\ DOMAIN calls' = DOMAIN calls
    BY <1>3 DEF Panels!Completes, Panels!vars
  <2>2. PanelsShared(store', page') /\ \A v \in Views : PanelsSettled(page'[v])
    BY <2>1 DEF PanelsInv
  <2> QED
    BY <2>1, <2>2 DEF PanelsInv, PanelsSettled
<1> QED
  BY <1>1, <1>2, <1>3 DEF Panels!Next

LEMMA PanelsStart == Panels!Init => PanelsInv
<1> SUFFICES ASSUME Panels!Init PROVE PanelsInv
  OBVIOUS
<1>1. page \in [Views -> Panels!ViewStates \cup {None}] /\ \A v \in Views : page[v] = None
  BY DEF Panels!Init
<1>2. DOMAIN calls = {} /\ DOMAIN store = {}
  BY DEF Panels!Init
<1> QED
  BY <1>1, <1>2 DEF PanelsInv, PanelsShared, PanelsFollows, PanelsSettled

LEMMA PanelsAlways == ASSUME Panels!Parameters PROVE Panels!Spec => []PanelsInv
  BY PanelsStart, PanelsStep, PTL DEF Panels!Spec

\* usePanelQuery: a view shows what the query of its own chart said last, whichever views come, go
\* and change their query while answers are on their way.
THEOREM PanelsShowTheirOwnQuery ==
  ASSUME Panels!Parameters
  PROVE  Panels!Spec => []Panels!ShowsOwnQuery
<1>1. PanelsInv => Panels!ShowsOwnQuery
  <2> SUFFICES ASSUME PanelsInv, NEW v \in Views, page[v] # None, Panels!Parses(page[v].chart),
                      ~page[v].due
               PROVE  page[v].key = Panels!Key(v) /\ page[v].state = store[Panels!Key(v)].last
    BY DEF Panels!ShowsOwnQuery
  <2>1. page[v].key = Panels!Key(v) /\ Panels!Key(v) \in Panels!Keys
    BY DEF PanelsInv, PanelsSettled, Panels!Key, Panels!Keys, Panels!ViewStates
  <2> QED
    BY <2>1 DEF Panels!Parameters, PanelsInv, PanelsShared, PanelsFollows
<1> QED
  BY <1>1, PanelsAlways, PTL

-----------------------------------------------------------------------------
(* What a query has passed, and what a view that broke had to show.        *)

PanelsCheckedView(view) ==
  view # None => (view.due => Panels!Parses(view.chart)) /\ (view.broken => view.state.series)

PanelsCheckedKey(k) == \E chart \in Charts : Panels!Parses(chart) /\ k[1] = chart.query

PanelsChecked ==
  (\A v \in Views : PanelsCheckedView(page[v])) /\ (\A k \in DOMAIN store : PanelsCheckedKey(k))

LEMMA PanelsCheckedViewTakesPlace ==
  ASSUME PanelsInv, PanelsChecked, NEW v \in Views, NEW view, PanelsCheckedView(view),
         page' = [page EXCEPT ![v] = view], \A k \in DOMAIN store' : PanelsCheckedKey(k)
  PROVE  PanelsChecked'
  BY DEF PanelsInv, PanelsChecked, PanelsCheckedView, PanelsCheckedKey

LEMMA PanelsNewViewIsChecked == ASSUME NEW chart PROVE PanelsCheckedView(Panels!NewView(chart))
  BY DEF PanelsCheckedView, Panels!NewView

LEMMA PanelsReleasedIsFewer ==
  ASSUME PanelsInv, NEW k, k # None => k \in DOMAIN store
  PROVE  DOMAIN Panels!Released(k).queries \subseteq DOMAIN store
<1>1. CASE k = None
  BY <1>1 DEF Panels!Released
<1>2. CASE k # None /\ store[k].references > 1
  BY <1>2 DEF Panels!Released
<1>3. CASE k # None /\ ~(store[k].references > 1)
  BY <1>3 DEF Panels!Released, Panels!Forget
<1> QED
  BY <1>1, <1>2, <1>3

LEMMA PanelsViewsStayChecked ==
  ASSUME Panels!Parameters, PanelsInv, PanelsChecked, NEW v \in Views,
         Panels!Mount(v) \/ Panels!Unmount(v) \/ Panels!Rerender(v) \/ Panels!EffectRuns(v) \/ Panels!Retry(v) \/ Panels!RenderFails(v)
  PROVE  PanelsChecked'
<1>1. page[v] # None => page[v] \in Panels!ViewStates /\ (page[v].key # None => page[v].key \in DOMAIN store)
  BY DEF PanelsInv, PanelsShared, PanelsFollows
<1>2. \A k \in DOMAIN store : PanelsCheckedKey(k)
  BY DEF PanelsChecked
<1>3. CASE Panels!Mount(v)
  BY <1>2, <1>3, PanelsNewViewIsChecked, PanelsCheckedViewTakesPlace DEF Panels!Mount
<1>4. CASE Panels!Unmount(v)
  <2>1. DOMAIN store' \subseteq DOMAIN store /\ PanelsCheckedView(None)
    BY <1>1, <1>4, PanelsReleasedIsFewer DEF Panels!Unmount, PanelsCheckedView
  <2> QED
    BY <1>2, <1>4, <2>1, PanelsCheckedViewTakesPlace DEF Panels!Unmount
<1>5. CASE Panels!Rerender(v)
  <2>1. PICK chart \in Charts \ {page[v].chart} :
          IF Panels!Parses(chart) /\ Panels!Parses(page[v].chart)
          THEN /\ page' = [page EXCEPT ![v].chart = chart,
                             ![v].due = page[v].key # <<chart.query, page[v].retry>>]
               /\ UNCHANGED <<calls, store>>
          ELSE /\ page' = [page EXCEPT ![v] = Panels!NewView(chart)]
               /\ calls' = Panels!Released(page[v].key).executions
               /\ store' = Panels!Released(page[v].key).queries
    BY <1>5 DEF Panels!Rerender
  <2>2. CASE Panels!Parses(chart) /\ Panels!Parses(page[v].chart)
    <3> DEFINE other == page[v].key # <<chart.query, page[v].retry>>
               view == [page[v] EXCEPT !.chart = chart, !.due = other]
    <3>1. page' = [page EXCEPT ![v] = view] /\ UNCHANGED store
      BY <2>1, <2>2 DEF PanelsInv
    <3> HIDE DEF other
    <3>2. view.chart = chart /\ view.broken = page[v].broken /\ view.state = page[v].state
      BY <1>1, <1>5 DEF Panels!Rerender, Panels!ViewStates
    <3>3. page[v].broken => page[v].state.series
      BY <1>5 DEF Panels!Rerender, PanelsChecked, PanelsCheckedView
    <3> HIDE DEF view
    <3>4. PanelsCheckedView(view)
      BY <2>2, <3>2, <3>3 DEF PanelsCheckedView
    <3> QED
      BY <1>2, <3>1, <3>4, PanelsCheckedViewTakesPlace
  <2>3. CASE ~(Panels!Parses(chart) /\ Panels!Parses(page[v].chart))
    <3>1. page' = [page EXCEPT ![v] = Panels!NewView(chart)] /\ DOMAIN store' \subseteq DOMAIN store
      BY <1>1, <1>5, <2>1, <2>3, PanelsReleasedIsFewer DEF Panels!Rerender
    <3> QED
      BY <1>2, <3>1, PanelsNewViewIsChecked, PanelsCheckedViewTakesPlace
  <2> QED
    BY <2>2, <2>3
<1>6. CASE Panels!EffectRuns(v)
  <2> DEFINE held == Panels!Released(page[v].key)
             got == Panels!Acquired(held, Panels!Key(v))
             state == got.queries[Panels!Key(v)].last
             view == Panels!Subscribe(v, state)
  <2>1. /\ page[v] # None /\ page[v].due /\ page' = [page EXCEPT ![v] = view]
        /\ store' = got.queries
    BY <1>6 DEF Panels!EffectRuns
  <2>2. DOMAIN held.queries \subseteq DOMAIN store
    BY <1>1, <2>1, PanelsReleasedIsFewer
  <2>3. Panels!Parses(page[v].chart) /\ page[v].chart \in Charts /\ Panels!Key(v)[1] = page[v].chart.query
    BY <1>1, <2>1 DEF PanelsChecked, PanelsCheckedView, Panels!ViewStates, Panels!Key
  <2>4. PanelsCheckedKey(Panels!Key(v))
    BY <2>3 DEF PanelsCheckedKey
  <2> HIDE DEF held
  <2>5. DOMAIN got.queries \subseteq DOMAIN held.queries \cup {Panels!Key(v)}
    <3>1. CASE Panels!Key(v) \in DOMAIN held.queries
      <4>1. got = [held EXCEPT !.queries[Panels!Key(v)].references = @ + 1]
        BY <3>1 DEF Panels!Acquired
      <4>2. DOMAIN held = {"queries", "executions"}
        BY DEF held, Panels!Released
      <4> QED
        BY <4>1, <4>2
    <3>2. CASE Panels!Key(v) \notin DOMAIN held.queries
      BY <3>2 DEF Panels!Acquired
    <3> QED
      BY <3>1, <3>2
  <2> HIDE DEF got, state
  <2>6. view.due = FALSE /\ view.state = state /\ (view.broken => state.series)
    BY <1>1, <2>1 DEF Panels!Subscribe, Panels!Showing, Panels!ViewStates
  <2> HIDE DEF view
  <2>7. PanelsCheckedView(view)
    BY <2>6 DEF PanelsCheckedView
  <2>8. \A k \in DOMAIN store' : PanelsCheckedKey(k)
    BY <1>2, <2>1, <2>2, <2>4, <2>5
  <2> QED
    BY <2>1, <2>7, <2>8, PanelsCheckedViewTakesPlace
<1>7. CASE Panels!Retry(v) \/ Panels!RenderFails(v)
  <2>1. PICK view : page' = [page EXCEPT ![v] = view] /\
          \/ view = [page[v] EXCEPT !.retry = @ + 1, !.due = TRUE]
          \/ view = [page[v] EXCEPT !.broken = TRUE] /\ page[v].state.series
    BY <1>7 DEF Panels!Retry, Panels!RenderFails, PanelsInv
  <2>2. /\ page[v] # None /\ Panels!Parses(page[v].chart) /\ store' = store
        /\ page[v].broken => page[v].state.series
    BY <1>7 DEF Panels!Retry, Panels!RenderFails, PanelsChecked, PanelsCheckedView
  <2>3. PanelsCheckedView(view)
    BY <1>1, <2>1, <2>2 DEF PanelsCheckedView, Panels!ViewStates
  <2> QED
    BY <1>2, <2>1, <2>2, <2>3, PanelsCheckedViewTakesPlace
<1> QED
  BY <1>3, <1>4, <1>5, <1>6, <1>7

LEMMA PanelsExecutionsStayChecked ==
  ASSUME Panels!Parameters, PanelsInv, PanelsChecked, NEW k, NEW state, Panels!Emit(k, state)
  PROVE  PanelsChecked'
<1>1. /\ DOMAIN store' = DOMAIN store
      /\ page' = [v \in Views |-> IF v \in Panels!Subscribed(k) THEN Panels!Showing(page[v], state) ELSE page[v]]
  BY DEF Panels!Emit
<1>2. ASSUME NEW v \in Views
      PROVE  PanelsCheckedView(page'[v])
  <2>1. PanelsCheckedView(page[v]) /\ page[v] \in Panels!ViewStates \cup {None}
    BY DEF PanelsChecked, PanelsInv
  <2>2. CASE v \in Panels!Subscribed(k)
    <3>1. page'[v] = Panels!Showing(page[v], state) /\ page[v] \in Panels!ViewStates /\ page[v] # None
      BY <1>1, <2>1, <2>2 DEF Panels!Subscribed
    <3>2. /\ page'[v].due = page[v].due /\ page'[v].chart = page[v].chart
          /\ page'[v].state = state /\ (page'[v].broken => state.series)
      BY <3>1 DEF Panels!Showing, Panels!ViewStates
    <3> QED
      BY <2>1, <3>1, <3>2 DEF PanelsCheckedView
  <2>3. CASE v \notin Panels!Subscribed(k)
    BY <1>1, <2>1, <2>3
  <2> QED
    BY <2>2, <2>3
<1> QED
  BY <1>1, <1>2 DEF PanelsChecked, PanelsCheckedKey

LEMMA PanelsStayChecked ==
  ASSUME Panels!Parameters
  PROVE  PanelsInv /\ PanelsChecked /\ [Panels!Next]_(Panels!vars) => PanelsChecked'
<1> SUFFICES ASSUME PanelsInv, PanelsChecked, [Panels!Next]_(Panels!vars) PROVE PanelsChecked'
  OBVIOUS
<1>1. CASE UNCHANGED Panels!vars \/ \E k \in DOMAIN calls : Panels!Completes(k)
  BY <1>1 DEF Panels!vars, Panels!Completes, PanelsChecked, PanelsCheckedView, PanelsCheckedKey
<1>2. CASE \E k \in DOMAIN calls : Panels!DatasourceFound(k) \/ Panels!QueryFails(k) \/ Panels!Responds(k)
  BY <1>2, PanelsExecutionsStayChecked DEF Panels!DatasourceFound, Panels!QueryFails,
         Panels!Responds
<1> QED
  BY <1>1, <1>2, PanelsViewsStayChecked DEF Panels!Next

LEMMA PanelsPointsOfARange ==
  ASSUME NEW n \in Int, NEW m \in Int, m > 0, n >= m
  PROVE  n \div m >= 1 /\ n \div m \in Int
  OBVIOUS

\* A query that runs has passed the checks, and its entry counts the views that are subscribed.
THEOREM PanelsQueriesAreCounted == ASSUME Panels!Parameters PROVE Panels!Spec => []Panels!TypeOK
<1>1. Panels!Init => PanelsChecked
  BY DEF Panels!Init, PanelsChecked, PanelsCheckedView
<1>2. ASSUME PanelsInv, PanelsChecked PROVE Panels!TypeOK
  <2>1. ASSUME NEW k \in DOMAIN store
        PROVE  /\ store[k].references = Cardinality(Panels!Subscribed(k)) /\ store[k].references > 0
               /\ Panels!DataPoints(k[1]) \in 2..MaxPoints
    <3>1. PanelsEntryOf(store, page, k)
      BY <1>2 DEF PanelsInv, PanelsShared
    <3>2. Panels!Subscribed(k) = PanelsSubs(page, k)
      BY DEF Panels!Subscribed, PanelsSubs
    <3>3. PICK chart \in Charts : Panels!Parses(chart) /\ k[1] = chart.query
      BY <1>2 DEF PanelsChecked, PanelsCheckedKey
    <3> DEFINE q == chart.query
               interval == q.step * 1000
               range == q.to - q.from
    <3>4. q.from \in Int /\ q.to \in Int /\ q.step \in Int
      BY <3>3 DEF Panels!Parses, Panels!Parameters
    <3>5. interval \in Int /\ range \in Int /\ interval > 0 /\ interval <= range
          /\ Panels!DataPoints(q) <= MaxPoints
      BY <3>3, <3>4 DEF Panels!Parses
    <3> HIDE DEF interval, range
    <3>6. (range + interval - 1) \div interval >= 1 /\ (range + interval - 1) \div interval \in Int
      BY <3>5, PanelsPointsOfARange
    <3>7. Panels!DataPoints(q) = (range + interval - 1) \div interval + 1
      BY DEF Panels!DataPoints, interval, range
    <3>8. Panels!DataPoints(q) \in 2..MaxPoints
      BY <3>5, <3>6, <3>7 DEF Panels!Parameters
    <3> QED
      BY <3>1, <3>2, <3>3, <3>8 DEF PanelsEntryOf
  <2>2. ASSUME NEW v \in Views, page[v] # None
        PROVE  /\ page[v].key # None => page[v].key \in DOMAIN store
               /\ page[v].broken => page[v].state.series
    BY <1>2, <2>2 DEF PanelsInv, PanelsShared, PanelsFollows, PanelsChecked, PanelsCheckedView
  <2>3. \A k \in DOMAIN store : Panels!Cardinality(Panels!Subscribed(k)) = Cardinality(Panels!Subscribed(k))
    BY DEF Panels!Cardinality, Cardinality
  <2> QED
    BY <1>2, <2>1, <2>2, <2>3 DEF Panels!TypeOK, PanelsInv
<1> QED
  BY <1>1, <1>2, PanelsAlways, PanelsStayChecked, PTL DEF Panels!Spec

=============================================================================
