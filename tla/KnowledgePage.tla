---------------------------- MODULE KnowledgePage ----------------------------
(***************************************************************************)
(* The page that manages knowledge bases and their documents               *)
(* (features/knowledge/RealKnowledgePage), over the gateway to the Control *)
(* Plane (resourceKnowledgeManagementGateway).                             *)
(*                                                                         *)
(* Every read of the page is an effect: the next one aborts it, and an     *)
(* aborted answer is dropped.  current says that a read has not been       *)
(* aborted.  Only the answers are looked at this way: an aborted read that *)
(* fails with another error than AbortError shows that error all the same. *)
(* A panel that is unmounted hears nothing more.  Writes are never aborted: they run to their end whatever the  *)
(* page shows by then, and the create keeps the list of the render it was  *)
(* clicked in.  A read takes its data when it is sent, a write takes       *)
(* effect when it is answered; an answer may be lost.  A render and its    *)
(* effects are immediate.  The Control Plane is external.  Names, tags and *)
(* the text of passages are left out.                                      *)
(***************************************************************************)
EXTENDS Naturals, FiniteSets, FiniteSetsExt

CONSTANTS
  Folders,      \* the folders of the user
  MaxBases,     \* bound: knowledge bases ever created
  MaxDocuments, \* bound: documents ever uploaded
  MaxCalls,     \* bound: requests under way when the user makes another one
  None

\* What the constants must be (assumed in PluginPages).
Parameters ==
  /\ MaxBases \in Nat \ {0}
  /\ MaxDocuments \in Nat
  /\ MaxCalls \in Nat
  /\ Folders # {} /\ Folders \cap {None, "none", "deleted"} = {}

VARIABLES
  page,   \* the state of the components on the page
  calls,  \* the unanswered requests, by what they are for
  store   \* Control Plane: the folder of each base, each document's base and status

vars == <<page, calls, store>>

Bases == 1 .. MaxBases
Documents == 1 .. MaxDocuments

Loading == [status |-> "loading"]
Failed == [status |-> "error"]
Shown(data) == [status |-> "success", data |-> data]

Old(reads) == {[q EXCEPT !.current = FALSE] : q \in reads}

\* The panel that made these reads is unmounted.
Gone(reads) == {[q EXCEPT !.current = FALSE, !.panel = FALSE] : q \in reads}

Calm ==
  Cardinality(calls.bases) + Cardinality(calls.documents) + Cardinality(calls.passages)
    + Cardinality(calls.searches) + Cardinality(calls.writes) < MaxCalls

\* What the Control Plane has; a request for a base names the folder in a header.
BasesOf(at, f) == {b \in Bases : at.base[b] = f}
DocumentsOf(at, b) ==
  {d \in Documents : at.document[d].base = b /\ at.document[d].status # "deleted"}
Listing(at, b) ==
  {[id |-> d, status |-> at.document[d].status] : d \in DocumentsOf(at, b)}

-----------------------------------------------------------------------------
(* The effects.                                                            *)

ListBases(f) == [current |-> TRUE, data |-> BasesOf(store', f)]

ListDocuments(f, b) ==
  [current |-> TRUE, folder |-> f, base |-> b, data |-> Listing(store', b)]

\* The panels of documents and of the search are not on the page.
Unmounted(p) == [p EXCEPT !.passages = None, !.search = None]

\* The effect of another folder or of refreshBases: the old list goes at once.
ReloadBases(p, writes) ==
  /\ page' = [Unmounted(p) EXCEPT !.bases = Loading, !.selected = None,
                                  !.documents = Shown({})]
  /\ calls' = [bases |-> Old(calls.bases) \cup {ListBases(p.folder)},
               documents |-> Old(calls.documents), passages |-> Gone(calls.passages),
               searches |-> Old(calls.searches), writes |-> writes]

\* The selection, and its effects if it is another one; the search panel is keyed by the base.
Select(p, b, bases, writes) ==
  IF b = p.selected
  THEN page' = p /\ calls' = [calls EXCEPT !.bases = bases, !.writes = writes]
  ELSE
  /\ page' = IF b = None THEN [Unmounted(p) EXCEPT !.selected = None, !.documents = Shown({})]
             ELSE [p EXCEPT !.selected = b, !.documents = Loading, !.search = None]
  /\ calls' = [calls EXCEPT !.bases = bases, !.writes = writes,
                 !.documents = Old(@) \cup
                   (IF b = None THEN {} ELSE {ListDocuments(p.folder, b)}),
                 !.searches = Old(@)]

\* The effect of refreshDocuments; without a base there is nothing to read.
ReloadDocuments(p, writes) ==
  IF p.selected = None
  THEN page' = p /\ calls' = [calls EXCEPT !.writes = writes]
  ELSE /\ page' = [p EXCEPT !.documents = Loading]
       /\ calls' = [calls EXCEPT !.writes = writes,
                      !.documents = Old(@) \cup {ListDocuments(p.folder, p.selected)}]

-----------------------------------------------------------------------------
(* Reads.                                                                  *)

Managing == page.bases.status = "success"
Selected == Managing /\ page.selected \in page.bases.data

\* The capability list is read once; a page without Knowledge asks for nothing.
AvailabilityAnswered ==
  /\ page.availability = "loading"
  /\ UNCHANGED store
  /\ \/ /\ page' = [page EXCEPT !.availability = "error"]
        /\ UNCHANGED calls
     \/ /\ page' = [page EXCEPT !.availability = "unavailable"]
        /\ UNCHANGED calls
     \/ ReloadBases([page EXCEPT !.availability = "available"], calls.writes)

BasesAnswered(q) ==
  /\ q \in calls.bases
  /\ q.current
  /\ UNCHANGED store
  /\ LET first == IF q.data = {} THEN None ELSE Min(q.data)
     IN  Select([page EXCEPT !.bases = Shown(q.data)], first, calls.bases \ {q}, calls.writes)

\* The read fails, aborted or not: the page shows the error in place of everything else.
BasesFail(q) ==
  /\ q \in calls.bases
  /\ page' = [Unmounted(page) EXCEPT !.bases = Failed]
  /\ calls' = [calls EXCEPT !.bases = @ \ {q}, !.passages = Gone(@), !.searches = Old(@)]
  /\ UNCHANGED store

\* Fault: a list is shown although its read was aborted.
IgnoreAbort(q) == TRUE

NotAborted(q) == q.current

\* The folder of the request must be the folder of the base.
DocumentsAnswered(q) ==
  /\ q \in calls.documents
  /\ calls' = [calls EXCEPT !.documents = @ \ {q}]
  /\ UNCHANGED store
  /\ store.base[q.base] = q.folder
  /\ page' = IF NotAborted(q) THEN [page EXCEPT !.documents = Shown(q.data)] ELSE page

\* The read fails; so may one of another base, and the error stands where the list of the
\* selected base would.
DocumentsFail(q) ==
  /\ q \in calls.documents
  /\ calls' = [calls EXCEPT !.documents = @ \ {q}]
  /\ page' = [page EXCEPT !.documents = Failed]
  /\ UNCHANGED store

\* A read that was aborted rejects with AbortError, or its answer is dropped.
Aborted(kind, q) ==
  /\ q \in calls[kind]
  /\ ~q.current
  /\ calls' = [calls EXCEPT ![kind] = @ \ {q}]
  /\ UNCHANGED <<page, store>>

\* While a document of the list is being indexed the list is read again.
Poll ==
  /\ page.documents.status = "success"
  /\ \E d \in page.documents.data : d.status = "queued"
  /\ Calm
  /\ UNCHANGED store
  /\ ReloadDocuments(page, calls.writes)

RetryBases ==
  /\ page.bases.status = "error"
  /\ Calm
  /\ UNCHANGED store
  /\ ReloadBases(page, calls.writes)

RetryDocuments ==
  /\ Selected /\ page.tab = "documents"
  /\ page.documents.status = "error"
  /\ Calm
  /\ UNCHANGED store
  /\ ReloadDocuments(page, calls.writes)

-----------------------------------------------------------------------------
(* What the user does.                                                     *)

\* The folder is chosen in the shell, at any time.
SelectFolder(f) ==
  /\ f # page.folder
  /\ Calm
  /\ UNCHANGED store
  /\ IF page.availability = "available"
     THEN ReloadBases([page EXCEPT !.folder = f], calls.writes)
     ELSE page' = [page EXCEPT !.folder = f] /\ UNCHANGED calls

SelectBase(b) ==
  /\ Managing
  /\ b \in page.bases.data \ {page.selected}
  /\ Calm
  /\ UNCHANGED store
  /\ Select(page, b, calls.bases, calls.writes)

\* Another tab: the document panel is unmounted, the search panel only hidden.
SetTab(tab) ==
  /\ Selected
  /\ tab # page.tab
  /\ page' = [page EXCEPT !.tab = tab, !.passages = None]
  /\ calls' = [calls EXCEPT !.passages = Gone(@)]
  /\ UNCHANGED store

OnDocuments == Selected /\ page.tab = "documents" /\ page.documents.status = "success"

\* The panel of passages stays when another base is selected, and its retry asks there.
ShowPassages(d) ==
  /\ OnDocuments
  /\ \/ [id |-> d, status |-> "ready"] \in page.documents.data
     \/ page.passages = [document |-> d, status |-> "error"]
  /\ Calm
  /\ page' = [page EXCEPT !.passages = [document |-> d, status |-> "loading"]]
  /\ calls' = [calls EXCEPT !.passages = Old(@) \cup
       {[current |-> TRUE, panel |-> TRUE,
         document |-> d, base |-> page.selected, folder |-> page.folder]}]
  /\ UNCHANGED store

PassagesAnswered(q) ==
  /\ q \in calls.passages
  /\ calls' = [calls EXCEPT !.passages = @ \ {q}]
  /\ UNCHANGED store
  /\ \/ /\ q.current
        /\ store.document[q.document] = [base |-> q.base, status |-> "ready"]
        /\ store.base[q.base] = q.folder
        /\ page' = [page EXCEPT !.passages = [document |-> q.document, status |-> "success"]]
     \/ /\ q.panel
        /\ page' = [page EXCEPT !.passages = [document |-> q.document, status |-> "error"]]
     \/ /\ ~q.current
        /\ UNCHANGED page

\* The button does not abort the read, whose answer opens the panel again.
ClosePassages ==
  /\ page.passages # None
  /\ page' = [page EXCEPT !.passages = None]
  /\ UNCHANGED <<calls, store>>

\* The request carries what it will find in the bases chosen in the form.
ExecuteSearch(bases) ==
  /\ Selected
  /\ page.tab = "search"
  /\ Calm
  /\ page' = [page EXCEPT !.search = Loading]
  /\ calls' = [calls EXCEPT !.searches = Old(@) \cup
       {[current |-> TRUE,
         hits |-> {d \in Documents : store.document[d].base \in bases
                                       /\ store.document[d].status = "ready"}]}]
  /\ UNCHANGED store

SearchAnswered(q) ==
  /\ q \in calls.searches
  /\ calls' = [calls EXCEPT !.searches = @ \ {q}]
  /\ UNCHANGED store
  /\ IF q.current
     THEN \/ page' = [page EXCEPT !.search = Shown(q.hits)]
          \/ page' = [page EXCEPT !.search = Failed]
     ELSE UNCHANGED page

\* openCitation goes to the base of the hit, and points at the passage there.
OpenCitation(d) ==
  LET b == store.document[d].base
      p == [page EXCEPT !.citation = d, !.tab = "documents"]
  IN  /\ Selected /\ page.tab = "search"
      /\ page.search # None /\ page.search.status = "success" /\ d \in page.search.data
      /\ Calm
      /\ UNCHANGED store
      /\ IF b = page.selected THEN page' = p /\ UNCHANGED calls
         ELSE Select(p, b, calls.bases, calls.writes)

CloseCitation ==
  /\ OnDocuments
  /\ page.citation # None
  /\ page.citation \in {d.id : d \in page.documents.data}
  /\ page' = [page EXCEPT !.citation = None]
  /\ UNCHANGED <<calls, store>>

-----------------------------------------------------------------------------
(* Writes.  mutate shows that one is under way and then what became of it; *)
(* the buttons are disabled meanwhile, but for the download.               *)

Write(kind, d) ==
  [kind |-> kind, folder |-> page.folder, base |-> page.selected, document |-> d,
   seen |-> IF kind = "create" THEN page.bases.data ELSE {}]

Mutate(write) ==
  /\ Calm
  /\ page' = [page EXCEPT !.busy = TRUE]
  /\ calls' = [calls EXCEPT !.writes = @ \cup {write}]
  /\ UNCHANGED store

CreateBase == Managing /\ ~page.busy /\ Mutate(Write("create", None))
UpdateBase == Selected /\ ~page.busy /\ Mutate(Write("rename", None))
DeleteBase == Selected /\ ~page.busy /\ Mutate(Write("delete base", None))
UploadDocument == OnDocuments /\ ~page.busy /\ Mutate(Write("upload", None))

\* The metadata, the deletion, the retry of a failed one, the original file.
OnDocument(d) ==
  /\ OnDocuments
  /\ \/ \E kind \in {"update", "delete"} : ~page.busy /\ Mutate(Write(kind, d.id))
     \/ d.status = "failed" /\ ~page.busy /\ Mutate(Write("retry", d.id))
     \/ Mutate(Write("download", d.id))

\* What the Control Plane has after a write it accepted.
Written(w) ==
  CASE w.kind = "create" ->
         {[store EXCEPT !.base[b] = w.folder] :
            b \in {b \in Bases : store.base[b] = "none" /\ \A c \in 1 .. b - 1 : store.base[c] # "none"}}
    [] w.kind = "delete base" ->
         {[base |-> [store.base EXCEPT ![w.base] = "deleted"],
           document |-> [d \in Documents |->
             IF store.document[d].base = w.base
             THEN [base |-> w.base, status |-> "deleted"] ELSE store.document[d]]]}
    [] w.kind = "upload" ->
         {[store EXCEPT !.document[d] = [base |-> w.base, status |-> "queued"]] :
            d \in {d \in Documents : store.document[d].status = "none"
                                       /\ \A e \in 1 .. d - 1 : store.document[e].status # "none"}}
    [] w.kind = "delete" ->
         {[store EXCEPT !.document[w.document].status = "deleted"]}
    [] w.kind = "retry" -> {[store EXCEPT !.document[w.document].status = "queued"]}
    [] OTHER -> {store}

\* The base is there, in the folder of the request, and so is the document.
Accepted(w) ==
  /\ w.kind # "create" => store.base[w.base] = w.folder
  /\ w.document # None => w.document \in DocumentsOf(store, w.base)
  /\ w.kind = "retry" => store.document[w.document].status = "failed"

\* The finally block, whatever else is under way.
Finished(p) == [p EXCEPT !.busy = FALSE]

\* createBase: the list of the click with the new base, whatever the page lists now.
\* Resetting the form fails then, since the event has lost its target.
ShowCreated(w) ==
  LET b == CHOOSE c \in Bases : store'.base[c] # store.base[c]
  IN  Select([Finished(page) EXCEPT !.bases = Shown(w.seen \cup {b})], b,
             calls.bases, calls.writes \ {w})

WriteAnswered(w) ==
  /\ w \in calls.writes
  /\ Accepted(w)
  /\ store' \in Written(w)
  /\ \/ w.kind = "create" /\ ShowCreated(w)
     \/ /\ w.kind \in {"rename", "delete base"}
        /\ IF page.availability = "available"
           THEN ReloadBases(Finished(page), calls.writes \ {w})
           ELSE page' = Finished(page) /\ calls' = [calls EXCEPT !.writes = @ \ {w}]
     \/ /\ w.kind \in {"upload", "update", "delete", "retry"}
        /\ ReloadDocuments(Finished(page), calls.writes \ {w})
     \/ /\ w.kind = "download"
        /\ page' = Finished(page)
        /\ calls' = [calls EXCEPT !.writes = @ \ {w}]

\* Refused, or done and the answer lost; the page only shows the message.
WriteFails(w) ==
  /\ w \in calls.writes
  /\ \/ UNCHANGED store
     \/ Accepted(w) /\ store' \in Written(w)
  /\ page' = Finished(page)
  /\ calls' = [calls EXCEPT !.writes = @ \ {w}]

\* The Control Plane indexes a document.
Index(d) ==
  /\ store.document[d].status = "queued"
  /\ \E status \in {"ready", "failed"} : store' = [store EXCEPT !.document[d].status = status]
  /\ UNCHANGED <<page, calls>>

-----------------------------------------------------------------------------
\* The first folder has one base with the first document, if there may be one.
Init ==
  /\ page = [folder |-> CHOOSE f \in Folders : TRUE, availability |-> "loading",
             bases |-> Loading, selected |-> None, documents |-> Shown({}),
             tab |-> "documents", passages |-> None, citation |-> None, search |-> None,
             busy |-> FALSE]
  /\ calls = [bases |-> {}, documents |-> {}, passages |-> {}, searches |-> {}, writes |-> {}]
  /\ store = [base |-> [b \in Bases |-> IF b = 1 THEN CHOOSE f \in Folders : TRUE ELSE "none"],
              document |-> [d \in Documents |->
                IF d = 1 THEN [base |-> 1, status |-> "queued"]
                ELSE [base |-> None, status |-> "none"]]]

Next ==
  \/ AvailabilityAnswered \/ Poll \/ RetryBases \/ RetryDocuments
  \/ \E f \in Folders : SelectFolder(f)
  \/ \E b \in Bases : SelectBase(b)
  \/ \E tab \in {"documents", "search"} : SetTab(tab)
  \/ \E d \in Documents : ShowPassages(d) \/ OpenCitation(d) \/ Index(d)
  \/ ClosePassages \/ CloseCitation
  \/ Managing /\ \E bases \in SUBSET page.bases.data : ExecuteSearch(bases)
  \/ CreateBase \/ UpdateBase \/ DeleteBase \/ UploadDocument
  \/ OnDocuments /\ \E d \in page.documents.data : OnDocument(d)
  \/ \E q \in calls.bases : BasesAnswered(q) \/ BasesFail(q)
  \/ \E q \in calls.documents : DocumentsAnswered(q) \/ DocumentsFail(q)
  \/ \E kind \in {"bases", "documents"} : \E q \in calls[kind] : Aborted(kind, q)
  \/ \E q \in calls.passages : PassagesAnswered(q)
  \/ \E q \in calls.searches : SearchAnswered(q)
  \/ \E w \in calls.writes : WriteAnswered(w) \/ WriteFails(w)

Spec == Init /\ [][Next]_vars

-----------------------------------------------------------------------------
(* Properties.                                                             *)

TypeOK ==
  /\ page.folder \in Folders
  /\ page.availability \in {"loading", "error", "unavailable", "available"}
  /\ page.bases.status \in {"loading", "error", "success"}
  /\ page.documents.status \in {"loading", "error", "success"}
  /\ page.selected \in Bases \cup {None}
  /\ page.citation \in Documents \cup {None}
  /\ page.busy \in BOOLEAN

\* The documents on the page are those of the selected base, however fast the user moves
\* between folders and bases, and whichever of their lists arrives last.
DocumentsAreOfSelected ==
  page.documents.status = "success" =>
    \A d \in page.documents.data :
      store.document[d.id].base = page.selected

\* Buttons that are disabled have an operation under way, whose end enables them again.
BusyHasWrite == page.busy => calls.writes # {}

\* The comment of the effect that lists the bases: what a folder holds is not shown once
\* the user has gone to another one.
BasesAreOfFolder ==
  page.bases.status = "success" =>
    \A b \in page.bases.data : store.base[b] \in {page.folder, "deleted"}

=============================================================================
