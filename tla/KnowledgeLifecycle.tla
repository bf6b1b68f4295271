------------------------- MODULE KnowledgeLifecycle -------------------------
(***************************************************************************)
(* What the knowledge provider promises about a document, as its clients   *)
(* see it: the index state machine of ADR 0011 (upload -> queued ->        *)
(* indexing -> ready or failed, failed -> retry -> queued), and that       *)
(* metadata written while an index is being built is never overtaken by    *)
(* the older index.                                                        *)
(*                                                                         *)
(* wanted numbers the metadata a client has written, shown the metadata    *)
(* the searchable index was built from.                                    *)
(***************************************************************************)
EXTENDS Naturals

CONSTANTS Docs

VARIABLES status, wanted, shown

vars == <<status, wanted, shown>>

Move(d, from, to) == status[d] \in from /\ status' = [status EXCEPT ![d] = to]

Init ==
  /\ status = [d \in Docs |-> "absent"]
  /\ wanted = [d \in Docs |-> 0]
  /\ shown = [d \in Docs |-> 0]

Upload(d) ==
  /\ Move(d, {"absent"}, "queued")
  /\ wanted' = [wanted EXCEPT ![d] = 1]
  /\ UNCHANGED shown

\* Writing metadata sends the document back to the queue, whatever it was doing.
WriteMetadata(d) ==
  /\ Move(d, {"queued", "indexing", "ready", "failed"}, "queued")
  /\ wanted' = [wanted EXCEPT ![d] = @ + 1]
  /\ UNCHANGED shown

BeginIndexing(d) == Move(d, {"queued"}, "indexing") /\ UNCHANGED <<wanted, shown>>

\* An index is published over the newest metadata only.
Publish(d) ==
  /\ Move(d, {"indexing"}, "ready")
  /\ shown' = [shown EXCEPT ![d] = wanted[d]]
  /\ UNCHANGED wanted

\* Superseded by newer metadata, or recovered after a restart.
QueueAgain(d) == Move(d, {"indexing"}, "queued") /\ UNCHANGED <<wanted, shown>>

\* An index run that fails, or that a restart recovers no more.
GiveUp(d) == Move(d, {"queued", "indexing"}, "failed") /\ UNCHANGED <<wanted, shown>>

Retry(d) == Move(d, {"failed"}, "queued") /\ UNCHANGED <<wanted, shown>>

\* A document that is being indexed is not deleted.
Delete(d) ==
  /\ Move(d, {"queued", "ready", "failed"}, "absent")
  /\ wanted' = [wanted EXCEPT ![d] = 0]
  /\ shown' = [shown EXCEPT ![d] = 0]

\* A restart moves several documents at once; everything else moves one.
Recover ==
  /\ \A d \in Docs : \/ status'[d] = status[d]
                     \/ status[d] = "indexing" /\ status'[d] = "queued"
                     \/ status[d] \in {"queued", "indexing"} /\ status'[d] = "failed"
  /\ status' \in [Docs -> {"absent", "queued", "indexing", "ready", "failed"}]
  /\ UNCHANGED <<wanted, shown>>

Next ==
  \/ \E d \in Docs : \/ Upload(d) \/ WriteMetadata(d) \/ BeginIndexing(d) \/ Publish(d)
                     \/ QueueAgain(d) \/ GiveUp(d) \/ Retry(d) \/ Delete(d)
  \/ Recover

Spec == Init /\ [][Next]_vars

=============================================================================
