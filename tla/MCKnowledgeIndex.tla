-------------------------- MODULE MCKnowledgeIndex --------------------------
(* Instances of KnowledgeIndex for TLC.                                    *)
EXTENDS KnowledgeIndex, TLC

CONSTANTS d1, d2, kbs, t1, t2, file1

\* Every document belongs to one collection.
OneCollection == [d \in Docs |-> kbs]

\* The handler threads are interchangeable.
HandlerThreads == Permutations(Threads)

=============================================================================
