------------------------------ MODULE MCCanvas ------------------------------
(* Instances of CanvasService for TLC.                                     *)
EXTENDS CanvasService, TLC

CONSTANTS c1, c2, publish1, publish2, publish3, hash1, hash2

\* Calls, keys and hashes are interchangeable.
Interchangeable == Permutations(Calls) \cup Permutations(Keys) \cup Permutations(Hashes)

=============================================================================
