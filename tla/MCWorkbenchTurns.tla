-------------------------- MODULE MCWorkbenchTurns --------------------------
(* Instances of WorkbenchTurns for TLC.                                    *)
EXTENDS WorkbenchTurns, TLC

CONSTANTS s1, s2

=============================================================================
