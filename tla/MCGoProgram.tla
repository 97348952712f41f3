----------------------------- MODULE MCGoProgram -----------------------------
(* Small instances of GoProgram for TLC.                                   *)
EXTENDS GoProgram

CONSTANTS c1, c2

MCAnswer == [job : Job, ok : BOOLEAN]
=============================================================================
