--------------------------- MODULE MCQueueSession ---------------------------
(* Instances of QueueSession for TLC.                                      *)
EXTENDS QueueSession

MCAnswer == [call : Call, ok : BOOLEAN]
=============================================================================
