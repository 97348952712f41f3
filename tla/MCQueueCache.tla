---------------------------- MODULE MCQueueCache ----------------------------
(* Small instances of QueueCache for TLC.                                  *)
EXTENDS QueueCache

CONSTANTS n1, n2, n3, r1, r2
=============================================================================
