--------------------------- MODULE MCHttpWorker ---------------------------
(* Small instances of HttpWorker for TLC.                                  *)
EXTENDS HttpWorker

CONSTANTS j1, j2, w1, w2, s1, s2
=============================================================================
