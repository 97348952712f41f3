----------------------------- MODULE MCWsWorker -----------------------------
(* Small instances of WsWorker for TLC.                                    *)
EXTENDS WsWorker, TLC

CONSTANTS j1, j2

Answers == Job \X Broker \X BOOLEAN
JobSymmetry == Permutations({j1, j2})
=============================================================================
