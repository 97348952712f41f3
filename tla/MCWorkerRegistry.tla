-------------------------- MODULE MCWorkerRegistry --------------------------
(* Small instances of WorkerRegistry for TLC.                              *)
EXTENDS WorkerRegistry, TLC

CONSTANTS a, b, q1, q2, v1, v2, bad

\* Queue names are interchangeable, and so are versions that are not poison.
QueueSymmetry == Permutations({q1, q2})
Symmetric == Permutations({q1, q2}) \cup Permutations({v1, v2})
=============================================================================
