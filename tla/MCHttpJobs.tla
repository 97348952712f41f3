---------------------------- MODULE MCHttpJobs ----------------------------
(* Small instances of HttpJobs for TLC.                                    *)
EXTENDS HttpJobs, TLC

CONSTANTS r1, r2, j1, j2, a1, t1, t2

Symmetry == Permutations(Request) \cup Permutations(Job)
=============================================================================
