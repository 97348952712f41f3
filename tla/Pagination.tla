----------------------------- MODULE Pagination -----------------------------
(***************************************************************************)
(* The pages of getJobs (queue-http-controller.ts) and getLogs             *)
(* (worker-job-http-controller.ts): what a client that asks for page after *)
(* page is sent.  Both turn start and length into the range start ..       *)
(* start + length - 1 of Redis lists, one list for each status.            *)
(***************************************************************************)
EXTENDS Integers, Sequences, FiniteSets

CONSTANTS
  Limit, \* 100 in validatePagination
  NaN    \* what parseInt makes of no number

ASSUME PaginationAssumption == Limit \in Nat /\ NaN \notin Int

\* LRANGE: an end of -1 is the last entry, an end past it too.
Lrange(n, first, last) ==
  LET end == IF last < 0 THEN n + last ELSE last IN
  [i \in 1 .. (IF end >= n THEN n ELSE end + 1) - first |-> first + i]

\* Mutant: the end of the range is the start of the next page.
LastShared(from, len) == from + len

\* Mutant: the end of the range is taken for exclusive once more.
LastExclusive(from, len) == from + len - 2

Last(from, len) == from + len - 1

\* Mutant: the length has no bound.
validateSigns(from, len) == from # NaN /\ len # NaN /\ from >= 0 /\ len >= 0

validatePagination(from, len) ==
  /\ from # NaN /\ len # NaN
  /\ from >= 0 /\ len >= 0
  /\ len <= Limit

Refused(size) == [s \in DOMAIN size |-> <<-1>>]

\* queue.getJobs(statuses, start, start + length - 1) of lists of these sizes;
\* getJobLogs likewise.  The statuses asked for are valid ones.
Page(size, start, length) ==
  IF validatePagination(start, length)
  THEN [s \in DOMAIN size |-> Lrange(size[s], start, Last(start, length))]
  ELSE Refused(size)
=============================================================================
