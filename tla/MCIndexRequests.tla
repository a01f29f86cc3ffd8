-------------------------- MODULE MCIndexRequests --------------------------
(* Instances of IndexRequests for TLC. *)
EXTENDS IndexRequests

Alike == Permutations(Requests)

\* Where TLC looks no further: the invariants say nothing about what follows
\* their causes, and once every request has its answer only executors go on,
\* which they also do while a request has not begun.
WorthPursuing ==
  causes = {} /\ \E r \in Requests : req[r].pc \notin {"done", "refused"}
=============================================================================
