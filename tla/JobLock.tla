------------------------------ MODULE JobLock ------------------------------
(***************************************************************************)
(* What the execution lease and the terminal claim of a document_index     *)
(* job promise together: a lock that has at most one owner, is not taken   *)
(* again once the job is settled, and is settled once, by its owner.       *)
(*                                                                         *)
(* document_index_coordinator.py: one job, at most one executor globally;  *)
(* _try_claim_index_job_terminal: only one executor makes the terminal     *)
(* transition and sends the notification.                                  *)
(***************************************************************************)
CONSTANTS Workers, NoOne

VARIABLES
  owner,    \* the executor between try_begin_execution and end_execution
  settled   \* the terminal transition has been made

lockvars == <<owner, settled>>

Init == owner = NoOne /\ settled = FALSE

\* try_begin_execution returns True.
Acquire(w) ==
  /\ owner = NoOne /\ ~settled
  /\ owner' = w /\ UNCHANGED settled

\* _try_claim_index_job_terminal returns True, to the one who runs the job.
Settle ==
  /\ owner # NoOne /\ ~settled
  /\ settled' = TRUE /\ UNCHANGED owner

\* end_execution, or the executor is no more.
Release(w) ==
  /\ owner = w
  /\ owner' = NoOne /\ UNCHANGED settled

Next == Settle \/ \E w \in Workers : Acquire(w) \/ Release(w)

Spec == Init /\ [][Next]_lockvars

\* Nobody keeps the lock for ever.
Returned == \A w \in Workers : (owner = w) ~> (owner # w)

FairSpec == Spec /\ Returned
=============================================================================
