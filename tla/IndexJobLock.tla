---------------------------- MODULE IndexJobLock ----------------------------
(***************************************************************************)
(* IndexJob implements JobLock as long as nothing weakens the lease: the   *)
(* owner is the slot that is between try_begin_execution and               *)
(* end_execution, and the job is settled once a terminal transition has    *)
(* been claimed.                                                           *)
(***************************************************************************)
EXTENDS IndexJob

CONSTANT NoOne   \* no slot

ASSUME NoOneAssumption == NoOne \notin Workers

Owner == IF \E w \in Workers : Holding(w) THEN CHOOSE w \in Workers : Holding(w) ELSE NoOne

Lock == INSTANCE JobLock WITH owner <- Owner, settled <- notified > 0

\* The executors of an index job are JobLock's workers: they take the lock one
\* at a time, whoever holds it settles the job at most once, nobody takes it
\* after that, and nobody keeps it for ever.
ImplementsLock == Lock!FairSpec
=============================================================================
