----------------------------- MODULE MCIndexJob -----------------------------
(***************************************************************************)
(* IndexJob and its abstract lock, for TLC.                                *)
(***************************************************************************)
EXTENDS IndexJobLock, TLC

\* The slots are interchangeable: every constant and every action treats them
\* alike.  Used only where no liveness property is checked.
Slots == Permutations(Workers)
=============================================================================
