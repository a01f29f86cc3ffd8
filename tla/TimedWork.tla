------------------------------ MODULE TimedWork ------------------------------
(***************************************************************************)
(* What the platform does at a time its user has chosen: a scheduled       *)
(* notification and an automation, in one API process.  A restart of that  *)
(* process takes both along: the lifespan recovers the notifications and   *)
(* starts a new poller, and nobody resumes the executions.  They meet      *)
(* nowhere else, so a user with one of the two is enough to look at.       *)
(***************************************************************************)
EXTENDS ScheduledNotice, Automation

CONSTANT MaxItems  \* BOUND: how many of the two the user has

ASSUME ItemsAssumption == MaxItems \in 1 .. 2

vars == <<nvars, avars>>

Init == NoticeInit /\ AutomationInit

\* The restart is the one step they share.
ApiRestarts ==
  ApiDies /\ Forgets /\ UNCHANGED <<auto, ended, edits, instants, taken, polled, moved, open>>

NoticeSteps == NoticeNext /\ UNCHANGED avars
AutomationSteps == AutomationNext /\ UNCHANGED nvars

WithinBound == MaxItems = 1 => ~(row.made /\ auto.made)

Next == (NoticeSteps \/ AutomationSteps \/ ApiRestarts) /\ WithinBound'

Spec == Init /\ [][Next]_vars /\ NoticeFairness

TypeOK == NoticeTypeOK /\ AutomationTypeOK
=============================================================================
