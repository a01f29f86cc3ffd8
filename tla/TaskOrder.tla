----------------------------- MODULE TaskOrder -----------------------------
(***************************************************************************)
(* What a task graph promises, whoever schedules it: a task starts once,   *)
(* when everything it depends on is done; it comes back done or failed; a  *)
(* task that never starts depends on a failed one.  Any number of tasks    *)
(* may take such a step at a time.                                         *)
(*                                                                         *)
(* agent/orchestrate/dag.py (ready_nodes, blocked_by_failure); what the    *)
(* planner tells the LLM of depends_on (services/agent_task_dag_planner.py *)
(* 282-290).                                                               *)
(***************************************************************************)
CONSTANT Nodes

VARIABLES deps, fate

ordervars == <<deps, fate>>

Fates == {"waiting", "started", "done", "failed"}

Init ==
  /\ deps \in [Nodes -> SUBSET Nodes]
  /\ fate = [n \in Nodes |-> "waiting"]

MayStart(n) == fate[n] = "waiting" /\ \A d \in deps[n] : fate[d] = "done"
MayFail(n)  == fate[n] = "waiting" /\ \E d \in deps[n] : fate[d] = "failed"

\* What may become of a task in one step.
Moves(n, to) ==
  \/ to = fate[n]
  \/ to = "started" /\ MayStart(n)
  \/ to \in {"done", "failed"} /\ fate[n] = "started"
  \/ to = "failed" /\ MayFail(n)

Next ==
  /\ \E to \in [Nodes -> Fates] : fate' = to /\ \A n \in Nodes : Moves(n, to[n])
  /\ UNCHANGED deps

Spec == Init /\ [][Next]_ordervars
=============================================================================
