------------------------------ MODULE TaskDag ------------------------------
(***************************************************************************)
(* The orchestrator's task graph: the plan the LLM writes is checked, then *)
(* scheduled wave by wave, and the tasks' replies are put together         *)
(* (agent/orchestrate/dag.py, scheduler.py, parallel.py,                   *)
(* services/agent_task_dag_planner.py, services/agent_supervisor.py).      *)
(*                                                                         *)
(* A node's task is one hop of a specialist, a single LLM answer and its   *)
(* calls; what it comes back with is a choice.  Goals, titles and prompts  *)
(* are not modelled; a reply is there or is not.                           *)
(***************************************************************************)
EXTENDS Naturals, FiniteSets

CONSTANTS
  Count,        \* the nodes left of the plan, at most agent_max_dag_nodes
  MaxParallel   \* agent_max_parallel_handoffs

ASSUME DagAssumption == {Count, MaxParallel} \subseteq Nat \ {0}

Nodes == 1..Count   \* in the order of the plan

VARIABLES
  deps,    \* depends_on of each node
  status,  \* NodeStatus
  error,   \* last_error
  got,     \* what the hop of a node came back with
  waves,   \* safety
  where,   \* the scheduler: loop, wave, exit, drained, answered, cut
  final    \* the reply of the complete event

vars == <<deps, status, error, got, waves, where, final>>

Got == {"answer", "apology", "evidence", "nothing"}

(***************************************************************************)
(* The plan.                                                               *)
(***************************************************************************)

\* _has_cycle finds none: every set of nodes has one that waits for none of it.
Acyclic(d) == \A S \in SUBSET Nodes : S # {} => \E n \in S : d[n] \cap S = {}

NoDeps == [n \in Nodes |-> {}]

\* The ids depends_on may name, one the plan does not have among them.
Ids == Nodes \cup {0}

\* Mutant of Parsed: only the own id is taken out.
ParsedUnknownKept(raw) ==
  LET known == [n \in Nodes |-> raw[n] \ {n}]
  IN IF Acyclic(known) THEN known ELSE NoDeps

\* Unknown and own ids are taken out; a cycle turns the plan into tasks without
\* dependencies.
Parsed(raw) ==
  LET known == [n \in Nodes |-> (raw[n] \cap Nodes) \ {n}]
  IN IF Acyclic(known) THEN known ELSE NoDeps

Init ==
  /\ \E raw \in [Nodes -> SUBSET Ids] : deps = Parsed(raw)
  /\ status = [n \in Nodes |-> "pending"]
  /\ error = [n \in Nodes |-> "none"]
  /\ got = [n \in Nodes |-> "none"]
  /\ waves = 0
  /\ where = "loop" /\ final = "none"

(***************************************************************************)
(* The scheduler.                                                          *)
(***************************************************************************)

Having(s) == {n \in Nodes : status[n] = s}

AllTerminal == \A n \in Nodes : status[n] \in {"done", "failed"}

\* Mutant of CanStart: one dependency is enough.
StartsOnOne ==
  {n \in Having("pending") : deps[n] = {} \/ \E d \in deps[n] : status[d] = "done"}

\* Mutant of CanStart: a failed dependency is settled too.
StartsOnSettled ==
  {n \in Having("pending") : \A d \in deps[n] : status[d] \in {"done", "failed"}}

\* ready_nodes, without its limit.
CanStart == {n \in Having("pending") : \A d \in deps[n] : status[d] = "done"}

\* Mutant of Ready: the limit is not applied.
ReadyUnlimited == CanStart

\* ready_nodes: the first of them, in the order of the plan.
Ready == {n \in CanStart : Cardinality({m \in CanStart : m < n}) < MaxParallel}

\* blocked_by_failure: a direct dependency has failed.
Blocked == {n \in Having("pending") : \E d \in deps[n] : status[d] = "failed"}

\* Mutant of MaxWaves: a wave for each MaxParallel nodes.
WavesOfFullWidth == 1 + Count \div MaxParallel

MaxWaves == Count + 2

Enters == where = "loop" /\ ~AllTerminal /\ waves < MaxWaves

\* The ready nodes are marked running and their tasks are created.
StartWave ==
  /\ Enters /\ Ready # {}
  /\ status' = [n \in Nodes |-> IF n \in Ready THEN "running" ELSE status[n]]
  /\ waves' = waves + 1
  /\ where' = "wave"
  /\ UNCHANGED <<deps, error, got, final>>

Fail(S, why) ==
  /\ status' = [n \in Nodes |-> IF n \in S THEN "failed" ELSE status[n]]
  /\ error' = [n \in Nodes |-> IF n \in S THEN why ELSE error[n]]

\* Nothing can start: what a failure blocks is failed, one generation at a
\* time; else the graph is stuck, and the loop is left.
NothingReady ==
  /\ Enters /\ Ready = {}
  /\ waves' = waves + 1
  /\ IF Blocked # {}
     THEN Fail(Blocked, "blocked by upstream failure") /\ UNCHANGED where
     ELSE Fail(Having("pending"), "scheduler stuck") /\ where' = "exit"
  /\ UNCHANGED <<deps, got, final>>

\* The hop of a running node ends.  Text from a specialist without tools, or
\* after the nudges, is an answer; a step that called tools, and one that is
\* nudged, has no reply; an exception and an empty choice have an apology.
Returns(n, what) ==
  /\ where = "wave" /\ status[n] = "running" /\ got[n] = "none"
  /\ got' = [got EXCEPT ![n] = what]
  /\ UNCHANGED <<deps, status, error, waves, where, final>>

\* A reply is all a node needs to be done.
Satisfied(n) == got[n] \in {"answer", "apology"}

\* Mutant of SettleWave: only done nodes are settled.
SettleOnlyDone ==
  /\ where = "wave" /\ \A n \in Having("running") : got[n] # "none"
  /\ LET failed == {n \in Having("running") : ~Satisfied(n)} IN
     /\ status' = [n \in Nodes |->
          IF status[n] # "running" THEN status[n] ELSE IF n \in failed THEN "pending" ELSE "done"]
     /\ error' = [n \in Nodes |-> IF n \in failed THEN "task produced no reply" ELSE error[n]]
  /\ where' = "loop"
  /\ UNCHANGED <<deps, got, waves, final>>

\* Mutant of SettleWave: a task without a reply puts no "done" in the queue.
SettleWhenAllReply ==
  /\ where = "wave" /\ \A n \in Having("running") : Satisfied(n)
  /\ status' = [n \in Nodes |-> IF status[n] = "running" THEN "done" ELSE status[n]]
  /\ where' = "loop"
  /\ UNCHANGED <<deps, error, got, waves, final>>

\* Every task of the wave has put its "done" in the queue.
SettleWave ==
  /\ where = "wave" /\ \A n \in Having("running") : got[n] # "none"
  /\ LET failed == {n \in Having("running") : ~Satisfied(n)} IN
     /\ status' = [n \in Nodes |->
          IF status[n] # "running" THEN status[n] ELSE IF n \in failed THEN "failed" ELSE "done"]
     /\ error' = [n \in Nodes |-> IF n \in failed THEN "task produced no reply" ELSE error[n]]
  /\ where' = "loop"
  /\ UNCHANGED <<deps, got, waves, final>>

\* The loop is over; what is left is failed.
Drain ==
  /\ where = "exit" \/ (where = "loop" /\ ~Enters)
  /\ Fail({n \in Nodes : status[n] \in {"pending", "running"}}, "incomplete at scheduler exit")
  /\ where' = "drained"
  /\ UNCHANGED <<deps, got, waves, final>>

\* The done nodes' replies, synthesised or joined; without one, a sentence about
\* the failed nodes.
Answers ==
  /\ where = "drained"
  /\ final' = IF Having("done") # {} THEN "synthesis"
              ELSE IF Having("failed") # {} THEN "failures" ELSE "none"
  /\ where' = "answered"
  /\ UNCHANGED <<deps, status, error, got, waves>>

\* The client has gone: raise_if_stream_cancelled at the next event.
Cut ==
  /\ where \notin {"answered", "cut"}
  /\ where' = "cut"
  /\ UNCHANGED <<deps, status, error, got, waves, final>>

Scheduler == StartWave \/ NothingReady \/ SettleWave \/ Drain \/ Answers

Next ==
  \/ Scheduler
  \/ \E n \in Nodes, what \in Got : Returns(n, what)
  \/ Cut

Spec == Init /\ [][Next]_vars

Fairness ==
  /\ WF_vars(Scheduler)
  /\ \A n \in Nodes : WF_vars(\E what \in Got : Returns(n, what))

FairSpec == Spec /\ Fairness

(***************************************************************************)
(* Properties.                                                             *)
(***************************************************************************)

Errors == {"none", "blocked by upstream failure", "scheduler stuck",
           "task produced no reply", "incomplete at scheduler exit"}

TypeOK ==
  /\ deps \in [Nodes -> SUBSET Nodes]
  /\ status \in [Nodes -> {"pending", "running", "done", "failed"}]
  /\ error \in [Nodes -> Errors]
  /\ got \in [Nodes -> Got \cup {"none"}]
  /\ waves \in 0..MaxWaves
  /\ where \in {"loop", "wave", "exit", "drained", "answered", "cut"}
  /\ final \in {"none", "synthesis", "failures"}

\* The scheduler's two ways out that its comments call impossible are: the graph
\* never gets stuck, and Count + 2 rounds of the loop are enough for every
\* graph, however its failures spread.
NeverGivesUp ==
  \A n \in Nodes : error[n] \notin {"scheduler stuck", "incomplete at scheduler exit"}

\* A task sees the conclusions of all its upstream tasks: whatever has been
\* started has only done dependencies, until the end.
UpstreamFirst ==
  \A n \in Nodes : status[n] \in {"running", "done"} \/ got[n] # "none"
                     => \A d \in deps[n] : status[d] = "done"

\* At most MaxParallel tasks run at once, whatever else could start.
WithinLimit == Cardinality(Having("running")) <= MaxParallel

\* A node that never ran has a failed dependency: a failure stops what depends
\* on it and nothing else.
OnlyFailuresBlock ==
  where \in {"drained", "answered"} =>
    \A n \in Nodes : got[n] = "none" <=> \E d \in deps[n] : status[d] = "failed"

\* The turn has an answer to show, unless the client has gone.
TurnAnswered == <>(where \in {"answered", "cut"} /\ (where = "answered" => final # "none"))

Order == INSTANCE TaskOrder WITH
           fate <- [n \in Nodes |-> IF status[n] = "pending" THEN "waiting"
                                    ELSE IF status[n] = "running" THEN "started" ELSE status[n]]

\* The wave scheduler keeps the promise of TaskOrder.
ImplementsOrder == Order!Spec

\* agent_tool_loop.py:2840: a specialist that has its evidence hands it to the
\* parent, who writes the answer.  Whatever the tasks' tools found is among the
\* results the final reply is made of.
EvidenceIsUsed ==
  where = "answered" => \A n \in Nodes : got[n] = "evidence" => status[n] = "done"
=============================================================================
