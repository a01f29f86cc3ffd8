----------------------------- MODULE MCTaskDag -----------------------------
(***************************************************************************)
(* The task graph for TLC, and the cycle test as the code does it: a       *)
(* depth-first search over depends_on with a visiting and a visited set.   *)
(***************************************************************************)
EXTENDS TaskDag, TLC

\* dfs(nid) of _has_cycle: the sets it leaves, and whether it met a node that is
\* still being visited.  A cycle ends the search at once.
RECURSIVE Dfs(_, _, _, _)
Dfs(d, s, n, todo) ==
  IF s.cycle THEN s
  ELSE IF todo = {} THEN [s EXCEPT !.visiting = @ \ {n}, !.visited = @ \cup {n}]
  ELSE LET m == CHOOSE x \in todo : \A y \in todo : x <= y
           after == IF m \in s.visited THEN s
                    ELSE IF m \in s.visiting THEN [s EXCEPT !.cycle = TRUE]
                    ELSE Dfs(d, [s EXCEPT !.visiting = @ \cup {m}], m, d[m])
       IN Dfs(d, after, n, todo \ {m})

\* any(dfs(n.id) for n in self.nodes): a root above all the nodes.
HasCycle(d) == Dfs(d, [visiting |-> {}, visited |-> {}, cycle |-> FALSE], 0, Nodes).cycle

\* The search agrees with the definition of an acyclic graph on every plan the
\* LLM could write for these nodes; the model's plans are those it lets pass.
ASSUME SearchFindsCycles ==
  \A d \in [Nodes -> SUBSET Nodes] : HasCycle(d) <=> ~Acyclic(d)
=============================================================================
