--------------------------- MODULE TaskDagProofs ---------------------------
(***************************************************************************)
(* The task graph for every plan, every number of nodes and every limit:   *)
(* the type invariant, the safety properties of TaskDag and the refinement *)
(* of TaskOrder.                                                           *)
(*                                                                         *)
(* DagInv, the inductive invariant, says what a status means: which error  *)
(* and which result go with it and what is known of the dependencies       *)
(* (StatusMeans), where the scheduler may be (Position), and that every    *)
(* round of its loop has settled a node (Progress).  That the graph is     *)
(* never stuck needs the dependencies to be acyclic, that the rounds are   *)
(* enough needs Progress.                                                  *)
(***************************************************************************)
EXTENDS TaskDag, FiniteSetTheorems, TLAPS

Settled == {n \in Nodes : status[n] \in {"done", "failed"}}

\* What the status s of node n says of its error e and its result g.
Meaning(n, dd, s, e, g) ==
  /\ s[n] = "pending" => g[n] = "none" /\ e[n] = "none"
  /\ s[n] = "running" => e[n] = "none"
  /\ s[n] = "done" => g[n] \in {"answer", "apology"} /\ e[n] = "none"
  /\ s[n] = "failed" =>
       \/ e[n] = "task produced no reply" /\ g[n] \in {"evidence", "nothing"}
       \/ /\ e[n] = "blocked by upstream failure" /\ g[n] = "none"
          /\ \E d \in dd[n] : s[d] = "failed"

StatusMeans == \A n \in Nodes : Meaning(n, deps, status, error, got)

\* Nodes run in a wave only, the loop is never left early, and at its end every
\* node is settled.
Position ==
  /\ where \notin {"wave", "cut"} => Having("running") = {}
  /\ where # "exit"
  /\ where \in {"drained", "answered"} => AllTerminal

\* Every round of the loop settles a node: the rounds are counted by them.
Progress ==
  /\ where = "loop" => waves <= Cardinality(Settled)
  /\ where = "wave" => waves <= Cardinality(Settled) + 1 /\ Having("running") # {}

DagInv ==
  /\ TypeOK
  /\ Acyclic(deps)
  /\ StatusMeans
  /\ Position
  /\ Progress
  /\ UpstreamFirst
  /\ WithinLimit

(***************************************************************************)
(* Finite sets of nodes.                                                   *)
(***************************************************************************)

LEMMA Numbers == Count \in Nat \ {0} /\ MaxParallel \in Nat \ {0}
  BY DagAssumption

\* Sets of nodes are finite, with at most Count members.
LEMMA NodeSets ==
  ASSUME NEW S, S \subseteq Nodes
  PROVE  IsFiniteSet(S) /\ Cardinality(S) \in Nat /\ Cardinality(S) <= Count
<1>1. IsFiniteSet(Nodes) /\ Cardinality(Nodes) = Count
  BY Numbers, FS_Interval DEF Nodes
<1>2. IsFiniteSet(S) /\ Cardinality(S) <= Cardinality(Nodes)
  BY <1>1, FS_Subset
<1> QED
  BY <1>1, <1>2, FS_CardinalityType

\* A set that gains a node has more members.
LEMMA Grows ==
  ASSUME NEW S, NEW T, S \subseteq T, T \subseteq Nodes, S # T
  PROVE  Cardinality(S) + 1 <= Cardinality(T)
<1>1. IsFiniteSet(T) /\ Cardinality(S) \in Nat /\ Cardinality(T) \in Nat
  BY NodeSets
<1>2. S \in SUBSET T
  OBVIOUS
<1>3. Cardinality(S) <= Cardinality(T) /\ Cardinality(S) # Cardinality(T)
  BY <1>1, <1>2, FS_Subset
<1> QED
  BY <1>1, <1>3

\* The members of S that come before n.
Before(S, n) == {m \in S : m < n}

LEMMA BeforeGrows ==
  ASSUME NEW S, S \subseteq Nodes, NEW a \in S, NEW b \in S, a < b
  PROVE  Cardinality(Before(S, a)) + 1 <= Cardinality(Before(S, b))
<1>1. a \in Nat /\ b \in Nat /\ S \subseteq Nat
  BY DEF Nodes
<1>2. ASSUME NEW m \in Before(S, a) PROVE m \in Before(S, b)
  <2>1. m \in S /\ m \in Nat /\ m < a
    BY <1>1 DEF Before
  <2>2. m < b
    BY <1>1, <2>1
  <2> QED
    BY <2>1, <2>2 DEF Before
<1>3. a \in Before(S, b) /\ a \notin Before(S, a)
  BY <1>1 DEF Before
<1>4. Before(S, b) \subseteq Nodes
  BY DEF Before
<1> QED
  BY <1>2, <1>3, <1>4, Grows

\* The first k of a set are at most k.
LEMMA FirstOnes ==
  ASSUME NEW S, S \subseteq Nodes, NEW k \in Nat \ {0}
  PROVE  Cardinality({n \in S : Cardinality(Before(S, n)) < k}) <= k
<1> DEFINE T == {n \in S : Cardinality(Before(S, n)) < k}
           f == [n \in T |-> Cardinality(Before(S, n))]
<1>1. \A n \in S : Cardinality(Before(S, n)) \in Nat
  BY NodeSets DEF Before
<1>2. f \in [T -> 0..(k - 1)]
  BY <1>1
<1>3. ASSUME NEW a \in T, NEW b \in T, f[a] = f[b]
      PROVE  a = b
  <2>1. a \in Nat /\ b \in Nat /\ a \in S /\ b \in S
    BY DEF Nodes
  <2>2. Cardinality(Before(S, a)) = Cardinality(Before(S, b))
    BY <1>3
  <2>3. Cardinality(Before(S, a)) \in Nat
    BY <1>1, <2>1
  <2>4. ~ (a < b)
    <3>1. SUFFICES ASSUME a < b PROVE FALSE
      OBVIOUS
    <3>2. Cardinality(Before(S, a)) + 1 <= Cardinality(Before(S, b))
      BY <2>1, <3>1, BeforeGrows
    <3> QED
      BY <2>2, <2>3, <3>2
  <2>5. ~ (b < a)
    <3>1. SUFFICES ASSUME b < a PROVE FALSE
      OBVIOUS
    <3>2. Cardinality(Before(S, b)) + 1 <= Cardinality(Before(S, a))
      BY <2>1, <3>1, BeforeGrows
    <3> QED
      BY <2>2, <2>3, <3>2
  <2> QED
    BY <2>1, <2>4, <2>5
<1>4. f \in Injection(T, 0..(k - 1))
  BY <1>2, <1>3 DEF Injection, IsInjective
<1>5. IsFiniteSet(0..(k - 1)) /\ Cardinality(0..(k - 1)) = k
  BY FS_Interval
<1> QED
  BY <1>4, <1>5, FS_Injection

\* A set of nodes has a first one.
LEMMA FirstOne ==
  ASSUME NEW S, S \subseteq Nodes, S # {}
  PROVE  \E n \in S : Before(S, n) = {}
<1> DEFINE R == StrictSubsetOrdering(Nodes)
           P == {Before(S, n) : n \in S}
<1>1. P \subseteq SUBSET Nodes /\ P # {}
  BY DEF Before
<1>2. IsFiniteSet(Nodes)
  BY NodeSets
<1>3. FiniteSubsetsOf(Nodes) = SUBSET Nodes
  BY <1>2, FS_FiniteSubsetsOfFinite
<1>4. IsWellFoundedOn(R, SUBSET Nodes)
  BY <1>3, FS_StrictSubsetOrderingWellFounded
<1>5. PICK x \in P : \A y \in P : ~ (<<y, x>> \in R)
  <2> HIDE DEF P, R
  <2> QED
    BY <1>1, <1>4, WFMin
<1>6. PICK n \in S : x = Before(S, n)
  BY <1>5
<1>7. SUFFICES ASSUME NEW m \in x PROVE FALSE
  BY <1>6
<1>8. m \in S /\ m \in Nat /\ n \in Nat /\ m < n
  BY <1>6, <1>7 DEF Before, Nodes
<1>9. Before(S, m) \subseteq x /\ Before(S, m) # x
  <2>1. ASSUME NEW l \in Before(S, m) PROVE l \in x
    <3>1. l \in S /\ l \in Nat /\ l < m
      BY DEF Before, Nodes
    <3>2. l < n
      BY <1>8, <3>1
    <3> QED
      BY <1>6, <3>1, <3>2 DEF Before
  <2>2. m \notin Before(S, m)
    BY <1>8 DEF Before
  <2> QED
    BY <1>7, <2>1, <2>2
<1>10. <<Before(S, m), x>> \in R
  BY <1>1, <1>6, <1>8, <1>9 DEF StrictSubsetOrdering, Before
<1> QED
  BY <1>5, <1>8, <1>10

(***************************************************************************)
(* What can start, and what is blocked.                                    *)
(***************************************************************************)

\* The ready nodes are pending, their dependencies are done, and there are at
\* most MaxParallel of them.
LEMMA ReadyNodes ==
  /\ Ready \subseteq Having("pending")
  /\ \A n \in Ready : \A d \in deps[n] : status[d] = "done"
  /\ Cardinality(Ready) <= MaxParallel
<1>1. CanStart \subseteq Nodes
  BY DEF CanStart, Having
<1>2. Ready = {n \in CanStart : Cardinality(Before(CanStart, n)) < MaxParallel}
  BY DEF Ready, Before
<1>3. Cardinality(Ready) <= MaxParallel
  BY <1>1, <1>2, FirstOnes, Numbers
<1> QED
  BY <1>3 DEF Ready, CanStart

\* If anything can start, something is ready: the first of them.
LEMMA SomeReady ==
  ASSUME CanStart # {}
  PROVE  Ready # {}
<1>1. CanStart \subseteq Nodes
  BY DEF CanStart, Having
<1>2. PICK n \in CanStart : Before(CanStart, n) = {}
  BY <1>1, FirstOne
<1>3. Cardinality(Before(CanStart, n)) < MaxParallel
  BY <1>2, FS_EmptySet, Numbers
<1>4. Cardinality({m \in CanStart : m < n}) < MaxParallel
  BY <1>3 DEF Before
<1> QED
  BY <1>4 DEF Ready

\* The graph is not stuck: between waves, a node that is left can start or is
\* blocked by a failure.
LEMMA NotStuck ==
  ASSUME TypeOK, Acyclic(deps), Having("running") = {}, ~AllTerminal, Ready = {}
  PROVE  Blocked # {}
<1>1. Having("pending") # {} /\ Having("pending") \in SUBSET Nodes
  BY DEF TypeOK, AllTerminal, Having
<1>2. PICK n \in Having("pending") : deps[n] \cap Having("pending") = {}
  BY <1>1 DEF Acyclic
<1>3. n \in Nodes /\ deps[n] \subseteq Nodes
  BY <1>2 DEF Having, TypeOK
<1>4. \A d \in deps[n] : status[d] \in {"done", "failed"}
  BY <1>2, <1>3 DEF TypeOK, Having
<1>5. CASE \E d \in deps[n] : status[d] = "failed"
  BY <1>2, <1>5 DEF Blocked
<1>6. CASE \A d \in deps[n] : status[d] = "done"
  <2>1. n \in CanStart
    BY <1>2, <1>6 DEF CanStart
  <2> QED
    BY <2>1, SomeReady
<1> QED
  BY <1>4, <1>5, <1>6

(***************************************************************************)
(* The invariant.                                                          *)
(***************************************************************************)

LEMMA PlansAcyclic ==
  ASSUME NEW raw \in [Nodes -> SUBSET Ids]
  PROVE  Parsed(raw) \in [Nodes -> SUBSET Nodes] /\ Acyclic(Parsed(raw))
<1> DEFINE known == [n \in Nodes |-> (raw[n] \cap Nodes) \ {n}]
<1>1. Acyclic(NoDeps)
  BY DEF Acyclic, NoDeps
<1>2. known \in [Nodes -> SUBSET Nodes] /\ NoDeps \in [Nodes -> SUBSET Nodes]
  BY DEF NoDeps
<1>3. Parsed(raw) = IF Acyclic(known) THEN known ELSE NoDeps
  BY DEF Parsed
<1> HIDE DEF known
<1> QED
  BY <1>1, <1>2, <1>3

LEMMA InitInv == Init => DagInv
<1> SUFFICES ASSUME Init PROVE DagInv
  OBVIOUS
<1>1. deps \in [Nodes -> SUBSET Nodes] /\ Acyclic(deps)
  BY PlansAcyclic DEF Init
<1>2. TypeOK
  BY <1>1, Numbers DEF Init, TypeOK, Errors, Got, MaxWaves
<1>3. StatusMeans /\ Position /\ UpstreamFirst
  BY DEF Init, StatusMeans, Meaning, Position, UpstreamFirst, Having
<1>4. Having("running") = {}
  BY DEF Init, Having
<1>5. WithinLimit
  BY <1>4, FS_EmptySet, Numbers DEF WithinLimit
<1>6. Progress
  <2>1. Cardinality(Settled) \in Nat
    BY NodeSets DEF Settled
  <2> QED
    BY <2>1 DEF Init, Progress
<1> QED
  BY <1>1, <1>2, <1>3, <1>5, <1>6 DEF DagInv

LEMMA StartWaveInv == DagInv /\ StartWave => DagInv'
<1> SUFFICES ASSUME DagInv, StartWave PROVE DagInv'
  OBVIOUS
<1>1. /\ deps \in [Nodes -> SUBSET Nodes] /\ deps' = deps
      /\ got' = got /\ error' = error
      /\ status' = [n \in Nodes |-> IF n \in Ready THEN "running" ELSE status[n]]
      /\ status \in [Nodes -> {"pending", "running", "done", "failed"}]
      /\ where = "loop" /\ where' = "wave" /\ waves' = waves + 1
      /\ Ready # {}
  BY DEF DagInv, TypeOK, StartWave, Enters
<1>2. Ready \subseteq Nodes /\ (\A n \in Ready : status[n] = "pending")
      /\ (\A n \in Ready : \A d \in deps[n] : status[d] = "done")
  BY ReadyNodes DEF Having
<1>3. Having("running") = {}
  BY <1>1 DEF DagInv, Position
<1>4. \A n \in Nodes : status[n] \in {"done", "failed"} <=> status'[n] \in {"done", "failed"}
  BY <1>1, <1>2
<1>5. \A n \in Nodes : status[n] \in {"done", "failed"} => status'[n] = status[n]
  BY <1>1, <1>2
<1>6. TypeOK'
  BY <1>1, Numbers DEF DagInv, TypeOK, StartWave, Enters, MaxWaves
<1>7. StatusMeans'
  <2> SUFFICES ASSUME NEW n \in Nodes
               PROVE  Meaning(n, deps, status', error, got)
    BY <1>1 DEF StatusMeans
  <2>1. Meaning(n, deps, status, error, got)
    BY DEF DagInv, StatusMeans
  <2>2. \A d \in deps[n] : status[d] = "failed" => status'[d] = "failed"
    BY <1>1, <1>5
  <2>3. CASE n \in Ready
    BY <1>1, <1>2, <2>1, <2>3 DEF Meaning
  <2>4. CASE n \notin Ready
    BY <1>1, <2>1, <2>2, <2>4 DEF Meaning
  <2> QED
    BY <2>3, <2>4
<1>8. Position'
  BY <1>1 DEF Position
<1>9. Having("running")' = Ready
  BY <1>1, <1>2, <1>3 DEF Having
<1>10. Progress'
  <2>1. Settled' = Settled
    BY <1>4 DEF Settled
  <2>2. waves <= Cardinality(Settled) /\ Cardinality(Settled) \in Nat /\ waves \in Nat
    BY <1>1, NodeSets DEF DagInv, Progress, Settled, TypeOK
  <2> QED
    BY <1>1, <1>9, <2>1, <2>2 DEF Progress
<1>11. UpstreamFirst'
  BY <1>1, <1>2, <1>5 DEF DagInv, UpstreamFirst
<1>12. WithinLimit'
  BY <1>9, ReadyNodes DEF WithinLimit
<1> QED
  BY <1>1, <1>6, <1>7, <1>8, <1>10, <1>11, <1>12 DEF DagInv

LEMMA NothingReadyInv == DagInv /\ NothingReady => DagInv'
<1> SUFFICES ASSUME DagInv, NothingReady PROVE DagInv'
  OBVIOUS
<1>1. /\ where = "loop" /\ ~AllTerminal /\ Ready = {}
      /\ deps \in [Nodes -> SUBSET Nodes] /\ deps' = deps
      /\ got' = got /\ waves' = waves + 1
      /\ status \in [Nodes -> {"pending", "running", "done", "failed"}]
      /\ error \in [Nodes -> Errors]
  BY DEF DagInv, TypeOK, NothingReady, Enters
<1>2. Having("running") = {}
  BY <1>1 DEF DagInv, Position
<1>3. Blocked # {}
  BY <1>1, <1>2, NotStuck DEF DagInv
<1>4. /\ where' = where
      /\ status' = [n \in Nodes |-> IF n \in Blocked THEN "failed" ELSE status[n]]
      /\ error' = [n \in Nodes |-> IF n \in Blocked THEN "blocked by upstream failure"
                                   ELSE error[n]]
  BY <1>3 DEF NothingReady, Fail
<1>5. /\ Blocked \subseteq Nodes /\ \A n \in Blocked : status[n] = "pending"
      /\ \A n \in Blocked : \E d \in deps[n] : status[d] = "failed"
  BY DEF Blocked, Having
<1>6. \A n \in Nodes : status[n] \in {"done", "failed"} => status'[n] = status[n]
  BY <1>4, <1>5
<1>7. TypeOK'
  <2>1. waves' \in 0..MaxWaves
    <3>1. waves \in 0..MaxWaves /\ waves < MaxWaves /\ waves' = waves + 1
      BY DEF DagInv, TypeOK, NothingReady, Enters
    <3> QED
      BY <3>1, Numbers DEF MaxWaves
  <2>2. /\ status' \in [Nodes -> {"pending", "running", "done", "failed"}]
        /\ error' \in [Nodes -> Errors]
    BY <1>1, <1>4 DEF Errors
  <2>3. final' = final
    BY DEF NothingReady
  <2> QED
    BY <1>1, <1>4, <2>1, <2>2, <2>3 DEF DagInv, TypeOK, MaxWaves
<1>8. StatusMeans'
  <2> SUFFICES ASSUME NEW n \in Nodes
               PROVE  Meaning(n, deps, status', error', got)
    BY <1>1 DEF StatusMeans
  <2>1. Meaning(n, deps, status, error, got)
    BY DEF DagInv, StatusMeans
  <2>2. \A d \in deps[n] : status[d] = "failed" => status'[d] = "failed"
    BY <1>1, <1>6
  <2>3. CASE n \in Blocked
    BY <1>1, <1>4, <1>5, <2>1, <2>2, <2>3 DEF Meaning
  <2>4. CASE n \notin Blocked
    BY <1>1, <1>4, <2>1, <2>2, <2>4 DEF Meaning
  <2> QED
    BY <2>3, <2>4
<1>9. Having("running")' = {}
  BY <1>2, <1>4 DEF Having
<1>10. Position'
  BY <1>1, <1>4, <1>9 DEF Position
<1>11. Progress'
  <2>1. Settled \subseteq Settled' /\ Settled' \subseteq Nodes
    BY <1>4, <1>6 DEF Settled
  <2>2. Settled # Settled'
    BY <1>3, <1>4, <1>5 DEF Settled
  <2>3. Cardinality(Settled) + 1 <= Cardinality(Settled')
    BY <2>1, <2>2, Grows
  <2>4. Cardinality(Settled) \in Nat /\ Cardinality(Settled') \in Nat /\ waves \in Nat
    BY <2>1, NodeSets DEF Settled, DagInv, TypeOK
  <2>5. waves <= Cardinality(Settled)
    BY <1>1 DEF DagInv, Progress
  <2>6. waves' <= Cardinality(Settled')
    BY <1>1, <2>3, <2>4, <2>5
  <2> QED
    BY <1>1, <1>4, <2>6 DEF Progress
<1>12. UpstreamFirst'
  BY <1>1, <1>4, <1>5, <1>6 DEF DagInv, UpstreamFirst, StatusMeans, Meaning
<1>13. WithinLimit'
  BY <1>9, FS_EmptySet, Numbers DEF WithinLimit
<1> QED
  BY <1>1, <1>7, <1>8, <1>10, <1>11, <1>12, <1>13 DEF DagInv

LEMMA ReturnsInv ==
  ASSUME DagInv, NEW n \in Nodes, NEW what \in Got, Returns(n, what)
  PROVE  DagInv'
<1>1. UNCHANGED <<deps, status, error, waves, where, final>> /\ got' = [got EXCEPT ![n] = what]
      /\ status[n] = "running"
  BY DEF Returns
<1>2. TypeOK'
  BY <1>1 DEF DagInv, TypeOK, MaxWaves
<1>3. StatusMeans'
  BY <1>1 DEF DagInv, StatusMeans, Meaning, TypeOK
<1>4. UpstreamFirst'
  BY <1>1 DEF DagInv, UpstreamFirst, TypeOK
<1>5. Position' /\ Progress' /\ WithinLimit' /\ Acyclic(deps)'
  BY <1>1 DEF DagInv, Position, Progress, WithinLimit, AllTerminal, Having, Settled, Acyclic
<1> QED
  BY <1>2, <1>3, <1>4, <1>5 DEF DagInv

LEMMA SettleWaveInv == DagInv /\ SettleWave => DagInv'
<1> SUFFICES ASSUME DagInv, SettleWave PROVE DagInv'
  OBVIOUS
<1> DEFINE failed == {n \in Having("running") : ~Satisfied(n)}
<1>1. /\ where = "wave" /\ where' = "loop" /\ waves' = waves
      /\ deps \in [Nodes -> SUBSET Nodes] /\ deps' = deps /\ got' = got
      /\ got \in [Nodes -> Got \cup {"none"}]
      /\ status \in [Nodes -> {"pending", "running", "done", "failed"}]
      /\ status' = [n \in Nodes |-> IF status[n] # "running" THEN status[n]
                                    ELSE IF n \in failed THEN "failed" ELSE "done"]
      /\ error' = [n \in Nodes |-> IF n \in failed THEN "task produced no reply" ELSE error[n]]
  BY DEF DagInv, TypeOK, SettleWave
<1>2. \A n \in Nodes : status[n] = "running" => got[n] # "none"
  BY DEF SettleWave, Having
<1>3. \A n \in Nodes : n \in failed <=> status[n] = "running" /\ got[n] \notin {"answer", "apology"}
  BY DEF Having, Satisfied
<1> HIDE DEF failed
<1>4. \A n \in Nodes : status[n] \in {"done", "failed"} => status'[n] = status[n]
  BY <1>1
<1>5. TypeOK'
  <2>1. status' \in [Nodes -> {"pending", "running", "done", "failed"}]
    BY <1>1
  <2>2. error' \in [Nodes -> Errors]
    BY <1>1 DEF DagInv, TypeOK, Errors
  <2>3. final' = final
    BY DEF SettleWave
  <2> QED
    BY <1>1, <2>1, <2>2, <2>3 DEF DagInv, TypeOK, MaxWaves
<1>6. StatusMeans'
  <2>1. \A n \in Nodes : status[n] = "running" /\ n \in failed => got[n] \in {"evidence", "nothing"}
    BY <1>1, <1>2, <1>3 DEF Got
  <2>2. \A n \in Nodes :
          status[n] = "running" /\ n \notin failed => got[n] \in {"answer", "apology"}
    BY <1>3
  <2> SUFFICES ASSUME NEW n \in Nodes
               PROVE  Meaning(n, deps, status', error', got)
    BY <1>1 DEF StatusMeans
  <2>3. Meaning(n, deps, status, error, got)
    BY DEF DagInv, StatusMeans
  <2>4. \A d \in deps[n] : status[d] = "failed" => status'[d] = "failed"
    BY <1>1, <1>4
  <2>5. CASE n \in failed
    BY <1>1, <1>3, <2>1, <2>5 DEF Meaning
  <2>6. CASE n \notin failed /\ status[n] = "running"
    BY <1>1, <2>2, <2>3, <2>6 DEF Meaning
  <2>7. CASE n \notin failed /\ status[n] # "running"
    BY <1>1, <2>3, <2>4, <2>7 DEF Meaning
  <2> QED
    BY <2>5, <2>6, <2>7
<1>7. Having("running")' = {}
  BY <1>1 DEF Having
<1>8. Position'
  BY <1>1, <1>7 DEF Position
<1>9. Progress'
  <2>1. Settled \subseteq Settled' /\ Settled' \subseteq Nodes
    BY <1>4 DEF Settled
  <2>2. PICK n \in Having("running") : TRUE
    BY <1>1 DEF DagInv, Progress
  <2>3. n \in Settled' /\ n \notin Settled
    BY <1>1, <2>2 DEF Settled, Having
  <2>4. Cardinality(Settled) + 1 <= Cardinality(Settled')
    BY <2>1, <2>3, Grows
  <2>5. Cardinality(Settled) \in Nat /\ Cardinality(Settled') \in Nat /\ waves \in Nat
    BY <2>1, NodeSets DEF Settled, DagInv, TypeOK
  <2>6. waves <= Cardinality(Settled) + 1
    BY <1>1 DEF DagInv, Progress
  <2>7. waves' = waves
    BY <1>1
  <2>8. waves' <= Cardinality(Settled')
    BY <2>4, <2>5, <2>6, <2>7
  <2> QED
    BY <1>1, <2>8 DEF Progress
<1>10. UpstreamFirst'
  BY <1>1, <1>2, <1>4 DEF DagInv, UpstreamFirst
<1>11. WithinLimit'
  BY <1>7, FS_EmptySet, Numbers DEF WithinLimit
<1> QED
  BY <1>1, <1>5, <1>6, <1>8, <1>9, <1>10, <1>11 DEF DagInv

\* The loop ends with every node settled.
LEMMA LoopEndsSettled ==
  ASSUME DagInv, where = "loop", ~Enters
  PROVE  AllTerminal
<1>1. SUFFICES ASSUME ~AllTerminal PROVE FALSE
  OBVIOUS
<1>2. waves \in Nat /\ ~ (waves < Count + 2)
  BY <1>1 DEF Enters, MaxWaves, DagInv, TypeOK
<1>3. waves <= Cardinality(Settled) /\ Cardinality(Settled) \in Nat /\ Cardinality(Settled) <= Count
  BY NodeSets DEF DagInv, Progress, Settled
<1> QED
  BY <1>2, <1>3, Numbers

LEMMA DrainInv == DagInv /\ Drain => DagInv' /\ UNCHANGED <<deps, status, got>>
<1> SUFFICES ASSUME DagInv, Drain PROVE DagInv' /\ UNCHANGED <<deps, status, got>>
  OBVIOUS
<1>1. where = "loop" /\ ~Enters
  BY DEF DagInv, Position, Drain
<1>2. AllTerminal
  BY <1>1, LoopEndsSettled
<1>3. {n \in Nodes : status[n] \in {"pending", "running"}} = {}
  BY <1>2 DEF AllTerminal
<1>4. /\ status' = status /\ error' = error /\ where' = "drained"
      /\ UNCHANGED <<deps, got, waves, final>>
  BY <1>3 DEF Drain, Fail, DagInv, TypeOK
<1>5. TypeOK' /\ StatusMeans' /\ UpstreamFirst' /\ WithinLimit' /\ Acyclic(deps)' /\ Progress'
  BY <1>4 DEF DagInv, TypeOK, StatusMeans, UpstreamFirst, WithinLimit, Acyclic, Having, MaxWaves,
     Progress
<1>6. Having("running")' = {}
  BY <1>2, <1>4 DEF AllTerminal, Having
<1>7. Position'
  BY <1>2, <1>4, <1>6 DEF Position, AllTerminal
<1> QED
  BY <1>4, <1>5, <1>7 DEF DagInv

LEMMA OthersInv == DagInv /\ (Answers \/ Cut \/ UNCHANGED vars) => DagInv'
<1> SUFFICES ASSUME DagInv, Answers \/ Cut \/ UNCHANGED vars PROVE DagInv'
  OBVIOUS
<1>1. UNCHANGED <<deps, status, error, got, waves>>
  BY DEF Answers, Cut, vars
<1>2. TypeOK'
  BY <1>1 DEF DagInv, TypeOK, Answers, Cut, vars, MaxWaves
<1>3. StatusMeans' /\ UpstreamFirst' /\ WithinLimit' /\ Acyclic(deps)'
  BY <1>1 DEF DagInv, StatusMeans, UpstreamFirst, WithinLimit, Acyclic, Having
<1>4. Position'
  BY <1>1 DEF DagInv, Position, AllTerminal, Having, Answers, Cut, vars
<1>5. Progress'
  BY <1>1 DEF DagInv, Progress, Settled, Having, Answers, Cut, vars
<1> QED
  BY <1>2, <1>3, <1>4, <1>5 DEF DagInv

LEMMA NextInv == DagInv /\ [Next]_vars => DagInv'
<1> SUFFICES ASSUME DagInv, [Next]_vars PROVE DagInv'
  OBVIOUS
<1>1. CASE StartWave
  BY <1>1, StartWaveInv
<1>2. CASE NothingReady
  BY <1>2, NothingReadyInv
<1>3. CASE SettleWave
  BY <1>3, SettleWaveInv
<1>4. CASE Drain
  BY <1>4, DrainInv
<1>5. CASE \E n \in Nodes, what \in Got : Returns(n, what)
  BY <1>5, ReturnsInv
<1>6. CASE Answers \/ Cut \/ UNCHANGED vars
  BY <1>6, OthersInv
<1> QED
  BY <1>1, <1>2, <1>3, <1>4, <1>5, <1>6 DEF Next, Scheduler

LEMMA DagInvHolds == Spec => []DagInv
  BY InitInv, NextInv, PTL DEF Spec

(***************************************************************************)
(* The theorems.                                                           *)
(***************************************************************************)

\* For any number of nodes and any limit the variables keep their types; waves
\* stays within MaxWaves.
THEOREM DagTypeCorrect == Spec => []TypeOK
<1>1. DagInv => TypeOK
  BY DEF DagInv
<1> QED
  BY <1>1, DagInvHolds, PTL

\* Neither "scheduler stuck" nor "incomplete at scheduler exit" is ever reached,
\* for any acyclic graph and any order of failures.
THEOREM SchedulerNeverGivesUp == Spec => []NeverGivesUp
<1>1. DagInv => NeverGivesUp
  BY DEF DagInv, StatusMeans, Meaning, TypeOK, NeverGivesUp
<1> QED
  BY <1>1, DagInvHolds, PTL

\* A task is started after everything it depends on is done.
THEOREM UpstreamIsDone == Spec => []UpstreamFirst
<1>1. DagInv => UpstreamFirst
  BY DEF DagInv
<1> QED
  BY <1>1, DagInvHolds, PTL

\* At most MaxParallel tasks run at a time.
THEOREM LimitKept == Spec => []WithinLimit
<1>1. DagInv => WithinLimit
  BY DEF DagInv
<1> QED
  BY <1>1, DagInvHolds, PTL

\* When the scheduler is through, exactly the nodes below a failure have not run.
THEOREM FailuresBlockExactly == Spec => []OnlyFailuresBlock
<1>1. DagInv => OnlyFailuresBlock
  <2> SUFFICES ASSUME DagInv, where \in {"drained", "answered"}, NEW n \in Nodes
               PROVE  got[n] = "none" <=> \E d \in deps[n] : status[d] = "failed"
    BY DEF OnlyFailuresBlock
  <2>1. status[n] \in {"done", "failed"}
    BY DEF DagInv, Position, AllTerminal
  <2>2. ASSUME got[n] = "none" PROVE \E d \in deps[n] : status[d] = "failed"
    BY <2>1, <2>2 DEF DagInv, StatusMeans, Meaning
  <2>3. ASSUME NEW d \in deps[n], status[d] = "failed" PROVE got[n] = "none"
    BY <2>3 DEF DagInv, UpstreamFirst
  <2> QED
    BY <2>2, <2>3
<1> QED
  BY <1>1, DagInvHolds, PTL

\* How the scheduler's statuses map to TaskOrder's fates.
FateOf == [n \in Nodes |-> IF status[n] = "pending" THEN "waiting"
                           ELSE IF status[n] = "running" THEN "started" ELSE status[n]]

\* A step in which every node's fate moves as TaskOrder allows is a step of it.
LEMMA MovesRefine ==
  ASSUME DagInv, DagInv', deps' = deps, \A n \in Nodes : Order!Moves(n, FateOf'[n])
  PROVE  [Order!Next]_(Order!ordervars)
<1>1. FateOf' \in [Nodes -> Order!Fates]
  BY DEF FateOf, DagInv, TypeOK, Order!Fates
<1> QED
  BY <1>1 DEF Order!Next, Order!ordervars, FateOf

LEMMA StepRefines == DagInv /\ DagInv' /\ [Next]_vars => [Order!Next]_(Order!ordervars)
<1> SUFFICES ASSUME DagInv, DagInv', [Next]_vars PROVE [Order!Next]_(Order!ordervars)
  OBVIOUS
<1> USE DEF Order!Moves, Order!MayStart, Order!MayFail, FateOf
<1>0. deps \in [Nodes -> SUBSET Nodes]
      /\ status \in [Nodes -> {"pending", "running", "done", "failed"}]
  BY DEF DagInv, TypeOK
<1>1. CASE StartWave
  <2>1. /\ deps' = deps
        /\ status' = [n \in Nodes |-> IF n \in Ready THEN "running" ELSE status[n]]
    BY <1>1 DEF StartWave
  <2>2. \A n \in Ready : status[n] = "pending" /\ \A d \in deps[n] : status[d] = "done"
    BY ReadyNodes DEF Having
  <2>3. ASSUME NEW n \in Nodes PROVE Order!Moves(n, FateOf'[n])
    BY <1>0, <2>1, <2>2
  <2> QED
    BY <2>1, <2>3, MovesRefine
<1>2. CASE NothingReady
  <2>1. Having("running") = {}
    BY <1>2 DEF DagInv, Position, NothingReady, Enters
  <2>2. Blocked # {}
    BY <1>2, <2>1, NotStuck DEF DagInv, NothingReady, Enters
  <2>3. /\ deps' = deps
        /\ status' = [n \in Nodes |-> IF n \in Blocked THEN "failed" ELSE status[n]]
    BY <1>2, <2>2 DEF NothingReady, Fail
  <2>4. \A n \in Blocked : status[n] = "pending" /\ \E d \in deps[n] : status[d] = "failed"
    BY DEF Blocked, Having
  <2>5. ASSUME NEW n \in Nodes PROVE Order!Moves(n, FateOf'[n])
    BY <1>0, <2>3, <2>4
  <2> QED
    BY <2>3, <2>5, MovesRefine
<1>3. CASE SettleWave
  <2>1. deps' = deps
    BY <1>3 DEF SettleWave
  <2>2. ASSUME NEW n \in Nodes PROVE Order!Moves(n, FateOf'[n])
    BY <1>0, <1>3 DEF SettleWave
  <2> QED
    BY <2>1, <2>2, MovesRefine
<1>4. CASE Drain
  BY <1>4, DrainInv DEF Order!ordervars
<1>5. CASE (\E n \in Nodes, what \in Got : Returns(n, what)) \/ Answers \/ Cut \/ UNCHANGED vars
  BY <1>5 DEF Returns, Answers, Cut, vars, Order!ordervars
<1> QED
  BY <1>1, <1>2, <1>3, <1>4, <1>5 DEF Next, Scheduler

\* The wave scheduler implements TaskOrder for every plan, number of nodes and
\* limit.
THEOREM SchedulerImplementsOrder == Spec => ImplementsOrder
<1>1. Init => Order!Init
  <2> SUFFICES ASSUME Init PROVE Order!Init
    OBVIOUS
  <2>1. deps \in [Nodes -> SUBSET Nodes]
    BY PlansAcyclic DEF Init
  <2> QED
    BY <2>1 DEF Init, Order!Init
<1>2. DagInv /\ DagInv' /\ [Next]_vars => [Order!Next]_(Order!ordervars)
  BY StepRefines
<1> QED
  BY <1>1, <1>2, DagInvHolds, PTL DEF Spec, ImplementsOrder, Order!Spec
=============================================================================
