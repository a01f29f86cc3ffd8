------------------------- MODULE IndexJobLockProofs -------------------------
(***************************************************************************)
(* What TLAPS proves of the refinement of JobLock by IndexJob, for every   *)
(* value of the constants:                                                 *)
(*   LockRefined   Init /\ [][Next /\ breach' = "none"]_vars => Lock!Spec  *)
(* The liveness half of ImplementsLock (Lock!Returned, under the fairness  *)
(* of the code's threads and queues) is TLC's.                             *)
(***************************************************************************)
EXTENDS IndexJobLock, IndexJobClaimProofs

\* The owner is the one slot that holds the job, before a step and after it.
LEMMA OwnerIs ==
  ASSUME NEW w \in Workers
  PROVE  /\ OneHolder /\ Holding(w) => Owner = w
         /\ OneHolder' /\ Holding(w)' => Owner' = w
  <1>1. ASSUME OneHolder, Holding(w) PROVE Owner = w
    <2>1. \A v \in Workers : Holding(v) => v = w
      BY <1>1 DEF OneHolder
    <2> QED
      BY <1>1, <2>1 DEF Owner
  <1>2. ASSUME OneHolder', Holding(w)' PROVE Owner' = w
    <2>1. \A v \in Workers : Holding(v)' => v = w
      BY <1>2 DEF OneHolder
    <2> QED
      BY <1>2, <2>1 DEF Owner
  <1> QED
    BY <1>1, <1>2

\* Without a holder there is no owner.
LEMMA NoOwner ==
  /\ (\A w \in Workers : ~Holding(w)) => Owner = NoOne
  /\ (\A w \in Workers : ~Holding(w)') => Owner' = NoOne
  BY DEF Owner

\* When the same slots hold the job and the count stays, the lock stutters.
LEMMA SameHolders ==
  ASSUME OneHolder, OneHolder', UNCHANGED notified,
         \A w \in Workers : Holding(w)' <=> Holding(w)
  PROVE  UNCHANGED Lock!lockvars
  <1>1. CASE \E w \in Workers : Holding(w)
    BY <1>1, OwnerIs DEF Lock!lockvars
  <1>2. CASE \A w \in Workers : ~Holding(w)
    BY <1>2, NoOwner DEF Lock!lockvars
  <1> QED
    BY <1>1, <1>2

\* When one slot lets go and no other takes it, the lock is released.
LEMMA LetsGo ==
  ASSUME OneHolder, OneHolder', UNCHANGED notified, NEW w \in Workers, Holding(w), ~Holding(w)',
         \A v \in Workers \ {w} : Holding(v)' => Holding(v)
  PROVE  Lock!Next
  <1>1. \A v \in Workers : ~Holding(v)'
    BY DEF OneHolder
  <1>2. Owner = w /\ Owner' = NoOne
    BY <1>1, OwnerIs, NoOwner
  <1>3. Lock!Release(w)
    BY <1>2 DEF Lock!Release
  <1> QED
    BY <1>3 DEF Lock!Next

\* A step of a slot: it takes the lock, settles, releases it, or none of these.
LEMMA SlotRefines ==
  ASSUME TypeOK, LeaseInv, LeaseInv', ClaimedOnce, ClaimedOnce', Unbroken, Unbroken',
         NEW w \in Workers, Flow(w), StepEffect(w)
  PROVE  [Lock!Next]_(Lock!lockvars)
  <1>1. /\ OneHolder /\ OneHolder' /\ Others(w) /\ UNCHANGED exists /\ Outcome(w)
        /\ ex[w].pc # "idle" /\ ex'[w].pc # "begin" /\ notified \in 0 .. 2
    BY DEF Flow, StepEffect, LeaseInv, Unbroken, TypeOK
  <1>2. \A v \in Workers \ {w} : Holding(v)' <=> Holding(v)
    BY <1>1 DEF Others, Holding
  <1>3. CASE Claims(w)
    <2>1. Holding(w) /\ Holding(w)' /\ ex[w].pc \in Running /\ exists
      BY <1>3 DEF Claims, Holding, Running, Closing
    <2>2. row.status \notin {"done", "failed"}
      BY <2>1 DEF LeaseInv, Unbroken, RunningUnsettled
    <2>3. notified = 0
      BY <1>1, <2>1, <2>2 DEF ClaimedOnce, Unbroken
    <2>4. notified' = 1
      BY <1>3, <2>3 DEF Claims
    <2>5. Owner = w /\ Owner' = w
      BY <1>1, <2>1, OwnerIs
    <2>6. Lock!Settle
      BY <2>3, <2>4, <2>5, NoOneAssumption DEF Lock!Settle
    <2> QED
      BY <2>6 DEF Lock!Next
  <1>4. CASE UNCHANGED notified
    <2>1. CASE Holding(w) /\ ~Holding(w)'
      BY <1>1, <1>2, <1>4, <2>1, LetsGo
    <2>2. CASE Holding(w)' <=> Holding(w)
      BY <1>1, <1>2, <1>4, <2>2, SameHolders
    <2>3. CASE ~Holding(w) /\ Holding(w)'
      <3>1. ex[w].pc = "begin"
        BY <1>1, <2>3, SlotRead DEF Holding, PC, Opening
      <3>2. ex'[w].pc = "route" /\ exists /\ exists'
        BY <1>1, <2>3, <3>1 DEF StepEffect, Holding, Running, Closing
      <3>3. row'.status \notin {"done", "failed"}
        BY <3>2 DEF LeaseInv, Unbroken, RunningUnsettled, Running
      <3>4. notified = 0
        BY <1>1, <1>4, <3>2, <3>3 DEF ClaimedOnce, Unbroken
      <3>5. \A v \in Workers : ~Holding(v)
        BY <1>1, <1>2, <2>3 DEF OneHolder
      <3>6. Owner = NoOne /\ Owner' = w
        BY <1>1, <2>3, <3>5, OwnerIs, NoOwner
      <3>7. Lock!Acquire(w)
        BY <1>4, <3>4, <3>6 DEF Lock!Acquire
      <3> QED
        BY <3>7 DEF Lock!Next
    <2> QED
      BY <2>1, <2>2, <2>3
  <1> QED
    BY <1>1, <1>3, <1>4 DEF Outcome, Says, Updates, Blocks, Drops

\* Every step of the system is a step of the lock, or none.
LEMMA StepRefines ==
  ASSUME TypeOK, TypeOK', LeaseInv, LeaseInv', ClaimedOnce, ClaimedOnce', Unbroken, Unbroken',
         [Next]_vars
  PROVE  [Lock!Next]_(Lock!lockvars)
  <1>1. OneHolder /\ OneHolder'
    BY DEF LeaseInv, Unbroken
  <1>2. CASE Aside
    <2>1. UNCHANGED notified /\ \A v \in Workers : Holding(v)' => Holding(v)
      BY <1>2 DEF Aside, AsBefore, Idle, Holding, Running, Closing
    <2>2. CASE \A v \in Workers : Holding(v)' <=> Holding(v)
      BY <1>1, <2>1, <2>2, SameHolders
    <2>3. ASSUME NEW w \in Workers, Holding(w), ~Holding(w)' PROVE Lock!Next
      BY <1>1, <2>1, <2>3, LetsGo
    <2> QED
      BY <2>1, <2>2, <2>3
  <1>3. ASSUME NEW w \in Workers, PickedUp(w) PROVE [Lock!Next]_(Lock!lockvars)
    <2>1. UNCHANGED notified /\ \A v \in Workers : Holding(v)' <=> Holding(v)
      BY <1>3 DEF PickedUp, Others, Holding, Running, Closing
    <2> QED
      BY <1>1, <2>1, SameHolders
  <1>4. ASSUME NEW w \in Workers, Flow(w), StepEffect(w) PROVE [Lock!Next]_(Lock!lockvars)
    BY <1>4, SlotRefines
  <1> QED
    BY <1>2, <1>3, <1>4, NextFlow

\* Up to the first recorded breach the executors of an index job take the lock
\* of JobLock one at a time, settle it once while they own it, and do not take
\* it again after that (try_begin_execution, _try_claim_index_job_terminal and
\* end_execution together).
THEOREM LockRefined == Init /\ [][Next /\ breach' = "none"]_vars => Lock!Spec
  <1>1. Init => Lock!Init /\ Unbroken
    <2>1. SUFFICES ASSUME Init PROVE Lock!Init /\ Unbroken
      OBVIOUS
    <2>2. \A w \in Workers : ~Holding(w)
      BY <2>1 DEF Init, Holding, Idle, Running, Closing
    <2>3. notified = 0 /\ breach = "none"
      BY <2>1 DEF Init
    <2> QED
      BY <2>2, <2>3, NoOwner DEF Lock!Init, Unbroken
  <1>2. [Next /\ breach' = "none"]_vars => [Next]_vars
    OBVIOUS
  <1>3. Unbroken /\ [Next /\ breach' = "none"]_vars => Unbroken'
    BY DEF vars, Unbroken
  <1>4. /\ TypeOK /\ TypeOK' /\ LeaseInv /\ LeaseInv' /\ ClaimedOnce /\ ClaimedOnce'
        /\ Unbroken /\ Unbroken' /\ [Next]_vars
        => [Lock!Next]_(Lock!lockvars)
    BY StepRefines
  <1>5. Init /\ [][Next /\ breach' = "none"]_vars => Spec /\ []Unbroken
    BY <1>1, <1>2, <1>3, PTL DEF Spec
  <1>6. Spec /\ []Unbroken => Lock!Spec
    BY <1>1, <1>4, TypeCorrect, LeaseInvHolds, ClaimsOnce, PTL DEF Spec, Lock!Spec
  <1> QED
    BY <1>5, <1>6
=============================================================================
