--------------------------- MODULE TimedWorkProofs ---------------------------
(***************************************************************************)
(* Proofs about TimedWork, for any number of deliveries at work, any       *)
(* bounds and any user: a notification is carried and sent once, its       *)
(* cancellation is final, an automation runs once per due instant; and     *)
(* every variable keeps its type and its bound.                            *)
(*                                                                         *)
(* The argument for the single notification: without a fault there is one  *)
(* carrier at a time (Lone), so two deliveries are never at work; and two  *)
(* notifications need two deliveries past their load, or one cut off       *)
(* between its commits (Counted).  For the automation, InstantsInv counts  *)
(* the instants: started, taken, or still due.  The bounds in the types    *)
(* rest on SeatInv (a name runs as long as one delivery has it) and        *)
(* OpenInv (runs recorded as running were started, or asked for by hand).  *)
(***************************************************************************)
EXTENDS TimedWork, FiniteSetTheorems, TLAPS

Pools == {"free", "queued", "running"}

Shape ==
  /\ row \in [made: BOOLEAN, sent: BOOLEAN, cancelled: BOOLEAN]
  /\ when \in {"far", "near", "due", "old"}
  /\ asker \in {"none", "added", "over"}
  /\ msgs \in Nat /\ timers \in [Procs -> Nat]
  /\ pool \in [Procs -> Pools]
  /\ del \in [Deliverers -> Slot]
  /\ rec \in BOOLEAN /\ lost \in BOOLEAN
  /\ faults \in Nat /\ sends \in 0 .. 2
  /\ causes \subseteq {"cut", "both"}

\* What a process's dispatch leaves behind.
LEMMA DispatchShape ==
  ASSUME Shape, NEW p \in Procs, NEW names \in [Procs -> Pools], Dispatch(names, p)
  PROVE  /\ msgs' \in Nat /\ timers' \in [Procs -> Nat] /\ pool' \in [Procs -> Pools]
         /\ msgs' > 0 \/ \E q \in Procs : timers'[q] > 0 \/ pool'[q] # "free"
PROOF
<1>1. MaxCarriers \in Nat /\ MaxCarriers > 0 BY CarriersAssumption
<1>2. CASE ByCelery(names)
  BY <1>1, <1>2 DEF Shape, ByCelery, More
<1>3. CASE ByTimer(names, p)
  BY <1>1, <1>3 DEF Shape, ByTimer, More
<1>4. CASE ByPool(names, p)
  <2>1. pool' \in [Procs -> Pools] BY <1>4 DEF ByPool, Submit, Pools
  <2>2. pool'[p] # "free" BY <1>4 DEF ByPool, Submit, Pools
  <2> QED BY <1>4, <2>1, <2>2 DEF Shape, ByPool
<1> QED BY <1>2, <1>3, <1>4 DEF Dispatch

LEMMA FreedShape ==
  ASSUME Shape, NEW d \in Deliverers
  PROVE  Freed(d) \in [Procs -> Pools]
PROOF BY DEF Shape, Freed, Pools

LEMMA ShapeInit == Init => Shape
PROOF
<1> SUFFICES ASSUME NoticeInit PROVE Shape BY DEF Init
<1>1. Idle \in Slot BY DEF Idle, Slot, Procs
<1>2. del \in [Deliverers -> Slot] BY <1>1 DEF NoticeInit
<1>3. pool \in [Procs -> Pools] /\ timers \in [Procs -> Nat] BY DEF NoticeInit, Pools
<1>4. row \in [made: BOOLEAN, sent: BOOLEAN, cancelled: BOOLEAN] BY DEF NoticeInit
<1>5. when \in {"far", "near", "due", "old"} /\ asker \in {"none", "added", "over"}
  BY DEF NoticeInit
<1>6. msgs \in Nat /\ faults \in Nat /\ sends \in 0 .. 2 BY DEF NoticeInit
<1>7. rec \in BOOLEAN /\ lost \in BOOLEAN BY DEF NoticeInit
<1>8. causes \subseteq {"cut", "both"} BY DEF NoticeInit
<1> QED BY <1>2, <1>3, <1>4, <1>5, <1>6, <1>7, <1>8 DEF Shape

LEMMA ShapeNotice ==
  ASSUME Shape, NoticeNext PROVE Shape'
PROOF
<1>1. CASE Schedule BY <1>1 DEF Schedule, Shape
<1>2. CASE FirstDispatch
  BY <1>2, DispatchShape DEF FirstDispatch, Shape, Procs
<1>3. CASE CancelLoads BY <1>3 DEF CancelLoads, Shape
<1>4. CASE CancelCommits BY <1>4 DEF CancelCommits, Shape
<1>5. CASE ClockTicks BY <1>5 DEF ClockTicks, Shape
<1>6. ASSUME NEW p \in Procs, TimerFires(p) PROVE Shape'
  BY <1>6 DEF TimerFires, Submit, Shape, Pools
<1>7. ASSUME NEW d \in Deliverers, Take(d) PROVE Shape'
  <2>1. CASE msgs > 0 /\ msgs' = msgs - 1 /\ UNCHANGED pool
             /\ del' = [del EXCEPT ![d] = [pc |-> "open", seat |-> "task", at |-> "worker"]]
    BY <1>7, <2>1 DEF Take, Shape, Slot, Procs
  <2>2. ASSUME NEW p \in Procs, pool' = [pool EXCEPT ![p] = "running"], UNCHANGED msgs,
               del' = [del EXCEPT ![d] = [pc |-> "open", seat |-> "pool", at |-> p]]
        PROVE Shape'
    BY <1>7, <2>2 DEF Take, Shape, Slot, Pools
  <2> QED BY <1>7, <2>1, <2>2 DEF Take
<1>8. ASSUME NEW d \in Deliverers, Delivers(d) PROVE Shape'
  <2>0. Idle \in Slot BY DEF Idle, Slot, Procs
  <2>1. CASE OpensInVain(d)
    BY <2>0, <2>1, FreedShape DEF OpensInVain, Ends, Shape
  <2>2. CASE OpensEarly(d)
    <3>1. del[d].at \in Procs BY DEF Shape, Slot
    <3> QED BY <2>0, <2>2, <3>1, FreedShape, DispatchShape DEF OpensEarly, Ends, Shape
  <2>3. CASE Opens(d) BY <2>3 DEF Opens, Shape, Slot
  <2>4. CASE Notifies(d) BY <2>4 DEF Notifies, Shape, Slot
  <2>5. CASE Marks(d) BY <2>0, <2>5, FreedShape DEF Marks, Ends, Shape
  <2> QED BY <1>8, <2>1, <2>2, <2>3, <2>4, <2>5 DEF Delivers
<1>9. ASSUME NEW d \in Deliverers, DeliveryFails(d) PROVE Shape'
  <2>0. Idle \in Slot BY DEF Idle, Slot, Procs
  <2> QED BY <1>9, <2>0, FreedShape DEF DeliveryFails, Ends, Shape, Cut
<1>10. CASE WorkerDies
  <2>0. Idle \in Slot BY DEF Idle, Slot, Procs
  <2>1. del' \in [Deliverers -> Slot] BY <1>10, <2>0 DEF WorkerDies, Dies, Shape
  <2>2. msgs' \in Nat BY <1>10, CarriersAssumption DEF WorkerDies, Shape, More
  <2>3. timers' \in [Procs -> Nat] /\ pool' \in [Procs -> Pools]
    BY <1>10 DEF WorkerDies, Dies, Shape, Pools
  <2> QED BY <1>10, <2>1, <2>2, <2>3 DEF WorkerDies, Dies, Shape, Cut
<1>11. CASE Recovers
  BY <1>11, DispatchShape DEF Recovers, Shape, Procs
<1> QED BY <1>1, <1>2, <1>3, <1>4, <1>5, <1>6, <1>7, <1>8, <1>9, <1>10, <1>11 DEF NoticeNext

LEMMA ShapeApiDies ==
  ASSUME Shape, ApiDies PROVE Shape'
PROOF
<1>0. Idle \in Slot BY DEF Idle, Slot, Procs
<1>1. del' \in [Deliverers -> Slot] BY <1>0 DEF ApiDies, Dies, Shape
<1>3. timers' \in [Procs -> Nat] /\ pool' \in [Procs -> Pools]
  BY DEF ApiDies, Dies, Shape, Pools
<1> QED BY <1>1, <1>3 DEF ApiDies, Dies, Shape, Cut

LEMMA ShapeNext ==
  ASSUME Shape, [Next]_vars PROVE Shape'
PROOF
<1>1. CASE NoticeSteps BY <1>1, ShapeNotice DEF NoticeSteps
<1>2. CASE ApiRestarts BY <1>2, ShapeApiDies DEF ApiRestarts
<1>3. CASE UNCHANGED nvars BY <1>3 DEF nvars, Shape
<1> QED BY <1>1, <1>2, <1>3 DEF Next, AutomationSteps, vars
LEMMA ShapeHolds == Spec => []Shape
PROOF BY ShapeInit, ShapeNext, PTL DEF Spec

-----------------------------------------------------------------------------
(* A pending notification has a carrier. *)

LEMMA CarriedNotice ==
  ASSUME Shape, Carried, NoticeNext PROVE Carried'
PROOF
<1> USE DEF Carried, Pending, Wanted, Carrier, OnItsWay
<1>1. CASE Schedule BY <1>1 DEF Schedule
<1>2. CASE FirstDispatch
  <2>1. msgs' > 0 \/ \E q \in Procs : timers'[q] > 0 \/ pool'[q] # "free"
    BY <1>2, DispatchShape DEF FirstDispatch, Procs, Shape
  <2> QED BY <2>1
<1>3. CASE CancelLoads BY <1>3 DEF CancelLoads, Busy
<1>4. CASE CancelCommits BY <1>4 DEF CancelCommits, Shape
<1>5. CASE ClockTicks BY <1>5 DEF ClockTicks, Busy
<1>6. ASSUME NEW p \in Procs, TimerFires(p) PROVE Carried'
  <2>1. pool'[p] # "free" BY <1>6 DEF TimerFires, Submit, Shape, Pools
  <2> QED BY <2>1
<1>7. ASSUME NEW d \in Deliverers, Take(d) PROVE Carried'
  <2>1. Busy(d)' BY <1>7 DEF Take, Busy, Shape
  <2> QED BY <2>1
<1>8. ASSUME NEW d \in Deliverers, Delivers(d) PROVE Carried'
  <2>1. CASE OpensInVain(d) BY <2>1 DEF OpensInVain
  <2>2. CASE OpensEarly(d)
    <3>1. del[d].at \in Procs BY DEF Shape, Slot
    <3>2. msgs' > 0 \/ \E q \in Procs : timers'[q] > 0 \/ pool'[q] # "free"
      BY <2>2, <3>1, FreedShape, DispatchShape DEF OpensEarly
    <3> QED BY <3>2
  <2>3. CASE Opens(d)
    <3>1. Busy(d)' BY <2>3 DEF Opens, Busy, Shape, Slot
    <3> QED BY <3>1
  <2>4. CASE Notifies(d)
    <3>1. Busy(d)' BY <2>4 DEF Notifies, Busy, Shape, Slot
    <3> QED BY <3>1
  <2>5. CASE Marks(d) BY <2>5 DEF Marks, Shape
  <2> QED BY <1>8, <2>1, <2>2, <2>3, <2>4, <2>5 DEF Delivers
<1>9. ASSUME NEW d \in Deliverers, DeliveryFails(d) PROVE Carried' BY <1>9 DEF DeliveryFails
<1>10. CASE WorkerDies
  <2> SUFFICES ASSUME Pending', ~lost' PROVE Carrier' OBVIOUS
  <2>1. Pending /\ ~lost /\ ~(timers["worker"] > 0) /\ pool["worker"] = "free"
        /\ \A d \in Deliverers : Busy(d) => del[d].at # "worker"
    BY <1>10 DEF WorkerDies, Shape
  <2>2. del' = del BY <1>10, <2>1 DEF WorkerDies, Dies, Shape
  <2>3. timers'["api"] = timers["api"] /\ pool'["api"] = pool["api"]
    BY <1>10 DEF WorkerDies, Dies, Shape, Procs
  <2>4. msgs > 0 => msgs' > 0
    BY <1>10, CarriersAssumption DEF WorkerDies, Shape, More
  <2> QED BY <1>10, <2>1, <2>2, <2>3, <2>4 DEF WorkerDies, Busy, Procs
<1>11. CASE Recovers
  <2>1. CASE Pending /\ when # "old"
    <3>1. msgs' > 0 \/ \E q \in Procs : timers'[q] > 0 \/ pool'[q] # "free"
      BY <1>11, <2>1, DispatchShape DEF Recovers, Procs, Shape
    <3> QED BY <3>1
  <2>2. CASE ~Pending BY <1>11, <2>2 DEF Recovers
  <2>3. CASE when = "old" BY <1>11, <2>3 DEF Recovers, Busy
  <2> QED BY <2>1, <2>2, <2>3
<1> QED BY <1>1, <1>2, <1>3, <1>4, <1>5, <1>6, <1>7, <1>8, <1>9, <1>10, <1>11 DEF NoticeNext

LEMMA CarriedNext ==
  ASSUME Shape, Carried, [Next]_vars PROVE Carried'
PROOF
<1>1. CASE NoticeSteps BY <1>1, CarriedNotice DEF NoticeSteps
<1>2. CASE ApiRestarts BY <1>2 DEF ApiRestarts, ApiDies, Carried, Carrier
<1>3. CASE UNCHANGED nvars
  BY <1>3 DEF nvars, Carried, Pending, Wanted, Carrier, OnItsWay, Busy
<1> QED BY <1>1, <1>2, <1>3 DEF Next, AutomationSteps, vars

\* A pending notification always has something that will deliver it, whatever
\* has been restarted or has failed, unless it has lost its carrier to a failed
\* delivery or a dead worker since the last recovery.
THEOREM NoticeIsCarried == Spec => []Carried
PROOF
<1>1. Init => Carried BY DEF Init, NoticeInit, Carried, Pending
<1> QED BY <1>1, CarriedNext, ShapeHolds, PTL DEF Spec

-----------------------------------------------------------------------------
(* A cancellation is final. *)

LEMMA SilentNotice ==
  ASSUME Shape, Silent, NoticeNext PROVE Silent' /\ sends' = sends
PROOF
<1> USE DEF Silent
<1>1. CASE Schedule BY <1>1 DEF Schedule, Shape
<1>2. CASE FirstDispatch \/ CancelLoads \/ ClockTicks \/ Recovers
  BY <1>2 DEF FirstDispatch, CancelLoads, ClockTicks, Recovers
<1>4. CASE CancelCommits BY <1>4 DEF CancelCommits, Shape
<1>6. ASSUME NEW p \in Procs, TimerFires(p) PROVE Silent' /\ sends' = sends
  BY <1>6 DEF TimerFires
<1>7. ASSUME NEW d \in Deliverers, Take(d) PROVE Silent' /\ sends' = sends
  BY <1>7 DEF Take, Shape
<1>8. ASSUME NEW d \in Deliverers, Delivers(d) PROVE Silent' /\ sends' = sends
  <2>1. CASE OpensInVain(d) BY <2>1 DEF OpensInVain, Ends, Idle, Shape
  <2>2. CASE OpensEarly(d) \/ Opens(d) BY <2>2 DEF OpensEarly, Opens, Wanted
  <2>4. CASE Notifies(d) BY <2>4 DEF Notifies
  <2>5. CASE Marks(d) BY <2>5 DEF Marks, Ends, Idle, Shape
  <2> QED BY <1>8, <2>1, <2>2, <2>4, <2>5 DEF Delivers
<1>9. ASSUME NEW d \in Deliverers, DeliveryFails(d) PROVE Silent' /\ sends' = sends
  BY <1>9 DEF DeliveryFails, Ends, Idle, Shape
<1>10. CASE WorkerDies BY <1>10 DEF WorkerDies, Dies, Idle, Shape
<1> QED BY <1>1, <1>2, <1>4, <1>6, <1>7, <1>8, <1>9, <1>10 DEF NoticeNext

\* Once a notification is cancelled and no delivery is left that had loaded the
\* row before, the user gets nothing more, whatever is dispatched or recovered.
THEOREM CancellationIsFinal == Spec => CancelIsFinal
PROOF
<1>1. ASSUME Shape, [Next]_vars, Silent PROVE Silent' /\ sends' = sends
  <2>1. CASE NoticeSteps BY <1>1, <2>1, SilentNotice DEF NoticeSteps
  <2>2. CASE ApiRestarts
    BY <1>1, <2>2 DEF ApiRestarts, ApiDies, Dies, Silent, Idle, Shape
  <2>3. CASE UNCHANGED nvars BY <1>1, <2>3 DEF nvars, Silent
  <2> QED BY <1>1, <2>1, <2>2, <2>3 DEF Next, AutomationSteps, vars
<1>2. Shape /\ [Next]_vars => [Silent => Silent' /\ sends' = sends]_nvars
  BY <1>1
<1> QED BY <1>2, ShapeHolds, PTL DEF Spec, CancelIsFinal

-----------------------------------------------------------------------------
(* One notification.  Lone: without a fault there is one carrier at most, and *)
(* so nothing that could lead to a second notification.                       *)

NoTimer == [p \in Procs |-> 0]
NoName  == [p \in Procs |-> "free"]
AllIdle == \A d \in Deliverers : ~Busy(d)
Empty   == msgs = 0 /\ timers = NoTimer /\ pool = NoName /\ AllIdle
OneMsg  == msgs = 1 /\ timers = NoTimer /\ pool = NoName /\ AllIdle
OneTimer(p) == msgs = 0 /\ timers = [NoTimer EXCEPT ![p] = 1] /\ pool = NoName /\ AllIdle
OneName(p)  == msgs = 0 /\ timers = NoTimer /\ pool = [NoName EXCEPT ![p] = "queued"] /\ AllIdle
OneDelivery(d) ==
  /\ msgs = 0 /\ timers = NoTimer
  /\ Busy(d) /\ \A e \in Deliverers : Busy(e) => e = d
  /\ Freed(d) = NoName /\ \A p \in Procs : pool[p] # "queued"

OneCarrier ==
  \/ OneMsg
  \/ \E p \in Procs : OneTimer(p) \/ OneName(p)
  \/ \E d \in Deliverers : OneDelivery(d)

Lone ==
  faults = 0 => /\ ~rec /\ causes = {}
                /\ Empty \/ (asker = "over" /\ OneCarrier)

LEMMA LoneDispatch ==
  ASSUME Shape, msgs = 0, timers = NoTimer, NEW p \in Procs, Dispatch(NoName, p), AllIdle'
  PROVE  OneCarrier'
PROOF
<1>1. MaxCarriers \in Nat /\ MaxCarriers > 0 BY CarriersAssumption
<1>2. CASE ByCelery(NoName)
  <2>1. OneMsg' BY <1>1, <1>2 DEF ByCelery, More, OneMsg
  <2> QED BY <2>1 DEF OneCarrier
<1>3. CASE ByTimer(NoName, p)
  <2>1. OneTimer(p)' BY <1>1, <1>3 DEF ByTimer, More, OneTimer, NoTimer
  <2> QED BY <2>1 DEF OneCarrier
<1>4. CASE ByPool(NoName, p)
  <2>1. OneName(p)' BY <1>4 DEF ByPool, Submit, OneName, NoName
  <2> QED BY <2>1 DEF OneCarrier
<1> QED BY <1>2, <1>3, <1>4 DEF Dispatch

\* Whoever is at work is the one delivery there is.
LEMMA LoneDelivery ==
  ASSUME Lone, faults = 0, NEW d \in Deliverers, Busy(d)
  PROVE  OneDelivery(d) /\ asker = "over" /\ ~rec /\ causes = {}
PROOF BY DEF Lone, Empty, OneCarrier, OneMsg, OneTimer, OneName, OneDelivery, AllIdle

\* Once it has ended, nothing is left.
LEMMA LoneEnds ==
  ASSUME Shape, NEW d \in Deliverers, OneDelivery(d), Ends(d)
  PROVE  AllIdle'
PROOF BY DEF OneDelivery, Ends, Shape, AllIdle, Busy, Idle

LEMMA LoneDelivers ==
  ASSUME Shape, Lone, NEW d \in Deliverers, Delivers(d) PROVE Lone'
PROOF
<1> SUFFICES ASSUME faults' = 0 PROVE Lone' BY DEF Lone
<1>0. faults = 0 /\ UNCHANGED <<asker, rec>> /\ Busy(d)
  BY DEF Delivers, OpensInVain, OpensEarly, Opens, Notifies, Marks, Busy
<1>1. OneDelivery(d) /\ asker = "over" /\ ~rec /\ causes = {} BY <1>0, LoneDelivery
<1>2. CASE OpensInVain(d)
  <2>1. AllIdle' BY <1>1, <1>2, LoneEnds DEF OpensInVain
  <2>2. Empty' BY <1>1, <1>2, <2>1 DEF OpensInVain, Empty, OneDelivery
  <2> QED BY <1>0, <1>1, <1>2, <2>2 DEF OpensInVain, Lone
<1>3. CASE OpensEarly(d)
  <2>1. AllIdle' BY <1>1, <1>3, LoneEnds DEF OpensEarly
  <2>2. del[d].at \in Procs BY DEF Shape, Slot
  <2>3. OneCarrier' BY <1>1, <1>3, <2>1, <2>2, LoneDispatch DEF OpensEarly, OneDelivery
  <2> QED BY <1>0, <1>1, <1>3, <2>3 DEF OpensEarly, Lone
<1>4. CASE Opens(d)
  <2>1. \A e \in Deliverers : e # d => del'[e] = del[e] BY <1>4 DEF Opens, Shape
  <2>2. del'[d].pc = "loaded" /\ del'[d].seat = del[d].seat /\ del'[d].at = del[d].at
    BY <1>4 DEF Opens, Shape, Slot
  <2>3. OneDelivery(d)'
    BY <1>1, <1>4, <2>1, <2>2 DEF Opens, OneDelivery, Busy, Freed
  <2>4. causes' = {}
    BY <1>1, <1>4 DEF Opens, OneDelivery, Busy
  <2> QED BY <1>0, <1>1, <2>3, <2>4 DEF Lone, OneCarrier
<1>5. CASE Notifies(d)
  <2>1. \A e \in Deliverers : e # d => del'[e] = del[e] BY <1>5 DEF Notifies, Shape
  <2>2. del'[d].pc = "noticed" /\ del'[d].seat = del[d].seat /\ del'[d].at = del[d].at
    BY <1>5 DEF Notifies, Shape, Slot
  <2>3. OneDelivery(d)'
    BY <1>1, <1>5, <2>1, <2>2 DEF Notifies, OneDelivery, Busy, Freed
  <2> QED BY <1>0, <1>1, <1>5, <2>3 DEF Notifies, Lone, OneCarrier
<1>6. CASE Marks(d)
  <2>1. AllIdle' BY <1>1, <1>6, LoneEnds DEF Marks
  <2>2. Empty' BY <1>1, <1>6, <2>1 DEF Marks, Empty, OneDelivery
  <2> QED BY <1>0, <1>1, <1>6, <2>2 DEF Marks, Lone
<1> QED BY <1>2, <1>3, <1>4, <1>5, <1>6 DEF Delivers

LEMMA LoneTake ==
  ASSUME Shape, Lone, NEW d \in Deliverers, Take(d) PROVE Lone'
PROOF
<1> SUFFICES ASSUME faults' = 0 PROVE Lone' BY DEF Lone
<1>0. faults = 0 /\ UNCHANGED <<asker, rec, causes, timers>> BY DEF Take
<1>1. \A e \in Deliverers : e # d => del'[e] = del[e] BY DEF Take, Shape
<1>2. CASE /\ msgs > 0 /\ msgs' = msgs - 1 /\ UNCHANGED pool
           /\ del' = [del EXCEPT ![d] = [pc |-> "open", seat |-> "task", at |-> "worker"]]
  <2>1. OneMsg /\ asker = "over"
    BY <1>0, <1>2 DEF Lone, Empty, OneCarrier, OneTimer, OneName, OneDelivery
  <2>2. del'[d] = [pc |-> "open", seat |-> "task", at |-> "worker"] BY <1>2 DEF Shape
  <2>3. Freed(d)' = NoName /\ \A r \in Procs : pool'[r] # "queued"
    BY <1>2, <2>1, <2>2 DEF Freed, OneMsg, NoName
  <2>4. OneDelivery(d)'
    BY <1>0, <1>1, <1>2, <2>1, <2>2, <2>3 DEF OneDelivery, OneMsg, AllIdle, Busy
  <2> QED BY <1>0, <2>1, <2>4 DEF Lone, OneCarrier
<1>3. ASSUME NEW p \in Procs, pool[p] = "queued", pool' = [pool EXCEPT ![p] = "running"],
             UNCHANGED msgs,
             del' = [del EXCEPT ![d] = [pc |-> "open", seat |-> "pool", at |-> p]]
      PROVE Lone'
  <2>1. PICK q \in Procs : OneName(q) /\ asker = "over"
    <3>1. ~Empty BY <1>3 DEF Empty, NoName
    <3>2. ~OneMsg BY <1>3 DEF OneMsg, NoName
    <3>3. ~\E q \in Procs : OneTimer(q) BY <1>3 DEF OneTimer, NoName
    <3>4. ~\E e \in Deliverers : OneDelivery(e) BY <1>3 DEF OneDelivery
    <3> QED BY <1>0, <3>1, <3>2, <3>3, <3>4 DEF Lone, OneCarrier
  <2>2. q = p BY <1>3, <2>1 DEF OneName, NoName
  <2>3. del'[d] = [pc |-> "open", seat |-> "pool", at |-> p] BY <1>3 DEF Shape
  <2>4. Freed(d)' = NoName /\ \A r \in Procs : pool'[r] # "queued"
    BY <1>3, <2>1, <2>2, <2>3 DEF Freed, OneName, NoName
  <2>5. Busy(d)' /\ \A e \in Deliverers : Busy(e)' => e = d
    BY <1>1, <2>1, <2>3 DEF OneName, AllIdle, Busy
  <2>6. msgs' = 0 /\ timers' = NoTimer BY <1>0, <1>3, <2>1 DEF OneName
  <2>7. OneDelivery(d)' BY <2>4, <2>5, <2>6 DEF OneDelivery
  <2> QED BY <1>0, <2>1, <2>7 DEF Lone, OneCarrier
<1> QED BY <1>2, <1>3 DEF Take

LEMMA LoneNotice ==
  ASSUME Shape, Lone, NoticeNext PROVE Lone'
PROOF
<1> SUFFICES ASSUME faults' = 0 PROVE Lone' BY DEF Lone
<1>1. CASE Schedule
  BY <1>1 DEF Schedule, Lone, Empty, AllIdle, Busy
<1>2. CASE FirstDispatch
  <2>1. Empty /\ ~rec /\ causes = {} BY <1>2 DEF FirstDispatch, Lone
  <2>2. AllIdle' BY <1>2, <2>1 DEF FirstDispatch, Empty, AllIdle, Busy
  <2>3. OneCarrier' BY <1>2, <2>1, <2>2, LoneDispatch DEF FirstDispatch, Empty, Procs
  <2> QED BY <1>2, <2>1, <2>3 DEF FirstDispatch, Lone
<1>3. CASE CancelLoads \/ CancelCommits \/ ClockTicks
  <2>1. UNCHANGED <<faults, rec, causes, asker, msgs, timers, pool, del>>
    BY <1>3 DEF CancelLoads, CancelCommits, ClockTicks
  <2> QED
    BY <2>1 DEF Lone, Empty, OneCarrier, OneMsg, OneTimer, OneName, OneDelivery, AllIdle,
                Busy, Freed
<1>4. ASSUME NEW p \in Procs, TimerFires(p) PROVE Lone'
  <2>0. faults = 0 /\ UNCHANGED <<asker, rec, causes, msgs, del>> BY <1>4 DEF TimerFires
  <2>1. PICK q \in Procs : OneTimer(q) /\ asker = "over"
    <3>1. ~(timers = NoTimer) BY <1>4 DEF TimerFires, NoTimer
    <3> QED BY <2>0, <3>1 DEF Lone, OneCarrier, Empty, OneMsg, OneName, OneDelivery
  <2>2. q = p BY <1>4, <2>1 DEF TimerFires, OneTimer, NoTimer
  <2>3. timers' = NoTimer BY <1>4, <2>1, <2>2 DEF TimerFires, OneTimer, NoTimer
  <2>4. pool' = [NoName EXCEPT ![p] = "queued"]
    BY <1>4, <2>1 DEF TimerFires, Submit, OneTimer, NoName
  <2>5. OneName(p)' BY <2>0, <2>1, <2>3, <2>4 DEF OneName, OneTimer, AllIdle, Busy
  <2> QED BY <2>0, <2>1, <2>5 DEF Lone, OneCarrier
<1>5. ASSUME NEW d \in Deliverers, DeliveryFails(d) PROVE Lone'
  BY <1>5 DEF DeliveryFails, Shape
<1>6. CASE WorkerDies BY <1>6 DEF WorkerDies, Dies, Shape
<1>7. CASE Recovers BY <1>7 DEF Recovers, Lone
<1> QED BY <1>1, <1>2, <1>3, <1>4, <1>5, <1>6, <1>7, LoneTake, LoneDelivers DEF NoticeNext

LEMMA LoneNext ==
  ASSUME Shape, Lone, [Next]_vars PROVE Lone'
PROOF
<1>1. CASE NoticeSteps BY <1>1, LoneNotice DEF NoticeSteps
<1>2. CASE ApiRestarts BY <1>2 DEF ApiRestarts, ApiDies, Dies, Shape, Lone
<1>3. CASE UNCHANGED nvars
  BY <1>3 DEF nvars, Lone, Empty, OneCarrier, OneMsg, OneTimer, OneName, OneDelivery, AllIdle,
              Busy, Freed
<1> QED BY <1>1, <1>2, <1>3 DEF Next, AutomationSteps, vars

LEMMA LoneInit == Init => Lone
PROOF
<1> SUFFICES ASSUME NoticeInit PROVE Lone BY DEF Init
<1>1. AllIdle BY DEF NoticeInit, AllIdle, Busy, Idle
<1> QED BY <1>1 DEF NoticeInit, Lone, Empty, NoTimer, NoName

-----------------------------------------------------------------------------
(* Counted: without a cause, the notifications the user has got are told by   *)
(* the row and the delivery at work.                                          *)

Holds(d) == del[d].pc \in {"loaded", "noticed"}

Counted ==
  /\ row.sent => sends > 0
  /\ \A d \in Deliverers : del[d].pc = "noticed" => sends > 0
  /\ causes = {} =>
       /\ \A d, e \in Deliverers : Holds(d) /\ Holds(e) => d = e
       /\ row.sent => \A d \in Deliverers : ~Holds(d)
       /\ sends > 0 => row.sent \/ \E d \in Deliverers : del[d].pc = "noticed"
       /\ sends <= 1

\* A step that leaves the row's sent_at, the count and the deliveries' holds alone.
LEMMA CountedSame ==
  ASSUME Counted, row'.sent = row.sent, sends' = sends, causes' = {} => causes = {},
         \A d \in Deliverers : del'[d].pc = del[d].pc \/ (~Holds(d) /\ ~Holds(d)')
  PROVE  Counted'
PROOF BY DEF Counted, Holds

\* A delivery that ends without having notified, or the death of a process: what
\* was between its two commits is a cause.
LEMMA CountedDrop ==
  ASSUME Shape, Counted, UNCHANGED <<row, sends>>, NEW dead \in SUBSET Deliverers,
         del' = [d \in Deliverers |-> IF d \in dead THEN Idle ELSE del[d]], causes' = Cut(dead)
  PROVE  Counted'
PROOF
<1>1. \A d \in Deliverers : del'[d] = IF d \in dead THEN Idle ELSE del[d] OBVIOUS
<1>2. Idle.pc = "idle" BY DEF Idle
<1>3. causes' = {} => causes = {} /\ \A d \in dead : del[d].pc # "noticed"
  BY DEF Cut, Shape
<1> QED BY <1>1, <1>2, <1>3 DEF Counted, Holds

LEMMA CountedDelivers ==
  ASSUME Shape, Counted, NEW d \in Deliverers, Delivers(d) PROVE Counted'
PROOF
<1>0. Idle.pc = "idle" BY DEF Idle
<1>1. CASE OpensInVain(d) \/ OpensEarly(d)
  <2>1. UNCHANGED <<row, sends, causes>> /\ del[d].pc = "open"
        /\ \A e \in Deliverers : del'[e] = IF e = d THEN Idle ELSE del[e]
    BY <1>1 DEF OpensInVain, OpensEarly, Ends, Shape
  <2> QED BY <1>0, <2>1, CountedSame DEF Holds
<1>2. CASE Opens(d)
  <2>1. UNCHANGED <<row, sends>> /\ del'[d].pc = "loaded" /\ ~row.sent
        /\ \A e \in Deliverers : e # d => del'[e] = del[e]
    BY <1>2 DEF Opens, Shape, Slot, Wanted
  <2>2. causes' = {} => causes = {} /\ \A e \in Deliverers : ~Holds(e)
    BY <1>2 DEF Opens, Holds, Shape
  <2> QED BY <1>2, <2>1, <2>2 DEF Opens, Counted, Holds
<1>3. CASE Notifies(d)
  <2>1. UNCHANGED <<row, causes>> /\ del[d].pc = "loaded" /\ del'[d].pc = "noticed"
        /\ \A e \in Deliverers : e # d => del'[e] = del[e]
    BY <1>3 DEF Notifies, Shape, Slot
  <2>2. sends' > 0 /\ (sends = 0 => sends' = 1) BY <1>3 DEF Notifies, Shape
  <2>3. causes = {} => ~row.sent /\ sends = 0
    BY <2>1 DEF Counted, Holds, Shape
  <2> QED BY <2>1, <2>2, <2>3 DEF Counted, Holds
<1>4. CASE Marks(d)
  <2>1. UNCHANGED <<sends, causes>> /\ del[d].pc = "noticed" /\ row'.sent
        /\ \A e \in Deliverers : del'[e] = IF e = d THEN Idle ELSE del[e]
    BY <1>4 DEF Marks, Ends, Shape
  <2> QED BY <1>0, <2>1 DEF Counted, Holds
<1> QED BY <1>1, <1>2, <1>3, <1>4 DEF Delivers

LEMMA CountedNext ==
  ASSUME Shape, Counted, [Next]_vars PROVE Counted'
PROOF
<1>1. CASE NoticeSteps
  <2>1. CASE \/ Schedule \/ FirstDispatch \/ CancelLoads \/ CancelCommits \/ ClockTicks
             \/ Recovers \/ \E p \in Procs : TimerFires(p)
    <3>1. row'.sent = row.sent /\ UNCHANGED <<sends, causes, del>>
      BY <2>1 DEF Schedule, FirstDispatch, CancelLoads, CancelCommits, ClockTicks, Recovers,
                  TimerFires, Shape
    <3> QED BY <3>1, CountedSame
  <2>2. ASSUME NEW d \in Deliverers, Take(d) PROVE Counted'
    <3>1. row'.sent = row.sent /\ UNCHANGED <<sends, causes>> /\ ~Holds(d) /\ ~Holds(d)'
          /\ \A e \in Deliverers : e # d => del'[e] = del[e]
      BY <2>2 DEF Take, Shape, Holds
    <3> QED BY <3>1, CountedSame
  <2>3. ASSUME NEW d \in Deliverers, DeliveryFails(d) PROVE Counted'
    <3>1. del' = [e \in Deliverers |-> IF e \in {d} THEN Idle ELSE del[e]]
      BY <2>3 DEF DeliveryFails, Ends, Shape
    <3> QED BY <2>3, <3>1, CountedDrop DEF DeliveryFails
  <2>4. CASE WorkerDies BY <2>4, CountedDrop DEF WorkerDies, Dies
  <2> QED BY <1>1, <2>1, <2>2, <2>3, <2>4, CountedDelivers DEF NoticeSteps, NoticeNext
<1>2. CASE ApiRestarts BY <1>2, CountedDrop DEF ApiRestarts, ApiDies, Dies
<1>3. CASE UNCHANGED nvars BY <1>3 DEF nvars, Counted, Holds
<1> QED BY <1>1, <1>2, <1>3 DEF Next, AutomationSteps, vars

\* Without a fault the user gets one notification; a second one needs a fault, and
\* one of the two causes: a delivery cut off between its commits, or two deliveries
\* past their load at once.
THEOREM NoticeIsSentOnce == Spec => []SentOnce
PROOF
<1>1. Init => Counted
  <2> SUFFICES ASSUME NoticeInit PROVE Counted BY DEF Init
  <2>1. \A d \in Deliverers : del[d].pc = "idle" BY DEF NoticeInit, Idle
  <2> QED BY <2>1 DEF NoticeInit, Counted, Holds
<1>2. Shape /\ Lone /\ Counted => SentOnce BY DEF Shape, Lone, Counted, SentOnce
<1> QED BY <1>1, <1>2, LoneInit, LoneNext, CountedNext, ShapeHolds, PTL DEF Spec

-----------------------------------------------------------------------------
(* An automation runs once per due instant.  The strengthening: what is in the  *)
(* poller's hand has an instant of its own, not counted yet.                    *)

Hand == [pc: {"idle", "chosen", "loaded", "chat"}, snap: AutoRow]
IsDue == IF auto.next = "due" THEN 1 ELSE 0

InstantsInv ==
  /\ auto \in AutoRow /\ hand \in [Executors -> Hand] /\ ended \in BOOLEAN /\ moved \in BOOLEAN
  /\ polled \in Nat /\ taken \in Nat /\ instants \in 0 .. MaxInstants
  /\ hand["poller"].pc = "loaded" => hand["poller"].snap.enabled
  /\ ~auto.made => auto.next = "none" /\ \A x \in Executors : hand[x].pc = "idle"
  /\ polled <= instants /\ (auto.next = "due" \/ InHand => polled < instants)
  /\ taken + IsDue <= instants
  /\ ~moved => instants = polled + taken + IsDue /\ (InHand => auto.next = "due")

LEMMA DueCount == IsDue \in {0, 1}
PROOF BY DEF IsDue

\* The row and the instants as the owner leaves them.
LEMMA SetShape ==
  ASSUME InstantsInv, NEW enabled \in BOOLEAN, NEW once \in BOOLEAN,
         NEW next \in {"none", "later", "due"}, Set(enabled, once, next)
  PROVE  /\ auto' \in AutoRow /\ auto'.next = next /\ ended' \in BOOLEAN
         /\ instants' \in 0 .. MaxInstants
         /\ instants' = instants + IF next = "due" THEN 1 ELSE 0
         /\ taken' = taken + IsDue
PROOF
<1>1. auto' \in AutoRow /\ auto'.next = next BY DEF Set, InstantsInv, AutoRow
<1>2. instants' = instants + IF next = "due" THEN 1 ELSE 0 BY DEF Set, InstantsInv
<1>3. instants' \in 0 .. MaxInstants BY InstantsAssumption DEF Set, InstantsInv
<1> QED BY <1>1, <1>2, <1>3 DEF Set, Takes, InstantsInv, IsDue

LEMMA InstantsOwner ==
  ASSUME InstantsInv, Creates \/ Edits \/ Deletes \/ RunsByHand \/ FallsDue \/ EndPasses
  PROVE  InstantsInv'
PROOF
<1>1. ASSUME NEW enabled \in BOOLEAN, NEW once \in BOOLEAN,
             NEW next \in {"none", "later", "due"}, Set(enabled, once, next),
             UNCHANGED <<hand, polled>>, moved' = moved \/ moved' = (moved \/ InHand),
             ~moved' => ~InHand \/ ~auto.made
      PROVE  InstantsInv'
  <2>1. /\ auto' \in AutoRow /\ auto'.next = next /\ ended' \in BOOLEAN
        /\ instants' \in 0 .. MaxInstants
        /\ instants' = instants + IF next = "due" THEN 1 ELSE 0
        /\ taken' = taken + IsDue
    BY <1>1, SetShape
  <2>2. auto'.made BY <1>1 DEF Set, InstantsInv, AutoRow
  <2>3. moved' \in BOOLEAN /\ (~moved' => ~moved /\ ~InHand)
    <3>1. moved \in BOOLEAN BY DEF InstantsInv
    <3>2. moved' \in BOOLEAN BY <1>1, <3>1
    <3>3. ~moved /\ InHand => auto.made BY DEF InstantsInv
    <3>4. ~moved' => ~moved BY <1>1, <3>1
    <3> QED BY <1>1, <3>2, <3>3, <3>4
  <2>4. hand' = hand /\ InHand' = InHand /\ polled' = polled
    BY <1>1 DEF InHand
  <2>5. IsDue' = IF next = "due" THEN 1 ELSE 0 BY <2>1 DEF IsDue
  <2>6. IsDue \in {0, 1} BY DueCount
  <2>7. taken' \in Nat /\ taken' + IsDue' <= instants' BY <2>1, <2>5, <2>6 DEF InstantsInv
  <2>8. polled' <= instants' /\ (auto'.next = "due" \/ InHand' => polled' < instants')
    BY <2>1, <2>4, <2>6 DEF InstantsInv
  <2>9. ~moved' => instants' = polled' + taken' + IsDue'
    BY <2>1, <2>3, <2>4, <2>5, <2>6 DEF InstantsInv
  <2> QED BY <2>1, <2>2, <2>3, <2>4, <2>7, <2>8, <2>9 DEF InstantsInv
<1>2. CASE Creates \/ Edits
  <2>1. /\ UNCHANGED <<hand, polled>> /\ (moved' = moved \/ moved' = (moved \/ InHand))
        /\ ~moved' => ~InHand \/ ~auto.made
    BY <1>2 DEF Creates, Edits, InstantsInv
  <2>2. PICK enabled, once \in BOOLEAN, next \in {"none", "later", "due"} :
          Set(enabled, once, next)
    BY <1>2 DEF Creates, Edits
  <2> QED BY <1>1, <2>1, <2>2
<1>3. CASE Deletes
  <2>1. auto' \in AutoRow /\ auto'.next = "none" BY <1>3 DEF Deletes, InstantsInv, AutoRow
  <2>2. moved \in BOOLEAN /\ moved' = (moved \/ InHand) BY <1>3 DEF Deletes, InstantsInv
  <2>3. moved' \in BOOLEAN /\ (~moved' => ~moved /\ ~InHand) BY <2>2
  <2>4. hand' = hand /\ InHand' = InHand BY <1>3 DEF Deletes, InHand
  <2>5. auto'.made BY <1>3 DEF Deletes, InstantsInv, AutoRow
  <2>6. taken' = taken + IsDue /\ IsDue' = 0 /\ UNCHANGED <<ended, instants, polled>>
    BY <1>3, <2>1 DEF Deletes, Takes, InstantsInv, IsDue
  <2> QED BY <2>1, <2>3, <2>4, <2>5, <2>6, DueCount DEF InstantsInv
<1>4. CASE RunsByHand
  BY <1>4 DEF RunsByHand, Choose, InstantsInv, InHand, IsDue, Hand, Executors
<1>5. CASE FallsDue
  <2>1. auto' \in AutoRow BY <1>5 DEF FallsDue, InstantsInv, AutoRow
  <2> QED BY <1>5, <2>1, InstantsAssumption DEF FallsDue, InstantsInv, InHand, IsDue
<1>6. CASE EndPasses BY <1>6 DEF EndPasses, InstantsInv, InHand, IsDue
<1> QED BY <1>2, <1>3, <1>4, <1>5, <1>6

LEMMA InstantsExecutor ==
  ASSUME InstantsInv, NEW x \in Executors, TurnsDown(x) \/ Loads(x) \/ Starts(x) \/ Reports(x)
  PROVE  InstantsInv'
PROOF
<1>0. Rest.pc = "idle" /\ Rest \in Hand BY DEF Rest, NoAuto, AutoRow, Hand
<1>h. ASSUME NEW h \in Hand, hand' = [hand EXCEPT ![x] = h], h.pc \in {"idle", "chat"}
      PROVE  /\ hand' \in [Executors -> Hand] /\ (InHand' => InHand)
             /\ hand'["poller"].pc = "loaded" => hand'["poller"] = hand["poller"]
             /\ x = "poller" => ~InHand'
  BY <1>h DEF InstantsInv, InHand, Executors
<1>1. CASE TurnsDown(x)
  <2>1. /\ hand' \in [Executors -> Hand] /\ (InHand' => InHand)
        /\ hand'["poller"].pc = "loaded" => hand'["poller"] = hand["poller"]
        /\ x = "poller" => ~InHand'
    BY <1>0, <1>1, <1>h DEF TurnsDown
  <2>2. CASE UNCHANGED <<auto, taken, moved>>
    BY <1>1, <2>1, <2>2 DEF TurnsDown, InstantsInv, IsDue
  <2>3. CASE auto' = Off(auto) /\ Takes /\ moved' = (moved \/ (x = "request" /\ InHand))
    <3>1. auto' \in AutoRow /\ auto'.next = "none" /\ auto'.made
      BY <1>1, <2>3 DEF TurnsDown, Off, InstantsInv, AutoRow
    <3>2. moved' \in BOOLEAN /\ (~moved' => ~moved /\ ~InHand')
      <4>1. moved \in BOOLEAN /\ moved' = (moved \/ (x = "request" /\ InHand))
        BY <1>1, <2>3 DEF TurnsDown, InstantsInv
      <4>2. moved' \in BOOLEAN /\ (~moved' => ~moved) BY <4>1
      <4>3. x = "request" /\ InHand => moved' BY <4>1
      <4> QED BY <2>1, <4>2, <4>3 DEF Executors
    <3>3. taken' = taken + IsDue /\ IsDue' = 0 /\ UNCHANGED <<ended, instants, polled>>
      BY <1>1, <2>3, <3>1 DEF TurnsDown, Takes, InstantsInv, IsDue
    <3> QED BY <2>1, <3>1, <3>2, <3>3, DueCount DEF InstantsInv
  <2> QED BY <1>1, <2>2, <2>3 DEF TurnsDown
<1>2. CASE Loads(x)
  <2>1. hand'["poller"].pc = "loaded" => hand'["poller"].snap.enabled
    BY <1>2 DEF Loads, InstantsInv, Refused, Executors
  <2>2. InHand' => InHand BY <1>2 DEF Loads, InstantsInv, InHand, Executors
  <2>3. hand' \in [Executors -> Hand] BY <1>2 DEF Loads, InstantsInv, Hand
  <2> QED BY <1>2, <2>1, <2>2, <2>3 DEF Loads, InstantsInv, IsDue
<1>3. CASE Starts(x)
  <2>0. auto.made BY <1>3 DEF Starts, InstantsInv
  <2>1. hand' = [hand EXCEPT ![x] = [Rest EXCEPT !.pc = "chat"]]
        /\ [Rest EXCEPT !.pc = "chat"] \in Hand /\ [Rest EXCEPT !.pc = "chat"].pc = "chat"
    BY <1>0, <1>3 DEF Starts, Hand
  <2>2. /\ hand' \in [Executors -> Hand] /\ (InHand' => InHand)
        /\ hand'["poller"].pc = "loaded" => hand'["poller"] = hand["poller"]
        /\ x = "poller" => ~InHand'
    BY <1>0, <1>h, <2>1
  <2>3. hand[x].snap.enabled => auto' \in AutoRow /\ auto'.next # "due" /\ auto'.made
    BY <1>3, <2>0 DEF Starts, Advanced, Off, InstantsInv, AutoRow
  <2>4. ~hand[x].snap.enabled => auto' = auto
    BY <1>3 DEF Starts, Advanced
  <2>5. UNCHANGED <<ended, instants>> BY <1>3 DEF Starts
  <2>6. CASE x = "poller"
    <3>1. hand[x].snap.enabled /\ InHand
      BY <1>3, <2>6 DEF Starts, InstantsInv, InHand
    <3>2. polled' = polled + 1 /\ taken' = taken /\ moved' = moved
      BY <1>3, <2>6 DEF Starts, InstantsInv
    <3> QED BY <2>0, <2>2, <2>3, <2>5, <2>6, <3>1, <3>2 DEF InstantsInv, IsDue
  <2>7. CASE x = "request"
    <3>1. moved \in BOOLEAN /\ polled' = polled /\ moved' = (moved \/ InHand)
      BY <1>3, <2>7 DEF Starts, InstantsInv
    <3>2. moved' \in BOOLEAN /\ (~moved' => ~moved /\ ~InHand) BY <3>1
    <3>3. CASE hand[x].snap.enabled
      <4>1. taken' = taken + IsDue /\ IsDue' = 0
        BY <1>3, <2>3, <2>7, <3>3 DEF Starts, Takes, InstantsInv, IsDue
      <4> QED BY <2>0, <2>2, <2>3, <2>5, <3>1, <3>3, <3>2, <4>1, DueCount DEF InstantsInv
    <3>4. CASE ~hand[x].snap.enabled
      <4>1. taken' = taken /\ IsDue' = IsDue
        BY <1>3, <2>4, <2>7, <3>4 DEF Starts, IsDue
      <4> QED BY <2>0, <2>2, <2>4, <2>5, <3>1, <3>4, <3>2, <4>1, DueCount DEF InstantsInv
    <3> QED BY <3>3, <3>4
  <2> QED BY <2>6, <2>7 DEF Executors
<1>4. CASE Reports(x)
  BY <1>0, <1>4, <1>h DEF Reports, InstantsInv, IsDue
<1> QED BY <1>1, <1>2, <1>3, <1>4

LEMMA InstantsNext ==
  ASSUME InstantsInv, [Next]_vars PROVE InstantsInv'
PROOF
<1>1. CASE AutomationSteps
  <2>1. CASE Lists BY <2>1 DEF Lists, Due, Choose, InstantsInv, InHand, IsDue, Hand, Executors
  <2> QED BY <1>1, <2>1, InstantsOwner, InstantsExecutor DEF AutomationSteps, AutomationNext
<1>2. CASE ApiRestarts
  <2>1. Rest.pc = "idle" /\ Rest \in Hand BY DEF Rest, NoAuto, AutoRow, Hand
  <2> QED BY <1>2, <2>1 DEF ApiRestarts, Forgets, InstantsInv, InHand, IsDue, Executors
<1>3. CASE UNCHANGED avars BY <1>3 DEF avars, InstantsInv, InHand, IsDue
<1> QED BY <1>1, <1>2, <1>3 DEF Next, NoticeSteps, vars

LEMMA InstantsInit == Init => InstantsInv
PROOF
<1> SUFFICES ASSUME AutomationInit PROVE InstantsInv BY DEF Init
<1>1. auto \in AutoRow /\ auto.next = "none" BY DEF AutomationInit, NoAuto, AutoRow
<1>2. Rest.pc = "idle" /\ Rest \in Hand BY DEF Rest, NoAuto, AutoRow, Hand
<1>3. /\ hand \in [Executors -> Hand] /\ hand["poller"].pc = "idle"
      /\ \A x \in Executors : hand[x].pc = "idle"
  BY <1>2 DEF AutomationInit, Executors
<1>4. polled = 0 /\ instants = 0 /\ taken = 0 /\ moved = FALSE /\ ended = FALSE
  BY DEF AutomationInit
<1>5. moved \in BOOLEAN /\ ended \in BOOLEAN BY <1>4
<1>6. ~InHand BY <1>3 DEF InHand
<1>7. 0 \in 0 .. MaxInstants BY InstantsAssumption
<1>8. IsDue = 0 BY <1>1 DEF IsDue
<1> QED BY <1>1, <1>3, <1>4, <1>5, <1>6, <1>7, <1>8 DEF InstantsInv

LEMMA InstantsHold == Spec => []InstantsInv
PROOF BY InstantsInit, InstantsNext, PTL DEF Spec

\* The poller never starts an automation more often than it has fallen due, however
\* long its list has waited and whatever restarts; and each instant is started once,
\* taken or still to come as long as nobody moves the automation on while it is in
\* the poller's hand (execute_automation's first commit).
THEOREM RunsOncePerInstant == Spec => []OncePerInstant
PROOF
<1>1. InstantsInv => OncePerInstant BY DEF InstantsInv, IsDue, OncePerInstant
<1> QED BY <1>1, InstantsHold, PTL

-----------------------------------------------------------------------------
(* Types and bounds.  A name that runs has one delivery, and a delivery of a pool *)
(* a name that runs.                                                              *)

Seated(d, p) == Busy(d) /\ del[d].seat = "pool" /\ del[d].at = p

SeatInv ==
  /\ \A p \in Procs : pool[p] = "running" <=> \E d \in Deliverers : Seated(d, p)
  /\ \A p \in Procs, d, e \in Deliverers : Seated(d, p) /\ Seated(e, p) => d = e

Limits ==
  /\ msgs <= MaxCarriers /\ (\A p \in Procs : timers[p] <= MaxCarriers)
  /\ faults <= MaxFaults /\ cx \in {"none", "loaded", "told_cancelled", "told_sent"}

\* No name starts or stops running.
LEMMA SeatSame ==
  ASSUME SeatInv, \A p \in Procs : pool'[p] = "running" <=> pool[p] = "running",
         \A p \in Procs, d \in Deliverers : Seated(d, p)' <=> Seated(d, p)
  PROVE  SeatInv'
PROOF BY DEF SeatInv

\* A delivery ends, and its name is free, or taken again at once.
LEMMA SeatEnds ==
  ASSUME Shape, SeatInv, NEW d \in Deliverers, Busy(d), Ends(d),
         \A p \in Procs : pool'[p] = "running" <=> Freed(d)[p] = "running"
  PROVE  SeatInv'
PROOF
<1>1. \A e \in Deliverers : del'[e] = IF e = d THEN Idle ELSE del[e] BY DEF Ends, Shape
<1>2. \A p \in Procs : ~Seated(d, p)' BY <1>1 DEF Seated, Busy, Idle
<1>3. \A p \in Procs, e \in Deliverers : e # d => (Seated(e, p)' <=> Seated(e, p))
  BY <1>1 DEF Seated, Busy
<1>4. \A p \in Procs : pool'[p] = "running" <=> pool[p] = "running" /\ ~Seated(d, p)
  BY DEF Freed, Seated
<1> QED BY <1>2, <1>3, <1>4 DEF SeatInv

\* A dispatch takes no running name and stays within its bound.
LEMMA DispatchLimits ==
  ASSUME Shape, Limits, NEW p \in Procs, NEW names \in [Procs -> Pools], Dispatch(names, p)
  PROVE  /\ msgs' <= MaxCarriers /\ (\A q \in Procs : timers'[q] <= MaxCarriers)
         /\ \A q \in Procs : pool'[q] = "running" <=> names[q] = "running"
PROOF
<1>1. MaxCarriers \in Nat BY CarriersAssumption
<1>2. CASE ByCelery(names) BY <1>1, <1>2 DEF Shape, Limits, ByCelery, More
<1>3. CASE ByTimer(names, p) BY <1>1, <1>3 DEF Shape, Limits, ByTimer, More
<1>4. CASE ByPool(names, p) BY <1>1, <1>4 DEF Shape, Limits, ByPool, Submit, Pools
<1> QED BY <1>2, <1>3, <1>4 DEF Dispatch

\* The death of a process ends what it was doing.
LEMMA DiesSeats ==
  ASSUME Shape, Limits, SeatInv, faults < MaxFaults, NEW p \in Procs, Dies(p)
  PROVE  /\ SeatInv' /\ faults' <= MaxFaults
         /\ \A q \in Procs : timers'[q] <= MaxCarriers
PROOF
<1>1. \A e \in Deliverers : del'[e] = IF Busy(e) /\ del[e].at = p THEN Idle ELSE del[e]
  BY DEF Dies
<1>2. \A q \in Procs : pool'[q] = IF q = p THEN "free" ELSE pool[q] BY DEF Dies, Shape
<1>3. \A e \in Deliverers : ~Seated(e, p)' BY <1>1 DEF Seated, Busy, Idle
<1>4. \A q \in Procs, e \in Deliverers : q # p => (Seated(e, q)' <=> Seated(e, q))
  BY <1>1 DEF Seated, Busy, Idle
<1>5. SeatInv' BY <1>2, <1>3, <1>4 DEF SeatInv
<1>6. faults' <= MaxFaults /\ \A q \in Procs : timers'[q] <= MaxCarriers
  BY CarriersAssumption DEF Dies, Shape, Limits
<1> QED BY <1>5, <1>6

LEMMA BoundedNotice ==
  ASSUME Shape, Limits, SeatInv, NoticeNext PROVE Limits' /\ SeatInv'
PROOF
<1>0. MaxCarriers \in Nat /\ MaxFaults \in Nat /\ pool \in [Procs -> Pools]
  BY CarriersAssumption DEF Shape
<1>1. CASE Schedule \/ CancelLoads \/ CancelCommits \/ ClockTicks
  <2>1. /\ UNCHANGED <<msgs, timers, pool, del, faults>>
        /\ cx' \in {"none", "loaded", "told_cancelled", "told_sent"}
    BY <1>1 DEF Schedule, CancelLoads, CancelCommits, ClockTicks, Limits
  <2> QED BY <2>1, SeatSame DEF Limits, Seated, Busy
<1>2. CASE FirstDispatch \/ Recovers
  <2>1. UNCHANGED <<del, faults, cx>> /\ (Dispatch(pool, "api") \/ UNCHANGED <<msgs, timers, pool>>)
    BY <1>2 DEF FirstDispatch, Recovers
  <2>2. /\ msgs' <= MaxCarriers /\ (\A q \in Procs : timers'[q] <= MaxCarriers)
        /\ \A q \in Procs : pool'[q] = "running" <=> pool[q] = "running"
    BY <1>0, <2>1, DispatchLimits DEF Procs, Limits
  <2> QED BY <2>1, <2>2, SeatSame DEF Limits, Seated, Busy
<1>3. ASSUME NEW p \in Procs, TimerFires(p) PROVE Limits' /\ SeatInv'
  <2>1. /\ UNCHANGED <<msgs, del, faults, cx>> /\ \A q \in Procs : timers'[q] <= MaxCarriers
        /\ \A q \in Procs : pool'[q] = "running" <=> pool[q] = "running"
    BY <1>0, <1>3 DEF TimerFires, Submit, Shape, Limits
  <2> QED BY <2>1, SeatSame DEF Limits, Seated, Busy
<1>4. ASSUME NEW d \in Deliverers, Take(d) PROVE Limits' /\ SeatInv'
  <2>1. Limits' BY <1>0, <1>4 DEF Take, Limits, Shape
  <2>2. ~Busy(d) /\ \A e \in Deliverers : e # d => del'[e] = del[e]
    BY <1>4 DEF Take, Busy, Shape
  <2>3. CASE UNCHANGED pool /\
             del' = [del EXCEPT ![d] = [pc |-> "open", seat |-> "task", at |-> "worker"]]
    <3>1. \A p \in Procs : ~Seated(d, p)' BY <2>3 DEF Seated, Shape
    <3>2. \A p \in Procs, e \in Deliverers : Seated(e, p)' <=> Seated(e, p)
      BY <2>2, <3>1 DEF Seated, Busy
    <3>3. \A p \in Procs : pool'[p] = "running" <=> pool[p] = "running" BY <2>3
    <3> QED BY <2>1, <3>2, <3>3, SeatSame
  <2>4. ASSUME NEW p \in Procs, pool[p] = "queued", pool' = [pool EXCEPT ![p] = "running"],
               del' = [del EXCEPT ![d] = [pc |-> "open", seat |-> "pool", at |-> p]]
        PROVE  SeatInv'
    <3>1. \A q \in Procs : pool'[q] = IF q = p THEN "running" ELSE pool[q] BY <1>0, <2>4
    <3>2. \A q \in Procs : Seated(d, q)' <=> q = p BY <2>4 DEF Seated, Busy, Shape
    <3>3. \A q \in Procs, e \in Deliverers : e # d => (Seated(e, q)' <=> Seated(e, q))
      BY <2>2 DEF Seated, Busy
    <3>4. \A e \in Deliverers : ~Seated(e, p) BY <2>4 DEF SeatInv
    <3> QED BY <2>2, <3>1, <3>2, <3>3, <3>4 DEF SeatInv, Seated
  <2> QED BY <1>4, <2>1, <2>3, <2>4 DEF Take
<1>5. ASSUME NEW d \in Deliverers, Delivers(d) PROVE Limits' /\ SeatInv'
  <2>0. Busy(d) /\ UNCHANGED <<faults, cx>>
    BY <1>5 DEF Delivers, OpensInVain, OpensEarly, Opens, Notifies, Marks, Busy
  <2>1. CASE OpensInVain(d) \/ Marks(d)
    BY <2>0, <2>1, SeatEnds DEF OpensInVain, Marks, Limits
  <2>2. CASE OpensEarly(d)
    <3>1. del[d].at \in Procs BY DEF Shape, Slot
    <3>2. /\ msgs' <= MaxCarriers /\ (\A q \in Procs : timers'[q] <= MaxCarriers)
          /\ \A q \in Procs : pool'[q] = "running" <=> Freed(d)[q] = "running"
      BY <2>2, <3>1, FreedShape, DispatchLimits DEF OpensEarly
    <3> QED BY <2>0, <2>2, <3>2, SeatEnds DEF OpensEarly, Limits
  <2>3. CASE Opens(d) \/ Notifies(d)
    <3>1. UNCHANGED <<msgs, timers, pool>> /\ \A e \in Deliverers : e # d => del'[e] = del[e]
      BY <2>3 DEF Opens, Notifies, Shape
    <3>2. del'[d].pc # "idle" /\ del'[d].seat = del[d].seat /\ del'[d].at = del[d].at
      BY <2>3 DEF Opens, Notifies, Shape, Slot
    <3>3. \A p \in Procs, e \in Deliverers : Seated(e, p)' <=> Seated(e, p)
      BY <2>0, <3>1, <3>2 DEF Seated, Busy
    <3> QED BY <2>0, <3>1, <3>3, SeatSame DEF Limits
  <2> QED BY <1>5, <2>1, <2>2, <2>3 DEF Delivers
<1>6. ASSUME NEW d \in Deliverers, DeliveryFails(d) PROVE Limits' /\ SeatInv'
  <2>1. Limits' BY <1>0, <1>6 DEF DeliveryFails, Limits, Shape
  <2> QED BY <1>6, <2>1, SeatEnds DEF DeliveryFails
<1>7. CASE WorkerDies
  <2>1. faults < MaxFaults /\ Dies("worker") /\ cx' = cx /\ (msgs' = msgs \/ msgs' = More(msgs))
    BY <1>7 DEF WorkerDies
  <2>2. msgs' <= MaxCarriers BY <1>0, <2>1 DEF More, Limits, Shape
  <2> QED BY <2>1, <2>2, DiesSeats DEF Limits, Procs
<1> QED BY <1>1, <1>2, <1>3, <1>4, <1>5, <1>6, <1>7 DEF NoticeNext

LEMMA BoundedNext ==
  ASSUME Shape, Limits /\ SeatInv, [Next]_vars PROVE (Limits /\ SeatInv)'
PROOF
<1>1. CASE NoticeSteps BY <1>1, BoundedNotice DEF NoticeSteps
<1>2. CASE ApiRestarts
  <2>1. /\ faults < MaxFaults /\ Dies("api") /\ msgs' = msgs
        /\ cx' = IF cx = "loaded" THEN "none" ELSE cx
    BY <1>2 DEF ApiRestarts, ApiDies
  <2> QED BY <2>1, DiesSeats DEF Limits, Procs
<1>3. CASE UNCHANGED nvars BY <1>3 DEF nvars, Limits, SeatInv, Seated, Busy
<1> QED BY <1>1, <1>2, <1>3 DEF Next, AutomationSteps, vars

LEMMA BoundedInit == Init => Limits /\ SeatInv
PROOF
<1> SUFFICES ASSUME NoticeInit PROVE Limits /\ SeatInv BY DEF Init
<1>1. \A d \in Deliverers : ~Busy(d) BY DEF NoticeInit, Busy, Idle
<1>2. SeatInv BY <1>1 DEF NoticeInit, SeatInv, Seated
<1> QED BY <1>2, CarriersAssumption DEF NoticeInit, Limits

\* A run on record is one the poller has started or the owner has asked for, and
\* one that talks to the assistant is on record.
Asked == IF hand["request"].pc \in {"chosen", "loaded"} THEN 1 ELSE 0
Chats(x) == IF hand[x].pc = "chat" THEN 1 ELSE 0

OpenInv ==
  /\ edits \in 0 .. MaxEdits /\ open \in Nat
  /\ open + Asked <= polled + edits
  /\ Chats("poller") + Chats("request") <= open

LEMMA ChatsCounted ==
  Cardinality({x \in Executors : hand[x].pc = "chat"}) = Chats("poller") + Chats("request")
PROOF
<1> DEFINE S == {x \in Executors : hand[x].pc = "chat"}
<1>1. CASE hand["poller"].pc = "chat" /\ hand["request"].pc = "chat"
  <2>1. S = {"poller"} \cup {"request"} BY <1>1 DEF Executors
  <2>2. IsFiniteSet({"poller"}) /\ Cardinality({"poller"}) = 1 BY FS_Singleton
  <2>3. Cardinality({"poller"} \cup {"request"}) = 2 BY <2>2, FS_AddElement
  <2> QED BY <1>1, <2>1, <2>3 DEF Chats
<1>2. CASE hand["poller"].pc = "chat" /\ hand["request"].pc # "chat"
  <2>1. S = {"poller"} BY <1>2 DEF Executors
  <2>2. Cardinality(S) = 1 BY <2>1, FS_Singleton
  <2> QED BY <1>2, <2>2 DEF Chats
<1>3. CASE hand["poller"].pc # "chat" /\ hand["request"].pc = "chat"
  <2>1. S = {"request"} BY <1>3 DEF Executors
  <2>2. Cardinality(S) = 1 BY <2>1, FS_Singleton
  <2> QED BY <1>3, <2>2 DEF Chats
<1>4. CASE hand["poller"].pc # "chat" /\ hand["request"].pc # "chat"
  <2>1. S = {} BY <1>4 DEF Executors
  <2>2. Cardinality(S) = 0 BY <2>1, FS_EmptySet
  <2> QED BY <1>4, <2>2 DEF Chats
<1> QED BY <1>1, <1>2, <1>3, <1>4

LEMMA OpenNext ==
  ASSUME InstantsInv, OpenInv, [Next]_vars PROVE OpenInv'
PROOF
<1>0. /\ hand \in [Executors -> Hand] /\ polled \in Nat /\ edits \in Nat /\ MaxEdits \in Nat
      /\ Executors = {"poller", "request"}
  BY InstantsAssumption DEF InstantsInv, OpenInv, Executors
<1>1. ASSUME UNCHANGED <<hand, polled, open>>, edits' \in 0 .. MaxEdits, edits' >= edits
      PROVE  OpenInv'
  <2>1. Asked' = Asked /\ Chats("poller")' = Chats("poller")
        /\ Chats("request")' = Chats("request")
    BY <1>1 DEF Asked, Chats
  <2>2. Asked \in {0, 1} /\ open' = open /\ polled' = polled /\ edits' \in Nat
    BY <1>0, <1>1 DEF Asked
  <2>3. open + Asked <= polled + edits /\ open \in Nat /\ polled \in Nat /\ edits \in Nat
    BY <1>0 DEF OpenInv
  <2>4. edits' >= edits BY <1>1
  <2>5. open + Asked <= polled + edits'
    <3>1. \A o, a, p, e, f \in Nat : o + a <= p + e /\ f >= e => o + a <= p + f OBVIOUS
    <3> QED BY <2>2, <2>3, <2>4, <3>1
  <2> QED BY <1>1, <2>1, <2>2, <2>3, <2>5 DEF OpenInv
<1>2. CASE Creates \/ FallsDue \/ EndPasses
  <2>1. UNCHANGED <<hand, polled, open, edits>> BY <1>2 DEF Creates, FallsDue, EndPasses
  <2>2. edits' \in 0 .. MaxEdits /\ edits' >= edits BY <1>0, <2>1 DEF OpenInv
  <2> QED BY <1>1, <2>1, <2>2
<1>3. CASE Edits \/ Deletes
  <2>1. UNCHANGED <<hand, polled, open>> /\ edits < MaxEdits /\ edits' = edits + 1
    BY <1>3 DEF Edits, Deletes
  <2> QED BY <1>0, <1>1, <2>1
<1>4. CASE RunsByHand
  BY <1>0, <1>4 DEF RunsByHand, Choose, OpenInv, Asked, Chats
<1>5. CASE Lists
  BY <1>0, <1>5 DEF Lists, Choose, OpenInv, Asked, Chats
<1>6. ASSUME NEW x \in Executors, TurnsDown(x) PROVE OpenInv'
  <2>1. Rest.pc = "idle" BY DEF Rest
  <2> QED BY <1>0, <1>6, <2>1 DEF TurnsDown, OpenInv, Asked, Chats
<1>7. ASSUME NEW x \in Executors, Loads(x) PROVE OpenInv'
  BY <1>0, <1>7 DEF Loads, OpenInv, Asked, Chats
<1>8. ASSUME NEW x \in Executors, Starts(x) PROVE OpenInv'
  <2>1. [Rest EXCEPT !.pc = "chat"].pc = "chat" BY DEF Rest
  <2>2. /\ hand'[x].pc = "chat" /\ hand[x].pc = "loaded"
        /\ \A y \in Executors : y # x => hand'[y] = hand[y]
        /\ open' = open + 1 /\ edits' = edits
        /\ polled' = IF x = "poller" THEN polled + 1 ELSE polled
    BY <1>0, <1>8, <2>1 DEF Starts
  <2> QED BY <1>0, <2>2 DEF OpenInv, Asked, Chats
<1>9. ASSUME NEW x \in Executors, Reports(x) PROVE OpenInv'
  <2>1. Rest.pc = "idle" BY DEF Rest
  <2>2. /\ hand'[x].pc = "idle" /\ hand[x].pc = "chat"
        /\ \A y \in Executors : y # x => hand'[y] = hand[y]
        /\ (open' = open \/ open' = open - 1) /\ UNCHANGED <<edits, polled>>
    BY <1>0, <1>9, <2>1 DEF Reports
  <2>3. CASE open' = open BY <1>0, <2>2, <2>3 DEF OpenInv, Asked, Chats
  <2>4. CASE open' = open - 1 BY <1>0, <2>2, <2>4 DEF OpenInv, Asked, Chats
  <2> QED BY <2>2, <2>3, <2>4
<1>10. CASE ApiRestarts
  <2>1. \A x \in Executors : hand'[x].pc = "idle" BY <1>10 DEF ApiRestarts, Forgets, Rest
  <2> QED BY <1>0, <1>10, <2>1 DEF ApiRestarts, OpenInv, Asked, Chats
<1>11. CASE UNCHANGED avars
  BY <1>0, <1>1, <1>11 DEF avars, OpenInv
<1> QED
  BY <1>2, <1>3, <1>4, <1>5, <1>6, <1>7, <1>8, <1>9, <1>10, <1>11
  DEF Next, NoticeSteps, AutomationSteps, AutomationNext, vars

LEMMA OpenInit == Init => OpenInv
PROOF
<1> SUFFICES ASSUME AutomationInit PROVE OpenInv BY DEF Init
<1>1. \A x \in Executors : hand[x].pc = "idle" BY DEF AutomationInit, Rest
<1> QED BY <1>1, InstantsAssumption DEF AutomationInit, OpenInv, Asked, Chats, Executors

\* Carriers, names and deliveries fit together: one delivery per running name
\* (submit_background), and what is recorded as running of an automation covers
\* what is at work and no more than was started (execute_automation).
THEOREM TimedTyped == Spec => []TypeOK
PROOF
<1>1. Shape /\ Limits /\ SeatInv => NoticeTypeOK
  <2> SUFFICES ASSUME Shape, Limits, SeatInv PROVE NoticeTypeOK OBVIOUS
  <2> DEFINE At(p) == {d \in Deliverers : Busy(d) /\ del[d].seat = "pool" /\ del[d].at = p}
  <2>1. ASSUME NEW p \in Procs, pool[p] = "running" PROVE Cardinality(At(p)) = 1
    <3>1. PICK d \in Deliverers : Seated(d, p) BY <2>1 DEF SeatInv
    <3>2. At(p) = {d} BY <3>1 DEF SeatInv, Seated
    <3> QED BY <3>2, FS_Singleton
  <2>2. ASSUME NEW p \in Procs, pool[p] # "running" PROVE Cardinality(At(p)) = 0
    <3>1. At(p) = {} BY <2>2 DEF SeatInv, Seated
    <3> QED BY <3>1, FS_EmptySet
  <2>3. \A p \in Procs : Cardinality(At(p)) = IF pool[p] = "running" THEN 1 ELSE 0
    BY <2>1, <2>2
  <2>4. msgs \in 0 .. MaxCarriers /\ timers \in [Procs -> 0 .. MaxCarriers]
        /\ faults \in 0 .. MaxFaults
    BY CarriersAssumption DEF Shape, Limits
  <2> HIDE DEF At
  <2>5. NoticeTypeOK <=>
          /\ row \in [made: BOOLEAN, sent: BOOLEAN, cancelled: BOOLEAN]
          /\ when \in {"far", "near", "due", "old"} /\ asker \in {"none", "added", "over"}
          /\ msgs \in 0 .. MaxCarriers /\ timers \in [Procs -> 0 .. MaxCarriers]
          /\ pool \in [Procs -> {"free", "queued", "running"}] /\ del \in [Deliverers -> Slot]
          /\ cx \in {"none", "loaded", "told_cancelled", "told_sent"}
          /\ rec \in BOOLEAN /\ lost \in BOOLEAN /\ faults \in 0 .. MaxFaults
          /\ sends \in 0 .. 2 /\ causes \subseteq {"cut", "both"}
          /\ \A p \in Procs : Cardinality(At(p)) = IF pool[p] = "running" THEN 1 ELSE 0
    BY DEF NoticeTypeOK, At
  <2> QED BY <2>3, <2>4, <2>5 DEF Shape, Limits, Pools
<1>2. InstantsInv /\ OpenInv => AutomationTypeOK
  <2> SUFFICES ASSUME InstantsInv, OpenInv PROVE AutomationTypeOK OBVIOUS
  <2>1. polled \in 0 .. MaxInstants /\ taken \in 0 .. MaxInstants
    BY DueCount, InstantsAssumption DEF InstantsInv
  <2>2. open \in 0 .. (MaxInstants + MaxEdits)
    BY <2>1, InstantsAssumption DEF OpenInv, Asked
  <2> QED BY <2>1, <2>2, ChatsCounted DEF AutomationTypeOK, InstantsInv, OpenInv, Hand
<1>3. Shape /\ Limits /\ SeatInv /\ InstantsInv /\ OpenInv => TypeOK BY <1>1, <1>2 DEF TypeOK
<1>4. Spec => [](Limits /\ SeatInv) BY BoundedInit, BoundedNext, ShapeHolds, PTL DEF Spec
<1>5. Spec => []OpenInv BY OpenInit, OpenNext, InstantsHold, PTL DEF Spec
<1> QED BY <1>3, <1>4, <1>5, ShapeHolds, InstantsHold, PTL
=============================================================================
