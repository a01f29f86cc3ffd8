--------------------------- MODULE IndexJobProofs ---------------------------
(***************************************************************************)
(* What TLAPS proves of IndexJob, for every set of workers, every choice   *)
(* of modes, routes, verdicts and events, and every bound:                 *)
(*   TypeCorrect    Spec => []TypeOK                                       *)
(*   LeaseInvHolds  Spec => []LeaseInv, the inductive one                  *)
(*   LeaseHolds     Spec => []ExclusiveLease                               *)
(***************************************************************************)
EXTENDS IndexJob, TLAPS

ExType == [Workers -> Slot]

-----------------------------------------------------------------------------
(* The operators on rows. *)

\* The constant rows, and what every operator of JobRow makes of a row, are
\* rows: no session writes anything else.
LEMMA RowConstants == NoSnap \in Row /\ EmptyPayload \in Payload /\ Idle \in Slot
  BY DEF NoSnap, EmptyPayload, Idle, Slot, Row, Payload, Status, Active, Terminal,
         Phase, Lease, Watch, PC

\* What the operators on payloads return are payloads.
LEMMA PayloadOperators ==
  ASSUME NEW p \in Payload, NEW started \in Watch
  PROVE  /\ EnterAwaiting(p, started) \in Payload
         /\ TakeLease(p) \in Payload
         /\ DropLease(p) \in Payload
         /\ ClearPhaseFields(p) \in Payload
  BY RowConstants DEF EnterAwaiting, TakeLease, DropLease, ClearPhaseFields, Payload,
         Phase, Lease, Watch

\* What the operators on rows return are rows.
LEMMA RowOperators ==
  ASSUME NEW r \in Row, NEW st \in Status
  PROVE  /\ SetStatus(r, st) \in Row
         /\ Settle(r, st) \in Row
         /\ Lapse(r) \in Row
         /\ Overrun(r) \in Row
  <1>1. SetStatus(r, st) \in Row
    BY DEF SetStatus, Row
  <1>2. Settle(r, st) \in Row
    BY PayloadOperators, RowConstants DEF Settle, Row, ClearPhaseFields
  <1>3. Lapse(r) \in Row
    BY DEF Lapse, Row, Payload, Lease
  <1>4. Overrun(r) \in Row
    BY DEF Overrun, Row, Payload, Watch
  <1> QED
    BY <1>1, <1>2, <1>3, <1>4

\* A commit leaves a row, and either nothing has changed it since the session
\* loaded it (then it is the new one), or its status and payload are each the
\* session's or the row's own.
LEMMA FlushRow ==
  ASSUME NEW db \in Row, NEW old \in Row, NEW new \in Row, NEW touched \in BOOLEAN
  PROVE  /\ Flush(db, old, new, touched) \in Row
         /\ db = old => Flush(db, old, new, touched) = new
  BY DEF Flush, Row

\* A commit that is not on record as a breach wrote over the row it loaded,
\* or wrote nothing.
LEMMA CommitRow ==
  ASSUME NEW old \in Row, NEW new \in Row, NEW touched \in BOOLEAN,
         row \in Row, breach \in Causes \cup {"none"},
         Commit(old, new, touched)
  PROVE  /\ row' \in Row
         /\ breach' \in Causes \cup {"none"}
         /\ breach' = "none" =>
              breach = "none" /\ (row' = row \/ (row = old /\ row' = new))
  BY FlushRow DEF Commit, Broken, Causes

-----------------------------------------------------------------------------
(* The operators on slots and queues. *)

\* The four ways an executor's slot changes keep its type, touch no other
\* slot, and leave the counter and the loaded row they say.
LEMMA SlotRead ==
  ASSUME TypeOK, NEW w \in Workers
  PROVE  ex \in ExType /\ ex[w] \in Slot /\ ex[w].snap \in Row /\ ex[w].pc \in PC
  BY DEF TypeOK, ExType, Slot

Others(w) == \A v \in Workers \ {w} : ex'[v] = ex[v]

\* Goto moves the counter and drops the loaded row.
LEMMA SlotGoto ==
  ASSUME TypeOK, NEW w \in Workers, NEW p \in PC, Goto(w, p)
  PROVE  ex' \in ExType /\ Others(w) /\ ex'[w].pc = p /\ ex'[w].snap = NoSnap
  BY RowConstants DEF TypeOK, ExType, Goto, Others, Slot

\* Hold moves the counter and keeps the row it is given.
LEMMA SlotHold ==
  ASSUME TypeOK, NEW w \in Workers, NEW p \in PC, NEW r \in Row, Hold(w, p, r)
  PROVE  ex' \in ExType /\ Others(w) /\ ex'[w].pc = p /\ ex'[w].snap = r
  <1> DEFINE slot == [ex[w] EXCEPT !.pc = p, !.snap = r]
  <1>1. slot \in Slot /\ slot.pc = p /\ slot.snap = r
    BY DEF TypeOK, ExType, Slot
  <1>2. ex' = [ex EXCEPT ![w] = slot]
    BY DEF Hold
  <1> HIDE DEF slot
  <1> QED
    BY <1>1, <1>2 DEF TypeOK, ExType, Others

\* Finally moves the counter to the finally block.
LEMMA SlotFinally ==
  ASSUME TypeOK, NEW w \in Workers, Finally(w)
  PROVE  ex' \in ExType /\ Others(w) /\ ex'[w].pc = "close"
  <1>1. [Idle EXCEPT !.pc = "close", !.seat = ex[w].seat] \in Slot
    BY RowConstants DEF TypeOK, Idle, Slot, PC, Opening, Running, Closing
  <1>2. [Idle EXCEPT !.pc = "close", !.seat = ex[w].seat].pc = "close"
    BY DEF Idle
  <1> QED
    BY <1>1, <1>2 DEF TypeOK, ExType, Finally, Others

\* Leave empties the slot and keeps the pool's name well typed.
LEMMA SlotLeave ==
  ASSUME TypeOK, NEW w \in Workers, Leave(w)
  PROVE  /\ ex' \in ExType /\ Others(w) /\ ex'[w].pc = "idle"
         /\ pool' \in {"free", "queued", "running"}
  <1>1. Idle \in Slot /\ Idle.pc = "idle"
    BY RowConstants DEF Idle
  <1> QED
    BY <1>1 DEF TypeOK, ExType, Leave, Others

\* A dispatch keeps the queues within their bounds.
LEMMA DispatchTypes ==
  ASSUME TypeOK, NEW c \in BOOLEAN, Dispatch(c)
  PROVE  /\ celery' \in 0 .. MaxQueue /\ timers' \in 0 .. MaxQueue
         /\ pool' \in {"free", "queued", "running"}
  BY BoundsAssumption DEF TypeOK, Dispatch, More, SubmitBackground

\* update_job_status and the terminal claim leave a row.
LEMMA UpdateRow ==
  ASSUME TypeOK, NEW st \in Status, Update(st)
  PROVE  /\ row' \in Row
         /\ breach' \in Causes \cup {"none"}
         /\ breach' = "none" => breach = "none"
         /\ row' = SetStatus(row, st)
  <1>1. row \in Row /\ SetStatus(row, st) \in Row /\ breach \in Causes \cup {"none"}
    BY RowOperators DEF TypeOK
  <1>2. Commit(row, SetStatus(row, st), FALSE)
    BY DEF Update
  <1>3. row' = SetStatus(row, st)
    BY <1>1, <1>2, FlushRow DEF Commit
  <1> QED
    BY <1>1, <1>2, <1>3, CommitRow

\* The terminal claim leaves a row, settled or as it was, and counts to two.
LEMMA ClaimRow ==
  ASSUME TypeOK, NEW snap \in Row, NEW st \in {"done", "failed"}, Claim(snap, st)
  PROVE  /\ row' \in Row
         /\ breach' \in Causes \cup {"none"}
         /\ breach' = "none" =>
              breach = "none" /\ (row' = row \/ row' = Settle(snap, st))
         /\ notified' \in 0 .. 2
  <1>1. row \in Row /\ Settle(snap, st) \in Row /\ breach \in Causes \cup {"none"}
        /\ notified \in 0 .. 2
    BY RowOperators DEF TypeOK, Status, Terminal
  <1>2. ASSUME Commit(snap, Settle(snap, st), FALSE)
        PROVE  /\ row' \in Row
               /\ breach' \in Causes \cup {"none"}
               /\ breach' = "none" =>
                    breach = "none" /\ (row' = row \/ row' = Settle(snap, st))
    BY <1>1, <1>2, CommitRow
  <1>3. ASSUME notified' = IF notified < 2 THEN notified + 1 ELSE notified
        PROVE  notified' \in 0 .. 2
    BY <1>1, <1>3
  <1>4. CASE UNCHANGED <<row, breach, notified>>
    BY <1>1, <1>4
  <1>5. CASE /\ Commit(snap, Settle(snap, st), FALSE)
             /\ notified' = IF notified < 2 THEN notified + 1 ELSE notified
    BY <1>2, <1>3, <1>5
  <1> QED
    BY <1>4, <1>5 DEF Claim

-----------------------------------------------------------------------------
(* The shape of an executor's step. *)

Unmoved == UNCHANGED <<mode, exists, target, kf, aged, asks, faults, celery, timers, cx, rec>>

Typed ==
  /\ ex' \in ExType /\ row' \in Row /\ indexed' \in BOOLEAN
  /\ pool' \in {"free", "queued", "running"}
  /\ notified' \in 0 .. 2 /\ breach' \in Causes \cup {"none"}

\* A step that leaves the outside alone keeps the type invariant if the rest
\* keeps its types.
LEMMA TypeKept ==
  ASSUME TypeOK, Unmoved, Typed
  PROVE  TypeOK'
  BY DEF TypeOK, Unmoved, Typed, ExType

\* The counter of the slot, after a step of a busy slot.
Onward(w) ==
  /\ ex'[w].pc # "begin"
  /\ ex'[w].pc = "defer" => ex'[w].snap.status # "cancelled"

\* While the lease is unbroken: the row the step leaves suits the counter.
RowSuits(w) ==
  breach' = "none" =>
    /\ breach = "none"
    /\ Holding(w)' /\ exists' /\ IsActive(row') => LeaseIsActive(row')
    /\ ex'[w].pc \in Running /\ exists' => row'.status \notin {"done", "failed"}

\* The lease is exclusive, so a step of the slot that holds it has to care for
\* that slot alone.
LEMMA SafeStep ==
  ASSUME TypeOK, LeaseInv, NEW w \in Workers, Holding(w), Others(w),
         UNCHANGED rec, Onward(w), RowSuits(w)
  PROVE  LeaseInv'
  <1>1. SnapsAsSeen'
    BY DEF LeaseInv, SnapsAsSeen, Others, Onward
  <1>2. ASSUME breach' = "none" PROVE (OneHolder /\ HolderIsLeased /\ RunningUnsettled)'
    <2>1. breach = "none" /\ OneHolder
      BY <1>2 DEF RowSuits, LeaseInv
    <2>2. \A v \in Workers \ {w} : ~Holding(v)
      BY <2>1 DEF OneHolder
    <2>3. \A v \in Workers \ {w} : ~Holding(v)' /\ ex'[v].pc \notin Running
      BY <2>2 DEF Holding, Others
    <2>4. OneHolder'
      BY <2>3 DEF OneHolder
    <2>5. HolderIsLeased'
      BY <2>3, <1>2 DEF HolderIsLeased, RowSuits
    <2>6. RunningUnsettled'
      BY <2>3, <1>2 DEF RunningUnsettled, RowSuits
    <2> QED
      BY <2>4, <2>5, <2>6
  <1> QED
    BY <1>1, <1>2 DEF LeaseInv

\* What a busy slot knows of the row while the lease is unbroken.
LEMMA HolderKnows ==
  ASSUME LeaseInv, breach = "none", exists, NEW w \in Workers, Holding(w)
  PROVE  /\ IsActive(row) => LeaseIsActive(row)
         /\ ex[w].pc \in Running => row.status \notin {"done", "failed"}
  BY DEF LeaseInv, HolderIsLeased, RunningUnsettled

\* A step that writes nothing suits, unless it goes back from the finally block.
LEMMA IdleRow ==
  ASSUME LeaseInv, NEW w \in Workers, Holding(w),
         UNCHANGED <<row, breach, exists>>,
         ex'[w].pc \in Running => ex[w].pc \in Running
  PROVE  RowSuits(w)
  BY HolderKnows DEF RowSuits

Kept == TypeOK' /\ (LeaseInv => LeaseInv')

\* A step of a busy slot that moves its counter and loads, but writes nothing.
LEMMA QuietStep ==
  ASSUME TypeOK, NEW w \in Workers, Holding(w), Unmoved, ex' \in ExType, Others(w),
         Onward(w), UNCHANGED <<row, breach, notified, pool>>, indexed' \in BOOLEAN,
         ex'[w].pc \in Running => ex[w].pc \in Running
  PROVE  Kept
  <1>1. TypeOK'
    BY TypeKept DEF Typed, TypeOK
  <1>2. ASSUME LeaseInv PROVE LeaseInv'
    <2>1. RowSuits(w)
      BY <1>2, IdleRow DEF Unmoved
    <2> QED
      BY <1>2, <2>1, SafeStep DEF Unmoved
  <1> QED
    BY <1>1, <1>2 DEF Kept

\* The ways a busy slot moves on: to the finally block, or to a counter that
\* is neither "begin" nor, with a cancelled job, "defer".
Moves(w) ==
  \/ Finally(w)
  \/ \E p \in PC \ {"begin", "defer"} : Goto(w, p)
  \/ \E p \in PC \ {"begin"}, r \in Row :
       Hold(w, p, r) /\ (p = "defer" => r.status # "cancelled")

\* A step whose counter goes elsewhere than to begin or defer is onward.
LEMMA MovesOnward ==
  ASSUME TypeOK, NEW w \in Workers, Moves(w)
  PROVE  ex' \in ExType /\ Others(w) /\ Onward(w)
  <1>1. CASE Finally(w)
    BY <1>1, SlotFinally DEF Onward
  <1>2. ASSUME NEW p \in PC \ {"begin", "defer"}, Goto(w, p)
        PROVE  ex' \in ExType /\ Others(w) /\ Onward(w)
    BY <1>2, SlotGoto DEF Onward
  <1>3. ASSUME NEW p \in PC \ {"begin"}, NEW r \in Row, Hold(w, p, r),
               p = "defer" => r.status # "cancelled"
        PROVE  ex' \in ExType /\ Others(w) /\ Onward(w)
    BY <1>3, SlotHold DEF Onward
  <1> QED
    BY <1>1, <1>2, <1>3 DEF Moves

-----------------------------------------------------------------------------
(* The steps that load, and write nothing. *)

Loads(w) ==
  \/ Route(w) \/ SyncCompleted(w) \/ PollOpens(w) \/ WaitEnds(w)
  \/ AfterParsed(w) \/ AfterError(w) \/ AfterUndone(w) \/ Close(w)

\* Their slots move on, and none goes back from the finally block.
LEMMA LoadsMove ==
  ASSUME TypeOK, NEW w \in Workers, Loads(w)
  PROVE  /\ Holding(w) /\ ex' \in ExType /\ Others(w) /\ Onward(w)
         /\ ex'[w].pc \in Running => ex[w].pc \in Running
  <1> USE DEF PC, Running, Closing, Holding
  <1>0. row \in Row
    BY DEF TypeOK
  <1>1. CASE Route(w)
    <2>1. ASSUME NEW st \in {"overdue", "fresh"},
                 ex' = [ex EXCEPT ![w] = [@ EXCEPT !.pc = "nap", !.stage = st]]
          PROVE  ex' \in ExType /\ Others(w) /\ Onward(w)
      <3>1. [[ex[w] EXCEPT !.pc = "nap"] EXCEPT !.stage = st] \in Slot
        BY SlotRead DEF Slot
      <3> QED
        BY <2>1, <3>1, SlotRead DEF ExType, Others, Slot, Onward
    <2>2. ASSUME Hold(w, "start", row) PROVE Moves(w)
      BY <1>0, <2>2 DEF Moves
    <2>3. ASSUME Finally(w) PROVE Moves(w)
      BY <2>3 DEF Moves
    <2>4. ex' \in ExType /\ Others(w) /\ Onward(w)
      BY <1>1, <2>1, <2>2, <2>3, MovesOnward DEF Route
    <2> QED
      BY <1>1, <2>4 DEF Route
  <1>2. CASE WaitEnds(w)
    <2>1. [[ex[w] EXCEPT !.pc = "undone"] EXCEPT !.due = FALSE] \in Slot
      BY SlotRead DEF Slot
    <2>2. ex' = [ex EXCEPT ![w] = [[ex[w] EXCEPT !.pc = "undone"] EXCEPT !.due = FALSE]]
      BY <1>2, SlotRead DEF WaitEnds, ExType
    <2> QED
      BY <1>2, <2>1, <2>2, SlotRead DEF WaitEnds, ExType, Others, Slot, Onward
  <1>3. CASE Close(w)
    <2>1. ex' \in ExType /\ Others(w) /\ ex'[w].pc = "end"
      BY <1>0, <1>3, SlotHold DEF Close
    <2> QED
      BY <1>3, <2>1 DEF Close, Onward
  <1>4. CASE AfterUndone(w)
    <2>1. ShouldAbort \/ row.status # "cancelled"
      BY DEF ShouldAbort
    <2> QED
      BY <1>0, <1>4, <2>1, MovesOnward DEF AfterUndone, Moves
  <1>5. CASE SyncCompleted(w) \/ PollOpens(w) \/ AfterParsed(w) \/ AfterError(w)
    BY <1>0, <1>5, MovesOnward DEF SyncCompleted, PollOpens, AfterParsed, AfterError, Moves
  <1> QED
    BY <1>1, <1>2, <1>3, <1>4, <1>5 DEF Loads

\* The steps that only load the row keep the invariants.
LEMMA LoadsKeep ==
  ASSUME TypeOK, NEW w \in Workers, Loads(w)
  PROVE  Kept
  <1>1. Unmoved /\ UNCHANGED <<row, breach, notified, pool>> /\ indexed' \in BOOLEAN
    BY DEF Loads, Route, SyncCompleted, PollOpens, WaitEnds, AfterParsed, AfterError,
           AfterUndone, Close, Unmoved, Outside, world, TypeOK
  <1> QED
    BY <1>1, LoadsMove, QuietStep

-----------------------------------------------------------------------------
(* The steps that write. *)

\* A commit of a running executor that keeps or renews the lease, and settles
\* nothing: the row it leaves suits the slot, which may hold on.
LEMMA GoesOn ==
  ASSUME TypeOK, LeaseInv, NEW w \in Workers, ex[w].pc \in Running,
         exists, UNCHANGED exists, NEW old \in Row, NEW new \in Row,
         breach' = "none" => breach = "none" /\ (row' = row \/ (row = old /\ row' = new)),
         new.pay.lease \in {old.pay.lease, "live"},
         new.status \in {old.status, "running", "cancelled"},
         old.status = "cancelled" => new.status = "cancelled"
  PROVE  RowSuits(w)
  <1>1. SUFFICES ASSUME breach' = "none"
                 PROVE  /\ breach = "none"
                        /\ IsActive(row') => LeaseIsActive(row')
                        /\ row'.status \notin {"done", "failed"}
    BY DEF RowSuits
  <1>2. /\ IsActive(row) => LeaseIsActive(row)
        /\ row.status \notin {"done", "failed"}
    BY <1>1, HolderKnows DEF Holding
  <1>3. CASE row' = row
    BY <1>1, <1>2, <1>3
  <1>4. CASE row = old /\ row' = new
    <2>1. IsActive(new) => IsActive(old)
      BY <1>2, <1>4 DEF IsActive, Active, Row, Status, Terminal
    <2> QED
      BY <1>1, <1>2, <1>4, <2>1 DEF LeaseIsActive
  <1> QED
    BY <1>1, <1>3, <1>4

\* A step into the finally block, or out of it, suits when the job it leaves is
\* settled or untouched.
LEMMA LeavesOff ==
  ASSUME TypeOK, LeaseInv, NEW w \in Workers, Holding(w), exists, UNCHANGED exists,
         breach' = "none" => breach = "none" /\ (row' = row \/ ~IsActive(row')),
         ex'[w].pc \notin Running
  PROVE  RowSuits(w)
  BY HolderKnows DEF RowSuits

\* A settled row is not active.
LEMMA SettledStatus ==
  ASSUME NEW r \in Row
  PROVE  /\ \A st \in Terminal : ~IsActive(Settle(r, st))
         /\ ~IsActive(SetStatus(r, "failed")) /\ ~IsActive(SetStatus(r, "cancelled"))
         /\ ~IsActive(Settle(r, StopStatus(r)))
  BY DEF Settle, SetStatus, StopStatus, IsActive, Active, Terminal, Row, Status

\* The steps that end in the finally block with the job settled, if at all.
Settling(w) ==
  \/ SyncBlocked(w) \/ Fail(w) \/ Finish(w) \/ PageIndexEnds(w)

\* The steps that settle the job, or find it settled, keep the invariants.
LEMMA SettlingKeeps ==
  ASSUME TypeOK, NEW w \in Workers, Settling(w)
  PROVE  Kept
  <1>1. /\ exists /\ UNCHANGED exists /\ Holding(w) /\ Finally(w) /\ Unmoved
        /\ UNCHANGED pool /\ indexed' \in BOOLEAN
    BY DEF Settling, SyncBlocked, Fail, Finish, PageIndexEnds, Holding,
           Running, Outside, world, Unmoved, TypeOK
  <1> DEFINE Settled ==
        /\ row' \in Row /\ breach' \in Causes \cup {"none"} /\ notified' \in 0 .. 2
        /\ breach' = "none" => breach = "none" /\ (row' = row \/ ~IsActive(row'))
  <1>2. Settled
    <2>1. ASSUME NEW st \in {"done", "failed"}, Claim(ex[w].snap, st) PROVE Settled
      BY <2>1, ClaimRow, SettledStatus, SlotRead DEF Terminal
    <2>2. ASSUME Commit(ex[w].snap, SetStatus(ex[w].snap, "failed"), FALSE),
                 UNCHANGED notified
          PROVE  Settled
      <3>1. SetStatus(ex[w].snap, "failed") \in Row
        BY SlotRead, RowOperators DEF Status, Terminal
      <3>2. row \in Row /\ breach \in Causes \cup {"none"} /\ notified \in 0 .. 2
        BY DEF TypeOK
      <3> QED
        BY <2>2, <3>1, <3>2, SlotRead, SettledStatus, CommitRow
    <2> QED
      BY <2>1, <2>2 DEF Settling, SyncBlocked, Fail, Finish, PageIndexEnds
  <1>3. ex' \in ExType /\ Others(w) /\ ex'[w].pc = "close"
    BY <1>1, SlotFinally
  <1>4. TypeOK'
    BY <1>1, <1>2, <1>3, TypeKept DEF Typed, TypeOK
  <1>5. ASSUME LeaseInv PROVE LeaseInv'
    <2>1. RowSuits(w) /\ Onward(w)
      BY <1>1, <1>2, <1>3, <1>5, LeavesOff DEF Running, Onward
    <2> QED
      BY <1>1, <1>3, <1>5, <2>1, SafeStep DEF Unmoved
  <1> QED
    BY <1>4, <1>5 DEF Kept

\* The upload that raises settles the job, or finds it settled, and may take the
\* version's mark away and leave a parse behind.
LEMMA SyncRaisesKeeps ==
  ASSUME TypeOK, NEW w \in Workers, ex[w].pc = "sync", exists, SyncRaises(w), Finally(w),
         UNCHANGED celery, faults' \in 0 .. MaxFaults
  PROVE  Kept
  <1> DEFINE Settled ==
        /\ row' \in Row /\ breach' \in Causes \cup {"none"} /\ notified' \in 0 .. 2
        /\ breach' = "none" => breach = "none" /\ (row' = row \/ ~IsActive(row'))
  <1>1. UNCHANGED <<mode, exists, target, aged, asks, timers, pool, cx, rec>>
    BY DEF SyncRaises
  <1>2. Settled
    <2>1. ASSUME NEW r \in Row, Claim(r, "failed") PROVE Settled
      BY <2>1, ClaimRow, SettledStatus DEF Terminal
    <2>2. ASSUME Update("failed"), UNCHANGED notified PROVE Settled
      BY <2>2, UpdateRow, SettledStatus DEF TypeOK, Status, Terminal
    <2>3. row \in Row /\ ex[w].snap \in Row
      BY SlotRead DEF TypeOK
    <2> QED
      BY <2>1, <2>2, <2>3 DEF SyncRaises
  <1> HIDE DEF Settled
  <1>3. kf' \in KfState /\ indexed' \in BOOLEAN
    BY DEF SyncRaises, TypeOK, KfState
  <1>4. ex' \in ExType /\ Others(w) /\ ex'[w].pc = "close"
    BY SlotFinally
  <1>5. TypeOK'
    BY <1>1, <1>2, <1>3, <1>4 DEF TypeOK, ExType, Settled
  <1>6. ASSUME LeaseInv PROVE LeaseInv'
    <2>1. Holding(w)
      BY DEF Holding, Running
    <2>2. RowSuits(w) /\ Onward(w)
      BY <1>1, <1>2, <1>4, <1>6, <2>1, LeavesOff DEF Running, Onward, Settled
    <2> QED
      BY <1>1, <1>4, <1>6, <2>1, <2>2, SafeStep
  <1> QED
    BY <1>5, <1>6 DEF Kept

\* A running executor's commit and its move, whatever else the step changes:
\* the lease invariant is kept.
LEMMA GoesOnKeeps ==
  ASSUME TypeOK, NEW w \in Workers, ex[w].pc \in Running, exists,
         UNCHANGED <<exists, rec>>, Moves(w),
         NEW old \in Row, NEW new \in Row, NEW touched \in BOOLEAN,
         Commit(old, new, touched),
         new.pay.lease \in {old.pay.lease, "live"},
         new.status \in {old.status, "running", "cancelled"},
         old.status = "cancelled" => new.status = "cancelled"
  PROVE  /\ row' \in Row /\ breach' \in Causes \cup {"none"}
         /\ ex' \in ExType
         /\ LeaseInv => LeaseInv'
  <1>1. /\ row' \in Row /\ breach' \in Causes \cup {"none"}
        /\ breach' = "none" =>
             breach = "none" /\ (row' = row \/ (row = old /\ row' = new))
    <2>1. row \in Row /\ breach \in Causes \cup {"none"}
      BY DEF TypeOK
    <2> QED
      BY <2>1, CommitRow
  <1>2. ex' \in ExType /\ Others(w) /\ Onward(w)
    BY MovesOnward
  <1>3. ASSUME LeaseInv PROVE LeaseInv'
    <2>1. RowSuits(w)
      BY <1>1, <1>3, GoesOn
    <2> QED
      BY <1>2, <1>3, <2>1, SafeStep DEF Holding
  <1> QED
    BY <1>1, <1>2, <1>3

\* The rows such a step may write, and their leases and statuses.
LEMMA WrittenRows ==
  ASSUME NEW r \in Row
  PROVE  /\ LET new == SetStatus(r, "running")
            IN  /\ new \in Row /\ new.pay.lease = r.pay.lease
                /\ new.status \in {r.status, "running"}
                /\ r.status = "cancelled" => new.status = "cancelled"
         /\ LET new == [r EXCEPT !.pay = TakeLease(@)]
            IN  new \in Row /\ new.pay.lease = "live" /\ new.status = r.status
         /\ \A started \in Watch :
              LET new == [status |-> "running", pay |-> EnterAwaiting(r.pay, started)]
              IN  new \in Row /\ new.pay.lease = r.pay.lease /\ new.status = "running"
  <1>1. SetStatus(r, "running") \in Row
    BY RowOperators DEF Status, Active
  <1>2. TakeLease(r.pay) \in Payload /\ TakeLease(r.pay).lease = "live"
    BY DEF TakeLease, Row, Payload, Lease
  <1>3. \A started \in Watch : EnterAwaiting(r.pay, started) \in Payload
                               /\ EnterAwaiting(r.pay, started).lease = r.pay.lease
    BY DEF EnterAwaiting, Row, Payload, Phase
  <1>4. SetStatus(r, "running").pay = r.pay
        /\ SetStatus(r, "running").status \in {r.status, "running"}
        /\ (r.status = "cancelled" => SetStatus(r, "running").status = "cancelled")
    BY DEF SetStatus, Row
  <1>5. [r EXCEPT !.pay = TakeLease(@)] \in Row
        /\ [r EXCEPT !.pay = TakeLease(@)].pay.lease = "live"
        /\ [r EXCEPT !.pay = TakeLease(@)].status = r.status
    BY <1>2 DEF Row
  <1>6. "running" \in Status
    BY DEF Status, Active
  <1> QED
    BY <1>1, <1>3, <1>4, <1>5, <1>6 DEF Row

\* The polls, the renewal and the progress reports of a running executor.
Reports(w) ==
  \/ PollProgress(w) \/ Renew(w) \/ PollDone(w) \/ PollBacklog(w) \/ PollFailed(w)
  \/ PollBootstrap(w)

\* Each is a commit of what the poll loaded, as it was, running, or with the
\* lease renewed, and moves to a counter of the wait or after it.
LEMMA ReportsWrite ==
  ASSUME TypeOK, NEW w \in Workers, Reports(w)
  PROVE  /\ row' \in Row /\ breach' \in Causes \cup {"none"} /\ ex' \in ExType
         /\ LeaseInv => LeaseInv'
  <1> DEFINE snap == ex[w].snap
             Done == /\ row' \in Row /\ breach' \in Causes \cup {"none"} /\ ex' \in ExType
                     /\ LeaseInv => LeaseInv'
  <1>1. snap \in Row /\ row \in Row /\ breach \in Causes \cup {"none"}
    BY SlotRead DEF TypeOK
  <1>2. exists /\ UNCHANGED <<exists, rec>> /\ ex[w].pc \in Running
    BY DEF Reports, PollProgress, Renew, PollDone, PollBacklog, PollFailed,
           PollBootstrap, Outside, world, Running
  <1>3. ASSUME NEW touched \in BOOLEAN, Moves(w),
               \/ Commit(snap, SetStatus(snap, "running"), touched)
               \/ Commit(snap, snap, touched)
               \/ Commit(snap, [snap EXCEPT !.pay = TakeLease(@)], touched)
        PROVE  Done
    <2>1. CASE Commit(snap, SetStatus(snap, "running"), touched)
      BY <1>1, <1>2, <1>3, <2>1, WrittenRows, GoesOnKeeps
    <2>2. CASE Commit(snap, snap, touched)
      BY <1>1, <1>2, <1>3, <2>2, GoesOnKeeps
    <2>3. CASE Commit(snap, [snap EXCEPT !.pay = TakeLease(@)], touched)
      <3> DEFINE new == [snap EXCEPT !.pay = TakeLease(@)]
      <3>1. new \in Row /\ new.pay.lease = "live" /\ new.status = snap.status
        BY <1>1, WrittenRows
      <3>2. Commit(snap, new, touched)
        BY <2>3
      <3> HIDE DEF new
      <3> QED
        BY <1>1, <1>2, <1>3, <3>1, <3>2, GoesOnKeeps
    <2> QED
      BY <1>3, <2>1, <2>2, <2>3
  <1>4. ASSUME NEW p \in {"nap", "parsed", "undone", "error"}, Goto(w, p)
        PROVE  Moves(w)
    BY <1>4 DEF Moves, PC, Running
  <1>5. ASSUME NEW p \in {"booted", "renew"}, NEW r \in Row, Hold(w, p, r)
        PROVE  Moves(w)
    BY <1>5 DEF Moves, PC, Running
  <1>6. ASSUME NEW touched \in BOOLEAN, NEW new \in Row, Commit(snap, new, touched)
        PROVE  row' \in Row
    BY <1>1, <1>6, CommitRow
  <1>7. CASE PollProgress(w)
    <2>1. PICK touched \in BOOLEAN : Commit(snap, SetStatus(snap, "running"), touched)
      BY <1>7 DEF PollProgress, Touches
    <2>2. row' \in Row
      BY <1>1, <1>6, <2>1, WrittenRows
    <2>3. Moves(w)
      BY <1>1, <1>5, <1>7, <2>2 DEF PollProgress
    <2> QED
      BY <1>3, <2>1, <2>3
  <1>8. CASE Renew(w)
    <2>1. Moves(w)
      BY <1>4, <1>8 DEF Renew
    <2> QED
      BY <1>3, <1>8, <2>1 DEF Renew
  <1>9. CASE PollDone(w)
    <2>1. PICK touched \in BOOLEAN : Commit(snap, SetStatus(snap, "running"), touched)
      BY <1>9 DEF PollDone
    <2>2. Moves(w)
      BY <1>4, <1>9 DEF PollDone
    <2> QED
      BY <1>3, <2>1, <2>2
  <1>10. CASE PollBacklog(w) \/ PollFailed(w)
    <2>1. PICK touched \in BOOLEAN : Commit(snap, snap, touched)
      BY <1>10 DEF PollBacklog, PollFailed, Touches
    <2>2. Moves(w)
      BY <1>4, <1>10 DEF PollBacklog, PollFailed
    <2> QED
      BY <1>3, <2>1, <2>2
  <1>11. CASE PollBootstrap(w)
    <2>1. Commit(snap, snap, TRUE) /\ Hold(w, "booted", row')
      BY <1>11 DEF PollBootstrap
    <2>2. Moves(w)
      BY <1>1, <1>5, <1>6, <2>1
    <2> QED
      BY <1>3, <2>1, <2>2
  <1> QED
    BY <1>7, <1>8, <1>9, <1>10, <1>11 DEF Reports

\* The progress reports of the wait, and the renewal, keep the invariants.
LEMMA ReportsKeep ==
  ASSUME TypeOK, NEW w \in Workers, Reports(w)
  PROVE  Kept
  <1>1. CASE ~PollBootstrap(w)
    <2>1. Unmoved /\ UNCHANGED <<pool, indexed, notified>>
      BY <1>1 DEF Reports, PollProgress, Renew, PollDone, PollBacklog, PollFailed,
                  Outside, world, Unmoved
    <2> QED
      BY <2>1, ReportsWrite, TypeKept DEF Kept, Typed, TypeOK
  <1>2. CASE PollBootstrap(w)
    BY <1>2, ReportsWrite
    DEF PollBootstrap, ParseSubmitted, Kept, TypeOK, KfState, ExType
  <1> QED
    BY <1>1, <1>2

\* The first progress report commits the row loaded in Route.
LEMMA StartKeeps ==
  ASSUME TypeOK, NEW w \in Workers, Start(w)
  PROVE  Kept
  <1> DEFINE snap == ex[w].snap
             new  == SetStatus(snap, IF target THEN "running" ELSE "cancelled")
  <1>1. snap \in Row /\ row \in Row /\ breach \in Causes \cup {"none"}
    BY SlotRead DEF TypeOK
  <1>2. /\ new \in Row /\ new.pay.lease = snap.pay.lease
        /\ new.status \in {snap.status, "running", "cancelled"}
        /\ snap.status = "cancelled" => new.status = "cancelled"
    BY <1>1, RowOperators DEF SetStatus, Row, Status, Active, Terminal
  <1>3. /\ exists /\ UNCHANGED <<exists, rec>> /\ ex[w].pc \in Running
        /\ Commit(snap, new, FALSE) /\ Unmoved /\ UNCHANGED <<pool, indexed, notified>>
    BY DEF Start, Outside, world, Running, Unmoved
  <1> HIDE DEF new
  <1>4. row' \in Row
    BY <1>1, <1>2, <1>3, CommitRow
  <1>5. Moves(w)
    <2>1. CASE Finally(w)
      BY <2>1 DEF Moves
    <2>2. ASSUME NEW r \in Row, Hold(w, "sync", r) PROVE Moves(w)
      BY <2>2 DEF Moves, PC, Running
    <2> QED
      BY <1>1, <1>4, <2>1, <2>2 DEF Start
  <1>6. /\ breach' \in Causes \cup {"none"} /\ ex' \in ExType
        /\ LeaseInv => LeaseInv'
    BY <1>1, <1>2, <1>3, <1>5, GoesOnKeeps
  <1>7. TypeOK'
    BY <1>3, <1>4, <1>6, TypeKept DEF Typed, TypeOK
  <1> QED
    BY <1>6, <1>7 DEF Kept

\* The progress report after a submitted parse commits what it loads at once.
LEMMA SyncSubmittedKeeps ==
  ASSUME TypeOK, NEW w \in Workers, SyncSubmitted(w)
  PROVE  Kept
  <1>1. /\ exists /\ UNCHANGED <<exists, rec>> /\ ex[w].pc \in Running
        /\ Update("running") /\ Goto(w, "nap")
    BY DEF SyncSubmitted, Running
  <1>2. Moves(w)
    BY <1>1 DEF Moves, PC, Running
  <1>3. row \in Row /\ Commit(row, SetStatus(row, "running"), FALSE)
    BY <1>1 DEF TypeOK, Update
  <1>4. /\ row' \in Row /\ breach' \in Causes \cup {"none"} /\ ex' \in ExType
        /\ LeaseInv => LeaseInv'
    BY <1>1, <1>2, <1>3, WrittenRows, GoesOnKeeps
  <1>5. kf' \in KfState /\ indexed' \in BOOLEAN
    BY VerdictsAssumption DEF SyncSubmitted, ParseSubmitted, FileLinked, TypeOK, KfState
  <1>6. TypeOK'
    BY <1>4, <1>5 DEF TypeOK, SyncSubmitted, ExType
  <1> QED
    BY <1>4, <1>6 DEF Kept

\* So does the one of a subscription import that skips the wait.
LEMMA SyncSkipsDeepdocKeeps ==
  ASSUME TypeOK, NEW w \in Workers, SyncSkipsDeepdoc(w)
  PROVE  Kept
  <1>1. /\ exists /\ UNCHANGED <<exists, rec>> /\ ex[w].pc \in Running
        /\ Unmoved /\ UNCHANGED <<pool, indexed, notified>>
    BY DEF SyncSkipsDeepdoc, Running, Outside, world, Unmoved
  <1>2. CASE Finally(w) /\ UNCHANGED <<row, breach>>
    <2>1. ex' \in ExType /\ Others(w) /\ Onward(w)
      BY <1>2, MovesOnward DEF Moves
    <2> QED
      BY <1>1, <1>2, <2>1, QuietStep DEF Holding, TypeOK
  <1>3. CASE Update("running") /\ Hold(w, "finish", row')
    <2>1. row \in Row /\ Commit(row, SetStatus(row, "running"), FALSE)
      BY <1>3 DEF TypeOK, Update
    <2>2. row' \in Row
      BY <1>3, UpdateRow DEF Status, Active
    <2>3. Moves(w)
      BY <1>3, <2>2 DEF Moves, PC, Running
    <2>4. /\ breach' \in Causes \cup {"none"} /\ ex' \in ExType
          /\ LeaseInv => LeaseInv'
      BY <1>1, <2>1, <2>3, WrittenRows, GoesOnKeeps
    <2>5. TypeOK'
      BY <1>1, <2>2, <2>4, TypeKept DEF Typed, TypeOK
    <2> QED
      BY <2>4, <2>5 DEF Kept
  <1> QED
    BY <1>2, <1>3 DEF SyncSkipsDeepdoc

\* The deferral writes back the lease it loaded: only the phase, the watch and
\* the status change, and a cancelled row never reaches it.
LEMMA DeferKeeps ==
  ASSUME TypeOK, NEW w \in Workers, Defer(w)
  PROVE  Kept
  <1> DEFINE snap == ex[w].snap
             since == IF ex[w].stage # "full" THEN ex[w].stage
                      ELSE IF snap.pay.watch = "none" THEN "fresh" ELSE snap.pay.watch
             new == [status |-> "running", pay |-> EnterAwaiting(snap.pay, since)]
             touched == ex[w].stage = "full"
  <1>1. snap \in Row /\ row \in Row /\ breach \in Causes \cup {"none"}
    BY SlotRead DEF TypeOK
  <1>2. since \in Watch
    BY SlotRead, <1>1 DEF Slot, Row, Payload, Watch
  <1>3. new \in Row /\ new.pay.lease = snap.pay.lease /\ new.status = "running"
    BY <1>1, <1>2, WrittenRows
  <1>4. /\ exists /\ UNCHANGED <<exists, rec>> /\ ex[w].pc = "defer" /\ Goto(w, "send")
        /\ Commit(snap, new, touched) /\ Unmoved /\ UNCHANGED <<pool, indexed, notified>>
    BY DEF Defer, Outside, world, Unmoved
  <1>5. touched \in BOOLEAN
    OBVIOUS
  <1> HIDE DEF new, touched
  <1>6. row' \in Row /\ breach' \in Causes \cup {"none"}
    BY <1>1, <1>3, <1>4, <1>5, CommitRow
  <1>7. Moves(w)
    BY <1>4 DEF Moves, PC, Running
  <1>8. ex' \in ExType
    BY <1>7, MovesOnward
  <1>9. TypeOK'
    BY <1>4, <1>6, <1>8, TypeKept DEF Typed, TypeOK
  <1>10. ASSUME LeaseInv PROVE LeaseInv'
    <2>1. snap.status # "cancelled"
      BY <1>4, <1>10 DEF LeaseInv, SnapsAsSeen
    <2>2. ex[w].pc \in Running
      BY <1>4 DEF Running
    <2> QED
      BY <1>1, <1>3, <1>4, <1>5, <1>7, <1>10, <2>1, <2>2, GoesOnKeeps
  <1> QED
    BY <1>9, <1>10 DEF Kept

\* The early clear of the import chain is on record as a breach: from there on
\* the lease invariant says nothing but what the snapshots are.
LEMMA FinishPipelineKeeps ==
  ASSUME TypeOK, NEW w \in Workers, FinishPipeline(w)
  PROVE  Kept
  <1>1. /\ exists /\ UNCHANGED <<exists, rec>> /\ ex[w].pc \in Running
        /\ Unmoved /\ UNCHANGED <<pool, indexed>>
    BY DEF FinishPipeline, Running, Outside, world, Unmoved
  <1>2. ex[w].snap \in Row /\ row \in Row
    BY SlotRead DEF TypeOK
  <1>3. CASE Claim(ex[w].snap, "failed") /\ Finally(w)
    <2>1. /\ row' \in Row /\ breach' \in Causes \cup {"none"} /\ notified' \in 0 .. 2
          /\ breach' = "none" => breach = "none" /\ (row' = row \/ ~IsActive(row'))
      BY <1>2, <1>3, ClaimRow, SettledStatus DEF Terminal
    <2>2. ex' \in ExType /\ Others(w) /\ ex'[w].pc = "close"
      BY <1>3, SlotFinally
    <2>3. TypeOK'
      BY <1>1, <2>1, <2>2, TypeKept DEF Typed, TypeOK
    <2>4. ASSUME LeaseInv PROVE LeaseInv'
      <3>1. RowSuits(w) /\ Onward(w)
        BY <1>1, <2>1, <2>2, <2>4, LeavesOff DEF Running, Onward, Holding
      <3> QED
        BY <1>1, <2>2, <2>4, <3>1, SafeStep DEF Holding
    <2> QED
      BY <2>3, <2>4 DEF Kept
  <1>4. CASE /\ row' = Flush(row, ex[w].snap, Settle(ex[w].snap, "running"), FALSE)
             /\ breach' = Broken("early_clear")
             /\ Hold(w, "pindex", row') /\ UNCHANGED notified
    <2>1. row' \in Row
      BY <1>2, <1>4, FlushRow, RowOperators DEF Status, Active
    <2>2. breach' \in Causes
      BY <1>4 DEF Broken, Causes, TypeOK
    <2>3. ASSUME NEW r \in Row, Hold(w, "pindex", r) PROVE Moves(w)
      BY <2>3 DEF Moves, PC, Running
    <2>4. ex' \in ExType /\ Others(w) /\ Onward(w)
      BY <1>4, <2>1, <2>3, MovesOnward
    <2>5. TypeOK'
      BY <1>1, <1>4, <2>1, <2>2, <2>4, TypeKept DEF Typed, TypeOK
    <2>6. ASSUME LeaseInv PROVE LeaseInv'
      <3>1. RowSuits(w)
        BY <2>2 DEF RowSuits, Causes
      <3> QED
        BY <1>1, <2>4, <2>6, <3>1, SafeStep DEF Holding
    <2> QED
      BY <2>5, <2>6 DEF Kept
  <1> QED
    BY <1>3, <1>4 DEF FinishPipeline

\* The delayed dispatch adds to the queues and closes the slot.
LEMMA SendKeeps ==
  ASSUME TypeOK, NEW w \in Workers, Send(w)
  PROVE  Kept
  <1>1. ex' \in ExType /\ Others(w) /\ ex'[w].pc = "close"
    BY SlotFinally DEF Send
  <1>2. /\ celery' \in 0 .. MaxQueue /\ timers' \in 0 .. MaxQueue
        /\ pool' \in {"free", "queued", "running"}
    BY DispatchTypes DEF Send
  <1>3. TypeOK'
    BY <1>1, <1>2 DEF TypeOK, Send, world, ExType
  <1>4. ASSUME LeaseInv PROVE LeaseInv'
    <2>1. Holding(w) /\ UNCHANGED <<row, breach, exists, rec>> /\ ex'[w].pc \notin Running
      BY <1>1 DEF Send, Holding, Running, world
    <2>2. RowSuits(w) /\ Onward(w)
      BY <1>1, <1>4, <2>1, IdleRow DEF Onward
    <2> QED
      BY <1>1, <1>4, <2>1, <2>2, SafeStep
  <1> QED
    BY <1>3, <1>4 DEF Kept

\* end_execution: the lease is dropped, and the slot is free.
LEMMA EndKeeps ==
  ASSUME TypeOK, NEW w \in Workers, End(w)
  PROVE  Kept
  <1> DEFINE snap == ex[w].snap
             new == [snap EXCEPT !.pay = DropLease(@)]
  <1>1. snap \in Row /\ row \in Row /\ breach \in Causes \cup {"none"}
    BY SlotRead DEF TypeOK
  <1>2. new \in Row
    BY <1>1 DEF DropLease, Row, Payload, Lease
  <1>3. Commit(snap, new, FALSE) /\ Leave(w) /\ Holding(w) /\ Unmoved
        /\ UNCHANGED <<indexed, notified, exists, rec>>
    BY DEF End, Holding, Closing, Outside, world, Unmoved
  <1> HIDE DEF new
  <1>4. /\ row' \in Row /\ breach' \in Causes \cup {"none"}
        /\ breach' = "none" => breach = "none"
    BY <1>1, <1>2, <1>3, CommitRow
  <1>5. /\ ex' \in ExType /\ Others(w) /\ ex'[w].pc = "idle"
        /\ pool' \in {"free", "queued", "running"}
    BY <1>3, SlotLeave
  <1>6. TypeOK'
    BY <1>3, <1>4, <1>5, TypeKept DEF Typed, TypeOK
  <1>7. ASSUME LeaseInv PROVE LeaseInv'
    <2>1. RowSuits(w) /\ Onward(w)
      BY <1>4, <1>5 DEF RowSuits, Onward, Holding, Running, Closing
    <2> QED
      BY <1>3, <1>5, <1>7, <2>1, SafeStep
  <1> QED
    BY <1>6, <1>7 DEF Kept

\* The executor of a deleted job, and one that is turned away, just leave.
LEMMA LeaveKeeps ==
  ASSUME TypeOK, NEW w \in Workers, Leave(w), Unmoved,
         UNCHANGED <<row, breach, indexed, notified>>
  PROVE  Kept
  <1>1. /\ ex' \in ExType /\ Others(w) /\ ex'[w].pc = "idle"
        /\ pool' \in {"free", "queued", "running"}
    BY SlotLeave
  <1>2. TypeOK'
    BY <1>1, TypeKept DEF Typed, TypeOK
  <1>3. ASSUME LeaseInv PROVE LeaseInv'
    BY <1>1, <1>3 DEF LeaseInv, SnapsAsSeen, OneHolder, HolderIsLeased, RunningUnsettled,
         Holding, Others, Unmoved, Running, Closing
  <1> QED
    BY <1>2, <1>3 DEF Kept

\* A run that breaks off writes nothing, or fails the job and closes.
LEMMA RaisesKeeps ==
  ASSUME TypeOK, NEW w \in Workers, ex[w].pc \in Running, exists,
         \/ Leave(w) /\ UNCHANGED <<row, breach>>
         \/ Update("failed") /\ Finally(w) /\ UNCHANGED pool,
         UNCHANGED <<mode, exists, target, kf, aged, asks, celery, timers, cx, rec,
                     indexed, notified>>,
         faults' \in 0 .. MaxFaults
  PROVE  Kept
  <1>1. CASE Leave(w) /\ UNCHANGED <<row, breach>>
    <2>1. /\ ex' \in ExType /\ Others(w) /\ ex'[w].pc = "idle"
          /\ pool' \in {"free", "queued", "running"}
      BY <1>1, SlotLeave
    <2>2. TypeOK'
      BY <1>1, <2>1 DEF TypeOK, ExType
    <2>3. ASSUME LeaseInv PROVE LeaseInv'
      BY <1>1, <2>1, <2>3 DEF LeaseInv, SnapsAsSeen, OneHolder, HolderIsLeased,
           RunningUnsettled, Holding, Others, Running, Closing
    <2> QED
      BY <2>2, <2>3 DEF Kept
  <1>2. CASE Update("failed") /\ Finally(w) /\ UNCHANGED pool
    <2>1. /\ row' \in Row /\ breach' \in Causes \cup {"none"}
          /\ breach' = "none" => breach = "none"
          /\ ~IsActive(row')
      BY <1>2, UpdateRow, SettledStatus DEF TypeOK, Status, Terminal
    <2>2. ex' \in ExType /\ Others(w) /\ ex'[w].pc = "close"
      BY <1>2, SlotFinally
    <2>3. TypeOK'
      BY <1>2, <2>1, <2>2 DEF TypeOK, ExType
    <2>4. ASSUME LeaseInv PROVE LeaseInv'
      <3>1. RowSuits(w) /\ Onward(w)
        BY <2>1, <2>2, <2>4, LeavesOff DEF Running, Onward, Holding
      <3> QED
        BY <2>2, <2>4, <3>1, SafeStep DEF Holding
    <2> QED
      BY <2>3, <2>4 DEF Kept
  <1> QED
    BY <1>1, <1>2

-----------------------------------------------------------------------------
(* Getting the lease. *)

\* try_begin_execution.  With the lease unbroken the row is the one the session
\* loaded, active and without a live lease: then nobody holds it.
LEMMA BeginKeeps ==
  ASSUME TypeOK, NEW w \in Workers, Begin(w)
  PROVE  Kept
  <1> DEFINE snap == ex[w].snap
             new  == [snap EXCEPT !.pay = TakeLease(@)]
  <1>1. snap \in Row /\ row \in Row /\ breach \in Causes \cup {"none"}
    BY SlotRead DEF TypeOK
  <1>2. Unmoved /\ UNCHANGED <<indexed, notified, rec, exists>> /\ exists
        /\ ex[w].pc = "begin"
    BY DEF Begin, Outside, world, Unmoved
  <1>3. CASE Leave(w) /\ UNCHANGED <<row, breach>>
    BY <1>2, <1>3, LeaveKeeps
  <1>4. CASE /\ ~LeaseIsActive(snap) /\ row' = Flush(row, snap, new, TRUE)
             /\ breach' = IF row # snap THEN Broken("stale_begin") ELSE breach
             /\ Goto(w, "route") /\ UNCHANGED pool
    <2>1. new \in Row /\ LeaseIsActive(new) /\ new.status = snap.status
      BY <1>1, WrittenRows DEF LeaseIsActive
    <2> HIDE DEF new
    <2>2. row' \in Row /\ (row = snap => row' = new)
      BY <1>1, <1>4, <2>1, FlushRow
    <2>3. breach' \in Causes \cup {"none"}
          /\ (breach' = "none" => breach = "none" /\ row = snap)
      BY <1>1, <1>4 DEF Broken, Causes
    <2>4. ex' \in ExType /\ Others(w) /\ ex'[w].pc = "route"
      BY <1>4, SlotGoto DEF PC, Running
    <2>5. TypeOK'
      BY <1>2, <1>4, <2>2, <2>3, <2>4, TypeKept DEF Typed, TypeOK
    <2>6. ASSUME LeaseInv PROVE LeaseInv'
      <3>1. SnapsAsSeen'
        BY <1>2, <2>4, <2>6 DEF LeaseInv, SnapsAsSeen, Others
      <3>2. ASSUME breach' = "none"
            PROVE  (OneHolder /\ HolderIsLeased /\ RunningUnsettled)'
        <4>1. breach = "none" /\ row = snap /\ row' = new /\ IsActive(row)
              /\ ~LeaseIsActive(row)
          BY <1>2, <1>4, <2>2, <2>3, <2>6, <3>2 DEF LeaseInv, SnapsAsSeen
        <4>2. \A v \in Workers : ~Holding(v)
          BY <1>2, <2>6, <4>1 DEF LeaseInv, HolderIsLeased
        <4>3. \A v \in Workers \ {w} : ~Holding(v)' /\ ex'[v].pc \notin Running
          BY <2>4, <4>2 DEF Holding, Others
        <4>4. OneHolder' /\ HolderIsLeased'
          BY <2>1, <4>1, <4>3 DEF OneHolder, HolderIsLeased
        <4>5. RunningUnsettled'
          BY <2>1, <4>1, <4>3 DEF RunningUnsettled, IsActive, Active
        <4> QED
          BY <4>4, <4>5
      <3> QED
        BY <3>1, <3>2 DEF LeaseInv
    <2> QED
      BY <2>5, <2>6 DEF Kept
  <1> QED
    BY <1>3, <1>4 DEF Begin

\* A pickup loads an active row and holds nothing yet.
LEMMA PickupKeeps ==
  ASSUME TypeOK, NEW w \in Workers, Pickup(w)
  PROVE  Kept
  <1>1. PICK seat \in {"celery", "pool"} :
          /\ \/ seat = "celery" /\ celery > 0 /\ celery' = celery - 1 /\ pool' = pool
             \/ seat = "pool" /\ pool = "queued" /\ celery' = celery
                /\ pool' = IF exists /\ IsActive(row) THEN "running" ELSE "free"
          /\ ex' = IF exists /\ IsActive(row)
                   THEN [ex EXCEPT ![w] = [Idle EXCEPT !.pc = "begin", !.seat = seat,
                                                       !.snap = row]]
                   ELSE ex
    BY DEF Pickup
  <1>2. /\ ex[w].pc = "idle"
        /\ UNCHANGED <<mode, exists, target, kf, aged, asks, faults, timers, cx, rec, row,
                       indexed, notified, breach>>
    BY DEF Pickup, world
  <1> DEFINE slot == [[[Idle EXCEPT !.pc = "begin"] EXCEPT !.seat = seat] EXCEPT !.snap = row]
  <1>3. slot \in Slot /\ slot.pc = "begin" /\ slot.snap = row
    BY RowConstants DEF TypeOK, Slot, Idle, PC, Opening
  <1> HIDE DEF slot
  <1>4. \/ ex' = ex
        \/ ex' = [ex EXCEPT ![w] = slot] /\ IsActive(row)
    BY <1>1 DEF slot
  <1>5. celery' \in 0 .. MaxQueue /\ pool' \in {"free", "queued", "running"}
    BY <1>1, BoundsAssumption DEF TypeOK
  <1>6. TypeOK'
    BY <1>2, <1>3, <1>4, <1>5 DEF TypeOK
  <1>7. ASSUME LeaseInv PROVE LeaseInv'
    <2>1. \A v \in Workers \ {w} : ex'[v] = ex[v]
      BY <1>4 DEF TypeOK
    <2>2. ex'[w] = ex[w] \/ (ex'[w] = slot /\ IsActive(row))
      BY <1>4 DEF TypeOK
    <2>3. SnapsAsSeen'
      BY <1>2, <1>3, <1>7, <2>1, <2>2 DEF LeaseInv, SnapsAsSeen
    <2>4. ~Holding(w) /\ ~Holding(w)' /\ ex'[w].pc \notin Running
      BY <1>2, <1>3, <2>2 DEF Holding, Running, Closing
    <2> QED
      BY <1>2, <1>7, <2>1, <2>3, <2>4
      DEF LeaseInv, OneHolder, HolderIsLeased, RunningUnsettled, Holding
  <1> QED
    BY <1>6, <1>7 DEF Kept

\* One step of a slot, whichever it is.
LEMMA StepKeeps ==
  ASSUME TypeOK, NEW w \in Workers, Step(w)
  PROVE  Kept
  <1>1. CASE Begin(w)
    BY <1>1, BeginKeeps
  <1>2. CASE Gone(w)
    BY <1>2, LeaveKeeps DEF Gone, Outside, world, Unmoved
  <1>3. CASE Loads(w)
    BY <1>3, LoadsKeep
  <1>4. CASE Start(w)
    BY <1>4, StartKeeps
  <1>5. CASE Settling(w)
    BY <1>5, SettlingKeeps
  <1>6. CASE SyncSubmitted(w)
    BY <1>6, SyncSubmittedKeeps
  <1>7. CASE SyncSkipsDeepdoc(w)
    BY <1>7, SyncSkipsDeepdocKeeps
  <1>8. CASE Reports(w)
    BY <1>8, ReportsKeep
  <1>9. CASE PollFailedOcr(w)
    <2>1. faults' \in 0 .. MaxFaults /\ ex[w].pc \in Running
      BY <1>9 DEF PollFailedOcr, Outside, world, TypeOK, Running
    <2> QED
      BY <1>9, <2>1, RaisesKeeps DEF PollFailedOcr, WaitRaises, Outside, world
  <1>10. CASE Defer(w)
    BY <1>10, DeferKeeps
  <1>11. CASE Send(w)
    BY <1>11, SendKeeps
  <1>12. CASE FinishPipeline(w)
    BY <1>12, FinishPipelineKeeps
  <1>13. CASE End(w)
    BY <1>13, EndKeeps
  <1>14. CASE SyncFails(w)
    <2>1. faults' \in 0 .. MaxFaults
      BY <1>14 DEF SyncFails, TypeOK
    <2> QED
      BY <1>14, <2>1, SyncRaisesKeeps DEF SyncFails
  <1> QED
    BY <1>1, <1>2, <1>3, <1>4, <1>5, <1>6, <1>7, <1>8, <1>9, <1>10, <1>11, <1>12, <1>13,
       <1>14
    DEF Step, Sync, Wait, After, Loads, Settling, Reports

-----------------------------------------------------------------------------
(* Everybody else. *)

\* A step that neither moves a slot nor writes the row disturbs nothing.
LEMMA AsideKeeps ==
  ASSUME LeaseInv, UNCHANGED <<row, breach, exists, ex>>,
         rec'.pc = "reset" => IsActive(rec'.snap),
         rec'.pc = "clear" => ~IsActive(rec'.snap)
  PROVE  LeaseInv'
  BY DEF LeaseInv, SnapsAsSeen, OneHolder, HolderIsLeased, RunningUnsettled, Holding

\* Enqueueing, a timer and the resumption of an orphan only fill the queues.
LEMMA QueuesKeep ==
  ASSUME TypeOK, Enqueue \/ TimerFires \/ ResumeOrphan
  PROVE  Kept
  <1>1. /\ celery' \in 0 .. MaxQueue /\ timers' \in 0 .. MaxQueue
        /\ pool' \in {"free", "queued", "running"}
    <2>1. CASE Enqueue \/ ResumeOrphan
      BY <2>1, DispatchTypes DEF Enqueue, ResumeOrphan
    <2>2. CASE TimerFires
      BY <2>2, BoundsAssumption DEF TimerFires, SubmitBackground, TypeOK
    <2> QED
      BY <2>1, <2>2
  <1>2. asks' \in 0 .. MaxAsks
    <2>1. asks' = asks \/ (asks < MaxAsks /\ asks' = asks + 1)
      BY DEF Enqueue, TimerFires, ResumeOrphan, world
    <2> QED
      BY <2>1, BoundsAssumption DEF TypeOK
  <1>3. UNCHANGED <<mode, exists, target, kf, aged, faults, row, indexed, ex, cx, rec,
                    notified, breach>>
    BY DEF Enqueue, TimerFires, ResumeOrphan, world
  <1>4. TypeOK'
    BY <1>1, <1>2, <1>3 DEF TypeOK
  <1>5. ASSUME LeaseInv PROVE LeaseInv'
    BY <1>3, <1>5, AsideKeeps DEF LeaseInv, SnapsAsSeen
  <1> QED
    BY <1>4, <1>5 DEF Kept

\* Without the row there is nothing to lease or to settle.
LEMMA DeletionKeeps ==
  ASSUME LeaseInv, UNCHANGED <<breach, ex, rec>>, exists' = FALSE
  PROVE  LeaseInv'
  BY DEF LeaseInv, SnapsAsSeen, OneHolder, HolderIsLeased, RunningUnsettled, Holding

\* The canceller's commit: with the lease unbroken it makes the row inactive.
LEMMA CancelCommitsKeeps ==
  ASSUME TypeOK, CancelCommits
  PROVE  Kept
  <1> DEFINE snap == cx.snap
             new  == Settle(snap, StopStatus(snap))
  <1>1. snap \in Row /\ row \in Row /\ breach \in Causes \cup {"none"}
    BY DEF TypeOK
  <1>2. /\ new \in Row /\ ~IsActive(new)
        /\ ~IsActive(snap) => new.status = snap.status
        /\ IsActive(snap) => new.status = "cancelled"
    <2>1. StopStatus(snap) \in Status
      BY <1>1 DEF StopStatus, Row, Status, Terminal
    <2> QED
      BY <1>1, <2>1, RowOperators, SettledStatus DEF Settle, StopStatus
  <1> HIDE DEF new
  <1>3. /\ row' \in Row /\ breach' \in Causes \cup {"none"}
        /\ breach' = "none" =>
             breach = "none" /\ (row' = row \/ (row = snap /\ row' = new))
    <2>1. CASE exists
      BY <1>1, <1>2, <2>1, CommitRow DEF CancelCommits, new
    <2>2. CASE ~exists
      BY <1>1, <2>2 DEF CancelCommits
    <2> QED
      BY <2>1, <2>2
  <1>4. UNCHANGED <<mode, exists, target, kf, aged, asks, faults, celery, timers, pool,
                    indexed, ex, rec, notified>>
    BY DEF CancelCommits, world, queues
  <1>5. cx' \in [pc: {"off", "loaded", "deleting"}, why: Reasons, snap: Row]
    BY RowConstants DEF CancelCommits, CxOff, Reasons
  <1>6. TypeOK'
    BY <1>3, <1>4, <1>5 DEF TypeOK
  <1>7. ASSUME LeaseInv PROVE LeaseInv'
    <2>1. SnapsAsSeen'
      BY <1>4, <1>7 DEF LeaseInv, SnapsAsSeen
    <2>2. ASSUME breach' = "none"
          PROVE  (OneHolder /\ HolderIsLeased /\ RunningUnsettled)'
      <3>1. OneHolder /\ HolderIsLeased /\ RunningUnsettled
        BY <1>3, <1>7, <2>2 DEF LeaseInv
      <3>2. row' = row \/ (~IsActive(row') /\ row'.status \in {row.status, "cancelled"})
        BY <1>2, <1>3, <2>2
      <3> QED
        BY <1>4, <3>1, <3>2 DEF OneHolder, HolderIsLeased, RunningUnsettled, Holding
    <2> QED
      BY <2>1, <2>2 DEF LeaseInv
  <1> QED
    BY <1>6, <1>7 DEF Kept

\* Cancelling and deleting, whichever step it is.
LEMMA CancellingKeeps ==
  ASSUME TypeOK, Cancelling
  PROVE  Kept
  <1>1. ASSUME NEW why \in Reasons, CancelLoads(why) PROVE Kept
    <2>1. TypeOK'
      BY <1>1 DEF CancelLoads, world, queues, TypeOK
    <2>2. ASSUME LeaseInv PROVE LeaseInv'
      BY <1>1, <2>2, AsideKeeps DEF CancelLoads, world, LeaseInv, SnapsAsSeen
    <2> QED
      BY <2>1, <2>2 DEF Kept
  <1>2. CASE CancelCommits
    BY <1>2, CancelCommitsKeeps
  <1>3. CASE TargetDeleted
    <2>1. cx' \in [pc: {"off", "loaded", "deleting"}, why: Reasons, snap: Row]
      BY <1>3, RowConstants DEF TargetDeleted, CxOff, Reasons
    <2>2. row' \in Row /\ exists' \in BOOLEAN
      BY <1>3, RowConstants DEF TargetDeleted, TypeOK
    <2>3. TypeOK'
      BY <1>3, <2>1, <2>2 DEF TargetDeleted, queues, TypeOK
    <2>4. ASSUME LeaseInv PROVE LeaseInv'
      BY <1>3, <2>4, AsideKeeps, DeletionKeeps DEF TargetDeleted, LeaseInv, SnapsAsSeen
    <2> QED
      BY <2>3, <2>4 DEF Kept
  <1>4. CASE ClearJobs
    <2>1. row' \in Row /\ exists' \in BOOLEAN
      BY <1>4, RowConstants DEF ClearJobs
    <2>2. UNCHANGED <<mode, target, indexed, kf, aged, asks, faults, celery, timers, pool,
                      ex, cx, rec, notified, breach>>
      BY <1>4 DEF ClearJobs, queues
    <2>3. TypeOK'
      BY <2>1, <2>2 DEF TypeOK
    <2>4. ASSUME LeaseInv PROVE LeaseInv'
      BY <1>4, <2>4, DeletionKeeps DEF ClearJobs
    <2> QED
      BY <2>3, <2>4 DEF Kept
  <1> QED
    BY <1>1, <1>2, <1>3, <1>4 DEF Cancelling

-----------------------------------------------------------------------------
(* Recovery. *)

\* A step of the recovery: no slot, no cancelling and no fault in it.
Recovering == UNCHANGED <<world, ex, cx, indexed, notified>>

RecType == [pc: {"off", "scan", "clear", "reset", "dispatch", "commit"},
            snap: Row, had: Payload]

\* A recovery step keeps both invariants when what it writes is a row, when it
\* resets only what it saw active and clears only what it saw settled, and when,
\* the lease unbroken, the row it leaves is one the slots can live with: the one
\* before, one as active and leased as before, or, with no slot busy, any.
LEMMA RecoveryKeeps ==
  ASSUME TypeOK, Recovering, rec' \in RecType, row' \in Row,
         celery' \in 0 .. MaxQueue, timers' \in 0 .. MaxQueue,
         pool' \in {"free", "queued", "running"}, breach' \in Causes \cup {"none"},
         rec'.pc = "reset" => IsActive(rec'.snap),
         rec'.pc = "clear" => ~IsActive(rec'.snap),
         breach' = "none" =>
           /\ breach = "none"
           /\ \/ row' = row
              \/ ~IsActive(row') /\ row'.status = row.status
              \/ IsActive(row) /\ IsActive(row') /\ row'.pay = row.pay
              \/ \A w \in Workers : ~Holding(w)
  PROVE  Kept
  <1>1. TypeOK'
    BY DEF Recovering, world, RecType, TypeOK
  <1>2. ASSUME LeaseInv PROVE LeaseInv'
    <2>1. SnapsAsSeen'
      BY <1>2 DEF LeaseInv, SnapsAsSeen, Recovering
    <2>2. ASSUME breach' = "none"
          PROVE  (OneHolder /\ HolderIsLeased /\ RunningUnsettled)'
      <3>1. OneHolder /\ HolderIsLeased /\ RunningUnsettled
        BY <1>2, <2>2 DEF LeaseInv
      <3>2. UNCHANGED <<ex, exists>> /\ \A w \in Workers : Holding(w)' <=> Holding(w)
        BY DEF Recovering, world, Holding
      <3>3. CASE row' = row
        BY <3>1, <3>2, <3>3 DEF OneHolder, HolderIsLeased, RunningUnsettled
      <3>4. CASE ~IsActive(row') /\ row'.status = row.status
        BY <3>1, <3>2, <3>4 DEF OneHolder, HolderIsLeased, RunningUnsettled
      <3>5. CASE IsActive(row) /\ IsActive(row') /\ row'.pay = row.pay
        <4>1. row'.status \notin {"done", "failed"}
          BY <3>5 DEF IsActive, Active
        <4> QED
          BY <3>1, <3>2, <3>5, <4>1
          DEF OneHolder, HolderIsLeased, RunningUnsettled, LeaseIsActive
      <3>6. CASE \A w \in Workers : ~Holding(w)
        BY <3>2, <3>6 DEF OneHolder, HolderIsLeased, RunningUnsettled, Holding
      <3> QED
        BY <2>2, <3>3, <3>4, <3>5, <3>6
    <2> QED
      BY <2>1, <2>2 DEF LeaseInv
  <1> QED
    BY <1>1, <1>2 DEF Kept

\* The scan loads the row, and writes nothing.
LEMMA RecoverScansKeeps ==
  ASSUME TypeOK, RecoverScans
  PROVE  Kept
  <1>1. row \in Row /\ row.pay \in Payload
    BY DEF TypeOK, Row
  <1>2. \/ rec' = RecOff
        \/ /\ IsActive(row)
           /\ \E p \in {"reset", "dispatch"} : rec' = [pc |-> p, snap |-> row, had |-> row.pay]
        \/ /\ ~IsActive(row)
           /\ rec' = [pc |-> "clear", snap |-> row, had |-> row.pay]
    BY DEF RecoverScans
  <1>3. /\ rec' \in RecType
        /\ rec'.pc = "reset" => IsActive(rec'.snap)
        /\ rec'.pc = "clear" => ~IsActive(rec'.snap)
    BY <1>1, <1>2, RowConstants DEF RecType, RecOff
  <1>4. Recovering /\ UNCHANGED <<celery, timers, pool, row, breach>>
    BY DEF RecoverScans, Recovering, queues
  <1> QED
    BY <1>1, <1>3, <1>4, RecoveryKeeps DEF TypeOK

\* The clearing leaves the status of the settled job it has loaded.
LEMMA RecoverClearsKeeps ==
  ASSUME TypeOK, RecoverClears
  PROVE  Kept
  <1> DEFINE snap == rec.snap
             new  == Settle(snap, snap.status)
  <1>1. snap \in Row /\ row \in Row /\ breach \in Causes \cup {"none"}
    BY DEF TypeOK
  <1>2. new \in Row /\ new.status = snap.status
    BY <1>1, RowOperators DEF Settle, Row
  <1>3. Commit(snap, new, FALSE) /\ rec.pc = "clear" /\ rec' = RecOff
    BY DEF RecoverClears
  <1>4. Recovering /\ UNCHANGED <<celery, timers, pool>>
    BY DEF RecoverClears, Recovering, queues
  <1> HIDE DEF new
  <1>5. /\ row' \in Row /\ breach' \in Causes \cup {"none"}
        /\ breach' = "none" => breach = "none" /\ (row' = row \/ (row = snap /\ row' = new))
    BY <1>1, <1>2, <1>3, CommitRow
  <1>6. rec' \in RecType /\ rec'.pc = "off"
    BY <1>3, RowConstants DEF RecOff, RecType
  <1>7. TypeOK'
    BY <1>4, <1>5, <1>6 DEF Recovering, world, RecType, TypeOK
  <1>8. ASSUME LeaseInv PROVE LeaseInv'
    <2>1. ~IsActive(snap)
      BY <1>3, <1>8 DEF LeaseInv, SnapsAsSeen
    <2>2. breach' = "none" => breach = "none"
            /\ (row' = row \/ (~IsActive(row') /\ row'.status = row.status))
      BY <1>2, <1>5, <2>1 DEF IsActive
    <2>3. Kept
      BY <1>4, <1>5, <1>6, <2>2, RecoveryKeeps DEF TypeOK
    <2> QED
      BY <1>8, <2>3 DEF Kept
  <1> QED
    BY <1>7, <1>8 DEF Kept

\* The reset writes `pending` over the row it saw active.
LEMMA RecoverResetsKeeps ==
  ASSUME TypeOK, RecoverResets
  PROVE  Kept
  <1> DEFINE snap == rec.snap
             new  == SetStatus(snap, "pending")
  <1>1. snap \in Row /\ row \in Row /\ breach \in Causes \cup {"none"} /\ rec \in RecType
    BY DEF TypeOK, RecType
  <1>2. new \in Row /\ (IsActive(snap) => IsActive(new) /\ new.pay = snap.pay)
    <2>1. "pending" \in Status
      BY DEF Status, Active
    <2>2. new \in Row
      BY <1>1, <2>1, RowOperators
    <2>3. ASSUME IsActive(snap) PROVE IsActive(new) /\ new.pay = snap.pay
      <3>1. new = [snap EXCEPT !.status = "pending"]
        BY <2>3 DEF SetStatus, IsActive, Active
      <3> QED
        BY <1>1, <3>1 DEF Row, IsActive, Active
    <2> QED
      BY <2>2, <2>3
  <1>3. Commit(snap, new, FALSE)
    BY DEF RecoverResets
  <1>4. Recovering /\ UNCHANGED <<celery, timers, pool>> /\ rec.pc = "reset"
    BY DEF RecoverResets, Recovering, queues
  <1>5. rec' = [rec EXCEPT !.pc = "dispatch", !.snap = row']
    BY DEF RecoverResets
  <1> HIDE DEF new
  <1>6. /\ row' \in Row /\ breach' \in Causes \cup {"none"}
        /\ breach' = "none" => breach = "none" /\ (row' = row \/ (row = snap /\ row' = new))
    BY <1>1, <1>2, <1>3, CommitRow
  <1>7. rec' \in RecType /\ rec'.pc \notin {"reset", "clear"}
    BY <1>1, <1>5, <1>6 DEF RecType
  <1>8. TypeOK'
    BY <1>4, <1>6, <1>7 DEF Recovering, world, RecType, TypeOK
  <1>9. ASSUME LeaseInv PROVE LeaseInv'
    <2>1. IsActive(snap)
      BY <1>4, <1>9 DEF LeaseInv, SnapsAsSeen
    <2>2. Kept
      BY <1>2, <1>4, <1>6, <1>7, <2>1, RecoveryKeeps DEF TypeOK
    <2> QED
      BY <1>9, <2>2 DEF Kept
  <1> QED
    BY <1>8, <1>9 DEF Kept

\* The commit that drops the lease is on record as a breach unless nothing
\* has changed the row since it was read, and no slot is busy.
LEMMA RecoverCommitsKeeps ==
  ASSUME TypeOK, RecoverCommits
  PROVE  Kept
  <1> DEFINE new == [rec.snap EXCEPT !.pay = DropLease(rec.had)]
  <1>1. rec \in RecType /\ rec.snap \in Row /\ rec.had \in Payload /\ row \in Row
        /\ breach \in Causes \cup {"none"}
    BY DEF TypeOK, RecType
  <1>2. new \in Row
    <2>1. DropLease(rec.had) \in Payload
      BY <1>1, PayloadOperators DEF Watch
    <2> QED
      BY <1>1, <2>1 DEF Row
  <1> HIDE DEF new
  <1>3. \/ /\ row' = Flush(row, rec.snap, new, FALSE)
           /\ breach' = IF row' # row /\ (row # rec.snap \/ \E w \in Workers : Holding(w))
                        THEN Broken("recovery") ELSE breach
        \/ UNCHANGED <<row, breach>>
    BY DEF RecoverCommits, new
  <1>4. row' \in Row
    <2>1. Flush(row, rec.snap, new, FALSE) \in Row
      BY <1>1, <1>2, FlushRow
    <2> QED
      BY <1>1, <1>3, <2>1
  <1>5. breach' \in Causes \cup {"none"}
    BY <1>1, <1>3 DEF Broken, Causes
  <1>6. breach' = "none" =>
          breach = "none" /\ (row' = row \/ \A w \in Workers : ~Holding(w))
    BY <1>3 DEF Broken
  <1>7. Recovering /\ UNCHANGED <<celery, timers, pool>>
    BY DEF RecoverCommits, Recovering, queues
  <1>8. rec' \in RecType /\ rec'.pc \notin {"reset", "clear"}
    BY RowConstants DEF RecoverCommits, RecOff, RecType
  <1> QED
    BY <1>4, <1>5, <1>6, <1>7, <1>8, RecoveryKeeps DEF TypeOK

\* The recovery, whichever step it takes.
LEMMA RecoveryStepKeeps ==
  ASSUME TypeOK, Recovery
  PROVE  Kept
  <1>1. CASE RecoverScans
    BY <1>1, RecoverScansKeeps
  <1>2. CASE RecoverResets
    BY <1>2, RecoverResetsKeeps
  <1>3. CASE RecoverDispatches
    <2>1. /\ celery' \in 0 .. MaxQueue /\ timers' \in 0 .. MaxQueue
          /\ pool' \in {"free", "queued", "running"}
      BY <1>3, DispatchTypes DEF RecoverDispatches
    <2>2. Recovering /\ UNCHANGED <<row, breach>> /\ rec' = [rec EXCEPT !.pc = "commit"]
      BY <1>3 DEF RecoverDispatches, Recovering
    <2>3. rec' \in RecType /\ rec'.pc \notin {"reset", "clear"}
      BY <2>2 DEF TypeOK, RecType
    <2> QED
      BY <2>1, <2>2, <2>3, RecoveryKeeps DEF TypeOK
  <1>4. CASE RecoverCommits
    BY <1>4, RecoverCommitsKeeps
  <1>5. CASE RecoverRaises
    <2>1. Recovering /\ UNCHANGED <<celery, timers, pool, row, breach>>
      BY <1>5 DEF RecoverRaises, Recovering, queues
    <2>2. rec' \in RecType /\ rec'.pc \notin {"reset", "clear"}
      BY <1>5, RowConstants DEF RecoverRaises, RecOff, RecType
    <2> QED
      BY <2>1, <2>2, RecoveryKeeps DEF TypeOK
  <1> QED
    BY <1>1, <1>2, <1>3, <1>4, <1>5, RecoverClearsKeeps DEF Recovery

-----------------------------------------------------------------------------
(* Faults. *)

\* A slot emptied by a crash frees its thread or process and holds nothing:
\* whatever slots are emptied, the others and the row are as before.
LEMMA LossKeeps ==
  ASSUME TypeOK, UNCHANGED <<mode, exists, target, kf, aged, asks, row, indexed,
                             notified, breach>>,
         ex' \in ExType, \A w \in Workers : ex'[w] = ex[w] \/ ex'[w] = Idle,
         faults' \in 0 .. MaxFaults, celery' \in 0 .. MaxQueue,
         timers' \in 0 .. MaxQueue, pool' \in {"free", "queued", "running"},
         cx' \in {cx, CxOff}, rec' \in {rec, RecOff, [RecOff EXCEPT !.pc = "scan"]}
  PROVE  Kept
  <1>1. CxOff \in [pc: {"off", "loaded", "deleting"}, why: Reasons, snap: Row]
    BY RowConstants DEF CxOff, Reasons
  <1>2. /\ RecOff \in RecType /\ RecOff.pc = "off"
        /\ [RecOff EXCEPT !.pc = "scan"] \in RecType
        /\ [RecOff EXCEPT !.pc = "scan"].pc = "scan"
    BY RowConstants DEF RecOff, RecType
  <1>3. TypeOK'
    BY <1>1, <1>2 DEF TypeOK, RecType, ExType
  <1>4. ASSUME LeaseInv PROVE LeaseInv'
    <2>1. Idle.pc = "idle"
      BY DEF Idle
    <2>2. \A w \in Workers : ex'[w] = ex[w] \/ ex'[w].pc = "idle"
      BY <2>1
    <2>3. SnapsAsSeen'
      BY <1>2, <1>4, <2>2 DEF LeaseInv, SnapsAsSeen
    <2>4. \A w \in Workers : /\ Holding(w)' => Holding(w)
                             /\ ex'[w].pc \in Running => ex[w].pc \in Running
      BY <2>2 DEF Holding, Running, Closing
    <2> QED
      BY <1>4, <2>3, <2>4
      DEF LeaseInv, OneHolder, HolderIsLeased, RunningUnsettled
  <1> QED
    BY <1>3, <1>4 DEF Kept

\* The soft time limit fails the job from the sleep or from the upload.
LEMMA SoftTimeLimitKeeps ==
  ASSUME TypeOK, NEW w \in Workers, SoftTimeLimit(w)
  PROVE  Kept
  <1>1. faults' \in 0 .. MaxFaults
    <2>1. faults < MaxFaults /\ faults' = faults + 1
      BY DEF SoftTimeLimit, Fault
    <2> QED
      BY <2>1, BoundsAssumption DEF TypeOK
  <1>2. UNCHANGED celery /\ exists
    BY DEF SoftTimeLimit
  <1>3. CASE /\ ex[w].pc = "nap" /\ WaitRaises(w)
             /\ UNCHANGED <<mode, exists, target, kf, aged, asks, timers, cx, rec, indexed,
                            notified>>
    <2>1. ex[w].pc \in Running
      BY <1>3 DEF Running
    <2>2. \/ Leave(w) /\ UNCHANGED <<row, breach>>
          \/ Update("failed") /\ Finally(w) /\ UNCHANGED pool
      BY <1>3 DEF WaitRaises
    <2> QED
      BY <1>1, <1>2, <1>3, <2>1, <2>2, RaisesKeeps
  <1>4. CASE ex[w].pc = "sync" /\ SyncRaises(w) /\ Finally(w)
    BY <1>1, <1>2, <1>4, SyncRaisesKeeps
  <1> QED
    BY <1>3, <1>4 DEF SoftTimeLimit

\* Every fault.
LEMMA FaultsKeep ==
  ASSUME TypeOK, Faults
  PROVE  Kept
  <1>1. ASSUME NEW kind, Fault(kind) PROVE faults' \in 0 .. MaxFaults
    BY <1>1, BoundsAssumption DEF Fault, TypeOK
  <1>2. Idle \in Slot
    BY RowConstants
  <1>3. CASE ApiRestarts
    <2>1. ex' \in ExType /\ \A w \in Workers : ex'[w] = ex[w] \/ ex'[w] = Idle
      BY <1>2, <1>3 DEF ApiRestarts, TypeOK, ExType
    <2>2. faults' \in 0 .. MaxFaults /\ timers' \in 0 .. MaxQueue
      BY <1>1, <1>3, BoundsAssumption DEF ApiRestarts
    <2> QED
      BY <1>3, <2>1, <2>2, LossKeeps DEF ApiRestarts, TypeOK
  <1>4. CASE Redelivered
    <2>1. faults' \in 0 .. MaxFaults /\ celery' \in 0 .. MaxQueue
      BY <1>1, <1>4, BoundsAssumption DEF Redelivered, More, TypeOK
    <2> QED
      BY <1>4, <2>1, LossKeeps DEF Redelivered, TypeOK, ExType
  <1>5. ASSUME NEW w \in Workers, WorkerLost(w) PROVE Kept
    <2>1. ex' \in ExType /\ \A v \in Workers : ex'[v] = ex[v] \/ ex'[v] = Idle
      BY <1>2, <1>5 DEF WorkerLost, TypeOK, ExType
    <2>2. faults' \in 0 .. MaxFaults /\ celery' \in 0 .. MaxQueue
      BY <1>1, <1>5, BoundsAssumption DEF WorkerLost, More, TypeOK
    <2> QED
      BY <1>5, <2>1, <2>2, LossKeeps DEF WorkerLost, TypeOK
  <1> QED
    BY <1>3, <1>4, <1>5, SoftTimeLimitKeeps DEF Faults

-----------------------------------------------------------------------------
(* Time, and KnowFlow. *)

\* Time changes a row's lease or watch, and nothing else of it.
LEMMA TimedRow ==
  ASSUME NEW r \in Row
  PROVE  /\ Lapse(r) \in Row /\ Lapse(r).status = r.status
         /\ Overrun(r) \in Row /\ Overrun(r).status = r.status
         /\ Overrun(r).pay.lease = r.pay.lease
  <1>1. Lapse(r) \in Row /\ Overrun(r) \in Row
    <2>1. "pending" \in Status
      BY DEF Status, Active
    <2> QED
      BY <2>1, RowOperators
  <1> QED
    BY <1>1 DEF Lapse, Overrun, Row, Payload

\* The lease lapses: a breach if somebody holds it.
LEMMA LeaseLapsesKeeps ==
  ASSUME TypeOK, LeaseLapses
  PROVE  Kept
  <1>1. /\ row \in Row /\ cx.snap \in Row /\ rec.snap \in Row
        /\ \A w \in Workers : ex[w] \in Slot /\ ex[w].snap \in Row
    BY DEF TypeOK, Slot
  <1>2. \A r \in Row : Lapse(r) \in Row /\ Lapse(r).status = r.status
    BY TimedRow
  <1>3. /\ ex' = [w \in Workers |-> [ex[w] EXCEPT !.snap = Lapse(ex[w].snap)]]
        /\ cx' = [cx EXCEPT !.snap = Lapse(cx.snap)]
        /\ rec' = [rec EXCEPT !.snap = Lapse(rec.snap)]
        /\ row' = Lapse(row)
    BY DEF LeaseLapses
  <1>4. /\ UNCHANGED <<mode, exists, target, kf, aged, asks, faults, celery, timers, pool,
                       indexed, notified>>
        /\ breach' = IF \E w \in Workers : Holding(w) THEN Broken("lapse") ELSE breach
    BY DEF LeaseLapses, world, queues
  <1>5. \A w \in Workers : /\ ex'[w] \in Slot /\ ex'[w].pc = ex[w].pc
                           /\ ex'[w].snap = Lapse(ex[w].snap)
    BY <1>1, <1>2, <1>3 DEF Slot
  <1>6. ex' \in [Workers -> Slot]
    BY <1>3, <1>5
  <1>7. /\ cx' \in [pc: {"off", "loaded", "deleting"}, why: Reasons, snap: Row]
        /\ rec' \in RecType /\ rec'.pc = rec.pc /\ rec'.snap = Lapse(rec.snap)
    BY <1>1, <1>2, <1>3 DEF TypeOK, RecType
  <1>8. TypeOK'
    BY <1>1, <1>2, <1>3, <1>4, <1>6, <1>7 DEF TypeOK, RecType, Broken, Causes
  <1>9. ASSUME LeaseInv PROVE LeaseInv'
    <2>1. SnapsAsSeen'
      BY <1>1, <1>2, <1>5, <1>7, <1>9 DEF LeaseInv, SnapsAsSeen, IsActive
    <2>2. breach' = "none" => \A w \in Workers : ~Holding(w)
      BY <1>4 DEF Broken
    <2>3. \A w \in Workers : Holding(w)' <=> Holding(w)
      BY <1>5 DEF Holding
    <2>4. \A w \in Workers : ex'[w].pc \in Running => Holding(w)'
      BY DEF Holding
    <2> QED
      BY <2>1, <2>2, <2>3, <2>4 DEF LeaseInv, OneHolder, HolderIsLeased, RunningUnsettled
  <1> QED
    BY <1>8, <1>9 DEF Kept

\* The watch of the parse runs out: no lease and no status is touched.
LEMMA WatchOverrunsKeeps ==
  ASSUME TypeOK, WatchOverruns
  PROVE  Kept
  <1> DEFINE late(stage) == IF stage = "fresh" THEN "overdue" ELSE stage
  <1>1. /\ row \in Row /\ cx.snap \in Row /\ rec.snap \in Row /\ rec.had \in Payload
        /\ \A w \in Workers : ex[w] \in Slot /\ ex[w].snap \in Row
    BY DEF TypeOK, Slot
  <1>2. \A r \in Row : /\ Overrun(r) \in Row /\ Overrun(r).status = r.status
                       /\ Overrun(r).pay.lease = r.pay.lease
    BY TimedRow
  <1>3. /\ ex' = [w \in Workers |-> [ex[w] EXCEPT !.snap = Overrun(ex[w].snap),
                                                  !.stage = late(ex[w].stage)]]
        /\ cx' = [cx EXCEPT !.snap = Overrun(cx.snap)]
        /\ rec' = [rec EXCEPT !.snap = Overrun(rec.snap), !.had.watch = late(rec.had.watch)]
        /\ row' = Overrun(row)
    BY DEF WatchOverruns
  <1>4. UNCHANGED <<mode, exists, target, kf, aged, asks, faults, celery, timers, pool,
                    indexed, notified, breach>>
    BY DEF WatchOverruns, world, queues
  <1>5. \A w \in Workers : /\ ex'[w] \in Slot /\ ex'[w].pc = ex[w].pc
                           /\ ex'[w].snap = Overrun(ex[w].snap)
    BY <1>1, <1>2, <1>3 DEF Slot
  <1>6. ex' \in [Workers -> Slot]
    BY <1>3, <1>5
  <1>7. /\ cx' \in [pc: {"off", "loaded", "deleting"}, why: Reasons, snap: Row]
        /\ rec' \in RecType /\ rec'.pc = rec.pc /\ rec'.snap = Overrun(rec.snap)
    BY <1>1, <1>2, <1>3 DEF TypeOK, RecType, Payload, Watch
  <1>8. TypeOK'
    BY <1>1, <1>2, <1>3, <1>4, <1>6, <1>7 DEF TypeOK, RecType
  <1>9. ASSUME LeaseInv PROVE LeaseInv'
    <2>1. SnapsAsSeen'
      BY <1>1, <1>2, <1>5, <1>7, <1>9 DEF LeaseInv, SnapsAsSeen, IsActive
    <2>2. \A w \in Workers : /\ Holding(w)' <=> Holding(w)
                             /\ ex'[w].pc \in Running <=> ex[w].pc \in Running
      BY <1>5 DEF Holding
    <2>3. row'.status = row.status /\ row'.pay.lease = row.pay.lease
      BY <1>1, <1>2, <1>3
    <2> QED
      BY <1>4, <1>9, <2>1, <2>2, <2>3
      DEF LeaseInv, OneHolder, HolderIsLeased, RunningUnsettled, IsActive, LeaseIsActive
  <1> QED
    BY <1>8, <1>9 DEF Kept

\* Every step of the clock.
LEMMA TimeKeeps ==
  ASSUME TypeOK, Time
  PROVE  Kept
  <1>1. CASE LeaseLapses
    BY <1>1, LeaseLapsesKeeps
  <1>2. CASE WatchOverruns
    BY <1>2, WatchOverrunsKeeps
  <1>3. CASE JobAges
    <2>1. TypeOK'
      BY <1>3 DEF JobAges, queues, TypeOK
    <2>2. ASSUME LeaseInv PROVE LeaseInv'
      BY <1>3, <2>2, AsideKeeps DEF JobAges, LeaseInv, SnapsAsSeen
    <2> QED
      BY <2>1, <2>2 DEF Kept
  <1>4. ASSUME NEW w \in Workers, LoopEnds(w) PROVE Kept
    <2>1. /\ ex' \in ExType /\ Others(w) /\ ex'[w].pc = ex[w].pc
          /\ ex[w].pc \in Running \ {"defer"}
      <3> DEFINE slot == [ex[w] EXCEPT !.due = TRUE]
      <3>1. slot \in Slot /\ slot.pc = ex[w].pc
        BY DEF TypeOK, ExType, Slot
      <3>2. ex' = [ex EXCEPT ![w] = slot] /\ ex[w].pc \in Running \ {"defer"}
        BY <1>4 DEF LoopEnds, Running
      <3> HIDE DEF slot
      <3> QED
        BY <3>1, <3>2 DEF TypeOK, ExType, Others
    <2>2. Unmoved /\ UNCHANGED <<row, breach, notified, pool, indexed>>
      BY <1>4 DEF LoopEnds, Outside, world, Unmoved
    <2>3. Holding(w) /\ Onward(w)
      BY <2>1 DEF Holding, Onward, Running
    <2> QED
      BY <2>1, <2>2, <2>3, QuietStep DEF TypeOK
  <1> QED
    BY <1>1, <1>2, <1>3, <1>4 DEF Time

\* KnowFlow goes on with its parse.
LEMMA KnowflowKeeps ==
  ASSUME TypeOK, KnowflowParses
  PROVE  Kept
  <1>1. kf' \in KfState
    BY VerdictsAssumption DEF KnowflowParses, KfState
  <1>2. TypeOK'
    BY <1>1 DEF KnowflowParses, queues, TypeOK
  <1>3. ASSUME LeaseInv PROVE LeaseInv'
    BY <1>3, AsideKeeps DEF KnowflowParses, LeaseInv, SnapsAsSeen
  <1> QED
    BY <1>2, <1>3 DEF Kept

-----------------------------------------------------------------------------
(* The theorems. *)

\* The new job satisfies both invariants.
LEMMA InitEstablishes == Init => TypeOK /\ LeaseInv
  <1> SUFFICES ASSUME Init PROVE TypeOK /\ LeaseInv
    OBVIOUS
  <1>1. Idle \in Slot /\ Idle.pc = "idle" /\ NoSnap \in Row /\ EmptyPayload \in Payload
    BY RowConstants DEF Idle
  <1>2. row \in Row
    BY <1>1 DEF Init, NoSnap
  <1>3. /\ cx \in [pc: {"off", "loaded", "deleting"}, why: Reasons, snap: Row]
        /\ rec \in RecType /\ rec.pc = "off"
    BY <1>1 DEF Init, CxOff, RecOff, Reasons, RecType
  <1>4. ex \in [Workers -> Slot] /\ \A w \in Workers : ex[w].pc = "idle"
    BY <1>1 DEF Init
  <1>5. mode \in AllModes /\ kf \in KfState /\ indexed \in BOOLEAN
    BY ModesAssumption DEF Init, KfState
  <1>6. /\ celery \in 0 .. MaxQueue /\ timers \in 0 .. MaxQueue
        /\ asks \in 0 .. MaxAsks /\ faults \in 0 .. MaxFaults /\ notified \in 0 .. 2
    BY BoundsAssumption DEF Init
  <1>7. TypeOK
    BY <1>2, <1>3, <1>4, <1>5, <1>6 DEF Init, TypeOK, RecType
  <1>8. LeaseInv
    BY <1>3, <1>4 DEF LeaseInv, SnapsAsSeen, OneHolder, HolderIsLeased, RunningUnsettled,
                      Holding, Running, Closing
  <1> QED
    BY <1>7, <1>8

\* Every step of the system keeps the type invariant, and with it LeaseInv.
LEMMA NextKeeps ==
  ASSUME TypeOK, [Next]_vars
  PROVE  Kept
  <1>1. CASE Enqueue \/ TimerFires \/ ResumeOrphan
    BY <1>1, QueuesKeep
  <1>2. ASSUME NEW w \in Workers, Pickup(w) PROVE Kept
    BY <1>2, PickupKeeps
  <1>3. ASSUME NEW w \in Workers, Step(w) PROVE Kept
    BY <1>3, StepKeeps
  <1>4. CASE Cancelling
    BY <1>4, CancellingKeeps
  <1>5. CASE Recovery
    BY <1>5, RecoveryStepKeeps
  <1>6. CASE Faults
    BY <1>6, FaultsKeep
  <1>7. CASE Time
    BY <1>7, TimeKeeps
  <1>8. CASE KnowflowParses
    BY <1>8, KnowflowKeeps
  <1>9. CASE UNCHANGED vars
    <2>1. TypeOK'
      BY <1>9 DEF vars, TypeOK
    <2>2. ASSUME LeaseInv PROVE LeaseInv'
      BY <1>9, <2>2, AsideKeeps DEF vars, LeaseInv, SnapsAsSeen
    <2> QED
      BY <2>1, <2>2 DEF Kept
  <1> QED
    BY <1>1, <1>2, <1>3, <1>4, <1>5, <1>6, <1>7, <1>8, <1>9 DEF Next

\* Type correctness, for every value of the constants.
THEOREM TypeCorrect == Spec => []TypeOK
  <1>1. Init => TypeOK
    BY InitEstablishes
  <1>2. TypeOK /\ [Next]_vars => TypeOK'
    BY NextKeeps DEF Kept
  <1> QED
    BY <1>1, <1>2, PTL DEF Spec

\* The inductive invariant of the execution lease: as long as nothing on
\* record has weakened it, one slot is busy with the job, the row's lease is
\* live while it is and the job active, and a running slot's job is unsettled.
THEOREM LeaseInvHolds == Spec => []LeaseInv
  <1>1. Init => LeaseInv
    BY InitEstablishes
  <1>2. TypeOK /\ LeaseInv /\ [Next]_vars => LeaseInv'
    BY NextKeeps DEF Kept
  <1> QED
    BY <1>1, <1>2, TypeCorrect, PTL DEF Spec

\* The promise of try_begin_execution and end_execution
\* (document_index_coordinator.py), in every behaviour up to the first of the
\* recorded breaches: no two executors, and none without a live lease.
THEOREM LeaseHolds == Spec => []ExclusiveLease
  <1>1. LeaseInv => ExclusiveLease
    BY DEF LeaseInv, ExclusiveLease
  <1> QED
    BY <1>1, LeaseInvHolds, PTL
=============================================================================
