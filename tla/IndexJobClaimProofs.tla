------------------------ MODULE IndexJobClaimProofs ------------------------
(***************************************************************************)
(* What TLAPS proves of the outcome of an index job, for every value of    *)
(* the constants, on top of the lease (IndexJobProofs):                    *)
(*   ClaimsOnce        Spec => []ClaimedOnce                               *)
(*   MarksAreTrue      Spec => []MarkMeansParsed                           *)
(*   DoneMeansParsed   Spec => []NeverDoneUnparsed                         *)
(*   PoolRunsOne       Spec => []OnePoolRun                                *)
(*   ProcessClaimsOnce Spec => []OneClaimInProcess                         *)
(*   CancelsHold       Spec => CancelLosesOnlyTo                           *)
(* CancelsHold rests on SnapsUnsettled, what the loaded rows still show.   *)
(*                                                                         *)
(* What a step may do at all is said once, whatever the invariants are:    *)
(* SlotFlow and StepStatus of a step of an executor, PickupFlow of its     *)
(* first, the Aside lemmas of everybody else's; NextFlow and NewStatus put *)
(* them together.                                                          *)
(***************************************************************************)
EXTENDS IndexJobProofs

-----------------------------------------------------------------------------
(* What a step of an executor may do. *)

\* The counters at which a slot works on a row it has loaded.
Carrying == {"start", "sync", "poll", "booted", "renew", "finish", "pindex", "failing", "defer"}

\* What a slot works on after its step: a row of this very state, or, if the
\* session holds a cancelled job when it reports progress, the one it had.
Reloads(w) ==
  \/ ex'[w].pc \notin Carrying
  \/ ex'[w].snap = row' /\ exists' /\ (ex'[w].pc = "finish" => row'.status # "cancelled")
  \/ /\ ex[w].pc \in {"start", "poll", "booted"} /\ ex'[w].pc \in {"sync", "renew"}
     /\ ex'[w].snap = ex[w].snap

\* How a slot comes to think the file parsed or the tree due.
Arrives(w) ==
  /\ ex'[w].pc = "parsed" => kf = "done"
  /\ ex'[w].pc = "finish" =>
       \/ ex[w].pc = "parsed"
       \/ ex[w].pc = "sync" /\ (WorkDone \/ mode \in {"pageindex", "subscription_pipeline"})
  /\ ex'[w].pc = "pindex" => mode = "subscription_pipeline"

\* What a step of a slot does to the mark and to KnowFlow's file.
Marks(w) ==
  /\ kf = "done" /\ kf' # "done" => mode = "reindex" /\ ~indexed' /\ ex[w].pc \in Running
                                    /\ ex'[w].pc \notin {"parsed", "finish"}
  /\ indexed' /\ ~indexed => \/ ex[w].pc = "sync" /\ (kf' = "done" \/ (WorkDone /\ kf' = kf))
                             \/ ex[w].pc \in {"finish", "pindex"} /\ kf' = kf
  /\ indexed /\ ~indexed' => ex[w].pc \in Running

\* Whose name the slot has, and what becomes of it.
Keeps(w) ==
  \/ ex'[w].pc # "idle" /\ ex'[w].seat = ex[w].seat /\ pool' = pool
  \/ ex'[w] = Idle /\ pool' = (IF ex[w].seat = "pool" THEN "free" ELSE pool)

\* A move of a slot: the counter, the row it has, the seat it keeps.
MovedTo(w, p, r) ==
  /\ ex' \in ExType /\ Others(w)
  /\ ex'[w].pc = p /\ ex'[w].snap = r /\ ex'[w].seat = ex[w].seat

\* Goto, Hold and Finally are such moves.
LEMMA SlotMoved ==
  ASSUME TypeOK, NEW w \in Workers
  PROVE  /\ \A p \in PC : Goto(w, p) => MovedTo(w, p, NoSnap)
         /\ \A p \in PC, r \in Row : Hold(w, p, r) => MovedTo(w, p, r)
         /\ Finally(w) => MovedTo(w, "close", NoSnap)
  <1>1. ASSUME NEW p \in PC, Goto(w, p) PROVE MovedTo(w, p, NoSnap)
    BY <1>1, RowConstants DEF MovedTo, TypeOK, ExType, Goto, Others, Slot
  <1>2. ASSUME NEW p \in PC, NEW r \in Row, Hold(w, p, r) PROVE MovedTo(w, p, r)
    <2> DEFINE slot == [ex[w] EXCEPT !.pc = p, !.snap = r]
    <2>1. slot \in Slot /\ slot.pc = p /\ slot.snap = r /\ slot.seat = ex[w].seat
      BY DEF TypeOK, ExType, Slot
    <2>2. ex' = [ex EXCEPT ![w] = slot]
      BY <1>2 DEF Hold
    <2> HIDE DEF slot
    <2> QED
      BY <2>1, <2>2 DEF MovedTo, TypeOK, ExType, Others
  <1>3. ASSUME Finally(w) PROVE MovedTo(w, "close", NoSnap)
    <2> DEFINE slot == [Idle EXCEPT !.pc = "close", !.seat = ex[w].seat]
    <2>1. slot \in Slot
      BY RowConstants DEF TypeOK, Idle, Slot, PC, Opening, Running, Closing
    <2>2. slot.pc = "close" /\ slot.seat = ex[w].seat /\ slot.snap = NoSnap
      BY DEF Idle
    <2>3. ex' = [ex EXCEPT ![w] = slot]
      BY <1>3 DEF Finally
    <2> HIDE DEF slot
    <2> QED
      BY <2>1, <2>2, <2>3 DEF MovedTo, TypeOK, ExType, Others
  <1> QED
    BY <1>1, <1>2, <1>3

Flow(w) ==
  /\ ex' \in ExType /\ Others(w) /\ ex[w].pc # "idle" /\ ex'[w].pc # "begin"
  /\ Reloads(w) /\ Arrives(w) /\ Marks(w) /\ Keeps(w)

\* A move with the name kept that changes neither the mark nor the file, to a
\* counter that needs no row, or with the row as it is now.
LEMMA PlainFlow ==
  ASSUME TypeOK, NEW w \in Workers, ex[w].pc # "idle",
         UNCHANGED <<kf, indexed, pool>>, NEW p \in PC \ {"idle", "begin"}, NEW r, MovedTo(w, p, r),
         p \in Carrying => r = row' /\ exists' /\ (p = "finish" => row'.status # "cancelled"),
         p = "parsed" => kf = "done",
         p = "finish" => \/ ex[w].pc = "parsed"
                         \/ /\ ex[w].pc = "sync"
                            /\ WorkDone \/ mode \in {"pageindex", "subscription_pipeline"},
         p = "pindex" => mode = "subscription_pipeline"
  PROVE  Flow(w)
  BY DEF Flow, MovedTo, Reloads, Arrives, Marks, Keeps

\* A slot that ends in the finally block, with the mark or the file changed as
\* said.
LEMMA FinalFlow ==
  ASSUME TypeOK, NEW w \in Workers, ex[w].pc # "idle", UNCHANGED pool, Finally(w), Marks(w)
  PROVE  Flow(w)
  <1>1. MovedTo(w, "close", NoSnap)
    BY SlotMoved
  <1>2. "close" \notin Carrying
    BY DEF Carrying
  <1> QED
    BY <1>1, <1>2 DEF Flow, MovedTo, Reloads, Arrives, Keeps

\* The upload that raises takes a mark away, if it touches it.
LEMMA SyncRaisesFlow ==
  ASSUME TypeOK, NEW w \in Workers, ex[w].pc = "sync", SyncRaises(w), Finally(w)
  PROVE  Flow(w)
  <1>1. UNCHANGED pool
    BY DEF SyncRaises
  <1>2. MovedTo(w, "close", NoSnap)
    BY SlotMoved
  <1>3. Marks(w)
    BY <1>2 DEF SyncRaises, Marks, MovedTo, Running
  <1> QED
    BY <1>1, <1>3, FinalFlow

\* A slot that is left.
LEMMA LeftFlow ==
  ASSUME TypeOK, NEW w \in Workers, ex[w].pc # "idle", Leave(w), UNCHANGED <<kf, indexed>>
  PROVE  Flow(w)
  <1>1. ex' \in ExType /\ Others(w) /\ ex'[w] = Idle /\ Idle.pc = "idle"
    BY RowConstants DEF TypeOK, ExType, Leave, Others, Idle
  <1> QED
    BY <1>1 DEF Flow, Leave, Reloads, Arrives, Marks, Keeps, Carrying

\* Every step of an executor.
LEMMA SlotFlow ==
  ASSUME TypeOK, TypeOK', NEW w \in Workers, Step(w)
  PROVE  Flow(w)
  <1> USE DEF PC, Running, Closing, Opening, Carrying
  <1>0. row \in Row /\ row' \in Row /\ NoSnap \in Row
    BY RowConstants DEF TypeOK
  <1>1. CASE Begin(w)
    <2>1. CASE Leave(w)
      BY <1>1, <2>1, LeftFlow DEF Begin, Outside, world
    <2>2. CASE Goto(w, "route") /\ UNCHANGED pool
      <3>1. MovedTo(w, "route", NoSnap)
        BY <2>2, SlotMoved
      <3> QED
        BY <1>1, <2>2, <3>1, PlainFlow DEF Begin, Outside, world
    <2> QED
      BY <1>1, <2>1, <2>2 DEF Begin
  <1>2. CASE Gone(w)
    BY <1>2, LeftFlow DEF Gone, Outside, world
  <1>3. CASE Route(w)
    <2>1. UNCHANGED <<kf, indexed, pool, exists, row>> /\ ex[w].pc = "route" /\ exists
      BY <1>3 DEF Route, Outside, world
    <2>2. ASSUME NEW st \in {"overdue", "fresh"},
                 ex' = [ex EXCEPT ![w] = [@ EXCEPT !.pc = "nap", !.stage = st]]
          PROVE  MovedTo(w, "nap", ex[w].snap)
      <3>1. [[ex[w] EXCEPT !.pc = "nap"] EXCEPT !.stage = st] \in Slot
        BY SlotRead DEF Slot
      <3> QED
        BY <2>2, <3>1, SlotRead DEF ExType, Others, Slot, MovedTo
    <2>3. CASE Hold(w, "start", row)
      <3>1. MovedTo(w, "start", row)
        BY <1>0, <2>3, SlotMoved
      <3> QED
        BY <2>1, <3>1, PlainFlow
    <2>4. CASE Finally(w)
      BY <2>1, <2>4, FinalFlow DEF Marks
    <2>5. CASE MovedTo(w, "nap", ex[w].snap)
      BY <2>1, <2>5, PlainFlow
    <2> QED
      BY <1>3, <2>2, <2>3, <2>4, <2>5 DEF Route
  <1>4. CASE Start(w)
    <2>1. UNCHANGED <<kf, indexed, pool, exists>> /\ ex[w].pc = "start" /\ exists
      BY <1>4 DEF Start, Outside, world
    <2>2. CASE Finally(w)
      BY <2>1, <2>2, FinalFlow DEF Marks
    <2>3. CASE Hold(w, "sync", row')
      <3>1. MovedTo(w, "sync", row')
        BY <1>0, <2>3, SlotMoved
      <3> QED
        BY <2>1, <3>1, PlainFlow
    <2>4. CASE Hold(w, "sync", ex[w].snap)
      <3>1. MovedTo(w, "sync", ex[w].snap)
        BY <2>4, SlotMoved, SlotRead
      <3> QED
        BY <2>1, <3>1 DEF Flow, MovedTo, Reloads, Arrives, Marks, Keeps
    <2> QED
      BY <1>4, <2>2, <2>3, <2>4 DEF Start
  <1>5. CASE Settling(w)
    <2>1. UNCHANGED <<pool, kf>> /\ Finally(w) /\ ex[w].pc # "idle"
      BY <1>5 DEF Settling, SyncBlocked, Fail, Finish, PageIndexEnds, Outside, world
    <2>2. \/ UNCHANGED indexed
          \/ ex[w].pc \in {"finish", "pindex"} /\ (indexed => indexed')
      BY <1>5 DEF Settling, SyncBlocked, Fail, Finish, PageIndexEnds
    <2>3. Marks(w)
      BY <2>1, <2>2 DEF Marks
    <2> QED
      BY <2>1, <2>3, FinalFlow
  <1>6. CASE SyncCompleted(w)
    <2>1. /\ UNCHANGED <<kf, pool, exists, row>> /\ ex[w].pc = "sync" /\ exists
          /\ Marks(w)
          /\ WorkDone \/ mode = "pageindex"
      BY <1>6 DEF SyncCompleted, Outside, world, Marks
    <2>2. CASE Finally(w)
      BY <2>1, <2>2, FinalFlow
    <2>3. CASE Hold(w, "finish", row) /\ ~ShouldAbort
      <3>1. MovedTo(w, "finish", row) /\ row.status # "cancelled"
        BY <1>0, <2>3, SlotMoved DEF ShouldAbort
      <3> QED
        BY <2>1, <3>1 DEF Flow, MovedTo, Reloads, Arrives, Keeps
    <2> QED
      BY <1>6, <2>2, <2>3 DEF SyncCompleted
  <1>7. CASE SyncSubmitted(w)
    <2>1. Goto(w, "nap") /\ UNCHANGED pool /\ ex[w].pc = "sync"
      BY <1>7 DEF SyncSubmitted
    <2>2. MovedTo(w, "nap", NoSnap)
      BY <2>1, SlotMoved
    <2>3. \/ kf' = "parsing" /\ indexed' = FALSE /\ mode = "reindex"
          \/ /\ kf = "absent" \/ kf' = kf
             /\ indexed' => indexed \/ kf' = "done"
             /\ ~indexed
      BY <1>7 DEF SyncSubmitted, ParseSubmitted, FileLinked
    <2>4. Marks(w)
      BY <2>1, <2>2, <2>3 DEF Marks, MovedTo
    <2> QED
      BY <2>1, <2>2, <2>4 DEF Flow, MovedTo, Reloads, Arrives, Keeps
  <1>8. CASE SyncSkipsDeepdoc(w)
    <2>1. /\ UNCHANGED <<kf, indexed, pool, exists>> /\ ex[w].pc = "sync" /\ exists
          /\ mode = "subscription_pipeline"
      BY <1>8 DEF SyncSkipsDeepdoc, Outside, world
    <2>2. CASE Finally(w)
      BY <2>1, <2>2, FinalFlow DEF Marks
    <2>3. CASE ~ShouldAbort /\ Update("running") /\ Hold(w, "finish", row')
      <3>1. row'.status # "cancelled"
        <4>1. row' = SetStatus(row, "running")
          BY <2>3, UpdateRow DEF Status, Active
        <4> QED
          BY <1>0, <2>3, <4>1 DEF SetStatus, ShouldAbort, Row
      <3>2. MovedTo(w, "finish", row')
        BY <1>0, <2>3, SlotMoved
      <3> QED
        BY <2>1, <3>1, <3>2, PlainFlow
    <2> QED
      BY <1>8, <2>2, <2>3 DEF SyncSkipsDeepdoc
  <1>9. CASE PollOpens(w) \/ WaitEnds(w)
    <2>1. UNCHANGED <<kf, indexed, pool, exists, row>> /\ ex[w].pc = "nap" /\ exists
      BY <1>9 DEF PollOpens, WaitEnds, Outside, world
    <2>2. CASE Goto(w, "undone")
      <3>1. MovedTo(w, "undone", NoSnap)
        BY <2>2, SlotMoved
      <3> QED
        BY <2>1, <3>1, PlainFlow
    <2>3. CASE Hold(w, "poll", row)
      <3>1. MovedTo(w, "poll", row)
        BY <1>0, <2>3, SlotMoved
      <3> QED
        BY <2>1, <3>1, PlainFlow
    <2>4. CASE ex' = [ex EXCEPT ![w] = [[ex[w] EXCEPT !.pc = "undone"] EXCEPT !.due = FALSE]]
      <3>1. [[ex[w] EXCEPT !.pc = "undone"] EXCEPT !.due = FALSE] \in Slot
        BY SlotRead DEF Slot
      <3>2. MovedTo(w, "undone", ex[w].snap)
        BY <2>4, <3>1, SlotRead DEF ExType, Others, Slot, MovedTo
      <3> QED
        BY <2>1, <3>2, PlainFlow
    <2>5. WaitEnds(w) =>
            ex' = [ex EXCEPT ![w] = [[ex[w] EXCEPT !.pc = "undone"] EXCEPT !.due = FALSE]]
      BY SlotRead DEF WaitEnds, ExType
    <2> QED
      BY <1>9, <2>2, <2>3, <2>4, <2>5 DEF PollOpens
  <1>10. CASE PollProgress(w)
    <2>1. UNCHANGED <<kf, indexed, pool, exists>> /\ exists /\ ex[w].pc \in {"poll", "booted"}
      BY <1>10 DEF PollProgress, Outside, world
    <2>2. CASE Hold(w, "renew", row')
      <3>1. MovedTo(w, "renew", row')
        BY <1>0, <2>2, SlotMoved
      <3> QED
        BY <2>1, <3>1, PlainFlow
    <2>3. CASE Hold(w, "renew", ex[w].snap)
      <3>1. MovedTo(w, "renew", ex[w].snap)
        BY <2>3, SlotMoved, SlotRead
      <3> QED
        BY <2>1, <3>1 DEF Flow, MovedTo, Reloads, Arrives, Marks, Keeps
    <2> QED
      BY <1>10, <2>2, <2>3 DEF PollProgress
  <1>11. CASE Renew(w)
    <2>1. MovedTo(w, "nap", NoSnap)
      BY <1>11, SlotMoved DEF Renew
    <2> QED
      BY <1>11, <2>1, PlainFlow DEF Renew, Outside, world
  <1>12. CASE PollDone(w)
    <2>1. MovedTo(w, "parsed", NoSnap)
      BY <1>12, SlotMoved DEF PollDone
    <2> QED
      BY <1>12, <2>1, PlainFlow DEF PollDone, Outside, world
  <1>13. CASE PollBacklog(w)
    <2>1. MovedTo(w, "undone", NoSnap)
      BY <1>13, SlotMoved DEF PollBacklog
    <2> QED
      BY <1>13, <2>1, PlainFlow DEF PollBacklog, Outside, world
  <1>14. CASE PollFailed(w)
    <2>1. MovedTo(w, "error", NoSnap)
      BY <1>14, SlotMoved DEF PollFailed
    <2> QED
      BY <1>14, <2>1, PlainFlow DEF PollFailed, Outside, world
  <1>15. CASE PollBootstrap(w)
    <2>1. MovedTo(w, "booted", row')
      BY <1>0, <1>15, SlotMoved DEF PollBootstrap
    <2>2. kf = "unparsed" /\ indexed' = FALSE /\ UNCHANGED <<pool, exists>> /\ exists
          /\ ex[w].pc = "poll"
      BY <1>15 DEF PollBootstrap, ParseSubmitted
    <2> QED
      BY <2>1, <2>2 DEF Flow, MovedTo, Reloads, Arrives, Marks, Keeps
  <1>16. CASE PollFailedOcr(w)
    <2>1. UNCHANGED <<kf, indexed>> /\ ex[w].pc # "idle"
      BY <1>16 DEF PollFailedOcr, Outside, world
    <2>2. CASE Leave(w)
      BY <2>1, <2>2, LeftFlow
    <2>3. CASE Finally(w) /\ UNCHANGED pool
      BY <2>1, <2>3, FinalFlow DEF Marks
    <2> QED
      BY <1>16, <2>2, <2>3 DEF PollFailedOcr, WaitRaises
  <1>17. CASE AfterParsed(w) \/ AfterError(w) \/ AfterUndone(w)
    <2>1. UNCHANGED <<kf, indexed, pool, exists, row>> /\ exists /\ ex[w].pc # "idle"
      BY <1>17 DEF AfterParsed, AfterError, AfterUndone, Outside, world
    <2>2. CASE Finally(w)
      BY <2>1, <2>2, FinalFlow DEF Marks
    <2>3. CASE Hold(w, "finish", row) /\ ~ShouldAbort /\ ex[w].pc = "parsed"
      <3>1. MovedTo(w, "finish", row) /\ row.status # "cancelled"
        BY <1>0, <2>3, SlotMoved DEF ShouldAbort
      <3> QED
        BY <2>1, <2>3, <3>1, PlainFlow
    <2>4. ASSUME NEW p \in {"failing", "defer"}, Hold(w, p, row) PROVE Flow(w)
      <3>1. MovedTo(w, p, row)
        BY <1>0, <2>4, SlotMoved
      <3> QED
        BY <2>1, <2>4, <3>1, PlainFlow
    <2> QED
      BY <1>17, <2>2, <2>3, <2>4 DEF AfterParsed, AfterError, AfterUndone
  <1>18. CASE Defer(w)
    <2>1. MovedTo(w, "send", NoSnap)
      BY <1>18, SlotMoved DEF Defer
    <2> QED
      BY <1>18, <2>1, PlainFlow DEF Defer, Outside, world
  <1>19. CASE Send(w)
    <2>1. UNCHANGED pool /\ UNCHANGED <<kf, indexed>> /\ Finally(w) /\ ex[w].pc = "send"
      BY <1>19 DEF Send, Dispatch, world
    <2> QED
      BY <2>1, FinalFlow DEF Marks
  <1>20. CASE FinishPipeline(w)
    <2>1. /\ UNCHANGED <<kf, indexed, pool, exists>> /\ exists /\ ex[w].pc = "finish"
          /\ mode = "subscription_pipeline"
      BY <1>20 DEF FinishPipeline, Outside, world
    <2>2. CASE Finally(w)
      BY <2>1, <2>2, FinalFlow DEF Marks
    <2>3. CASE Hold(w, "pindex", row')
      <3>1. MovedTo(w, "pindex", row')
        BY <1>0, <2>3, SlotMoved
      <3> QED
        BY <2>1, <3>1, PlainFlow
    <2> QED
      BY <1>20, <2>2, <2>3 DEF FinishPipeline
  <1>21. CASE Close(w)
    <2>1. MovedTo(w, "end", row)
      BY <1>0, <1>21, SlotMoved DEF Close
    <2> QED
      BY <1>21, <2>1, PlainFlow DEF Close, Outside, world
  <1>22. CASE End(w)
    BY <1>22, LeftFlow DEF End, Outside, world
  <1>23. CASE SyncFails(w)
    BY <1>23, SyncRaisesFlow DEF SyncFails
  <1> QED
    BY <1>1, <1>2, <1>3, <1>4, <1>5, <1>6, <1>7, <1>8, <1>9, <1>10, <1>11, <1>12, <1>13,
       <1>14, <1>15, <1>16, <1>17, <1>18, <1>19, <1>20, <1>21, <1>22, <1>23
    DEF Step, Sync, Wait, After, Settling

-----------------------------------------------------------------------------
(* What a step of an executor makes of the status and of the count. *)

\* The status that update_job_status and a settlement leave.
LEMMA NewStatus ==
  ASSUME NEW r \in Row, NEW st
  PROVE  /\ SetStatus(r, st).status
              = IF r.status = "cancelled" /\ st # "cancelled" THEN "cancelled" ELSE st
         /\ Settle(r, st).status = st
  BY DEF SetStatus, Settle, Row

\* Running, on what the session loaded before.
Says(w) ==
  /\ row'.status = "running" /\ UNCHANGED notified
  /\ ex[w].pc \in {"start", "poll", "booted", "defer", "finish"}
  /\ ex[w].snap.status # "running"
  /\ ex[w].snap.status = "cancelled" => ex[w].pc \in {"defer", "finish"}

\* Running or failed, on the row as it is.
Updates(w) ==
  /\ ex[w].pc \in Running /\ UNCHANGED notified
  /\ \E st \in {"running", "failed"} : row' = SetStatus(row, st)

\* Failed before the upload;  cancelled, because the document is gone.
Blocks(w) ==
  /\ ex[w].pc = "sync" /\ UNCHANGED notified
  /\ row'.status = "failed" /\ ex[w].snap.status \notin {"cancelled", "failed"}

Drops(w) == ex[w].pc = "start" /\ UNCHANGED notified /\ row'.status = "cancelled"

\* The terminal claim.
Claims(w) ==
  /\ exists /\ ex[w].pc \in {"sync", "failing", "finish", "pindex"}
  /\ IsActive(ex[w].snap) \/ IsActive(row)
  /\ row'.status \in {"done", "failed"} /\ ex'[w].pc = "close"
  /\ row'.status = "done" => ex[w].pc \in {"finish", "pindex"} /\ (target => indexed')
  /\ notified' = IF notified < 2 THEN notified + 1 ELSE notified

Outcome(w) ==
  \/ row'.status = row.status /\ UNCHANGED notified
  \/ Says(w) \/ Updates(w) \/ Blocks(w) \/ Drops(w) \/ Claims(w)

\* A commit of what a session loaded, with the status kept or made running.
LEMMA ReportOutcome ==
  ASSUME TypeOK, NEW w \in Workers, UNCHANGED notified,
         NEW old \in Row, NEW new \in Row, NEW touched \in BOOLEAN,
         old = ex[w].snap, Commit(old, new, touched),
         \/ new.status = old.status
         \/ new = SetStatus(old, "running") /\ ex[w].pc \in {"start", "poll", "booted"}
         \/ new.status = "running" /\ ex[w].pc \in {"defer", "finish"}
  PROVE  Outcome(w) /\ (breach' = "none" => breach = "none")
  <1>1. row \in Row /\ breach \in Causes \cup {"none"} /\ "running" \in Status
    BY DEF TypeOK, Status, Active
  <1>2. breach' = "none" => breach = "none"
    BY <1>1, CommitRow
  <1>3. row' = Flush(row, old, new, touched)
    BY DEF Commit
  <1>4. row'.status = IF new.status = old.status THEN row.status ELSE new.status
    BY <1>1, <1>3 DEF Flush
  <1>5. SetStatus(old, "running").status
          = IF old.status = "cancelled" THEN "cancelled" ELSE "running"
    BY <1>1, NewStatus
  <1> QED
    BY <1>2, <1>4, <1>5 DEF Outcome, Says

\* The terminal claim, won or lost, on what the slot has in hand or on the row.
LEMMA ClaimOutcome ==
  ASSUME TypeOK, NEW w \in Workers, NEW st \in {"done", "failed"},
         NEW snap \in {ex[w].snap, row}, exists, Claim(snap, st), Finally(w),
         ex[w].pc \in {"sync", "failing", "finish", "pindex"},
         st = "done" => ex[w].pc \in {"finish", "pindex"} /\ (target => indexed')
  PROVE  Outcome(w) /\ (breach' = "none" => breach = "none")
  <1>1. row \in Row /\ snap \in Row /\ st \in Status /\ Settle(snap, st) \in Row
    BY SlotRead, RowOperators DEF TypeOK, Status, Terminal
  <1>2. breach' = "none" => breach = "none"
    BY <1>1, ClaimRow
  <1>3. CASE UNCHANGED <<row, breach, notified>>
    BY <1>3, <1>2 DEF Outcome
  <1>4. CASE /\ IsActive(snap) /\ Commit(snap, Settle(snap, st), FALSE)
             /\ notified' = IF notified < 2 THEN notified + 1 ELSE notified
    <2>1. row' = Flush(row, snap, Settle(snap, st), FALSE)
      BY <1>4 DEF Commit
    <2>2. Settle(snap, st).status = st
      BY <1>1, NewStatus
    <2>3. st # snap.status
      BY <1>4 DEF IsActive, Active
    <2>4. row'.status = st
      BY <1>1, <2>1, <2>2, <2>3 DEF Flush
    <2>5. ex'[w].pc = "close"
      BY SlotFinally
    <2>6. Claims(w)
      BY <1>4, <2>4, <2>5 DEF Claims
    <2> QED
      BY <1>2, <2>6 DEF Outcome
  <1> QED
    BY <1>3, <1>4 DEF Claim

\* What a step of an executor leaves alone, and the outcome of the job.
StepEffect(w) ==
  /\ UNCHANGED <<mode, exists, target, rec>> /\ (faults' = 0 => faults = 0)
  /\ InProcess => celery' = celery
  /\ ex[w].pc = "begin" => ex'[w].pc = "idle" \/ (ex'[w].pc = "route" /\ exists)
  /\ ex[w].pc \in Closing => ex'[w].pc \in Closing \cup {"idle"}
  /\ breach' = "none" => breach = "none"
  /\ Outcome(w)

\* The upload that raises.
LEMMA SyncRaisesStatus ==
  ASSUME TypeOK, NEW w \in Workers, ex[w].pc = "sync", exists, SyncRaises(w), Finally(w),
         UNCHANGED celery, faults' = 0 => faults = 0
  PROVE  StepEffect(w)
  <1>1. UNCHANGED <<mode, exists, target, rec>>
    BY DEF SyncRaises
  <1>2. ASSUME NEW snap \in {ex[w].snap, row}, Claim(snap, "failed")
        PROVE  Outcome(w) /\ (breach' = "none" => breach = "none")
    BY <1>2, ClaimOutcome
  <1>3. ASSUME Update("failed"), UNCHANGED notified
        PROVE  Outcome(w) /\ (breach' = "none" => breach = "none")
    <2>1. "failed" \in Status
      BY DEF Status, Terminal
    <2> QED
      BY <1>3, <2>1, UpdateRow DEF Outcome, Updates, Running
  <1>4. Outcome(w) /\ (breach' = "none" => breach = "none")
    BY <1>2, <1>3 DEF SyncRaises
  <1> QED
    BY <1>1, <1>4 DEF StepEffect, Closing

\* Every step of an executor.
LEMMA StepStatus ==
  ASSUME TypeOK, NEW w \in Workers, Step(w)
  PROVE  StepEffect(w)
  <1> USE DEF Closing
  <1> DEFINE snap == ex[w].snap
             Ends == Outcome(w) /\ (breach' = "none" => breach = "none")
  <1>0. /\ row \in Row /\ snap \in Row /\ breach \in Causes \cup {"none"}
        /\ "running" \in Status /\ "failed" \in Status /\ "cancelled" \in Status
    BY SlotRead DEF TypeOK, Status, Active, Terminal
  <1>1. /\ UNCHANGED <<mode, exists, target, rec>> /\ (faults' = 0 => faults = 0)
        /\ InProcess => celery' = celery
    BY DEF Step, Begin, Gone, Route, Start, Sync, SyncBlocked, SyncFails, SyncRaises,
           SyncCompleted, SyncSubmitted, SyncSkipsDeepdoc, Wait, PollOpens, WaitEnds,
           PollProgress, Renew, PollDone, PollBacklog, PollFailed, PollBootstrap, PollFailedOcr, After,
           AfterParsed, AfterError, AfterUndone, Defer, Send, Dispatch, Fail, Finish,
           FinishPipeline, PageIndexEnds, Close, End, Outside, world
  <1>2. /\ ex[w].pc \in Closing => ex'[w].pc \in Closing \cup {"idle"}
        /\ ex[w].pc = "begin" => ex'[w].pc = "idle" \/ (ex'[w].pc = "route" /\ exists)
    <2>1. ASSUME ex[w].pc \in Closing PROVE Gone(w) \/ Close(w) \/ End(w)
      BY <2>1 DEF Step, Begin, Gone, Route, Start, Sync, SyncBlocked, SyncFails,
           SyncCompleted, SyncSubmitted, SyncSkipsDeepdoc, Wait, PollOpens, WaitEnds,
           PollProgress, Renew, PollDone, PollBacklog, PollFailed, PollBootstrap,
           PollFailedOcr, After, AfterParsed, AfterError, AfterUndone, Defer, Send, Fail,
           Finish, FinishPipeline, PageIndexEnds
    <2>2. ASSUME ex[w].pc = "begin" PROVE Gone(w) \/ Begin(w)
      BY <2>2 DEF Step, Gone, Route, Start, Sync, SyncBlocked, SyncFails,
           SyncCompleted, SyncSubmitted, SyncSkipsDeepdoc, Wait, PollOpens, WaitEnds,
           PollProgress, Renew, PollDone, PollBacklog, PollFailed, PollBootstrap,
           PollFailedOcr, After, AfterParsed, AfterError, AfterUndone, Defer, Send, Fail,
           Finish, FinishPipeline, PageIndexEnds, Close, End
    <2>3. Leave(w) => ex'[w].pc = "idle"
      BY SlotLeave
    <2>4. Hold(w, "end", row) => ex'[w].pc = "end"
      BY <1>0, SlotHold DEF PC
    <2>5. Goto(w, "route") => ex'[w].pc = "route"
      BY SlotGoto DEF PC, Running
    <2> QED
      BY <2>1, <2>2, <2>3, <2>4, <2>5 DEF Gone, Begin, Close, End
  <1>3. CASE Loads(w) \/ Gone(w) \/ Send(w)
    <2>1. UNCHANGED <<row, notified, breach>>
      BY <1>3 DEF Loads, Route, SyncCompleted, PollOpens, WaitEnds, AfterParsed, AfterError,
           AfterUndone, Close, Gone, Send
    <2> QED
      BY <1>1, <1>2, <2>1 DEF StepEffect, Outcome
  <1>4. CASE Begin(w)
    <2> DEFINE new == [snap EXCEPT !.pay = TakeLease(@)]
    <2>1. new \in Row /\ new.status = snap.status
      BY <1>0, WrittenRows
    <2>2. \/ UNCHANGED <<row, breach>>
          \/ row' = Flush(row, snap, new, TRUE) /\ breach' \in {breach, Broken("stale_begin")}
      BY <1>4 DEF Begin
    <2>3. row'.status = row.status
      BY <1>0, <2>1, <2>2 DEF Flush
    <2>4. breach' = "none" => breach = "none"
      BY <2>2 DEF Broken
    <2>5. UNCHANGED notified
      BY <1>4 DEF Begin
    <2> QED
      BY <1>1, <1>2, <2>3, <2>4, <2>5 DEF StepEffect, Outcome
  <1>5. CASE Start(w)
    <2>1. UNCHANGED notified /\ ex[w].pc = "start"
      BY <1>5 DEF Start
    <2>2. CASE Commit(snap, SetStatus(snap, "running"), FALSE)
      <3>1. SetStatus(snap, "running") \in Row
        BY <1>0, RowOperators
      <3> QED
        BY <1>0, <1>1, <1>2, <2>1, <2>2, <3>1, ReportOutcome DEF StepEffect
    <2>3. CASE Commit(snap, SetStatus(snap, "cancelled"), FALSE)
      <3>1. SetStatus(snap, "cancelled") \in Row
            /\ SetStatus(snap, "cancelled").status = "cancelled"
        BY <1>0, RowOperators, NewStatus
      <3>2. breach' = "none" => breach = "none"
        BY <1>0, <2>3, <3>1, CommitRow
      <3>3. row'.status \in {row.status, "cancelled"}
        BY <1>0, <2>3, <3>1 DEF Commit, Flush
      <3> QED
        BY <1>1, <1>2, <2>1, <3>2, <3>3 DEF StepEffect, Outcome, Drops
    <2> QED
      BY <1>5, <2>2, <2>3 DEF Start
  <1>6. CASE SyncBlocked(w)
    <2>1. SetStatus(snap, "failed") \in Row
          /\ SetStatus(snap, "failed").status
               = IF snap.status = "cancelled" THEN "cancelled" ELSE "failed"
      BY <1>0, RowOperators, NewStatus
    <2>2. Commit(snap, SetStatus(snap, "failed"), FALSE) /\ UNCHANGED notified
          /\ ex[w].pc = "sync"
      BY <1>6 DEF SyncBlocked
    <2>3. breach' = "none" => breach = "none"
      BY <1>0, <2>1, <2>2, CommitRow
    <2>4. row'.status = IF snap.status \in {"cancelled", "failed"} THEN row.status
                        ELSE "failed"
      BY <1>0, <2>1, <2>2 DEF Commit, Flush
    <2>5. Outcome(w)
      BY <2>2, <2>4 DEF Outcome, Blocks
    <2> QED
      BY <1>1, <1>2, <2>3, <2>5 DEF StepEffect
  <1>7. ASSUME NEW st \in {"running", "failed"}, Update(st), UNCHANGED notified,
               ex[w].pc \in Running
        PROVE  Ends
    BY <1>0, <1>7, UpdateRow DEF Outcome, Updates
  <1>8. CASE SyncFails(w) \/ Fail(w) \/ Finish(w) \/ PageIndexEnds(w)
    <2>1. ASSUME NEW st \in {"done", "failed"}, exists, Claim(snap, st), Finally(w),
                 ex[w].pc \in {"failing", "finish", "pindex"},
                 st = "done" => ex[w].pc \in {"finish", "pindex"} /\ (target => indexed')
          PROVE  StepEffect(w)
      BY <1>1, <1>2, <2>1, ClaimOutcome DEF StepEffect
    <2>2. CASE SyncFails(w)
      BY <1>1, <2>2, SyncRaisesStatus DEF SyncFails
    <2>3. CASE Fail(w)
      BY <2>1, <2>3 DEF Fail
    <2>4. CASE Finish(w)
      <3>1. target => indexed'
        BY <2>4 DEF Finish
      <3> QED
        BY <2>1, <2>4, <3>1 DEF Finish
    <2>5. CASE PageIndexEnds(w)
      BY <2>1, <2>5 DEF PageIndexEnds
    <2> QED
      BY <1>8, <2>2, <2>3, <2>4, <2>5
  <1>9. CASE SyncSubmitted(w) \/ SyncSkipsDeepdoc(w)
    <2>1. UNCHANGED notified /\ ex[w].pc \in Running
          /\ (Update("running") \/ UNCHANGED <<row, breach>>)
      BY <1>9 DEF SyncSubmitted, SyncSkipsDeepdoc, Running
    <2>2. Ends
      BY <1>7, <2>1 DEF Outcome
    <2> QED
      BY <1>1, <1>2, <2>2 DEF StepEffect
  <1>10. CASE Reports(w) \/ Defer(w)
    <2>1. UNCHANGED notified
      BY <1>10 DEF Reports, PollProgress, Renew, PollDone, PollBacklog, PollFailed,
             PollBootstrap, Defer
    <2>2. PICK touched \in BOOLEAN, new \in Row :
            /\ Commit(snap, new, touched)
            /\ \/ new.status = snap.status
               \/ new = SetStatus(snap, "running") /\ ex[w].pc \in {"start", "poll", "booted"}
               \/ new.status = "running" /\ ex[w].pc \in {"defer", "finish"}
      <3>1. SetStatus(snap, "running") \in Row
        BY <1>0, RowOperators
      <3>2. CASE PollProgress(w) \/ PollDone(w)
        BY <3>1, <3>2 DEF PollProgress, PollDone, Touches
      <3>3. CASE PollBacklog(w) \/ PollFailed(w) \/ PollBootstrap(w)
        BY <1>0, <3>3 DEF PollBacklog, PollFailed, PollBootstrap, Touches
      <3>4. CASE Renew(w)
        <4> DEFINE new == [snap EXCEPT !.pay = TakeLease(@)]
        <4>1. new \in Row /\ new.status = snap.status
          BY <1>0, WrittenRows
        <4>2. Commit(snap, new, TRUE)
          BY <3>4 DEF Renew
        <4> HIDE DEF new
        <4> QED
          BY <4>1, <4>2
      <3>5. CASE Defer(w)
        <4> DEFINE since == IF ex[w].stage # "full" THEN ex[w].stage
                            ELSE IF snap.pay.watch = "none" THEN "fresh" ELSE snap.pay.watch
                   new == [status |-> "running", pay |-> EnterAwaiting(snap.pay, since)]
        <4>1. since \in Watch
          BY <1>0, SlotRead DEF Slot, Watch, Row, Payload
        <4>2. new \in Row /\ new.status = "running"
          BY <1>0, <4>1, WrittenRows
        <4>3. Commit(snap, new, ex[w].stage = "full") /\ ex[w].pc = "defer"
          BY <3>5 DEF Defer
        <4>4. (ex[w].stage = "full") \in BOOLEAN
          OBVIOUS
        <4> HIDE DEF new
        <4> QED
          BY <4>2, <4>3, <4>4
      <3> QED
        BY <1>10, <3>2, <3>3, <3>4, <3>5 DEF Reports
    <2>3. Ends
      BY <1>0, <2>1, <2>2, ReportOutcome
    <2> QED
      BY <1>1, <1>2, <2>3 DEF StepEffect
  <1>11. CASE PollFailedOcr(w)
    <2>1. UNCHANGED notified /\ ex[w].pc = "poll"
          /\ (Update("failed") \/ UNCHANGED <<row, breach>>)
      BY <1>11 DEF PollFailedOcr, WaitRaises
    <2>2. Ends
      BY <1>7, <2>1 DEF Outcome, Running
    <2> QED
      BY <1>1, <1>2, <2>2 DEF StepEffect
  <1>12. CASE FinishPipeline(w)
    <2>1. exists /\ ex[w].pc = "finish"
      BY <1>12 DEF FinishPipeline
    <2>2. CASE Claim(snap, "failed") /\ Finally(w)
      BY <1>1, <1>2, <2>1, <2>2, ClaimOutcome DEF StepEffect
    <2>3. CASE row' = Flush(row, snap, Settle(snap, "running"), FALSE)
               /\ breach' = Broken("early_clear") /\ UNCHANGED notified
      <3>1. Settle(snap, "running") \in Row /\ Settle(snap, "running").status = "running"
        BY <1>0, RowOperators, NewStatus
      <3>2. row'.status = IF snap.status = "running" THEN row.status ELSE "running"
        BY <1>0, <2>3, <3>1 DEF Flush
      <3>3. Outcome(w)
        BY <2>1, <2>3, <3>2 DEF Outcome, Says
      <3>4. breach' = "none" => breach = "none"
        BY <2>3 DEF Broken
      <3> QED
        BY <1>1, <1>2, <3>3, <3>4 DEF StepEffect
    <2> QED
      BY <1>12, <2>2, <2>3 DEF FinishPipeline
  <1>13. CASE End(w)
    <2> DEFINE new == [snap EXCEPT !.pay = DropLease(@)]
    <2>1. new \in Row /\ new.status = snap.status
      <3>1. DropLease(snap.pay) \in Payload
        BY <1>0 DEF DropLease, Row, Payload, Lease
      <3> QED
        BY <1>0, <3>1 DEF Row
    <2>2. Commit(snap, new, FALSE) /\ UNCHANGED notified
      BY <1>13 DEF End
    <2> HIDE DEF new
    <2>3. Ends
      BY <1>0, <2>1, <2>2, ReportOutcome
    <2> QED
      BY <1>1, <1>2, <2>3 DEF StepEffect
  <1> QED
    BY <1>3, <1>4, <1>5, <1>6, <1>8, <1>9, <1>10, <1>11, <1>12, <1>13
    DEF Step, Sync, Wait, After, Loads, Reports

\* The soft time limit is such a step too.
LEMMA SoftTimeLimitEffect ==
  ASSUME TypeOK, NEW w \in Workers, SoftTimeLimit(w)
  PROVE  Flow(w) /\ StepEffect(w)
  <1>1. UNCHANGED celery /\ exists /\ faults' = faults + 1
    BY DEF SoftTimeLimit, Fault
  <1>2. faults' # 0
    BY <1>1, BoundsAssumption DEF TypeOK
  <1>3. CASE ex[w].pc = "sync" /\ SyncRaises(w) /\ Finally(w)
    BY <1>1, <1>2, <1>3, SyncRaisesFlow, SyncRaisesStatus
  <1>4. CASE /\ ex[w].pc = "nap" /\ WaitRaises(w)
             /\ UNCHANGED <<mode, exists, target, kf, aged, asks, timers, cx, rec, indexed,
                            notified>>
    <2>1. ex[w].pc \in Running /\ ex[w].pc \notin Closing /\ ex[w].pc # "idle"
          /\ ex[w].pc # "begin"
      BY <1>4 DEF Running, Closing
    <2>2. CASE Leave(w) /\ UNCHANGED <<row, breach>>
      <3>1. Flow(w)
        BY <1>4, <2>1, <2>2, LeftFlow
      <3> QED
        BY <1>1, <1>2, <1>4, <2>1, <2>2, <3>1 DEF StepEffect, Outcome
    <2>3. CASE Update("failed") /\ Finally(w) /\ UNCHANGED pool
      <3>1. Flow(w)
        BY <1>4, <2>1, <2>3, FinalFlow DEF Marks
      <3>2. "failed" \in Status
        BY DEF Status, Terminal
      <3>3. row' = SetStatus(row, "failed") /\ (breach' = "none" => breach = "none")
        BY <2>3, <3>2, UpdateRow
      <3> QED
        BY <1>1, <1>2, <1>4, <2>1, <3>1, <3>3 DEF StepEffect, Outcome, Updates
    <2> QED
      BY <1>4, <2>2, <2>3 DEF WaitRaises
  <1> QED
    BY <1>3, <1>4 DEF SoftTimeLimit

-----------------------------------------------------------------------------
(* What everybody else's step may do. *)

\* A message or the name taken by an idle slot.
PickedUp(w) ==
  /\ UNCHANGED <<mode, exists, row, target, indexed, kf, faults, rec, notified, breach>>
  /\ ex[w].pc = "idle" /\ Others(w)
  /\ celery = 0 => celery' = 0
  /\ \/ UNCHANGED ex /\ (pool = "running" => pool' = "running")
     \/ /\ exists /\ IsActive(row) /\ ex'[w].pc = "begin"
        /\ \/ ex'[w].seat = "celery" /\ celery > 0 /\ UNCHANGED pool
           \/ ex'[w].seat = "pool" /\ pool = "queued" /\ pool' = "running"

\* What a slot keeps when others move.
AsBefore(v) ==
  /\ ex'[v].pc = ex[v].pc /\ ex'[v].seat = ex[v].seat
  /\ ex'[v].snap.status = ex[v].snap.status

AsideStatus ==
  \/ row'.status = row.status
  \/ row'.status = "cancelled" /\ (breach' = "none" => IsActive(row))
  \/ row'.status = "pending" /\ rec.pc = "reset" /\ (breach' = "none" => row = rec.snap)

\* Queues, cancellers, the recovery, lost slots, time and KnowFlow.
Aside ==
  /\ UNCHANGED <<mode, notified>>
  /\ exists' => exists /\ AsideStatus
  /\ breach' = "none" => breach = "none"
  /\ kf = "done" => kf' = "done"
  /\ target' => target
  /\ indexed' => indexed
  /\ indexed /\ ~indexed' => ~target'
  /\ \A v \in Workers : ex'[v] = Idle \/ AsBefore(v)
  /\ rec'.pc = "reset" => \/ rec'.snap.status = "running"
                          \/ rec.pc = "reset" /\ rec'.snap.status = rec.snap.status
  /\ \/ pool = "running" => pool' = "running"
     \/ \A v \in Workers : ex[v].seat = "pool" => ex'[v] = Idle
  /\ faults' = 0 => /\ faults = 0 /\ \A v \in Workers : AsBefore(v)
                    /\ rec.pc = "off" => rec'.pc = "off"
                    /\ InProcess /\ celery = 0 => celery' = 0

\* The executor that takes the job.
LEMMA PickupFlow ==
  ASSUME TypeOK, NEW w \in Workers, Pickup(w)
  PROVE  PickedUp(w)
  <1>1. /\ UNCHANGED <<mode, exists, row, target, indexed, kf, faults, rec, notified, breach>>
        /\ ex[w].pc = "idle"
    BY DEF Pickup, world
  <1>2. PICK seat \in {"celery", "pool"} :
          /\ \/ seat = "celery" /\ celery > 0 /\ celery' = celery - 1 /\ pool' = pool
             \/ seat = "pool" /\ pool = "queued" /\ celery' = celery
                /\ pool' = IF exists /\ IsActive(row) THEN "running" ELSE "free"
          /\ ex' = IF exists /\ IsActive(row)
                   THEN [ex EXCEPT ![w] = [Idle EXCEPT !.pc = "begin", !.seat = seat,
                                                       !.snap = row]]
                   ELSE ex
    BY DEF Pickup
  <1>3. celery = 0 => celery' = 0
    BY <1>2 DEF TypeOK
  <1>4. CASE ~(exists /\ IsActive(row))
    BY <1>1, <1>2, <1>3, <1>4 DEF PickedUp, Others
  <1>5. CASE exists /\ IsActive(row)
    <2> DEFINE slot == [Idle EXCEPT !.pc = "begin", !.seat = seat, !.snap = row]
    <2>1. slot.pc = "begin" /\ slot.seat = seat
      BY DEF Idle
    <2>2. ex' = [ex EXCEPT ![w] = slot]
      BY <1>2, <1>5
    <2> HIDE DEF slot
    <2>3. ex'[w] = slot /\ Others(w)
      BY <2>2 DEF TypeOK, Others
    <2> QED
      BY <1>1, <1>2, <1>3, <1>5, <2>1, <2>3 DEF PickedUp
  <1> QED
    BY <1>4, <1>5

\* The steps that leave row, slots and marks alone.
Elsewhere ==
  UNCHANGED <<mode, exists, row, target, indexed, ex, notified, breach>>

\* The dispatches: they touch a queue, and the name only when it is free.
LEMMA DispatchAside ==
  ASSUME TypeOK, NEW c \in BOOLEAN, Dispatch(c)
  PROVE  (pool = "running" => pool' = "running") /\ (InProcess => celery' = celery)
  BY DEF Dispatch, SubmitBackground

\* The queues' own steps.
LEMMA QueuesAside ==
  ASSUME TypeOK, Enqueue \/ TimerFires \/ ResumeOrphan
  PROVE  Aside
  <1>1. Elsewhere /\ UNCHANGED <<kf, rec, faults>>
    BY DEF Enqueue, TimerFires, ResumeOrphan, Elsewhere, world
  <1>2. (pool = "running" => pool' = "running") /\ (InProcess => celery' = celery)
    BY DispatchAside DEF Enqueue, TimerFires, ResumeOrphan, SubmitBackground
  <1> QED
    BY <1>1, <1>2 DEF Aside, AsideStatus, AsBefore, Elsewhere

\* A cancellation, a delete, a clearing of the job list.
LEMMA CancellingAside ==
  ASSUME TypeOK, Cancelling
  PROVE  Aside
  <1>1. UNCHANGED <<mode, kf, faults, ex, rec, notified, celery, pool>>
        /\ (exists' => exists) /\ (target' => target)
        /\ (indexed' => indexed) /\ (indexed /\ ~indexed' => ~target')
    <2>1. CASE TargetDeleted
      BY <2>1 DEF TargetDeleted, queues
    <2>2. CASE ClearJobs
      BY <2>2 DEF ClearJobs, queues
    <2>3. CASE CancelCommits \/ \E why \in Reasons : CancelLoads(why)
      <3>1. UNCHANGED <<mode, target, indexed, exists, kf, faults, ex, rec, notified,
                        celery, pool>>
        BY <2>3 DEF CancelCommits, CancelLoads, world, queues
      <3> QED
        BY <3>1
    <2> QED
      BY <2>1, <2>2, <2>3 DEF Cancelling
  <1>2. (exists' => AsideStatus) /\ (breach' = "none" => breach = "none")
    <2>1. CASE UNCHANGED <<row, breach>> \/ (~exists' /\ UNCHANGED breach)
      BY <2>1 DEF AsideStatus
    <2>2. CASE Commit(cx.snap, Settle(cx.snap, StopStatus(cx.snap)), FALSE)
      <3> DEFINE new == Settle(cx.snap, StopStatus(cx.snap))
      <3>1. StopStatus(cx.snap) \in Status /\ cx.snap \in Row /\ row \in Row
            /\ breach \in Causes \cup {"none"}
        BY DEF TypeOK, StopStatus, Row, Status, Terminal
      <3>2. new \in Row /\ new.status = StopStatus(cx.snap)
        BY <3>1, RowOperators, NewStatus
      <3>3. /\ breach' = "none" => breach = "none"
            /\ breach' = "none" => row' = row \/ row = cx.snap
        BY <2>2, <3>1, <3>2, CommitRow
      <3>4. row'.status = IF new.status = cx.snap.status THEN row.status ELSE new.status
        BY <2>2, <3>1, <3>2 DEF Commit, Flush
      <3> HIDE DEF new
      <3>5. new.status = cx.snap.status \/ (new.status = "cancelled" /\ IsActive(cx.snap))
        BY <3>2 DEF StopStatus
      <3>6. AsideStatus
        BY <3>3, <3>4, <3>5 DEF AsideStatus
      <3> QED
        BY <3>3, <3>6
    <2> QED
      BY <2>1, <2>2 DEF Cancelling, CancelLoads, CancelCommits, TargetDeleted, ClearJobs
  <1> QED
    BY <1>1, <1>2 DEF Aside, AsBefore

\* The recovery after a restart.
LEMMA RecoveryAside ==
  ASSUME TypeOK, Recovery
  PROVE  Aside
  <1>1. /\ UNCHANGED <<mode, exists, target, indexed, kf, faults, ex, notified>>
        /\ rec.pc # "off"
    BY DEF Recovery, RecoverScans, RecoverClears, RecoverResets, RecoverDispatches,
           RecoverCommits, RecoverRaises, world, queues
  <1>2. pool = "running" => pool' = "running"
    BY DispatchAside DEF Recovery, RecoverScans, RecoverClears, RecoverResets,
           RecoverDispatches, RecoverCommits, RecoverRaises, queues
  <1>3. InProcess => celery' = celery
    BY DispatchAside DEF Recovery, RecoverScans, RecoverClears, RecoverResets,
           RecoverDispatches, RecoverCommits, RecoverRaises, queues
  <1>4. RecOff.pc = "off" /\ row \in Row /\ rec.snap \in Row /\ rec.had \in Payload
        /\ breach \in Causes \cup {"none"}
    BY DEF RecOff, TypeOK
  <1>5. rec'.pc = "reset" => rec'.snap.status = "running"
    <2>1. rec \in RecType
      BY DEF TypeOK, RecType
    <2>2. CASE RecoverScans
      BY <1>4, <2>2 DEF RecoverScans
    <2>3. CASE RecoverResets \/ RecoverDispatches
      BY <2>1, <2>3 DEF RecoverResets, RecoverDispatches, RecType
    <2>4. CASE RecoverClears \/ RecoverCommits \/ RecoverRaises
      BY <1>4, <2>4 DEF RecoverClears, RecoverCommits, RecoverRaises
    <2> QED
      BY <2>2, <2>3, <2>4 DEF Recovery
  <1>6. (breach' = "none" => breach = "none") /\ AsideStatus
    <2>1. CASE RecoverScans
      BY <2>1 DEF RecoverScans, AsideStatus
    <2>2. CASE RecoverResets
      <3> DEFINE new == SetStatus(rec.snap, "pending")
      <3>1. new \in Row /\ new.status \in {rec.snap.status, "pending"}
        BY <1>4, RowOperators DEF Status, Active, SetStatus, Row
      <3>2. Commit(rec.snap, new, FALSE) /\ rec.pc = "reset"
        BY <2>2 DEF RecoverResets
      <3> HIDE DEF new
      <3>3. /\ breach' = "none" => breach = "none"
            /\ breach' = "none" => row' = row \/ row = rec.snap
        BY <1>4, <3>1, <3>2, CommitRow
      <3>4. row'.status = IF new.status = rec.snap.status THEN row.status ELSE new.status
        BY <3>2 DEF Commit, Flush
      <3> QED
        BY <3>1, <3>2, <3>3, <3>4 DEF AsideStatus
    <2>3. CASE RecoverDispatches \/ RecoverRaises
      BY <2>3 DEF RecoverDispatches, RecoverRaises, AsideStatus
    <2>4. CASE RecoverCommits
      <3>1. [rec.snap EXCEPT !.pay = DropLease(rec.had)].status = rec.snap.status
        BY <1>4 DEF Row
      <3>2. row'.status = row.status
        BY <2>4, <3>1 DEF RecoverCommits, Flush
      <3>3. breach' = "none" => breach = "none"
        BY <2>4 DEF RecoverCommits, Broken
      <3> QED
        BY <3>2, <3>3 DEF AsideStatus
    <2>5. CASE RecoverClears
      <3> DEFINE new == Settle(rec.snap, rec.snap.status)
      <3>1. rec.snap.status \in Status
        BY <1>4 DEF Row
      <3>2. new \in Row /\ new.status = rec.snap.status
        BY <1>4, <3>1, RowOperators, NewStatus
      <3>3. Commit(rec.snap, new, FALSE)
        BY <2>5 DEF RecoverClears
      <3> HIDE DEF new
      <3>4. breach' = "none" => breach = "none"
        BY <1>4, <3>2, <3>3, CommitRow
      <3>5. row'.status = row.status
        BY <3>2, <3>3 DEF Commit, Flush
      <3> QED
        BY <3>4, <3>5 DEF AsideStatus
    <2> QED
      BY <2>1, <2>2, <2>3, <2>4, <2>5 DEF Recovery
  <1> QED
    BY <1>1, <1>2, <1>3, <1>5, <1>6 DEF Aside, AsBefore

\* A restart, a redelivery, a lost worker.
LEMMA FaultsAside ==
  ASSUME TypeOK, \/ ApiRestarts \/ Redelivered
                 \/ \E w \in Workers : WorkerLost(w)
  PROVE  Aside
  <1>1. UNCHANGED <<mode, exists, row, target, indexed, kf, notified, breach>>
        /\ faults' = faults + 1
    BY DEF ApiRestarts, Redelivered, WorkerLost, Fault
  <1>2. faults' # 0
    BY <1>1, BoundsAssumption DEF TypeOK
  <1>3. \A v \in Workers : ex'[v] = Idle \/ AsBefore(v)
    <2>1. CASE ApiRestarts
      BY <2>1 DEF ApiRestarts, AsBefore
    <2>2. CASE Redelivered
      BY <2>2 DEF Redelivered, AsBefore
    <2>3. ASSUME NEW w \in Workers, WorkerLost(w)
          PROVE  \A v \in Workers : ex'[v] = Idle \/ AsBefore(v)
      BY <2>3 DEF WorkerLost, TypeOK, AsBefore
    <2> QED
      BY <2>1, <2>2, <2>3
  <1>4. rec' = rec \/ rec'.pc # "reset"
    BY DEF ApiRestarts, Redelivered, WorkerLost, RecOff
  <1>5. \/ pool = "running" => pool' = "running"
        \/ \A v \in Workers : ex[v].seat = "pool" => ex'[v] = Idle
    BY DEF ApiRestarts, Redelivered, WorkerLost, TypeOK
  <1> QED
    BY <1>1, <1>2, <1>3, <1>4, <1>5 DEF Aside, AsideStatus

\* The clock: statuses, counters and seats are not touched.
LEMMA TimeAside ==
  ASSUME TypeOK, Time
  PROVE  Aside
  <1>1. /\ row \in Row /\ rec.snap \in Row /\ rec \in RecType
        /\ \A v \in Workers : ex[v] \in Slot /\ ex[v].snap \in Row
    BY DEF TypeOK, Slot, RecType
  <1>2. /\ UNCHANGED <<mode, exists, target, indexed, kf, faults, celery, pool, notified>>
        /\ breach' = "none" => breach = "none"
    BY DEF Time, LeaseLapses, WatchOverruns, JobAges, LoopEnds, Outside, world, queues, Broken
  <1>3. CASE LeaseLapses
    <2>1. /\ row'.status = row.status
          /\ rec'.pc = rec.pc /\ rec'.snap.status = rec.snap.status
      <3>1. row' = Lapse(row) /\ rec'.snap = Lapse(rec.snap) /\ rec'.pc = rec.pc
        <4>1. row' = Lapse(row)
          BY <1>3 DEF LeaseLapses
        <4>2. rec'.snap = Lapse(rec.snap) /\ rec'.pc = rec.pc
          BY <1>1, <1>3 DEF LeaseLapses, RecType
        <4> QED
          BY <4>1, <4>2
      <3> QED
        BY <1>1, <3>1, TimedRow
    <2>2. \A v \in Workers : AsBefore(v)
      BY <1>1, <1>3, TimedRow DEF LeaseLapses, AsBefore, Slot
    <2> QED
      BY <1>2, <2>1, <2>2 DEF Aside, AsideStatus
  <1>4. CASE WatchOverruns
    <2>1. /\ row'.status = row.status
          /\ rec'.pc = rec.pc /\ rec'.snap.status = rec.snap.status
      <3>1. row' = Overrun(row) /\ rec'.snap = Overrun(rec.snap) /\ rec'.pc = rec.pc
        <4>1. row' = Overrun(row)
          BY <1>4 DEF WatchOverruns
        <4>2. rec'.snap = Overrun(rec.snap) /\ rec'.pc = rec.pc
          BY <1>1, <1>4 DEF WatchOverruns, RecType
        <4> QED
          BY <4>1, <4>2
      <3> QED
        BY <1>1, <3>1, TimedRow
    <2>2. \A v \in Workers : AsBefore(v)
      BY <1>1, <1>4, TimedRow DEF WatchOverruns, AsBefore, Slot
    <2> QED
      BY <1>2, <2>1, <2>2 DEF Aside, AsideStatus
  <1>5. CASE JobAges \/ \E w \in Workers : LoopEnds(w)
    <2>1. UNCHANGED <<row, rec>>
      BY <1>5 DEF JobAges, LoopEnds, Outside
    <2>2. \A v \in Workers : AsBefore(v)
      BY <1>1, <1>5 DEF JobAges, LoopEnds, AsBefore, TypeOK, Slot
    <2> QED
      BY <1>2, <2>1, <2>2 DEF Aside, AsideStatus
  <1> QED
    BY <1>3, <1>4, <1>5 DEF Time

\* Every step of the system is one of the three.
LEMMA NextFlow ==
  ASSUME TypeOK, TypeOK', [Next]_vars
  PROVE  \/ Aside
         \/ \E w \in Workers : PickedUp(w) \/ (Flow(w) /\ StepEffect(w))
  <1>1. CASE Enqueue \/ TimerFires \/ ResumeOrphan
    BY <1>1, QueuesAside
  <1>2. ASSUME NEW w \in Workers, Pickup(w) PROVE PickedUp(w)
    BY <1>2, PickupFlow
  <1>3. ASSUME NEW w \in Workers, Step(w) PROVE Flow(w) /\ StepEffect(w)
    BY <1>3, SlotFlow, StepStatus
  <1>4. CASE Cancelling
    BY <1>4, CancellingAside
  <1>5. CASE Recovery
    BY <1>5, RecoveryAside
  <1>6. CASE ApiRestarts \/ Redelivered \/ \E w \in Workers : WorkerLost(w)
    BY <1>6, FaultsAside
  <1>7. ASSUME NEW w \in Workers, SoftTimeLimit(w) PROVE Flow(w) /\ StepEffect(w)
    BY <1>7, SoftTimeLimitEffect
  <1>8. CASE Time
    BY <1>8, TimeAside
  <1>9. CASE KnowflowParses
    BY <1>9 DEF KnowflowParses, queues, Aside, AsideStatus, AsBefore
  <1>10. CASE UNCHANGED vars
    BY <1>10 DEF vars, Aside, AsideStatus, AsBefore
  <1> QED
    BY <1>1, <1>2, <1>3, <1>4, <1>5, <1>6, <1>7, <1>8, <1>9, <1>10 DEF Next, Faults

-----------------------------------------------------------------------------
(* The rows an executor works on. *)

\* What an executor has in hand while the lease is unbroken is not a settled
\* job; what Finish has in hand, and what the recovery resets, is what its
\* guard saw.  (A cancelled row in hand is possible: a progress report keeps it.)
SnapInv ==
  /\ rec.pc = "reset" => rec.snap.status = "running"
  /\ \A w \in Workers : ex[w].pc = "finish" => ex[w].snap.status # "cancelled"
  /\ breach = "none" =>
       \A w \in Workers : ex[w].pc \in Carrying =>
                            ex[w].snap.status \notin {"done", "failed"}

\* Every step keeps it: a row loaded anew is a running executor's, which
\* LeaseInv says is unsettled.
LEMMA SnapKept ==
  ASSUME TypeOK, TypeOK', LeaseInv', SnapInv, [Next]_vars
  PROVE  SnapInv'
  <1> USE DEF SnapInv
  <1>1. CASE Aside
    <2>1. ASSUME NEW v \in Workers
          PROVE  \/ ex'[v].pc = "idle"
                 \/ ex'[v].pc = ex[v].pc /\ ex'[v].snap.status = ex[v].snap.status
      BY <1>1 DEF Aside, AsBefore, Idle
    <2> QED
      BY <1>1, <2>1 DEF Aside, Carrying
  <1>2. ASSUME NEW w \in Workers, PickedUp(w) PROVE SnapInv'
    <2>1. \A v \in Workers : ex'[v] = ex[v] \/ ex'[v].pc = "begin"
      BY <1>2 DEF PickedUp, Others
    <2> QED
      BY <1>2, <2>1 DEF PickedUp, Carrying
  <1>3. ASSUME NEW w \in Workers, Flow(w), StepEffect(w) PROVE SnapInv'
    <2>1. UNCHANGED rec /\ (breach' = "none" => breach = "none") /\ Others(w) /\ Reloads(w)
      BY <1>3 DEF Flow, StepEffect
    <2>2. ex'[w].pc = "finish" => ex'[w].snap.status # "cancelled"
      BY <2>1 DEF Reloads, Carrying
    <2>3. ASSUME breach' = "none", ex'[w].pc \in Carrying
          PROVE  ex'[w].snap.status \notin {"done", "failed"}
      <3>1. CASE ex'[w].snap = row' /\ exists'
        <4>1. ex'[w].pc \in Running
          BY <2>3 DEF Carrying, Running
        <4> QED
          BY <2>3, <3>1, <4>1 DEF LeaseInv, RunningUnsettled
      <3>2. CASE ex[w].pc \in {"start", "poll", "booted"} /\ ex'[w].snap = ex[w].snap
        BY <2>1, <2>3, <3>2 DEF Carrying
      <3> QED
        BY <2>1, <2>3, <3>1, <3>2 DEF Reloads
    <2> QED
      BY <2>1, <2>2, <2>3 DEF Others
  <1> QED
    BY <1>1, <1>2, <1>3, NextFlow

\* No executor works on a settled job while the lease is unbroken.
THEOREM SnapsUnsettled == Spec => []SnapInv
  <1>1. Init => SnapInv
    BY RowConstants DEF Init, SnapInv, RecOff, Idle, Carrying
  <1>2. TypeOK /\ TypeOK' /\ LeaseInv' /\ SnapInv /\ [Next]_vars => SnapInv'
    BY SnapKept
  <1> QED
    BY <1>1, <1>2, TypeCorrect, LeaseInvHolds, PTL DEF Spec

-----------------------------------------------------------------------------
(* One terminal transition. *)

\* Every step keeps ClaimedOnce: a claim is made by a running executor, whose
\* job LeaseInv says is unsettled, and a settled job has none.
LEMMA ClaimedOnceKept ==
  ASSUME TypeOK, TypeOK', LeaseInv, ClaimedOnce, [Next]_vars
  PROVE  ClaimedOnce'
  <1> USE DEF ClaimedOnce
  <1> SUFFICES ASSUME breach' = "none"
               PROVE  /\ notified' <= 1
                      /\ notified' = 1 /\ exists' => row'.status \in {"done", "failed"}
    OBVIOUS
  <1>1. CASE Aside
    BY <1>1 DEF Aside, AsideStatus, IsActive, Active, LeaseInv, SnapsAsSeen
  <1>2. ASSUME NEW w \in Workers, PickedUp(w) PROVE ClaimedOnce'
    BY <1>2 DEF PickedUp
  <1>3. ASSUME NEW w \in Workers, Flow(w), StepEffect(w) PROVE ClaimedOnce'
    <2>1. breach = "none" /\ UNCHANGED exists /\ Outcome(w)
      BY <1>3 DEF StepEffect
    <2>2. exists /\ ex[w].pc \in Running => row.status \notin {"done", "failed"}
      BY <2>1 DEF LeaseInv, RunningUnsettled
    <2>3. CASE UNCHANGED notified /\ (row'.status = row.status \/ ex[w].pc \in Running)
      BY <2>1, <2>2, <2>3
    <2>4. CASE Claims(w)
      <3>1. exists => notified = 0
        <4>1. notified \in 0 .. 2 /\ ex[w].pc \in Running
          BY <2>4 DEF TypeOK, Claims, Running
        <4> QED
          BY <2>1, <2>2, <4>1
      <3>2. exists
        BY <2>4 DEF Claims
      <3> QED
        BY <2>4, <3>1, <3>2 DEF Claims
    <2> QED
      BY <2>1, <2>3, <2>4 DEF Outcome, Says, Updates, Blocks, Drops, Running
  <1> QED
    BY <1>1, <1>2, <1>3, NextFlow

\* The terminal transition of _try_claim_index_job_terminal is made once, and
\* the job keeps it, in every behaviour up to the first recorded breach.
THEOREM ClaimsOnce == Spec => []ClaimedOnce
  <1>1. Init => ClaimedOnce
    BY DEF Init, ClaimedOnce
  <1>2. TypeOK /\ TypeOK' /\ LeaseInv /\ ClaimedOnce /\ [Next]_vars => ClaimedOnce'
    BY ClaimedOnceKept
  <1> QED
    BY <1>1, <1>2, TypeCorrect, LeaseInvHolds, PTL DEF Spec

-----------------------------------------------------------------------------
(* A cancellation, and what may overwrite it. *)

\* A step that undoes a committed cancellation is one of the three.
LEMMA CancelStep ==
  ASSUME TypeOK, TypeOK', LeaseInv, SnapInv, [Next]_vars,
         breach = "none", exists', row.status = "cancelled", row'.status # "cancelled"
  PROVE  OverwritesCancel
  <1>1. CASE Aside
    BY <1>1 DEF Aside, AsideStatus, SnapInv, OverwritesCancel
  <1>2. ASSUME NEW w \in Workers, PickedUp(w) PROVE FALSE
    BY <1>2 DEF PickedUp
  <1>3. ASSUME NEW w \in Workers, Flow(w), StepEffect(w) PROVE OverwritesCancel
    <2>1. ex[w].snap.status \in {"pending", "running", "done", "failed", "cancelled"}
      BY SlotRead DEF Row, Status, Active, Terminal
    <2>2. ex[w].pc \in Carrying => ex[w].snap.status \notin {"done", "failed"}
      BY DEF SnapInv
    <2>3. ex[w].pc = "finish" => ex[w].snap.status # "cancelled"
      BY DEF SnapInv
    <2>4. ex[w].pc = "defer" => ex[w].snap.status # "cancelled"
      BY DEF LeaseInv, SnapsAsSeen
    <2>5. CASE Says(w)
      BY <2>1, <2>2, <2>3, <2>4, <2>5 DEF Says, Carrying, OverwritesCancel
    <2>6. CASE Updates(w)
      BY <2>6, NewStatus DEF Updates, TypeOK
    <2>7. CASE Blocks(w)
      BY <2>1, <2>2, <2>7 DEF Blocks, Carrying, OverwritesCancel, IsActive, Active
    <2>8. CASE Drops(w)
      BY <2>8 DEF Drops
    <2>9. CASE Claims(w)
      BY <2>9 DEF Claims, OverwritesCancel, IsActive, Active
    <2> QED
      BY <1>3, <2>5, <2>6, <2>7, <2>8, <2>9 DEF StepEffect, Outcome
  <1> QED
    BY <1>1, <1>2, <1>3, NextFlow

\* A committed cancellation is undone, up to the first recorded breach, only by
\* a session that loaded the job before it.
THEOREM CancelsHold == Spec => CancelLosesOnlyTo
  <1>1. TypeOK /\ TypeOK' /\ LeaseInv /\ SnapInv /\ [Next]_vars =>
          [breach = "none" /\ exists' /\ row.status = "cancelled" /\ row'.status # "cancelled" =>
             OverwritesCancel]_vars
    BY CancelStep
  <1> QED
    BY <1>1, TypeCorrect, LeaseInvHolds, SnapsUnsettled, PTL DEF Spec, CancelLosesOnlyTo

-----------------------------------------------------------------------------
(* The version's mark, and KnowFlow's file. *)

\* The counters at which an executor takes the file for parsed.
Trusting == {"parsed", "finish"}

\* An executor about to finish has seen the file parsed, and nobody has submitted
\* it again: only the one that holds the lease could have.
MarkInv ==
  breach = "none" /\ mode \in {"index", "reindex"} =>
    /\ \A w \in Workers : ex[w].pc \in Trusting => kf = "done"
    /\ \A w \in Workers : ex[w].pc # "pindex"
    /\ indexed => kf = "done"
    /\ exists /\ target /\ row.status = "done" => indexed

\* The same of a first index, which never submits a parsed file again: there it
\* does not need the lease.
DoneInv ==
  mode = "index" =>
    /\ \A w \in Workers : ex[w].pc \in Trusting => kf = "done"
    /\ \A w \in Workers : ex[w].pc # "pindex"
    /\ indexed => kf = "done"
    /\ exists /\ row.status = "done" => kf = "done"

\* When a step makes a job done.
LEMMA MadeDone ==
  ASSUME TypeOK, NEW w \in Workers, StepEffect(w), row'.status = "done", row.status # "done"
  PROVE  Claims(w) /\ ex[w].pc \in {"finish", "pindex"} /\ (target => indexed')
  <1>1. ~Updates(w)
    BY NewStatus DEF Updates, TypeOK
  <1> QED
    BY <1>1 DEF StepEffect, Outcome, Says, Blocks, Drops, Claims

\* Every step keeps MarkInv.
LEMMA MarkKept ==
  ASSUME TypeOK, TypeOK', LeaseInv, MarkInv, [Next]_vars
  PROVE  MarkInv'
  <1> USE DEF MarkInv, Trusting
  <1> SUFFICES ASSUME breach' = "none", mode' \in {"index", "reindex"}
               PROVE  /\ \A v \in Workers : ex'[v].pc \in Trusting => kf' = "done"
                      /\ \A v \in Workers : ex'[v].pc # "pindex"
                      /\ indexed' => kf' = "done"
                      /\ exists' /\ target' /\ row'.status = "done" => indexed'
    OBVIOUS
  <1>1. CASE Aside
    <2>1. \A v \in Workers : ex'[v].pc \in {ex[v].pc, "idle"}
      BY <1>1 DEF Aside, AsBefore, Idle
    <2>2. row'.status = "done" /\ exists' => row.status = "done"
      BY <1>1 DEF Aside, AsideStatus
    <2> QED
      BY <1>1, <2>1, <2>2 DEF Aside
  <1>2. ASSUME NEW w \in Workers, PickedUp(w) PROVE MarkInv'
    <2>1. \A v \in Workers : ex'[v].pc \in {ex[v].pc, "begin"}
      BY <1>2 DEF PickedUp, Others
    <2> QED
      BY <1>2, <2>1 DEF PickedUp
  <1>3. ASSUME NEW w \in Workers, Flow(w), StepEffect(w) PROVE MarkInv'
    <2>1. /\ breach = "none" /\ UNCHANGED <<mode, exists, target>>
          /\ Others(w) /\ Marks(w) /\ Arrives(w)
      BY <1>3 DEF Flow, StepEffect
    <2>2. /\ \A v \in Workers : ex[v].pc \in Trusting => kf = "done"
          /\ \A v \in Workers : ex[v].pc # "pindex"
          /\ indexed => kf = "done"
          /\ exists /\ target /\ row.status = "done" => indexed
      BY <2>1
    <2>3. ex[w].pc \in Running =>
            /\ \A v \in Workers \ {w} : ex[v].pc \notin Running
            /\ exists => row.status # "done"
      BY <2>1 DEF LeaseInv, OneHolder, Holding, RunningUnsettled
    <2>4. ex'[w].pc \in Trusting => kf = "done"
      BY <2>1, <2>2 DEF Arrives, WorkDone
    <2>5. \A v \in Workers : ex'[v].pc \in Trusting => kf' = "done"
      <3>1. ex'[w].pc \in Trusting => kf' = "done"
        BY <2>1, <2>4 DEF Marks
      <3>2. ASSUME NEW v \in Workers \ {w}, ex'[v].pc \in Trusting PROVE kf' = "done"
        <4>1. ex[v].pc \in Trusting /\ ex[v].pc \in Running /\ kf = "done"
          BY <2>1, <2>2, <3>2 DEF Others, Running
        <4> QED
          BY <2>1, <2>3, <4>1 DEF Marks
      <3> QED
        BY <3>1, <3>2
    <2>6. \A v \in Workers : ex'[v].pc # "pindex"
      BY <2>1, <2>2 DEF Others, Arrives
    <2>7. indexed' => kf' = "done"
      BY <2>1, <2>2 DEF Marks, WorkDone
    <2>8. exists' /\ target' /\ row'.status = "done" => indexed'
      <3>1. CASE row.status = "done"
        BY <2>1, <2>2, <2>3, <3>1 DEF Marks
      <3>2. CASE row.status # "done"
        BY <1>3, <2>1, <3>2, MadeDone
      <3> QED
        BY <3>1, <3>2
    <2> QED
      BY <2>5, <2>6, <2>7, <2>8
  <1> QED
    BY <1>1, <1>2, <1>3, NextFlow

\* A version marked as indexed is parsed in KnowFlow and a done job has marked
\* its version, in every behaviour up to the first recorded breach.
THEOREM MarksAreTrue == Spec => []MarkMeansParsed
  <1>1. Init => MarkInv
    BY RowConstants DEF Init, MarkInv, Idle, Trusting
  <1>2. TypeOK /\ TypeOK' /\ LeaseInv /\ MarkInv /\ [Next]_vars => MarkInv'
    BY MarkKept
  <1>3. MarkInv => MarkMeansParsed
    BY DEF MarkInv, MarkMeansParsed
  <1> QED
    BY <1>1, <1>2, <1>3, TypeCorrect, LeaseInvHolds, PTL DEF Spec

\* Every step keeps DoneInv.
LEMMA DoneKept ==
  ASSUME TypeOK, TypeOK', DoneInv, [Next]_vars
  PROVE  DoneInv'
  <1> USE DEF DoneInv, Trusting
  <1> SUFFICES ASSUME mode' = "index"
               PROVE  /\ \A v \in Workers : ex'[v].pc \in Trusting => kf' = "done"
                      /\ \A v \in Workers : ex'[v].pc # "pindex"
                      /\ indexed' => kf' = "done"
                      /\ exists' /\ row'.status = "done" => kf' = "done"
    OBVIOUS
  <1>1. CASE Aside
    <2>1. \A v \in Workers : ex'[v].pc \in {ex[v].pc, "idle"}
      BY <1>1 DEF Aside, AsBefore, Idle
    <2>2. row'.status = "done" /\ exists' => row.status = "done"
      BY <1>1 DEF Aside, AsideStatus
    <2> QED
      BY <1>1, <2>1, <2>2 DEF Aside
  <1>2. ASSUME NEW w \in Workers, PickedUp(w) PROVE DoneInv'
    <2>1. \A v \in Workers : ex'[v].pc \in {ex[v].pc, "begin"}
      BY <1>2 DEF PickedUp, Others
    <2> QED
      BY <1>2, <2>1 DEF PickedUp
  <1>3. ASSUME NEW w \in Workers, Flow(w), StepEffect(w) PROVE DoneInv'
    <2>1. /\ UNCHANGED <<mode, exists>> /\ mode = "index"
          /\ Others(w) /\ Marks(w) /\ Arrives(w)
      BY <1>3 DEF Flow, StepEffect
    <2>2. kf = "done" => kf' = "done"
      BY <2>1 DEF Marks
    <2>3. ex'[w].pc \in Trusting => kf = "done"
      BY <2>1 DEF Arrives, WorkDone
    <2>4. /\ \A v \in Workers : ex'[v].pc \in Trusting => kf' = "done"
          /\ \A v \in Workers : ex'[v].pc # "pindex"
      BY <2>1, <2>2, <2>3 DEF Others, Arrives
    <2>5. indexed' => kf' = "done"
      BY <2>1, <2>2 DEF Marks, WorkDone
    <2>6. exists' /\ row'.status = "done" => kf' = "done"
      BY <1>3, <2>1, <2>2, MadeDone
    <2> QED
      BY <2>4, <2>5, <2>6
  <1> QED
    BY <1>1, <1>2, <1>3, NextFlow

\* A first index is done only when KnowFlow has parsed the file, with any number
\* of executors, and whatever becomes of the lease.
THEOREM DoneMeansParsed == Spec => []NeverDoneUnparsed
  <1>1. Init => DoneInv
    BY RowConstants DEF Init, DoneInv, Idle, Trusting
  <1>2. TypeOK /\ TypeOK' /\ DoneInv /\ [Next]_vars => DoneInv'
    BY DoneKept
  <1>3. DoneInv => NeverDoneUnparsed
    BY DEF DoneInv, NeverDoneUnparsed
  <1> QED
    BY <1>1, <1>2, <1>3, TypeCorrect, PTL DEF Spec

-----------------------------------------------------------------------------
(* The API process's pool. *)

InPool(w) == ex[w].pc # "idle" /\ ex[w].seat = "pool"

\* One run under the name, and the name is taken while it lasts.
PoolInv ==
  /\ OnePoolRun
  /\ \A w \in Workers : InPool(w) => pool = "running"

\* Every step keeps it.
LEMMA PoolKept ==
  ASSUME TypeOK, TypeOK', PoolInv, [Next]_vars
  PROVE  PoolInv'
  <1> USE DEF PoolInv
  <1>1. (\A v, w \in Workers : InPool(v) /\ InPool(w) => v = w)
    BY DEF OnePoolRun, InPool
  <1> SUFFICES /\ \A v, w \in Workers : InPool(v)' /\ InPool(w)' => v = w
               /\ \A w \in Workers : InPool(w)' => pool' = "running"
    BY DEF OnePoolRun, InPool
  <1>2. CASE Aside
    <2>1. \A v \in Workers : InPool(v)' => InPool(v) /\ pool' = "running"
      BY <1>2 DEF Aside, AsBefore, InPool, Idle
    <2> QED
      BY <1>1, <2>1
  <1>3. ASSUME NEW w \in Workers, PickedUp(w) PROVE PoolInv'
    <2>1. CASE UNCHANGED ex
      BY <1>3, <2>1 DEF PickedUp, InPool, OnePoolRun
    <2>2. CASE ex'[w].pc = "begin" /\ ex'[w].seat = "celery" /\ UNCHANGED pool
      <3>1. \A v \in Workers : InPool(v)' => InPool(v)
        BY <1>3, <2>2 DEF PickedUp, Others, InPool
      <3> QED
        BY <1>1, <2>2, <3>1 DEF OnePoolRun, InPool
    <2>3. CASE pool = "queued" /\ pool' = "running"
      <3>1. \A v \in Workers : ~InPool(v)
        BY <2>3
      <3>2. \A v \in Workers : InPool(v)' => v = w
        BY <1>3, <3>1 DEF PickedUp, Others, InPool
      <3> QED
        BY <2>3, <3>2 DEF OnePoolRun, InPool
    <2> QED
      BY <1>3, <2>1, <2>2, <2>3 DEF PickedUp
  <1>4. ASSUME NEW w \in Workers, Flow(w) PROVE PoolInv'
    <2>1. Others(w) /\ Keeps(w) /\ ex[w].pc # "idle"
      BY <1>4 DEF Flow
    <2>2. \A v \in Workers : InPool(v)' => InPool(v)
      BY <2>1 DEF Others, Keeps, InPool, Idle
    <2>3. \A v \in Workers : InPool(v)' => pool' = "running"
      BY <1>1, <2>1, <2>2 DEF Keeps, InPool, Idle
    <2> QED
      BY <1>1, <2>2, <2>3 DEF OnePoolRun, InPool
  <1> QED
    BY <1>2, <1>3, <1>4, NextFlow DEF OnePoolRun, InPool

\* One run of the job at a time in the API process's pool (submit_background's
\* name), whatever happens to the lease, and over restarts of the process.
THEOREM PoolRunsOne == Spec => []OnePoolRun
  <1>1. Init => PoolInv
    BY RowConstants DEF Init, PoolInv, OnePoolRun, InPool, Idle
  <1>2. TypeOK /\ TypeOK' /\ PoolInv /\ [Next]_vars => PoolInv'
    BY PoolKept
  <1>3. PoolInv => OnePoolRun
    BY DEF PoolInv
  <1> QED
    BY <1>1, <1>2, <1>3, TypeCorrect, PTL DEF Spec

\* The jobs that must run in the API process, while it lives: every executor is
\* in its pool, and once the job has been claimed it is settled and whoever is
\* busy with it is in its finally block.
InProcessInv ==
  InProcess /\ faults = 0 =>
    /\ celery = 0 /\ rec.pc = "off"
    /\ \A w \in Workers : ex[w].pc # "idle" => ex[w].seat = "pool"
    /\ notified <= 1
    /\ notified = 1 => /\ exists => ~IsActive(row)
                       /\ \A w \in Workers : ex[w].pc \in Closing \cup {"idle"}

\* Every step keeps it: with one executor at a time (PoolInv), none is left
\* running after the claim.
LEMMA InProcessKept ==
  ASSUME TypeOK, TypeOK', PoolInv, InProcessInv, [Next]_vars
  PROVE  InProcessInv'
  <1> USE DEF InProcessInv, InProcess
  <1> SUFFICES ASSUME InProcess', faults' = 0
               PROVE  /\ celery' = 0 /\ rec'.pc = "off"
                      /\ \A v \in Workers : ex'[v].pc # "idle" => ex'[v].seat = "pool"
                      /\ notified' <= 1
                      /\ notified' = 1 =>
                           /\ exists' => ~IsActive(row')
                           /\ \A v \in Workers : ex'[v].pc \in Closing \cup {"idle"}
    OBVIOUS
  <1>1. CASE Aside
    <2>1. InProcess /\ faults = 0 /\ \A v \in Workers : AsBefore(v)
      BY <1>1 DEF Aside
    <2>2. celery' = 0 /\ rec'.pc = "off" /\ rec.pc # "reset" /\ UNCHANGED notified
      BY <1>1, <2>1 DEF Aside
    <2>3. exists' => exists /\ (row'.status = row.status \/ row'.status = "cancelled")
      BY <1>1, <2>2 DEF Aside, AsideStatus
    <2> QED
      BY <2>1, <2>2, <2>3 DEF AsBefore, IsActive, Active
  <1>2. ASSUME NEW w \in Workers, PickedUp(w) PROVE InProcessInv'
    <2>1. InProcess /\ faults = 0 /\ celery = 0 /\ ~(celery > 0)
      BY <1>2 DEF PickedUp
    <2>2. CASE UNCHANGED ex
      BY <1>2, <2>1, <2>2 DEF PickedUp
    <2>3. CASE exists /\ IsActive(row) /\ ex'[w].pc = "begin" /\ ex'[w].seat = "pool"
      BY <1>2, <2>1, <2>3 DEF PickedUp, Others
    <2> QED
      BY <1>2, <2>1, <2>2, <2>3 DEF PickedUp
  <1>3. ASSUME NEW w \in Workers, Flow(w), StepEffect(w) PROVE InProcessInv'
    <2>1. /\ InProcess /\ faults = 0 /\ UNCHANGED <<exists, rec>> /\ celery' = celery
          /\ Others(w) /\ Keeps(w) /\ ex[w].pc # "idle" /\ Outcome(w)
          /\ ex[w].pc \in Closing => ex'[w].pc \in Closing \cup {"idle"}
      BY <1>3 DEF Flow, StepEffect
    <2>2. \A v \in Workers : ex'[v].pc # "idle" => ex'[v].seat = "pool"
      BY <2>1 DEF Others, Keeps, Idle
    <2>3. ex[w].pc \in Running => notified = 0
      <3>1. notified \in 0 .. 2 /\ Running \cap (Closing \cup {"idle"}) = {}
        BY DEF TypeOK, Running, Closing
      <3> QED
        BY <2>1, <3>1
    <2>4. \A v \in Workers \ {w} : ex[v].pc = "idle"
      BY <2>1 DEF PoolInv, OnePoolRun
    <2>5. CASE Claims(w)
      <3>1. ex[w].pc \in Running
        BY <2>5 DEF Claims, Running
      <3> QED
        BY <2>1, <2>2, <2>3, <2>4, <2>5, <3>1
        DEF Claims, Others, Closing, IsActive, Active
    <2>6. CASE UNCHANGED notified /\ (row'.status = row.status \/ ex[w].pc \in Running)
      <3>1. CASE notified = 1
        <4>1. ex[w].pc \in Closing /\ row'.status = row.status
          BY <2>1, <2>3, <2>6, <3>1
        <4> QED
          BY <2>1, <2>2, <2>6, <3>1, <4>1 DEF Others, IsActive
      <3>2. CASE notified # 1
        BY <2>1, <2>2, <2>6, <3>2
      <3> QED
        BY <3>1, <3>2
    <2> QED
      BY <2>1, <2>5, <2>6 DEF Outcome, Says, Updates, Blocks, Drops, Running
  <1> QED
    BY <1>1, <1>2, <1>3, NextFlow

\* A PageIndex or subscription job makes one terminal transition while the API
\* process lives, also when its lease has lapsed or been cleared.
THEOREM ProcessClaimsOnce == Spec => []OneClaimInProcess
  <1>1. Init => InProcessInv
    BY RowConstants DEF Init, InProcessInv, RecOff, Idle
  <1>2. Init => PoolInv
    BY RowConstants DEF Init, PoolInv, OnePoolRun, InPool, Idle
  <1>3. TypeOK /\ TypeOK' /\ PoolInv /\ [Next]_vars => PoolInv'
    BY PoolKept
  <1>4. TypeOK /\ TypeOK' /\ PoolInv /\ InProcessInv /\ [Next]_vars => InProcessInv'
    BY InProcessKept
  <1>5. InProcessInv => OneClaimInProcess
    BY DEF InProcessInv, OneClaimInProcess
  <1> QED
    BY <1>1, <1>2, <1>3, <1>4, <1>5, TypeCorrect, PTL DEF Spec
=============================================================================
