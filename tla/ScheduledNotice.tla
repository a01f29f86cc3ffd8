--------------------------- MODULE ScheduledNotice ---------------------------
(***************************************************************************)
(* One scheduled notification: the row in scheduled_notifications, the     *)
(* carriers that are to deliver it (a Celery message with a countdown, a   *)
(* threading.Timer, a name in a process's background pool), the deliveries *)
(* themselves and the owner's cancellation.                                *)
(*                                                                         *)
(* A delivery commits twice: create_notification commits the notification, *)
(* and only then is sent_at set and committed.  Nothing locks the row.     *)
(*                                                                         *)
(* `when` is the row's scheduled_at seen from the database's clock: at     *)
(* least 60 s ahead, 5 to 60 s ahead, due (at most 5 s ahead), or old (30  *)
(* days ago, too long for the recovery).  A Timer runs on its own          *)
(* process's clock from a countdown the database gave; the Celery message  *)
(* waits by the workers' clock, which may be ahead.                        *)
(***************************************************************************)
EXTENDS Naturals, FiniteSets

CONSTANTS
  Deliverers,  \* deliveries that may be at work at the same time
  MaxCarriers, \* BOUND: messages, and Timers of a process, at a time
  MaxFaults    \* BOUND: restarts and failed deliveries

ASSUME CarriersAssumption == MaxCarriers \in Nat \ {0} /\ MaxFaults \in Nat

VARIABLES
  row,     \* made (committed), sent (sent_at), cancelled (cancelled_at)
  when,    \* how far off scheduled_at is
  asker,   \* schedule_notification: between its commit and its dispatch
  msgs,    \* messages in the Celery queue
  timers,  \* Timers of each process
  pool,    \* the name scheduled-notification-<id> in each process's pool
  del,     \* the deliveries
  cx,      \* cancel_scheduled_notification
  rec,     \* recover_pending_scheduled_notifications is still to run
  faults,
  sends,   \* HISTORY: notifications the user has got (0, 1, 2 or more)
  lost,    \* HISTORY: a fault took a carrier away, and no recovery has seen to it
  causes   \* HISTORY: what may lead to a second notification

nvars == <<row, when, asker, msgs, timers, pool, del, cx, rec, faults, sends, lost, causes>>

Procs == {"api", "worker"}

Slot == [pc: {"idle", "open", "loaded", "noticed"}, seat: {"task", "pool"}, at: Procs]
Idle == [pc |-> "idle", seat |-> "task", at |-> "worker"]
Busy(d) == del[d].pc # "idle"

NoticeTypeOK ==
  /\ row \in [made: BOOLEAN, sent: BOOLEAN, cancelled: BOOLEAN]
  /\ when \in {"far", "near", "due", "old"}
  /\ asker \in {"none", "added", "over"}
  /\ msgs \in 0 .. MaxCarriers /\ timers \in [Procs -> 0 .. MaxCarriers]
  /\ pool \in [Procs -> {"free", "queued", "running"}]
  /\ del \in [Deliverers -> Slot]
  /\ cx \in {"none", "loaded", "told_cancelled", "told_sent"}
  /\ rec \in BOOLEAN /\ lost \in BOOLEAN /\ faults \in 0 .. MaxFaults /\ sends \in 0 .. 2
  /\ causes \subseteq {"cut", "both"}
  \* A process runs the name once at a time.
  /\ \A p \in Procs :
       Cardinality({d \in Deliverers : Busy(d) /\ del[d].seat = "pool" /\ del[d].at = p})
         = IF pool[p] = "running" THEN 1 ELSE 0

NoticeInit ==
  /\ row = [made |-> FALSE, sent |-> FALSE, cancelled |-> FALSE]
  /\ when \in {"far", "near", "due"}
  /\ asker = "none" /\ msgs = 0 /\ timers = [p \in Procs |-> 0]
  /\ pool = [p \in Procs |-> "free"] /\ del = [d \in Deliverers |-> Idle]
  /\ cx = "none" /\ rec = FALSE
  /\ faults = 0 /\ sends = 0 /\ lost = FALSE /\ causes = {}

-----------------------------------------------------------------------------
(* Dispatch, from process p. *)

More(n) == IF n < MaxCarriers THEN n + 1 ELSE n

\* Mutant of Submit: the name is not looked up.
SubmitAlways(names, p) == [names EXCEPT ![p] = "queued"]

\* submit_background: nothing, if the name is queued or running.
Submit(names, p) == [names EXCEPT ![p] = IF @ = "free" THEN "queued" ELSE @]

ByCelery(names) == msgs' = More(msgs) /\ pool' = names /\ UNCHANGED timers
ByTimer(names, p) ==
  timers' = [timers EXCEPT ![p] = More(@)] /\ pool' = names /\ UNCHANGED msgs
ByPool(names, p)  == pool' = Submit(names, p) /\ UNCHANGED <<msgs, timers>>

Early == when \in {"far", "near"}

\* dispatch_scheduled_notification: below 60 s in the process itself (at once
\* when the countdown is 0), else by Celery or, if the broker refuses, by a Timer.
\* `names` are the pools as the caller leaves them.
Dispatch(names, p) ==
  \/ when = "far" /\ (ByCelery(names) \/ ByTimer(names, p))
  \/ when = "near" /\ ByTimer(names, p)
  \/ ~Early /\ (ByTimer(names, p) \/ ByPool(names, p))

\* To less than a minute before scheduled_at, to that instant, and to 30 days after
\* it (no row is made so late: _resolve_scheduled_at).
ClockTicks ==
  /\ when' \in CASE when = "far"  -> {"near"}
                 [] when = "near" -> {"due"}
                 [] when = "due"  -> IF row.made THEN {"old"} ELSE {}
                 [] when = "old"  -> {}
  /\ UNCHANGED <<row, asker, msgs, timers, pool, del, cx, rec, faults, sends, lost, causes>>

TimerFires(p) ==
  /\ timers[p] > 0 /\ ~Early
  /\ timers' = [timers EXCEPT ![p] = @ - 1]
  /\ pool' = Submit(pool, p)
  /\ UNCHANGED <<row, when, asker, msgs, del, cx, rec, faults, sends, lost, causes>>

-----------------------------------------------------------------------------
(* The owner. *)

\* schedule_notification commits the row, then dispatches.
Schedule ==
  /\ asker = "none"
  /\ asker' = "added" /\ row' = [row EXCEPT !.made = TRUE]
  /\ UNCHANGED <<when, msgs, timers, pool, del, cx, rec, faults, sends, lost, causes>>

FirstDispatch ==
  /\ asker = "added"
  /\ asker' = "over"
  /\ Dispatch(pool, "api")
  /\ UNCHANGED <<row, when, del, cx, rec, faults, sends, lost, causes>>

\* cancel_scheduled_notification reads sent_at ...
CancelLoads ==
  /\ row.made /\ cx = "none"
  /\ cx' = IF row.sent THEN "told_sent" ELSE "loaded"
  /\ UNCHANGED <<row, when, asker, msgs, timers, pool, del, rec, faults, sends, lost, causes>>

\* ... and sets cancelled_at.
CancelCommits ==
  /\ cx = "loaded"
  /\ cx' = "told_cancelled" /\ row' = [row EXCEPT !.cancelled = TRUE]
  /\ UNCHANGED <<when, asker, msgs, timers, pool, del, rec, faults, sends, lost, causes>>

-----------------------------------------------------------------------------
(* deliver_scheduled_notification. *)

\* Mutant of Wanted: a sent notification is taken for one that is not.
WantedUnlessCancelled == ~row.cancelled

\* Mutant of Wanted: cancelled_at is not looked at.
WantedUnlessSent == ~row.sent

Wanted == ~row.cancelled /\ ~row.sent

\* A worker takes the message (whenever its clock says so), or a pool thread
\* takes the name.
Take(d) ==
  /\ del[d].pc = "idle"
  /\ \/ /\ msgs > 0 /\ msgs' = msgs - 1
        /\ del' = [del EXCEPT ![d] = [pc |-> "open", seat |-> "task", at |-> "worker"]]
        /\ UNCHANGED pool
     \/ \E p \in Procs :
          /\ pool[p] = "queued" /\ pool' = [pool EXCEPT ![p] = "running"]
          /\ del' = [del EXCEPT ![d] = [pc |-> "open", seat |-> "pool", at |-> p]]
          /\ UNCHANGED msgs
  /\ UNCHANGED <<row, when, asker, timers, cx, rec, faults, sends, lost, causes>>

Ends(d) == del' = [del EXCEPT ![d] = Idle]

\* The pools once delivery d has returned: its wrapper frees the name.
Freed(d) ==
  [p \in Procs |-> IF del[d].seat = "pool" /\ del[d].at = p THEN "free" ELSE pool[p]]

\* The row is loaded: not wanted any more, too early (a new dispatch from this
\* process), or to be delivered.
OpensInVain(d) ==
  /\ del[d].pc = "open" /\ ~Wanted
  /\ Ends(d) /\ pool' = Freed(d)
  /\ UNCHANGED <<row, when, asker, msgs, timers, cx, rec, faults, sends, lost, causes>>

\* Mutant of OpensEarly: an early delivery only returns.
OpensEarlyInVain(d) ==
  /\ del[d].pc = "open" /\ Wanted /\ Early
  /\ Ends(d) /\ pool' = Freed(d)
  /\ UNCHANGED <<row, when, asker, msgs, timers, cx, rec, faults, sends, lost, causes>>

OpensEarly(d) ==
  /\ del[d].pc = "open" /\ Wanted /\ Early
  /\ Dispatch(Freed(d), del[d].at)
  /\ Ends(d)
  /\ UNCHANGED <<row, when, asker, cx, rec, faults, sends, lost, causes>>

Opens(d) ==
  /\ del[d].pc = "open" /\ Wanted /\ ~Early
  /\ del' = [del EXCEPT ![d].pc = "loaded"]
  /\ causes' = IF \E e \in Deliverers : del[e].pc \in {"loaded", "noticed"}
               THEN causes \cup {"both"} ELSE causes
  /\ UNCHANGED <<row, when, asker, msgs, timers, pool, cx, rec, faults, sends, lost>>

\* create_notification, which commits.
Notifies(d) ==
  /\ del[d].pc = "loaded"
  /\ del' = [del EXCEPT ![d].pc = "noticed"]
  /\ sends' = IF sends < 2 THEN sends + 1 ELSE sends
  /\ UNCHANGED <<row, when, asker, msgs, timers, pool, cx, rec, faults, lost, causes>>

\* sent_at, and the second commit.
Marks(d) ==
  /\ del[d].pc = "noticed"
  /\ row' = [row EXCEPT !.sent = TRUE]
  /\ Ends(d) /\ pool' = Freed(d)
  /\ UNCHANGED <<when, asker, msgs, timers, cx, rec, faults, sends, lost, causes>>

Delivers(d) == OpensInVain(d) \/ OpensEarly(d) \/ Opens(d) \/ Notifies(d) \/ Marks(d)

-----------------------------------------------------------------------------
(* Faults and recovery. *)

Cut(dead) ==
  IF \E d \in dead : del[d].pc = "noticed" THEN causes \cup {"cut"} ELSE causes

\* The database fails a delivery: it rolls back and raises, and nobody tries
\* again (max_retries = 0; the pool only logs).
DeliveryFails(d) ==
  /\ faults < MaxFaults /\ Busy(d)
  /\ faults' = faults + 1 /\ lost' = TRUE /\ causes' = Cut({d})
  /\ Ends(d) /\ pool' = Freed(d)
  /\ UNCHANGED <<row, when, asker, msgs, timers, cx, rec, sends>>

\* What a process takes with it.
Dies(p) ==
  LET dead == {d \in Deliverers : Busy(d) /\ del[d].at = p}
  IN  /\ faults' = faults + 1
      /\ timers' = [timers EXCEPT ![p] = 0] /\ pool' = [pool EXCEPT ![p] = "free"]
      /\ del' = [d \in Deliverers |-> IF d \in dead THEN Idle ELSE del[d]]
      /\ causes' = Cut(dead)

\* Mutant of ApiDies: the lifespan starts no recovery.
ApiDiesForGood ==
  /\ faults < MaxFaults
  /\ Dies("api")
  /\ asker' = IF asker = "added" THEN "over" ELSE asker
  /\ cx' = IF cx = "loaded" THEN "none" ELSE cx
  /\ UNCHANGED <<row, when, msgs, rec, sends, lost>>

\* The API process restarts, and its lifespan starts the recovery.
ApiDies ==
  /\ faults < MaxFaults
  /\ Dies("api")
  /\ asker' = IF asker = "added" THEN "over" ELSE asker
  /\ cx' = IF cx = "loaded" THEN "none" ELSE cx
  /\ rec' = TRUE
  /\ UNCHANGED <<row, when, msgs, sends, lost>>

\* A Celery worker goes: a task in hand comes back (acks_late) or not, Timers
\* and names of its process are gone.
WorkerDies ==
  /\ faults < MaxFaults
  /\ Dies("worker")
  /\ msgs' \in IF \E d \in Deliverers : Busy(d) /\ del[d].seat = "task"
              THEN {msgs, More(msgs)} ELSE {msgs}
  /\ lost' = (lost \/ timers["worker"] > 0 \/ pool["worker"] # "free"
               \/ \E d \in Deliverers : Busy(d) /\ del[d].at = "worker")
  /\ UNCHANGED <<row, when, asker, cx, rec, sends>>

\* What a pending notification is on its way with.
OnItsWay ==
  \/ asker = "added" \/ msgs > 0
  \/ \E p \in Procs : timers[p] > 0 \/ pool[p] # "free"
  \/ \E d \in Deliverers : Busy(d)

\* recover_pending_scheduled_notifications: what is not sent, not cancelled, and
\* not too old.  A row it passes over is left to whoever still carries it.
Recovers ==
  /\ rec /\ rec' = FALSE
  /\ lost' = (when = "old" /\ (lost \/ ~OnItsWay))
  /\ IF row.made /\ Wanted /\ when # "old" THEN Dispatch(pool, "api")
     ELSE UNCHANGED <<msgs, timers, pool>>
  /\ UNCHANGED <<row, when, asker, del, cx, faults, sends, causes>>

\* Everything but the restart of the API process, which does more than this.
NoticeNext ==
  \/ Schedule \/ FirstDispatch \/ CancelLoads \/ CancelCommits \/ ClockTicks
  \/ \E p \in Procs : TimerFires(p)
  \/ \E d \in Deliverers : Take(d) \/ Delivers(d) \/ DeliveryFails(d)
  \/ WorkerDies \/ Recovers

\* Time passes, timers fire, queues are consumed, a delivery at work goes on,
\* the recovery of a restarted process runs.
NoticeFairness ==
  /\ WF_nvars(FirstDispatch) /\ WF_nvars(ClockTicks) /\ WF_nvars(Recovers)
  /\ \A p \in Procs : WF_nvars(TimerFires(p))
  /\ WF_nvars(\E d \in Deliverers : Take(d))
  /\ \A d \in Deliverers : WF_nvars(Delivers(d))

-----------------------------------------------------------------------------
(* Properties. *)

Pending == row.made /\ Wanted

Carrier == rec \/ OnItsWay

\* A committed notification that is neither sent nor cancelled is on its way:
\* only a failed delivery or the death of a Celery worker (with the Timer an
\* early task has left in it) can leave it with no carrier, and then until the
\* next restart of the API; or that restart, when it is 30 days late by then
\* (deliver_, recover_pending_scheduled_notifications).
Carried == Pending => Carrier \/ lost

\* The user gets one notification; a second one needs a fault, and then either a
\* delivery cut off between its two commits or two deliveries at work at once.
\* sent_at is never set without a notification.
SentOnce ==
  /\ sends > 1 => faults > 0 /\ causes # {}
  /\ row.sent => sends > 0

\* A cancellation is final except for deliveries that had loaded the row before
\* it: once none of those is left, nothing is sent any more, ever.
Silent == row.cancelled /\ \A d \in Deliverers : del[d].pc # "loaded"
CancelIsFinal == [][Silent => Silent' /\ sends' = sends]_nvars

\* A scheduled notification is sent or cancelled at last, unless a fault has taken
\* its carrier away and no recovery has seen to it.
Delivered == Pending ~> ~Pending \/ lost
=============================================================================
