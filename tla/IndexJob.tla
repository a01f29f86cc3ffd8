------------------------------ MODULE IndexJob ------------------------------
(***************************************************************************)
(* The life of one `document_index` job: the executors that run            *)
(* run_document_knowledge_index_job on it (Celery workers and threads of   *)
(* the API process), the Celery queue, the API process's pool and timers,  *)
(* the users and the watchdog that cancel or delete it, the restart        *)
(* recovery, and KnowFlow, which parses the file at its own pace.          *)
(*                                                                         *)
(* A step of the model is a step of the code between two points where      *)
(* another process can come in: a session LOADS the row (`snap`), works on *)
(* what it loaded, and COMMITS with JobRow's Flush.  A load that the same  *)
(* call commits at once (update_job_status on an expired session) is one   *)
(* step.                                                                   *)
(***************************************************************************)
EXTENDS JobRow, Naturals, FiniteSets

CONSTANTS
  Workers,    \* executor slots: Celery children and pool threads
  Modes,      \* what payload.mode (and parser) of the job may be
  Routes,     \* where a dispatch may land: the broker is up, down, or both
  Verdicts,   \* what KnowFlow may say of a file it has parsed
  Events,     \* the outside events this instance admits
  MaxQueue,   \* BOUND: dispatches pending per queue (further ones merge)
  MaxAsks,    \* BOUND: calls of enqueue_document_knowledge_index
  MaxFaults   \* BOUND: restarts, redeliveries and time limits

AllModes == {"index", "reindex", "pageindex", "subscription_pipeline"}

AllEvents == {"user_cancel", "watchdog", "delete", "clear", "restart",
              "redeliver", "lost_worker", "limit", "lapse"}

ASSUME ModesAssumption == Modes \subseteq AllModes
ASSUME RoutesAssumption == Routes \subseteq {"celery", "pool"}
ASSUME VerdictsAssumption == Verdicts \subseteq {"done", "failed", "failed_ocr"}
ASSUME EventsAssumption == Events \subseteq AllEvents
ASSUME BoundsAssumption ==
  MaxQueue \in Nat \ {0} /\ MaxAsks \in Nat /\ MaxFaults \in Nat

VARIABLES
  mode,      \* the job's mode, for good
  exists,    \* the row is in the jobs table
  row,       \* its contents
  target,    \* the document and version are there
  indexed,   \* the version link has index_completed_at
  kf,        \* the file in KnowFlow: absent, or its run status
  aged,      \* started_at / created_at is past background_job_stale_minutes
  celery,    \* messages in the Celery queue, with or without a countdown
  timers,    \* threading.Timers of the API process
  pool,      \* the name document-index-<id> in the API process's _inflight
  ex,        \* what each executor slot is doing
  cx,        \* the one canceller at work: a request, or the watchdog
  rec,       \* recover_interrupted_jobs of the last API restart
  asks, faults,
  notified,  \* HISTORY: terminal transitions claimed (0, 1, 2 or more)
  breach     \* HISTORY: what first weakened the execution lease, if anything

vars == <<mode, exists, row, target, indexed, kf, aged, celery, timers, pool,
          ex, cx, rec, asks, faults, notified, breach>>

queues == <<celery, timers, pool>>
world  == <<mode, exists, target, kf, aged, asks, faults>>

-----------------------------------------------------------------------------
(* The executor's program counter. *)

Opening == {"begin"}                         \* not yet the job's executor
Running == {"route", "start", "sync", "nap", "poll", "booted", "renew", "parsed",
            "undone", "error", "finish", "pindex", "failing", "defer", "send"}
Closing == {"close", "end"}                  \* the finally block
PC      == {"idle"} \cup Opening \cup Running \cup Closing

\* stage: the full chain, or the awaiting_parse phase with the age class of
\* the started_at it read;  due: the loop of _wait_for_parse is past its end.
Slot == [pc: PC, seat: {"celery", "pool"}, stage: {"full", "fresh", "overdue"},
         due: BOOLEAN, snap: Row]

NoSnap == [status |-> "pending", pay |-> EmptyPayload]
Idle   == [pc |-> "idle", seat |-> "celery", stage |-> "full",
           due |-> FALSE, snap |-> NoSnap]

Holding(w) == ex[w].pc \in Running \cup Closing

KfState == {"absent", "unparsed", "parsing", "done", "failed", "failed_ocr"}
Reasons == {"user_cancel", "watchdog", "delete"}
Causes  == {"stale_begin", "stale_write", "lapse", "recovery", "early_clear"}

TypeOK ==
  /\ mode \in AllModes
  /\ exists \in BOOLEAN /\ target \in BOOLEAN
  /\ indexed \in BOOLEAN /\ aged \in BOOLEAN
  /\ row \in Row
  /\ kf \in KfState
  /\ celery \in 0 .. MaxQueue /\ timers \in 0 .. MaxQueue
  /\ pool \in {"free", "queued", "running"}
  /\ ex \in [Workers -> Slot]
  /\ cx \in [pc: {"off", "loaded", "deleting"}, why: Reasons, snap: Row]
  /\ rec \in [pc: {"off", "scan", "clear", "reset", "dispatch", "commit"},
              snap: Row, had: Payload]
  /\ asks \in 0 .. MaxAsks /\ faults \in 0 .. MaxFaults
  /\ notified \in 0 .. 2
  /\ breach \in Causes \cup {"none"}

CxOff  == [pc |-> "off", why |-> "user_cancel", snap |-> NoSnap]
RecOff == [pc |-> "off", snap |-> NoSnap, had |-> EmptyPayload]

\* create_job has committed the pending row; the file may be in KnowFlow from
\* an earlier run, unfinished, or not at all (a re-index starts from a copy).
Init ==
  /\ exists = TRUE /\ target = TRUE
  /\ row = [status |-> "pending", pay |-> EmptyPayload]
  /\ mode \in Modes
  /\ \/ mode \in {"index", "subscription_pipeline"} /\ indexed = FALSE
        /\ kf \in {"absent", "unparsed", "parsing"}
     \/ mode \in {"reindex", "pageindex"} /\ kf = "done" /\ indexed = TRUE
  /\ aged = FALSE
  /\ celery = 0 /\ timers = 0 /\ pool = "free"
  /\ ex = [w \in Workers |-> Idle]
  /\ cx = CxOff /\ rec = RecOff
  /\ asks = 0 /\ faults = 0
  /\ notified = 0 /\ breach = "none"

-----------------------------------------------------------------------------
(* Sessions. *)

Broken(cause) == IF breach = "none" THEN cause ELSE breach

\* Commit of a session that loaded `old`.  A commit that changes a row which
\* is no longer the loaded one is on record as a stale write.
Commit(old, new, touched) ==
  /\ row' = Flush(row, old, new, touched)
  /\ breach' = IF row' # row /\ row # old THEN Broken("stale_write") ELSE breach

\* update_job_status on a session whose objects have expired.
Update(st) == Commit(row, SetStatus(row, st), FALSE)

\* _index_job_should_abort on a freshly loaded row.
ShouldAbort == row.status = "cancelled" \/ ~target

Goto(w, p)    == ex' = [ex EXCEPT ![w].pc = p, ![w].snap = NoSnap]
Hold(w, p, r) == ex' = [ex EXCEPT ![w].pc = p, ![w].snap = r]

\* To the finally block; what the run kept in local variables is dropped.
Finally(w) ==
  ex' = [ex EXCEPT ![w] = [Idle EXCEPT !.pc = "close", !.seat = ex[w].seat]]

\* The executor function returns: submit_background's wrapper frees the name.
Leave(w) ==
  /\ ex' = [ex EXCEPT ![w] = Idle]
  /\ pool' = IF ex[w].seat = "pool" THEN "free" ELSE pool

-----------------------------------------------------------------------------
(* Dispatch. *)

InProcess == mode \in {"pageindex", "subscription_pipeline"}

More(q) == IF q < MaxQueue THEN q + 1 ELSE q

\* Mutant of SubmitBackground: the name is not looked up.
SubmitAlways == "queued"

\* submit_background: nothing, if the name is queued or running.
SubmitBackground == IF pool = "free" THEN "queued" ELSE pool

\* dispatch_document_index_job: Celery unless the job must run in-process;
\* when the broker refuses, the pool, after a Timer if there is a countdown.
Dispatch(countdown) ==
  \/ /\ "celery" \in Routes /\ ~InProcess
     /\ celery' = More(celery)
     /\ UNCHANGED <<timers, pool>>
  \/ /\ "pool" \in Routes \/ InProcess
     /\ timers' = IF countdown THEN More(timers) ELSE timers
     /\ pool'   = IF countdown THEN pool ELSE SubmitBackground
     /\ UNCHANGED celery

\* enqueue_document_knowledge_index, for the new job or (force = False) for
\* the active one it finds: ensure_dispatched.
Enqueue ==
  /\ asks < MaxAsks /\ exists /\ IsActive(row)
  /\ asks' = asks + 1
  /\ Dispatch(FALSE)
  /\ UNCHANGED <<mode, exists, row, target, indexed, kf, aged, ex, cx, rec, faults,
                 notified, breach>>

TimerFires ==
  /\ timers > 0
  /\ timers' = timers - 1 /\ pool' = SubmitBackground
  /\ UNCHANGED <<world, row, indexed, celery, ex, cx, rec, notified, breach>>

\* Mutant of ResumeOrphan: only the jobs that have not started.
ResumePendingOrphan ==
  /\ exists /\ target /\ row.status = "pending" /\ IsAwaiting(row)
  /\ ~LeaseIsActive(row)
  /\ Dispatch(FALSE)
  /\ UNCHANGED <<world, row, indexed, ex, cx, rec, notified, breach>>

\* recover_orphaned_awaiting_parse_jobs, every watchdog interval.
ResumeOrphan ==
  /\ exists /\ target /\ IsActive(row) /\ IsAwaiting(row) /\ ~LeaseIsActive(row)
  /\ Dispatch(FALSE)
  /\ UNCHANGED <<world, row, indexed, ex, cx, rec, notified, breach>>

-----------------------------------------------------------------------------
(* run_document_knowledge_index_job: getting the lease. *)

\* What an executor step leaves alone unless it says otherwise.
Outside == <<world, celery, timers, cx, rec>>

\* A worker takes the message and loads the job; nothing to do for a job that
\* is gone or no longer active.
Pickup(w) ==
  /\ ex[w].pc = "idle"
  /\ \E seat \in {"celery", "pool"} :
       /\ \/ seat = "celery" /\ celery > 0 /\ celery' = celery - 1
             /\ pool' = pool
          \/ seat = "pool" /\ pool = "queued" /\ celery' = celery
             /\ pool' = IF exists /\ IsActive(row) THEN "running" ELSE "free"
       /\ ex' = IF exists /\ IsActive(row)
                THEN [ex EXCEPT ![w] = [Idle EXCEPT !.pc = "begin", !.seat = seat,
                                                    !.snap = row]]
                ELSE ex
  /\ UNCHANGED <<world, timers, cx, rec, row, indexed, notified, breach>>

\* try_begin_execution: the row is locked, but the status and the lease it
\* tests are those of the object db.get loaded before the lock.
Begin(w) ==
  /\ ex[w].pc = "begin" /\ exists
  /\ IF LeaseIsActive(ex[w].snap)
     THEN Leave(w) /\ UNCHANGED <<row, breach>>
     ELSE /\ row' = Flush(row, ex[w].snap,
                          [ex[w].snap EXCEPT !.pay = TakeLease(@)], TRUE)
          /\ breach' = IF row # ex[w].snap THEN Broken("stale_begin") ELSE breach
          /\ Goto(w, "route")
          /\ UNCHANGED pool
  /\ UNCHANGED <<Outside, indexed, notified>>

\* The row has been deleted under an executor: the next access raises, and so
\* does the update_job_status(failed) of the handler; nothing is written.
Gone(w) ==
  /\ ex[w].pc # "idle" /\ ~exists
  /\ Leave(w)
  /\ UNCHANGED <<Outside, row, indexed, notified, breach>>

\* The payload as committed by Begin decides the phase.
Route(w) ==
  /\ ex[w].pc = "route" /\ exists
  /\ IF ~IsAwaiting(row) THEN Hold(w, "start", row)
     ELSE IF ShouldAbort THEN Finally(w)
     ELSE ex' = [ex EXCEPT ![w] = [@ EXCEPT !.pc = "nap",
            !.stage = IF row.pay.watch = "overdue" THEN "overdue" ELSE "fresh"]]
  /\ UNCHANGED <<Outside, pool, row, indexed, notified, breach>>

\* Target gone: cancelled.  Else running (progress 8, 18, 32): the first of
\* these three commits carries what was loaded in Route.
Start(w) ==
  /\ ex[w].pc = "start" /\ exists
  /\ LET st   == IF target THEN "running" ELSE "cancelled"
         snap == ex[w].snap
     IN  /\ Commit(snap, SetStatus(snap, st), FALSE)
         /\ IF ~target THEN Finally(w)
            ELSE Hold(w, "sync", IF snap.status = "cancelled" THEN snap ELSE row')
  /\ UNCHANGED <<Outside, pool, indexed, notified>>

-----------------------------------------------------------------------------
(* The synchronisation with KnowFlow: what it leads to. *)

\* The terminal claim of a session that loaded `snap`: lost when the status it
\* loaded is not an active one, and, perhaps, when the target is gone (the
\* session may still hold the document and the version it loaded).  The
\* caller's commit follows.
Claim(snap, st) ==
  \/ /\ IsActive(snap)
     /\ Commit(snap, Settle(snap, st), FALSE)
     /\ notified' = IF notified < 2 THEN notified + 1 ELSE notified
  \/ (~IsActive(snap) \/ ~target) /\ UNCHANGED <<row, breach, notified>>

\* index_stack_block_reason: failed, on the rows refreshed by Start.
SyncBlocked(w) ==
  /\ ex[w].pc = "sync" /\ exists
  /\ Commit(ex[w].snap, SetStatus(ex[w].snap, "failed"), FALSE)
  /\ Finally(w)
  /\ UNCHANGED <<Outside, pool, indexed, notified>>

\* A re-index that raises goes through _fail_parse_job with the job object loaded
\* before the upload, or loaded anew when the re-index has committed; no rollback
\* takes back the mark it has cleared, nor the parse it may have submitted.  Any
\* other mode rolls back and updates anew (so does an index run for which no
\* KnowFlow id came back).
SyncRaises(w) ==
  /\ IF mode \in {"reindex", "pageindex"}
     THEN Claim(ex[w].snap, "failed") \/ (mode = "reindex" /\ Claim(row, "failed"))
     ELSE Update("failed") /\ UNCHANGED notified
  /\ \/ UNCHANGED <<indexed, kf>>
     \/ mode = "reindex" /\ indexed' = FALSE /\ kf' \in {kf, "parsing"}
  /\ UNCHANGED <<mode, exists, target, aged, asks, timers, pool, cx, rec>>

SyncFails(w) ==
  /\ ex[w].pc = "sync" /\ exists
  /\ SyncRaises(w)
  /\ Finally(w)
  /\ UNCHANGED <<celery, faults>>

\* Mutant of WorkDone: a file that is in KnowFlow is taken for a parsed one.
FileThere == indexed \/ kf # "absent"

\* What try_resume_incomplete_knowledge_index looks for: the version's mark, or
\* else a file that KnowFlow has parsed.
WorkDone == indexed \/ kf = "done"

\* A new parse takes the version's mark away.
ParseSubmitted == kf' = "parsing" /\ indexed' = FALSE

\* try_resume_incomplete_knowledge_index finds the work done already, or the
\* PageIndex tree has been built: the session commits and loads the job again.
SyncCompleted(w) ==
  /\ ex[w].pc = "sync" /\ exists
  /\ \/ mode \in {"index", "subscription_pipeline"} /\ WorkDone
        /\ indexed' = TRUE
     \/ mode = "pageindex" /\ UNCHANGED indexed
  /\ IF ShouldAbort THEN Finally(w) ELSE Hold(w, "finish", row)
  /\ UNCHANGED <<Outside, pool, row, notified, breach>>

\* A version without a file gets one: uploaded, its parse submitted or not (the
\* parse guard may decline), or another version's with the same content, wherever
\* its parse has got to, and that version's mark if it is there.
FileLinked ==
  \/ kf # "absent" /\ UNCHANGED <<kf, indexed>>
  \/ kf = "absent" /\ kf' \in {"unparsed", "parsing"} \cup Verdicts
     /\ indexed' \in IF kf' = "done" THEN BOOLEAN ELSE {FALSE}

\* The file is in KnowFlow; progress 68 on an expired session, then the wait.
SyncSubmitted(w) ==
  /\ ex[w].pc = "sync" /\ exists /\ mode # "pageindex"
  /\ IF mode = "reindex" THEN ParseSubmitted ELSE ~indexed /\ FileLinked
  /\ Update("running")
  /\ Goto(w, "nap")
  /\ UNCHANGED <<mode, exists, target, aged, asks, faults, celery, timers, pool, cx,
                 rec, notified>>

\* Subscription import with an HTML body, KnowFlow's queue long: no wait.
SyncSkipsDeepdoc(w) ==
  /\ ex[w].pc = "sync" /\ exists
  /\ mode = "subscription_pipeline" /\ kf \in {"unparsed", "parsing"}
  /\ IF ShouldAbort
     THEN Finally(w) /\ UNCHANGED <<row, breach>>
     ELSE Update("running") /\ Hold(w, "finish", row')
  /\ UNCHANGED <<Outside, pool, indexed, notified>>

-----------------------------------------------------------------------------
(* _wait_for_parse: one session per poll, none while it sleeps. *)

PollOpens(w) ==
  /\ ex[w].pc = "nap" /\ exists /\ ~ex[w].due
  /\ IF ShouldAbort THEN Goto(w, "undone") ELSE Hold(w, "poll", row)
  /\ UNCHANGED <<Outside, pool, row, indexed, notified, breach>>

WaitEnds(w) ==
  /\ ex[w].pc = "nap" /\ exists /\ ex[w].due
  /\ ex' = [ex EXCEPT ![w].pc = "undone", ![w].due = FALSE]
  /\ UNCHANGED <<Outside, pool, row, indexed, notified, breach>>

\* _record_parse_progress may touch the payload; what it wrote is committed when
\* the parse has been submitted again.
Touches(w) == IF ex[w].pc = "poll" THEN BOOLEAN ELSE {FALSE}

\* The status read may be missing (KnowFlow unreachable), so progress is
\* possible whatever kf is.  update_job_status leaves a session that holds a
\* cancelled job, loaded with the parse's log line, without a commit.
PollProgress(w) ==
  /\ ex[w].pc \in {"poll", "booted"} /\ exists
  /\ \E touched \in Touches(w) :
       Commit(ex[w].snap, SetStatus(ex[w].snap, "running"), touched)
  /\ Hold(w, "renew", IF ex[w].snap.status = "cancelled" THEN ex[w].snap ELSE row')
  /\ UNCHANGED <<Outside, pool, indexed, notified>>

\* renew_execution_lease: db.get is the object the session holds.
Renew(w) ==
  /\ ex[w].pc = "renew" /\ exists
  /\ Commit(ex[w].snap, [ex[w].snap EXCEPT !.pay = TakeLease(@)], TRUE)
  /\ Goto(w, "nap")
  /\ UNCHANGED <<Outside, pool, indexed, notified>>

PollDone(w) ==
  /\ ex[w].pc = "poll" /\ exists /\ kf = "done"
  /\ \E touched \in BOOLEAN :
       Commit(ex[w].snap, SetStatus(ex[w].snap, "running"), touched)
  /\ Goto(w, "parsed")
  /\ UNCHANGED <<Outside, pool, indexed, notified>>

\* Three polls that only find the file queued: the wait gives up early.
PollBacklog(w) ==
  /\ exists
  /\ ex[w].pc = "booted" \/ (ex[w].pc = "poll" /\ kf \in {"unparsed", "parsing"})
  /\ \E touched \in Touches(w) : Commit(ex[w].snap, ex[w].snap, touched)
  /\ Goto(w, "undone")
  /\ UNCHANGED <<Outside, pool, indexed, notified>>

PollFailed(w) ==
  /\ ex[w].pc = "poll" /\ exists /\ kf = "failed"
  /\ \E touched \in BOOLEAN : Commit(ex[w].snap, ex[w].snap, touched)
  /\ Goto(w, "error")
  /\ UNCHANGED <<Outside, pool, indexed, notified>>

\* _maybe_bootstrap_ragflow_parse: the parse never started; it is submitted
\* again, the log line loads the job anew, and the poll goes on with the status
\* it has read before.
PollBootstrap(w) ==
  /\ ex[w].pc = "poll" /\ exists /\ kf = "unparsed"
  /\ Commit(ex[w].snap, ex[w].snap, TRUE)
  /\ ParseSubmitted
  /\ Hold(w, "booted", row')
  /\ UNCHANGED <<mode, exists, target, aged, asks, faults, celery, timers, pool, cx,
                 rec, notified>>

\* What leaves _wait_for_parse as anything but a RuntimeError.  The full
\* chain has set db = None before the wait: the handler and the finally block
\* fail on it, and nothing is written.  The awaiting phase still has its
\* session: the handler fails the job.
WaitRaises(w) ==
  IF ex[w].stage = "full"
  THEN Leave(w) /\ UNCHANGED <<row, breach>>
  ELSE Update("failed") /\ Finally(w) /\ UNCHANGED pool

\* _maybe_fallback_plain_text_parse uses get_settings, which its module does
\* not import: NameError.
PollFailedOcr(w) ==
  /\ ex[w].pc = "poll" /\ exists /\ kf = "failed_ocr"
  /\ WaitRaises(w)
  /\ UNCHANGED <<Outside, indexed, notified>>

-----------------------------------------------------------------------------
(* After the wait: a new session. *)

\* Parsed; the awaiting phase also wants the job to be awaiting still.
AfterParsed(w) ==
  /\ ex[w].pc = "parsed" /\ exists
  /\ IF ShouldAbort \/ (ex[w].stage # "full" /\ ~IsAwaiting(row))
     THEN Finally(w)
     ELSE Hold(w, "finish", row)
  /\ UNCHANGED <<Outside, pool, row, indexed, notified, breach>>

AfterError(w) ==
  /\ ex[w].pc = "error" /\ exists
  /\ IF ShouldAbort THEN Finally(w) ELSE Hold(w, "failing", row)
  /\ UNCHANGED <<Outside, pool, row, indexed, notified, breach>>

\* Mutant of PatienceOver: the awaiting phase has no end.
NeverOver(stage) == FALSE

\* The wait of the awaiting phase was for all that was left of
\* knowledge_parse_max_wait_sec.
PatienceOver(stage) == stage = "overdue"

\* Not parsed yet: to the awaiting phase, or, there, once more, until
\* knowledge_parse_max_wait_sec has gone by.
AfterUndone(w) ==
  /\ ex[w].pc = "undone" /\ exists
  /\ IF ShouldAbort THEN Finally(w)
     ELSE Hold(w, IF PatienceOver(ex[w].stage) THEN "failing" ELSE "defer", row)
  /\ UNCHANGED <<Outside, pool, row, indexed, notified, breach>>

\* enter_awaiting_parse_phase and update_job_status(running): one commit.
Defer(w) ==
  /\ ex[w].pc = "defer" /\ exists
  /\ LET snap == ex[w].snap
         since == IF ex[w].stage # "full" THEN ex[w].stage
                  ELSE IF snap.pay.watch = "none" THEN "fresh" ELSE snap.pay.watch
     IN  Commit(snap, [status |-> "running", pay |-> EnterAwaiting(snap.pay, since)],
                ex[w].stage = "full")
  /\ Goto(w, "send")
  /\ UNCHANGED <<Outside, pool, indexed, notified>>

\* The delayed dispatch that continues the job.
Send(w) ==
  /\ ex[w].pc = "send"
  /\ Dispatch(TRUE)
  /\ Finally(w)
  /\ UNCHANGED <<world, row, indexed, cx, rec, notified, breach>>

\* _fail_parse_job.
Fail(w) ==
  /\ ex[w].pc = "failing" /\ exists
  /\ Claim(ex[w].snap, "failed")
  /\ Finally(w)
  /\ UNCHANGED <<Outside, pool, indexed>>

\* _complete_knowledge_index_job: the version is marked in the transaction of
\* the claim, and committed also when the claim is lost.
Finish(w) ==
  /\ ex[w].pc = "finish" /\ exists /\ mode # "subscription_pipeline"
  /\ indexed' = (target \/ indexed)
  /\ Claim(ex[w].snap, "done")
  /\ Finally(w)
  /\ UNCHANGED <<Outside, pool>>

\* _complete_subscription_pipeline_after_deepdoc: PageIndex not available, or
\* the phase fields, the lease among them, cleared before the tree is built.
FinishPipeline(w) ==
  /\ ex[w].pc = "finish" /\ exists /\ mode = "subscription_pipeline"
  /\ \/ Claim(ex[w].snap, "failed") /\ Finally(w)
     \/ /\ row' = Flush(row, ex[w].snap, Settle(ex[w].snap, "running"), FALSE)
        /\ breach' = Broken("early_clear")
        /\ Hold(w, "pindex", row') /\ UNCHANGED notified
  /\ UNCHANGED <<Outside, pool, indexed>>

\* execute_pageindex_reindex returns or raises; the claim is made on what
\* update_job_status(88) refreshed before it.
PageIndexEnds(w) ==
  /\ ex[w].pc = "pindex" /\ exists
  /\ \/ target /\ Claim(ex[w].snap, "done") /\ indexed' = TRUE
     \/ Claim(ex[w].snap, "failed") /\ UNCHANGED indexed
  /\ Finally(w)
  /\ UNCHANGED <<Outside, pool>>

\* The finally block: db.get, end_execution, commit.
Close(w) ==
  /\ ex[w].pc = "close" /\ exists
  /\ Hold(w, "end", row)
  /\ UNCHANGED <<Outside, pool, row, indexed, notified, breach>>

End(w) ==
  /\ ex[w].pc = "end" /\ exists
  /\ Commit(ex[w].snap, [ex[w].snap EXCEPT !.pay = DropLease(@)], FALSE)
  /\ Leave(w)
  /\ UNCHANGED <<Outside, indexed, notified>>

-----------------------------------------------------------------------------
(* Cancelling and deleting. *)

\* cancel_job by its owner; cancel_stale_background_jobs for a job that is
\* past the limit and not exempt; stop_document_index_work before a delete.
CancelLoads(why) ==
  /\ why \in Events
  /\ cx.pc = "off" /\ exists
  /\ CASE why = "user_cancel" -> IsActive(row)
       [] why = "watchdog"    -> IsActive(row) /\ aged /\ ~IsAwaiting(row)
                                 /\ ~LeaseIsActive(row)
       [] why = "delete"      -> target
  /\ cx' = [pc |-> "loaded", why |-> why, snap |-> row]
  /\ UNCHANGED <<world, queues, row, indexed, ex, rec, notified, breach>>

StopStatus(r) == IF IsActive(r) THEN "cancelled" ELSE r.status

\* The status and the cleared payload; a delete clears an inactive job too.
CancelCommits ==
  /\ cx.pc = "loaded"
  /\ IF exists
     THEN Commit(cx.snap, Settle(cx.snap, StopStatus(cx.snap)), FALSE)
     ELSE UNCHANGED <<row, breach>>
  /\ cx' = IF exists /\ cx.why = "delete"
           THEN [CxOff EXCEPT !.pc = "deleting", !.why = "delete"] ELSE CxOff
  /\ UNCHANGED <<world, queues, indexed, ex, rec, notified>>

\* The delete itself: a version goes with its link, a document also with
\* every job of it.
TargetDeleted ==
  /\ cx.pc = "deleting"
  /\ target' = FALSE /\ indexed' = FALSE
  /\ \/ UNCHANGED <<exists, row>>
     \/ exists' = FALSE /\ row' = NoSnap
  /\ cx' = CxOff
  /\ UNCHANGED <<mode, kf, aged, asks, faults, queues, ex, rec, notified, breach>>

\* clear_jobs(scope="all"): every job of the user that is not running.
ClearJobs ==
  /\ "clear" \in Events
  /\ exists /\ row.status # "running"
  /\ exists' = FALSE /\ row' = NoSnap
  /\ UNCHANGED <<mode, target, indexed, kf, aged, asks, faults, queues, ex, cx, rec,
                 notified, breach>>

-----------------------------------------------------------------------------
(* Faults. *)

Fault(kind) == kind \in Events /\ faults < MaxFaults /\ faults' = faults + 1

\* The API process dies and comes back: its threads, its timers and the names
\* in _inflight are gone, Celery and its queue are not.  It recovers the jobs
\* unless the recovery lock in Redis is still held.
ApiRestarts ==
  /\ Fault("restart")
  /\ ex' = [w \in Workers |-> IF ex[w].seat = "pool" THEN Idle ELSE ex[w]]
  /\ timers' = 0 /\ pool' = "free"
  /\ cx' = CxOff /\ rec' \in {RecOff, [RecOff EXCEPT !.pc = "scan"]}
  /\ UNCHANGED <<mode, exists, target, kf, aged, asks, celery, row, indexed, notified,
                 breach>>

\* acks_late: the broker hands out again what has run past its visibility
\* timeout (3600 s) without an acknowledgement.
Redelivered ==
  /\ Fault("redeliver")
  /\ \E w \in Workers : ex[w].pc # "idle" /\ ex[w].seat = "celery"
  /\ celery' = More(celery)
  /\ UNCHANGED <<mode, exists, target, kf, aged, asks, timers, pool, row, indexed, ex,
                 cx, rec, notified, breach>>

\* A Celery child is killed (memory, hard time limit: the message is
\* acknowledged) or its parent with it (the message comes back).
WorkerLost(w) ==
  /\ Fault("lost_worker")
  /\ ex[w].pc # "idle" /\ ex[w].seat = "celery"
  /\ ex' = [ex EXCEPT ![w] = Idle]
  /\ celery' \in {celery, More(celery)}
  /\ UNCHANGED <<mode, exists, target, kf, aged, asks, timers, pool, row, indexed, cx,
                 rec, notified, breach>>

\* task_soft_time_limit = 3600: SoftTimeLimitExceeded is raised where a Celery
\* executor spends its hour, in the upload or asleep between two polls.
SoftTimeLimit(w) ==
  /\ Fault("limit")
  /\ exists /\ ex[w].seat = "celery"
  /\ \/ ex[w].pc = "nap" /\ WaitRaises(w)
        /\ UNCHANGED <<mode, exists, target, kf, aged, asks, timers, cx, rec, indexed, notified>>
     \/ ex[w].pc = "sync" /\ SyncRaises(w) /\ Finally(w)
  /\ UNCHANGED celery

-----------------------------------------------------------------------------
(* recover_interrupted_jobs, after a restart. *)

\* The active jobs are recovered; the fields of one that is over are cleared.
RecoverScans ==
  /\ rec.pc = "scan"
  /\ LET recovers == exists /\ IsActive(row) /\ target /\ (IsAwaiting(row) \/ ~aged)
         to == IF recovers
               THEN IF row.status = "running" /\ ~IsAwaiting(row) THEN "reset" ELSE "dispatch"
               ELSE IF exists /\ ~IsActive(row) /\ IsAwaiting(row) THEN "clear" ELSE "off"
     IN  rec' = IF to = "off" THEN RecOff ELSE [pc |-> to, snap |-> row, had |-> row.pay]
  /\ UNCHANGED <<world, queues, row, indexed, ex, cx, notified, breach>>

RecoverClears ==
  /\ rec.pc = "clear" /\ exists
  /\ Commit(rec.snap, Settle(rec.snap, rec.snap.status), FALSE)
  /\ rec' = RecOff
  /\ UNCHANGED <<world, queues, indexed, ex, cx, notified>>

\* update_job_status(pending) commits and refreshes; the payload read before
\* stays in a local variable.
RecoverResets ==
  /\ rec.pc = "reset" /\ exists
  /\ Commit(rec.snap, SetStatus(rec.snap, "pending"), FALSE)
  /\ rec' = [rec EXCEPT !.pc = "dispatch", !.snap = row']
  /\ UNCHANGED <<world, queues, indexed, ex, cx, notified>>

\* The dispatch goes out before the commit that drops the lease.
RecoverDispatches ==
  /\ rec.pc = "dispatch"
  /\ Dispatch(FALSE)
  /\ rec' = [rec EXCEPT !.pc = "commit"]
  /\ UNCHANGED <<world, row, indexed, ex, cx, notified, breach>>

RecoverCommits ==
  /\ rec.pc = "commit" /\ exists
  /\ IF rec.had.lease # "none"
     THEN /\ row' = Flush(row, rec.snap, [rec.snap EXCEPT !.pay = DropLease(rec.had)],
                          FALSE)
          /\ breach' = IF row' # row /\ (row # rec.snap \/ \E w \in Workers : Holding(w))
                       THEN Broken("recovery") ELSE breach
     ELSE UNCHANGED <<row, breach>>
  /\ rec' = RecOff
  /\ UNCHANGED <<world, queues, indexed, ex, cx, notified>>

RecoverRaises ==
  /\ rec.pc \in {"clear", "reset", "commit"} /\ ~exists
  /\ rec' = RecOff
  /\ UNCHANGED <<world, queues, row, indexed, ex, cx, notified, breach>>

-----------------------------------------------------------------------------
(* Time, and KnowFlow. *)

\* _EXEC_LEASE_SEC = 7200 without a renewal.  No Celery task lives that long
\* (task_time_limit = 3900) and a polling executor renews at every poll.
LeaseLapses ==
  /\ "lapse" \in Events
  /\ exists /\ LeaseIsActive(row)
  /\ \A w \in Workers : Holding(w) =>
       ex[w].seat = "pool" /\ ex[w].pc \notin {"nap", "poll", "booted", "renew"}
  /\ row' = Lapse(row)
  /\ ex'  = [w \in Workers |-> [ex[w] EXCEPT !.snap = Lapse(@)]]
  /\ cx'  = [cx EXCEPT !.snap = Lapse(@)]
  /\ rec' = [rec EXCEPT !.snap = Lapse(@)]
  /\ breach' = IF \E w \in Workers : Holding(w) THEN Broken("lapse") ELSE breach
  /\ UNCHANGED <<world, queues, indexed, notified>>

WatchOverruns ==
  /\ \/ exists /\ row.pay.watch = "fresh"
     \/ \E w \in Workers : ex[w].stage = "fresh"
  /\ row' = Overrun(row)
  /\ ex'  = [w \in Workers |-> [ex[w] EXCEPT
               !.snap = Overrun(@), !.stage = IF @ = "fresh" THEN "overdue" ELSE @]]
  /\ cx'  = [cx EXCEPT !.snap = Overrun(@)]
  /\ rec' = [rec EXCEPT !.snap = Overrun(@),
                        !.had.watch = IF @ = "fresh" THEN "overdue" ELSE @]
  /\ UNCHANGED <<world, queues, indexed, notified, breach>>

\* The wait of the full chain ends after knowledge_parse_initial_wait_sec,
\* that of the awaiting phase with knowledge_parse_max_wait_sec.
LoopEnds(w) ==
  /\ ex[w].pc \in {"nap", "poll", "booted", "renew"} /\ ~ex[w].due /\ ex[w].stage # "fresh"
  /\ ex' = [ex EXCEPT ![w].due = TRUE]
  /\ UNCHANGED <<Outside, pool, row, indexed, notified, breach>>

JobAges ==
  /\ Events \cap {"watchdog", "restart"} # {}    \* else nobody looks
  /\ exists /\ ~aged
  /\ aged' = TRUE
  /\ UNCHANGED <<mode, exists, target, kf, asks, faults, queues, row, indexed, ex, cx,
                 rec, notified, breach>>

KnowflowParses ==
  /\ \/ kf = "unparsed" /\ kf' = "parsing"
     \/ kf = "parsing" /\ kf' \in Verdicts
  /\ UNCHANGED <<mode, exists, target, aged, asks, faults, queues, row, indexed, ex, cx,
                 rec, notified, breach>>

-----------------------------------------------------------------------------
Wait(w) ==
  \/ PollOpens(w) \/ WaitEnds(w) \/ PollProgress(w) \/ Renew(w) \/ PollDone(w)
  \/ PollBacklog(w) \/ PollFailed(w) \/ PollBootstrap(w) \/ PollFailedOcr(w)

Sync(w) ==
  \/ SyncBlocked(w) \/ SyncFails(w) \/ SyncCompleted(w) \/ SyncSubmitted(w)
  \/ SyncSkipsDeepdoc(w)

After(w) ==
  \/ AfterParsed(w) \/ AfterError(w) \/ AfterUndone(w) \/ Defer(w) \/ Send(w)
  \/ Fail(w) \/ Finish(w) \/ FinishPipeline(w) \/ PageIndexEnds(w)

\* One step of the thread or process in slot w.
Step(w) ==
  \/ Begin(w) \/ Gone(w) \/ Route(w) \/ Start(w) \/ Sync(w) \/ Wait(w)
  \/ After(w) \/ Close(w) \/ End(w)

Recovery == RecoverScans \/ RecoverClears \/ RecoverResets \/ RecoverDispatches
            \/ RecoverCommits \/ RecoverRaises

Cancelling == (\E why \in Reasons : CancelLoads(why)) \/ CancelCommits
              \/ TargetDeleted \/ ClearJobs

Faults == \/ ApiRestarts \/ Redelivered
          \/ \E w \in Workers : WorkerLost(w) \/ SoftTimeLimit(w)

Time == LeaseLapses \/ WatchOverruns \/ JobAges \/ \E w \in Workers : LoopEnds(w)

Next ==
  \/ Enqueue \/ TimerFires \/ ResumeOrphan
  \/ \E w \in Workers : Pickup(w) \/ Step(w)
  \/ Cancelling \/ Recovery \/ Faults \/ Time \/ KnowflowParses

Spec == Init /\ [][Next]_vars

\* What goes on by itself: threads and processes run, queues are consumed, the
\* watchdog loop comes round, time passes.  Users, faults and KnowFlow's
\* verdict are not owed by anybody.
Fairness ==
  /\ \A w \in Workers : WF_vars(Step(w)) /\ WF_vars(LoopEnds(w))
  /\ WF_vars(\E w \in Workers : Pickup(w))
  /\ WF_vars(TimerFires) /\ WF_vars(ResumeOrphan) /\ WF_vars(Recovery)
  /\ WF_vars(CancelLoads("watchdog")) /\ WF_vars(CancelCommits)
  /\ WF_vars(TargetDeleted)
  /\ WF_vars(LeaseLapses) /\ WF_vars(WatchOverruns) /\ WF_vars(JobAges)

FairSpec == Spec /\ Fairness

\* The fair behaviours in which nothing ever weakens the lease:
\* FairSpec /\ [](breach = "none"), written for TLC.
FairUnbrokenSpec ==
  Init /\ [][Next /\ breach' = "none"]_vars /\ Fairness

-----------------------------------------------------------------------------
(* Properties. *)

OneHolder == \A v, w \in Workers : Holding(v) /\ Holding(w) => v = w

HolderIsLeased ==
  \A w \in Workers : Holding(w) /\ exists /\ IsActive(row) => LeaseIsActive(row)

\* The executors' invariant, while nothing has weakened the lease: at most one
\* slot is between try_begin_execution and its end_execution, and as long as
\* the job is active the lease in the row is live while that slot is busy, so
\* every further try_begin_execution is turned away.
ExclusiveLease == breach = "none" => OneHolder /\ HolderIsLeased

\* What makes it inductive: until its last word an executor's job is not done
\* or failed, and what four of the sessions loaded is what their guards saw.
RunningUnsettled ==
  \A w \in Workers : ex[w].pc \in Running /\ exists => row.status \notin {"done", "failed"}

SnapsAsSeen ==
  /\ \A w \in Workers : ex[w].pc = "begin" => IsActive(ex[w].snap)
  /\ \A w \in Workers : ex[w].pc = "defer" => ex[w].snap.status # "cancelled"
  /\ rec.pc = "reset" => IsActive(rec.snap)
  /\ rec.pc = "clear" => ~IsActive(rec.snap)

\* The inductive invariant behind ExclusiveLease: the lease of a busy slot, the
\* status its steps rely on, and the rows its sessions loaded, together.
LeaseInv ==
  /\ SnapsAsSeen
  /\ breach = "none" => OneHolder /\ HolderIsLeased /\ RunningUnsettled

\* _try_claim_index_job_terminal: one terminal transition, one notification,
\* and the job keeps that outcome, while nothing has weakened the lease.
ClaimedOnce ==
  breach = "none" =>
    /\ notified <= 1
    /\ notified = 1 /\ exists => row.status \in {"done", "failed"}

\* A version marked as indexed is parsed in KnowFlow, and a done job has marked
\* its version, while nothing has weakened the lease.
MarkMeansParsed ==
  breach = "none" /\ mode \in {"index", "reindex"} =>
    /\ indexed => kf = "done"
    /\ exists /\ target /\ row.status = "done" => indexed

\* Where TLC looks no further: nothing below says anything about what follows
\* a breach, but OneClaimInProcess, as long as there is no restart.
Unbroken      == breach = "none"
WorthPursuing == breach = "none" \/ (InProcess /\ faults = 0)

\* The job comes to rest: done, failed, cancelled, or deleted.
AtRest == ~exists \/ ~IsActive(row)

\* Whatever is lost on the way (a restart, a killed worker, a timer, a verdict
\* of KnowFlow), the job comes to rest for good: deferral, orphan resumption
\* and the watchdog leave no state of an active job uncovered.
Settles == <>[]AtRest

\* submit_background's name: one run of the job in the API process's pool at a
\* time, whatever happens to the lease.
OnePoolRun ==
  \A v, w \in Workers :
    ex[v].pc # "idle" /\ ex[w].pc # "idle" /\ ex[v].seat = "pool" /\ ex[w].seat = "pool"
      => v = w

\* The jobs that must run in the API process make one terminal transition, also
\* when the lease has lapsed or the subscription chain has cleared it before
\* PageIndex: while the process lives, a second run waits for the name.
OneClaimInProcess == InProcess /\ faults = 0 => notified <= 1

\* An index job is done only when KnowFlow has parsed the file, even when two
\* executors of it, of either kind, overwrite each other's row.
NeverDoneUnparsed ==
  mode = "index" /\ exists /\ row.status = "done" => kf = "done"

\* The cancellation is overwritten: by an executor that saw the job pending and
\* reports it running (the subscription chain also before PageIndex), by one
\* that makes a terminal transition, by the reset of the restart recovery.
OverwritesCancel ==
  \/ /\ row'.status = "running"
     /\ \E w \in Workers : ex[w].pc \in {"start", "poll", "booted", "defer", "finish"}
                           /\ ex[w].snap.status = "pending"
  \/ /\ row'.status \in {"done", "failed"}
     /\ \E w \in Workers : ex[w].pc \in {"sync", "finish", "failing", "pindex"}
                           /\ IsActive(ex[w].snap)
  \/ rec.pc = "reset" /\ rec.snap.status = "running"

\* While nothing has weakened the lease, a committed cancellation is undone only
\* by a session that loaded the job before it, as above.  The other progress
\* updates, the renewals and the deferral of a running job leave it alone.
CancelLosesOnlyTo ==
  [][breach = "none" /\ exists' /\ row.status = "cancelled" /\ row'.status # "cancelled" =>
       OverwritesCancel]_vars

-----------------------------------------------------------------------------
(* What the repository says of itself, and the code does not do. *)

\* document_index_coordinator.py: one job has at most one executor globally.
AtMostOneExecutor ==
  \A v, w \in Workers : ex[v].pc \in Running /\ ex[w].pc \in Running => v = w
=============================================================================
