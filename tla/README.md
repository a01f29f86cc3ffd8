# A TLA+ development of benxi's jobs and agent turns

Benxi is a document platform: a FastAPI server with a Vue client, PostgreSQL,
Redis, Celery workers, and KnowFlow (a RAGFlow server) that parses and indexes
files; an assistant answers questions with tools and specialist agents.  This
directory holds TLA+ modules that model its background jobs, its timed work and
the control of an assistant's turn, configurations that TLC checks, and proofs
that TLAPS checks.

Paths are relative to `src/backend/app/` unless they begin with `src/`.  Short
names: KSJ `services/knowledge_sync_job_service.py`, DIC
`services/document_index_coordinator.py`, JS `services/job_service.py`, BJD
`services/background_job_dispatch.py`, WD `services/job_watchdog_service.py`,
BE `core/background_executor.py`, LIFE `services/documents/lifecycle.py`, CEL
`src/backend/workers/celery_app.py`, ATL `services/agent_tool_loop.py`, SUP
`services/agent_supervisor.py`, CPT `services/ai_chat_checkpoint.py`, HIS
`core/agent_interrupt_store.py`, NS `services/notification_service.py`, AS
`services/agent_automation_service.py`.

## 1. Inventory

Most of the 135 000 lines of Python are request handlers around retrieval,
language models and external services.  What the platform itself has to get
right under concurrency and failure is concentrated in three places: the
background jobs, the work done at a time the user has chosen, and the turns of
the assistant, which stop for questions, fan out to specialists and are resumed.

| component | state it keeps | operations | with whom | what makes it correct |
|---|---|---|---|---|
| index execution chain (KSJ) | row of `jobs` (status, payload), version link mark | create, reuse, run, wait, defer, fail, finish, cancel | coordinator, dispatch, KnowFlow, notifications | one executor, one outcome, one active job per version, a done job is parsed, every job ends |
| index coordinator (DIC) | lease and phase fields in `payload`, recovery lock in Redis | begin / renew / end execution, recover, resume orphans | chain, dispatch, start-up, watchdog loop | the lease excludes; a restart loses no job |
| job records and watchdog (JS, WD) | `jobs` | create, update, cancel, clear, cancel stale | every job type | a cancellation lasts; what hangs is cancelled, what waits legitimately is not |
| dispatch (BJD, BE, CEL) | Celery queue, thread pool, `_inflight` names, timers | dispatch, submit, shutdown | chain, coordinator, notifications | no job runs twice in one pool; a name is always freed |
| document deletion (LIFE) | documents, versions, jobs | stop index work, purge | chain | nothing is marked or finished for a deleted target |
| version links (`ragflow_version_link_service.py`) | `index_completed_at` per version | mark, clear | chain, retrieval | marked means parsed |
| scheduled notifications (NS) | `scheduled_notifications` | schedule, cancel, deliver, recover | dispatch | delivered once, not after a cancellation, never stranded |
| automations (AS, `agent_automation_poller.py`) | `agent_automations`, runs | create, edit, delete, run, poll | assistant | run once each time it falls due |
| task DAG (`agent/orchestrate/`, `agent_task_dag_planner.py`) | node states | plan, run a wave, propagate failure, answer | specialist hops | a node runs after its dependencies; all end; the answer has what was found |
| supervisor and tool loop (SUP, ATL, `ai_chat_service.py`) | one turn: round, pass, nudges, evidence, SSE stream | route, hop, call, nudge, replan, hand back | language model, tools, client | every turn ends, with one answer |
| human in the loop, checkpoints (`core/agent_interrupt_store.py`, CPT, `api/ai_chat.py`) | Redis: checkpoints, requests and answers with a TTL | ask, poll, suspend, answer, resume, expire | tool loop, client | a suspended turn can be resumed; a tool runs only if accepted |
| stream cancellation (`core/stream_cancel.py`) | an event per stream | set, look | every stream | a stream ends when its client has gone |
| parse guard and queue watchdog (`knowflow_parse_guard.py`, `knowflow_queue_watchdog_service.py`) | KnowFlow's task table | check and submit, reset the queue | chain, KnowFlow | no double parse, no reset of live work |
| KG sync, after-commit callbacks | `jobs`, callbacks per session | enqueue, run | Neo4j, notifications | dispatched only once visible; notified as it ended |
| subscription import | `jobs`, document, file | import, create the pipeline job | chain | one index job per import |
| circuit breaker, DB slots | failure count, cooldown, semaphores | admit, record | every DB access | closes after success, opens after failures |
| AIP bus, caches, auth, captcha | lists and TTL entries, token version | read, fill, invalidate | handlers | no stale grant |
| documents, permissions, KnowFlow mirroring, translation, AutoML, RPA, QA, reports, KG/ontology, frontend | database rows, external services | CRUD, calls | | not concurrency problems of their own |

How they interact.  A request creates a row in `jobs` and calls
`dispatch_document_index_job`, which hands the job id to Celery or, when the
broker refuses or the mode must run in the API process, to a thread pool.
Whoever serves it runs `run_document_knowledge_index_job` with database sessions
of its own; executors, requests, cancellers, the watchdog and the start-up
recovery never talk to each other except through the rows, which are read into a
session, worked on, and written back.  KnowFlow is polled.  Scheduled
notifications use the same dispatch; automations run the assistant from a
polling loop in the API process.

A chat turn is one SSE stream.  The supervisor plans a route: a direct answer, a
task DAG of specialist hops, a single specialist in single steps, or the
orchestrator's tool loop.  The loop may stop at a tool that needs the user's
confirmation or a choice: it writes a checkpoint and a request to Redis, polls
for 30 s and ends as *suspended*; `POST /checkpoints/{id}/resume` opens another
stream that writes the answer and goes on from the checkpoint.

Hard behaviours: sessions work on what they loaded (the identity map also under
`SELECT .. FOR UPDATE`); `payload` is one JSONB column and is replaced as a
whole, so lease, phase and patience can overwrite one another; dispatches are
duplicated, lost, early or late; processes restart between any two commits; a
task can wait for hours; two streams work on one checkpoint; the language model
decides when a loop ends.  The hazards are listed one by one, each at its line,
in `PROJECT.json`; those without a property say why.

## 2. Modules

| module | what it is |
|---|---|
| `JobRow` | one row as the code sees it: status, payload (phase, lease, watch), the payload functions of DIC, `update_job_status`, the terminal claim, and `Flush`, the rule by which a session's commit meets a row that has changed since it was loaded |
| `IndexJob` | the life of one `document_index` job: executors, queues, cancellers, deletes, faults, recovery, time, KnowFlow |
| `JobLock`, `IndexJobLock` | what lease and terminal claim promise together, an abstract lock with an owner and one settlement; the refinement mapping from `IndexJob` |
| `IndexRequests` | the several jobs of one version, and the requests (forced, reusing, re-index) that create, reuse and cancel them; built on `JobRow` |
| `ToolLoop` | the orchestrator's tool loop, its questions, its checkpoints and the resumed streams |
| `Supervisor` | a chat turn: route, specialist steps, hand-back, the complete event and the end of the stream; extends `ToolLoop`, whose stream `Turn` is the orchestrator's hop |
| `TaskOrder` | the abstract promise of a task graph: what may start, and what a failure stops |
| `TaskDag` | the plan's check and the wave scheduler |
| `ScheduledNotice` | one scheduled notification with its carriers, deliveries, cancellation and recovery |
| `Automation` | one automation with its owner, the poller and its executions |
| `TimedWork` | the two in one API process, whose restart takes both along |
| `MC*` | bounds, symmetry and constraints for TLC; `MCTaskDag` also compares the code's depth-first cycle search with the definition of an acyclic graph, for every graph of the instance (an `ASSUME` that TLC evaluates) |
| `IndexJobProofs`, `IndexJobClaimProofs`, `IndexJobLockProofs`, `IndexRequestsProofs`, `ToolLoopProofs`, `SupervisorProofs`, `TaskDagProofs`, `TimedWorkProofs` | theorems and proofs |

Operators whose comment begins with "Mutant of" are not part of any
specification: each is a plausible bug in the definition named, and replacing
that definition by it makes TLC refute the property it is paired with in
`PROJECT.json`.

### Index jobs: state and code

| variable of `IndexJob` | in the program |
|---|---|
| `exists`, `row` | the row in `jobs`: status; `payload.index_phase`, `exec_lease_until` (absent, in the future, in the past), `parse_watch_started_at` (absent, younger or older than the overall patience) |
| `mode` | `payload.mode` and the PageIndex parser |
| `target`, `indexed` | document and version are there; `index_completed_at` of the version link |
| `kf` | the file in KnowFlow and its run status |
| `aged` | the job is past `background_job_stale_minutes` |
| `celery`, `timers`, `pool` | messages in the broker, `threading.Timer`s, the job's name in `_inflight` |
| `ex[w]` | an executor slot (a Celery child or a pool thread): where it stands in the chain, whether it runs the full chain or the awaiting phase, whether its wait is over, and the row its open session loaded |
| `cx`, `rec` | the request or watchdog that is cancelling; the recovery after the last restart |
| `notified`, `breach` | history: terminal claims made; what first weakened the lease |

A step goes from one point where another process can come in to the next.  A
session that loads the row in one step and commits it in another keeps the loaded
row in `snap`; `Commit` applies JobRow's `Flush`: a column is written only if the
session changed it, `payload` as a whole.  A function that reloads on an expired
session and commits at once (`update_job_status` after a commit) is one step.

The chain: `Pickup` (load), `Begin` (`try_begin_execution`, on the loaded row),
`Route` (phase), `Start` (progress 8, 18, 32), `Sync*` (what the upload and parse
submission lead to), `PollOpens` and `Poll*` / `Renew` / `WaitEnds`
(`_wait_for_parse`, one session per poll), `After*` (the new session after the
wait), `Defer` and `Send` (into the awaiting phase and the delayed dispatch),
`Fail`, `Finish`, `FinishPipeline`, `PageIndexEnds`, `Close` and `End` (the
finally block), `Gone` (the row was deleted under the executor).  Around it:
`Enqueue`, `TimerFires`, `ResumeOrphan`, `CancelLoads` / `CancelCommits` /
`TargetDeleted` / `ClearJobs`, the faults `ApiRestarts`, `Redelivered`,
`WorkerLost`, `SoftTimeLimit`, the recovery `Recover*`, time `LeaseLapses`,
`WatchOverruns`, `LoopEnds`, `JobAges`, and `KnowflowParses`.

**The breach history.**  The lease of this code is not exclusive in every
behaviour, and a model in which it were would not be this program.  The model
takes every step the code can take, and `breach` records the first step that
weakens the lease: `stale_begin` (`try_begin_execution` decides on a row that has
changed since), `stale_write` (a commit changes a row that is no longer the one
loaded), `lapse`, `recovery` (the restart recovery drops a lease that is
somebody's), `early_clear` (the subscription chain clears the lease before
PageIndex).  `ExclusiveLease`, `ClaimedOnce`, `MarkMeansParsed`,
`CancelLosesOnlyTo` and `ImplementsLock` say what holds up to the first breach,
and the list of causes is part of the claim: there is no other way to lose
exclusivity.  `OnePoolRun`, `NeverDoneUnparsed`, `OneClaimInProcess` and `Settles`
in `settles_alone` hold without any such assumption.

**Several jobs (`IndexRequests`).**  `table` is the rows of one version in the
order of their creation, `run[j]` the executor of a job cut down to its writes,
`req[r]` a request: what its session has read and holds (`held`), which rows it
has changed and not yet written (`dirty`), which it saw when it last looked
(`known`).  Find, select, each turn of the cancelling loop, creation and
dispatch are steps of their own, because each commits or ends a read.
`causes` is the history here: `overlap` (two requests looked before either
created, KSJ 1874), `revived` (a session made a settled job active again with the
status it had read: an executor that starts a job cancelled meanwhile, or the
recovery loop, DIC 295, which may take even a done job back), `given_up` (a
re-index that has cancelled and then creates nothing, KSJ 2078).  `done` stands
for `failed` too; double executors and the deaths of executors are IndexJob's
subject.  The recovery loop visits the jobs in the order of creation.

### Agent turns: state and code

| variable | in the program |
|---|---|
| `pc`, `loop` of `ToolLoop` | where a stream is in `_iter_agent_tool_loop_body` or `iter_resumed_agent_stream`; its pass, round, nudges, whether it has evidence, whether a confirmation has been given, and the calls left of the current batch |
| `at`, `src` | the question a stream polls; the checkpoint and answer of a resume |
| `ckpt`, `request`, `response` | Redis: the checkpoint's phase, the request's fields, the answer's field |
| `told`, `said`, `ran`, `used` | history: suspensions told that no resume has finished, answers given, tools started, ids generated |
| `orphaned`, `undeleted` | history: questions whose stream stopped waiting and told nobody; questions whose checkpoint is left because its DEL failed |
| `hop`, `spec` of `Supervisor` | the supervisor's position; the specialist's round, nudges, evidence |
| `completes`, `shown`, `paused`, `closed` | what `iter_chat_with_ai_agent_stream` has consumed and told the client |
| `deps`, `status`, `error` of `TaskDag` | the fields of the `TaskNode`s |
| `got` | what a node's hop came back with: an answer, an apology, evidence without a reply, nothing |
| `waves`, `where`, `final` | `safety` of the scheduler, its position, the reply |

What the language model answers, what a tool or a plan returns and whether Redis
serves a call are choices: a save that reports a failure may have stored or not, a
failed read is no answer, and a DEL that fails is ignored, as the callers of
`clear` do (ATL 2116-2117, CPT 201-203), the checkpoint's and the request's each
for itself (`Clears`).  The message list is not modelled.  The automatic
execution of an uploaded skill at the end of a pass (ATL 2689) is folded into the
end of the pass: it can add evidence, and without it the model only allows more
nudges.

### Timed work: state and code

`row` is the notification's `sent_at` and `cancelled_at`, `when` how far off
`scheduled_at` is by the database's clock, `msgs`, `timers`, `pool` the carriers,
`del[d]` a delivery between its two commits, `asker` and `cx` the request that
schedules and the one that cancels, `rec` a recovery that is still to run, `lost`
the history that a fault took a carrier and no recovery has seen to it (none does
once the row is 30 days overdue, NS 380).  A worker's clock
may be ahead, so a message may come early; a Timer runs on the clock of its own
process.  `auto` is the automation's row, `hand` what the poller and a request are
doing, with the row their session read.  History: `instants` counts the times the
automation fell due, `polled` those the poller started, `taken` those that an edit,
a run by hand or the end took away before it did; `moved` says that one of these
came between the poller's list and the commit of its start.

### Abstractions

- Progress percentages, messages, events and notification texts are left out;
  a write that changes only such a field of `payload` is a *touched* write, which
  replaces the column all the same.
- The extension of the wait while progress is seen (KSJ 863-875) is folded into
  the poll that follows it; `_maybe_retry_parse_failure` (KSJ 777-812) is not
  called by the wait and not modelled.
- The parse guard's answers are the choice whether a parse is submitted; its
  answer `state_unknown` is modelled only for a file that is not parsed yet.
- An `index` job may find the file absent, unparsed or being parsed; files already
  failed or done before the job's first run are left to the resumed runs of the
  same job, which meet them.  What the reuse of another version's file brings
  (`FileLinked`) may be parsed already; that other version's later re-index, which
  parses the shared file again, is not modelled.
- A job is never without its version link once the file is in KnowFlow: the branch
  of KSJ 1659 for a missing dataset or file id, which ends the run without a wait
  (KSJ 1759), is left out.
- Whether a job is stale or its document gone is, in the recovery loop of
  `IndexRequests`, the choice to pass the job over (`IndexJob` has both conditions).
- The calendar of an automation is the choice whether there is a next run, now or
  later, within `ends_at`.
- Dispatches that are pending in one queue beyond the bound merge.
- One canceller at a time, one recovery at a time, one API process.
- A version deleted and its document deleted are one action with two outcomes.
- The endpoints `/tools/{id}/confirm` and `/choose` raise `ImportError` before
  they do anything, so answers come through the resume endpoint only.
- No hop under `src/` ends in a complete event with a `needs_assist` hand-off, so
  that branch of the supervisor is not modelled.

## 3. Runs

`CHECK_DEADLOCK FALSE` everywhere: a job, a turn or a notification that is over
is a state in which the system rightly stops.

| run | configuration | question | distinct states |
|---|---|---|---|
| `lease_celery` | 2 Celery children; index and re-index; cancel, clear, delete, redelivery, lost worker, soft limit | type invariant, the inductive invariant, exclusivity, one outcome, true mark, lasting cancellation | 144 000 |
| `lease_pool` | 2 pool threads; index, subscription chain, PageIndex; cancel, watchdog, restart with recovery, lapse, delete | exclusivity, lasting cancellation, one claim in process | 1.8 million |
| `overwritten` | Celery and pool, no faults, lease not assumed to hold | never done unparsed, one run in the pool | 1.3 million |
| `settles_two` | 2 Celery children, fairness; watchdog, lapse, lost worker, delete, clear | every job comes to rest; `IndexJob` implements `JobLock`, lease unbroken | 123 000 |
| `settles_alone` | 1 pool thread, fairness; watchdog, lapse, restart, OCR failure | every job comes to rest, nothing assumed of the lease | 371 000 |
| `index_requests` | 2 requests of three kinds, 3 jobs, one fault | one active job, the newest stands, no ghost but the named ones | 2.4 million |
| `ask_user` | a turn and 2 resumes, 2 questions, one crash | suspended turns wait, tools run only if accepted, no checkpoint left without a reason, no second run but for the named causes | 849 000 |
| `chat_turn` | a turn with 2 rounds, 2 passes, a nudge, 2 supervisor rounds, a resume, one crash; fairness | every turn and stream ends, one answer | 90 000 |
| `task_dag` | every plan of 4 tasks (unknown ids and cycles included), 2 at a time; fairness | order, limit, failure propagation, termination, refinement of `TaskOrder` | 311 000 |
| `timed_work` | 2 deliveries, 2 carriers of a kind, 2 faults, 2 instants, 2 edits; fairness | carried, sent once, cancellation final, delivered, no instant run twice or missed | 138 000 |
| `two_executors` | 2 Celery children, two dispatches | violated: two executors | |
| `evidence_lost` | plans of 3 tasks | violated: a task's evidence is not used | |

**Bounds.**  Two executor slots are enough for every exclusion and overwrite
question: each property relates two actors, and a third executor can only be
turned away or overwrite as the second does (the theorems hold for any number).
`MaxQueue = 1` (2 where two dispatches must be pending at once): a dispatch that
merges with a pending one is served later than it would have been, which the
queue allows anyway.  `MaxAsks = 1` is the request that creates the job (2 where
another one has to come in while the job runs); further dispatches come from
timers, deferrals, recoveries, redelivery and orphan resumption without bound.
`MaxFaults = 1`: one restart, loss, redelivery or limit per behaviour, at every
point of it.  Lapses, ageing, polls, deferrals and resumptions are not bounded.
In `index_requests` two requests beside the job of the upload give every pair of
kinds; three rows are all they can create.  In `ask_user` two resumes of one
question race each other and the polling stream, and a batch with two questions
makes one wait behind the other; in `chat_turn` two rounds, passes and supervisor
rounds let every counter both go on and run out.  `task_dag` takes four tasks, the
planner's default limit, at a width of two, so that waves are cut off, chains and
diamonds occur and a failure travels two generations.  In `timed_work` two faults
let a second recovery meet what the first left behind; two instants let a stale
list meet the next one.

**Constraints and symmetry.**  `lease_celery` stops behind a breach, `lease_pool`
behind one unless the job runs in the process, `index_requests` once a cause is on
record or all requests are answered: their properties say nothing there (the step
that breaches is checked itself).  Slots, requests, resumes and questions are
interchangeable in every constant and action; symmetry is used for safety only.

**Fairness.**  Index jobs: weak fairness of every executor's steps and its wait's
deadline, some slot picking up what is queued, timers, the orphan resumption and
the watchdog's cancellation (both in a loop with a fixed interval, WD), the commit
of a cancellation and of a delete that have begun, the recovery, and the passage
of time (`LeaseLapses`, `WatchOverruns`, `JobAges`).  Nothing is owed by users,
faults, or KnowFlow: it may never give a verdict, and `Settles` holds all the
same.  A thread that hangs for ever inside a library is outside this fairness.
`settles_two` uses `FairUnbrokenSpec`, the fair behaviours without a breach: two
executors that keep overwriting each other's payload can put one another back
into the awaiting phase for ever.  Agent turns: every stream takes its next step
(calls to the model, tools and polls all have timeouts) and the supervisor's
generator is read; nothing is owed by the user or by a resume.  Timed work: the
clock moves, timers fire, queues are consumed, a delivery at work goes on and a
recovery that has been started runs.

## 4. Findings

Each is a run that TLC refutes, quoted in `PROJECT.json`:

- **Two executors** (`two_executors`).  DIC 4 promises at most one executor by row
  lock and lease; the locked row is the object `db.get` loaded before the lock (KSJ
  1418, DIC 93), so two runs can both begin.  Both then make the terminal
  transition and both notify, which KSJ 213 says only one can.
- **Evidence lost in a task graph** (`evidence_lost`).  ATL 2840 and 3012 say that a
  specialist with evidence hands it to the parent, who writes the answer.  A node
  of the task DAG whose step called tools comes back without a reply (ATL 3184),
  counts as failed (`agent/orchestrate/scheduler.py` 132), blocks what depends on
  it, and what its tools found is not among the results of the final reply.

Known limits, met while modelling and present in the models, each without a run
of its own:

- The recovery dispatches (DIC 310) before it commits the removal of the old lease
  (DIC 333), although DIC 303 wants it the other way round; a run served in
  between is turned away and the job is left to the orphan resumption or the
  watchdog.
- `_maybe_fallback_plain_text_parse` uses a name it does not import (KSJ 425), so
  the documented retries after an OCR failure never happen; the full chain then
  fails in its handlers too and leaves a running job to the watchdog.
- A Celery executor that waits is stopped after an hour by the soft time limit (CEL
  29) although awaiting jobs may wait for hours (DIC 274, WD 42).
- After a suspension in the supervisor's rounds the safety net (SUP 847-857) still
  sends an error text, although `services/ai_chat_service.py` 811 says a pause is
  no error; `Supervisor` has `shown = "error"` there with `closed = "suspended"`.
- A resumed choice is answered with "用户已拒绝此操作" (CPT 121), for only a
  confirmation sets `accepted`.  A rejected call, and the rest of its batch after a
  resume, leave the language model without a tool message.
- A confirmation given in time is followed by the parent loop's refusal of the
  tool; specialists run their tools without asking.
- The checkpoint saved between rounds is not cleared by a turn that completes; it
  stays until it expires.
- An answer written after the polling stream has cleared the key makes the key
  anew, without a TTL.
- Two concurrent resumes run the confirmed tool twice, and so does a resume after a
  crash in the tool, or after one whose DEL of the checkpoint failed (CPT 201, HIS
  109: the failure is logged and its `False` ignored); `RunsAgainOnlyBeside` says
  that nothing else does.
- The hop of an automatically created skill gives no complete event: the turn ends
  as an error (`closed = "error"`).
- A notification whose carrier is lost and that no restart recovers within 30 days
  is never delivered.
- `create_notification` commits before `sent_at` is set; `execute_automation` does
  not look at `next_run_at` again; runs cut off by a restart stay `running`, and a
  `once` automation cut off is not repeated.

## 5. Proofs

Every invariant and every action property of the passing runs is a theorem, for
every value of the constants that meets the named assumptions.  These say little
more than that bounds are numbers and that model values of different kinds differ:

- `IndexJob`: modes, routes, verdicts and events are some of those the code has;
  a dispatch can be pending (`MaxQueue > 0`).
- `IndexRequests`: the table has room for the job of the upload and one of each
  request (`MaxJobs > Cardinality(Requests)`: a request creates one at most), so
  that with finitely many requests the bound never stops one.
- `ToolLoop`, `Supervisor`: `agent_max_tool_rounds` and the like are at least 1,
  batches are sequences of calls, streams and questions are not mistaken for one
  another.
- `TaskDag`: at least one node, at least one at a time.  `TimedWork`: at least one
  carrier and one instant.

**`IndexJobProofs`**: `TypeCorrect`, `LeaseInvHolds`, `LeaseHolds`.
`ExclusiveLease` (one holder; its active job shows a live lease) is not inductive.
A second executor is turned away only if the lease its session *loaded* is live,
so `Begin` needs the loaded row to be the present one, or a breach; and the
holder's lease survives other commits only if what they loaded, and what their
guards saw, is known.  `LeaseInv` adds this: `SnapsAsSeen` (the rows held by
`Begin`, `Defer` and the recovery's reset have the status their guards required)
and `RunningUnsettled` (a job whose executor is under way is not done or failed,
so a stale load cannot bring it back to life without its lease).  One lemma per
action or family of actions shows `Kept`, on top of lemmas about `JobRow`'s
operators and the few shapes of an executor's step.

**`IndexJobClaimProofs`**: the outcome, on top of the lease.  What a step may do
at all is said once: `SlotFlow` (which row an executor has after its step, how it
comes to think the file parsed, what it does to the mark, the file and the pool),
`StepStatus` (what it makes of the status and of the claim), the `Aside` lemmas
for everybody else.  The theorems are then short:

- `ClaimsOnce`: a claim is made by an executor under way, whose job
  `RunningUnsettled` says is unsettled; a settled job has none.
- `SnapsUnsettled` and `CancelsHold`: until a breach no executor works on a row it
  saw done or failed, and none finishes one it saw cancelled (`SnapInv`); so the row
  of whoever undoes a cancellation was loaded while the job was active.
- `MarksAreTrue`, `DoneMeansParsed`: executors past the wait know the file parsed
  (`MarkInv`, with the lease; `DoneInv`, for a first index, without it, because
  there nobody submits a parsed file again).
- `PoolRunsOne`, `ProcessClaimsOnce`: whoever runs in the pool holds the name
  (`PoolInv`); where a job runs only there, the lease is not needed for one claim
  (`InProcessInv`).  This excludes restarts: the recovery's reset, made on a row
  it loaded before the job ended, can put a finished job back to pending.

**`IndexJobLockProofs`**: `LockRefined`.  A behaviour of `IndexJob` in which
nothing weakens the lease is a behaviour of `JobLock`'s safety part: the owner is
the slot that holds the job, `Begin` takes, the finally block returns, the claim
settles, and every other step stutters.  The fairness of `JobLock` (what is taken
is returned) stays with TLC.

**`IndexRequestsProofs`**: `Shaped`, `OneIsActive`, `LastWordStands`,
`GhostsPutBack`.  `Shape` is the type invariant with what it takes to be kept: the
rows a session holds are rows of jobs that were made, and a job not made has no
executor.  `OneActive` needs `OnlyInv`: the jobs a request has looked through
before it creates are settled (`LooksThrough`), and what it holds as settled is
settled still (`HoldsSettled`), unless one of the two causes is on record.
`NewestStands` needs that before the first fault only requests cancel, and go on
to create (`StandInv`).  `GhostOnlyFrom` needs `SeenInv`: what an executor that
begins or defers had seen of its job.

**`ToolLoopProofs`**: `LoopTyped`, `SuspensionsWait`, `ConsentComesFirst`,
`AnswersClear`, `SecondRunsOverlap`.  `HitlInv` is the invariant of all of them; it
says that a stream that polls polls the question of the call it has come to
(`PollInv`), that keys in Redis belong to questions asked and answers to users
(`KeyInv`), that a resume past its second load has an answer to go by
(`SourceInv`), that the keys of a question polled or left to a resume stay until
the user answers (`WaitInv`), that no other checkpoint stays but those of a stream
lost without telling or of a failed DEL (`AnsweredIsCleared` itself), and that a
tool was started with consent and its checkpoint outlives its last resume only by
a crash or a failed DEL (`RunInv`).

**`SupervisorProofs`**: `TurnTyped`, `AnswersOnce`, `TurnKeepsKeys`.  `TurnInv` is
`LoopInv` with `ShownInv` (before its tail the turn has shown nothing) and
`HopInv` (before the orchestrator's hop the loop has not begun).  A hop into the
loop keeps `LoopInv` although it is no step of the loop's own specification, so
what `ToolLoopProofs` proves of questions holds within a turn.

**`TaskDagProofs`**: `DagTypeCorrect`, `SchedulerNeverGivesUp`, `UpstreamIsDone`,
`LimitKept`, `FailuresBlockExactly`, `SchedulerImplementsOrder`.  `DagInv` says
what each status means for error, result and dependencies, where the scheduler
may be, and that the rounds of its loop are counted by the nodes it has settled
(`Progress`).  The graph is never stuck because an acyclic set of pending nodes
has one whose dependencies are all settled: it can start, or a failed one blocks
it; and `Progress` with a cardinality argument shows that `Count + 2` rounds are
enough, so both exits the code calls impossible are.  The refinement follows
step by step from `DagInv`.

**`TimedWorkProofs`**: `NoticeIsCarried`, `CancellationIsFinal`,
`NoticeIsSentOnce`, `RunsOncePerInstant`, `TimedTyped`.  `Carried` is inductive with
the shape of the variables.  `SentOnce` takes two invariants: `Lone` (without a
fault there is exactly one carrier once the request has dispatched, so no two
deliveries meet) and `Counted` (as long as no cause is on record at most one
delivery holds the row, and a notification has been sent only if `sent_at` or that
delivery shows it).  `OncePerInstant` needs `InstantsInv`: an automation that is
due or in the poller's hand has been started strictly less often than it fell
due, and each instant is started, taken or still due.  The bounds within the type
invariant take `SeatInv` (a name is running as long as exactly one delivery has
it) and `OpenInv` (a run recorded as running was started by the poller or asked for
by hand).

**What the proofs changed in the models.**  Two properties did not say what the
code does.  `GhostOnlyFrom` held in the run's one fault and fails with two: a claim that
had read a payload without an awaiting phase, on a job the recovery revived,
writes the payload of its session back; `PutBack` now names that step.
`OncePerInstant` was stated under a condition it does not need; it now holds
without one, and says besides that no instant is missed unless something came
between the poller's list and its commit.  That the bound on rows of
`IndexRequests` never stops a request became an assumption.

**Only model-checked.**  Liveness, which is out of the prover's reach: `Settles`,
`TurnCloses`, `EveryStreamEnds`, `TurnAnswered`, `Delivered`, and the fairness in
`ImplementsLock`.  That the recursive search `HasCycle` finds the cycles of a
graph is checked for the instance only: what a recursive operator computes is not
provable here.  The two runs that expect a violation are counterexamples, and need
no proof.

## 6. Not modelled

The models cover a few per cent of the lines of the repository: the part in which
processes, sessions and streams meet.  The rest is, by component:

- *External rules*: the parse guard and queue watchdog read and reset KnowFlow's own
  tables, PageIndex is a library, KnowFlow mirroring, the knowledge graph and the
  semantic layer are calls to services.  What these decide depends on tables and
  answers of services whose code is not in the repository, and a model of those
  services would be a guess.  One race is visible: `should_submit_parse` reads
  those tables (`services/knowflow_parse_guard.py` 311) and the submission follows
  later, so two submitters may both find nothing queued.
- *Small state under one lock*: the circuit breaker, the AIP bus, the caches with
  their TTLs, stream cancellation beyond its effect.
- *Single transactions*: documents, folders, permissions, subscriptions, sessions
  and captcha.
- *Sequential work around a model or an external process*: prompts, tools, skills,
  knowledge QA, reports, finance and carbon features, translation, AutoML, RPA.
- KG sync jobs have no lease and make no attempt to prevent the two races listed
  in the hazards; a property could only restate the missing check.
- The calendar of `compute_next_run_at`, the progress algorithm, the inbox and the
  listings are data without control.
