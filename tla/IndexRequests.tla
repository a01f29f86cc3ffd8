--------------------------- MODULE IndexRequests ---------------------------
(***************************************************************************)
(* The document_index jobs of ONE document version, and the requests that  *)
(* create, reuse and cancel them: "sync now", the upload that is already   *)
(* indexed, the subscription import and the re-index, each with a session  *)
(* of its own.  IndexJob follows one job and its executors in full; here   *)
(* the executor of a job (the one that got the lease) is cut down to its   *)
(* writes to the row, and the point is what several jobs of a version do   *)
(* to each other.                                                          *)
(*                                                                         *)
(* A session keeps the rows it has read (`held`) until it commits, then it *)
(* reads anew; JobRow's Flush says what a commit writes.                   *)
(***************************************************************************)
EXTENDS JobRow, Naturals, Sequences, FiniteSets, FiniteSetsExt, Functions, TLC

CONSTANTS
  Requests,  \* the requests about this version
  Kinds,     \* what they may ask for
  MaxJobs,   \* BOUND: rows of the version in the jobs table
  MaxFaults  \* BOUND: lost executors, restarts and users' cancellations

ASSUME KindsAssumption == Kinds \subseteq {"force", "reuse", "reindex"}
ASSUME BoundsAssumption ==
  MaxJobs \in Nat \ {0} /\ MaxJobs > Cardinality(Requests) /\ MaxFaults \in Nat

VARIABLES
  table,   \* the rows, in the order of their creation
  queued,  \* the jobs a dispatch is pending for
  run,     \* the executor of each job
  req,     \* the requests
  cx,      \* cancel_document_index_job of a user
  rec,     \* recover_interrupted_jobs of a restarted API process
  faults,
  causes   \* HISTORY: how a second active job, or a lost one, came about

vars == <<table, queued, run, req, cx, rec, faults, causes>>

Jobs == 1 .. MaxJobs
Made == DOMAIN table
New  == [status |-> "pending", pay |-> EmptyPayload]

\* Rows a session holds: a function from some of the jobs.
Nothing     == <<>>
Only(j, v)  == [i \in {j} |-> v]
Seen(held, j) == IF j \in DOMAIN held THEN held[j] ELSE table[j]

IdleRun == [pc |-> "off", snap |-> New]
IdleReq == [pc |-> "idle", kind |-> "none", held |-> Nothing, todo |-> {},
            dirty |-> {}, known |-> {}, job |-> 0]
NoCx    == [job |-> 0, snap |-> New]
NoRec   == [pc |-> "off", held |-> Nothing, todo |-> {}, had |-> Nothing]

TypeOK ==
  /\ table \in Seq(Row) /\ Len(table) <= MaxJobs
  /\ queued \subseteq Made
  /\ \A j \in Jobs :
       /\ run[j].pc \in {"off", "begin", "start", "work", "settle", "defer",
                         "close"}
       /\ run[j].snap \in Row
       /\ j \notin Made => run[j] = IdleRun
  /\ \A r \in Requests :
       /\ req[r].pc \in {"idle", "select", "cancel", "create", "dispatch", "done", "refused"}
       /\ req[r].kind \in Kinds \cup {"none"}
       /\ DOMAIN req[r].held \subseteq Made /\ Range(req[r].held) \subseteq Row
       /\ req[r].todo \cup req[r].dirty \cup req[r].known \subseteq Made
       /\ req[r].job \in {0} \cup Made
       \* Whoever answers has a job to answer with, and the rest have none.
       /\ req[r].job # 0 <=> req[r].pc = "dispatch"
  /\ cx.job \in {0} \cup Made /\ cx.snap \in Row
  /\ rec.pc \in {"off", "scan", "loop"} /\ rec.todo \subseteq Made
  /\ faults \in 0 .. MaxFaults
  /\ causes \subseteq {"overlap", "revived", "given_up"}

\* The version's first job has been created and dispatched by its upload.
Init ==
  /\ table = <<New>> /\ queued = {1}
  /\ run = [j \in Jobs |-> IdleRun]
  /\ req = [r \in Requests |-> IdleReq]
  /\ cx = NoCx /\ rec = NoRec
  /\ faults = 0 /\ causes = {}

-----------------------------------------------------------------------------
(* Commits. *)

\* The rows after a commit; a settled job it makes active again is on record.
Write(rows) ==
  /\ table' = rows
  /\ causes' = IF \E j \in Made : ~IsActive(table[j]) /\ IsActive(rows[j])
               THEN causes \cup {"revived"} ELSE causes

Commit(j, old, new, touched) == Write([table EXCEPT ![j] = Flush(@, old, new, touched)])

\* The payloads a cancelling request has cleared on rows it does not cancel:
\* assigned to the objects, written with the session's next commit.
Cleared(dirty) ==
  [j \in Made |-> IF j \in dirty THEN Settle(table[j], table[j].status) ELSE table[j]]

-----------------------------------------------------------------------------
(* The requests. *)

Others(r, fields) == req' = [req EXCEPT ![r] = fields]

\* find_active_document_index_job: active, or waiting for its parse.
Offered(row) == IsActive(row) \/ IsAwaiting(row)

\* create_document_knowledge_index_job looks for a job at work.  A forced
\* request cancels what it finds; one that is not forced, and the subscription
\* import, take it (whichever comes first) for their own.
Find(r) ==
  /\ req[r].pc = "idle"
  /\ \E kind \in Kinds \ {"reindex"} :
       LET live == {j \in Made : Offered(table[j])}
           q    == [req[r] EXCEPT !.kind = kind, !.held = table, !.known = Made]
       IN  \/ live = {} /\ Others(r, [q EXCEPT !.pc = "create", !.held = Nothing])
           \/ live # {} /\ kind = "force" /\ Others(r, [q EXCEPT !.pc = "select"])
           \/ /\ kind = "reuse"
              /\ \E j \in live :
                   Others(r, [IdleReq EXCEPT !.pc = "dispatch", !.job = j,
                                             !.held = Only(j, table[j])])
  /\ UNCHANGED <<table, queued, run, cx, rec, faults, causes>>

\* Mutant of Cancels: a job that has been taken up is left to its executor.
CancelsPending(r) == r.status = "pending"

\* _cancel_active_document_index_jobs cancels what is pending or running.
Cancels(row) == IsActive(row)

\* The SELECT of _cancel_active_document_index_jobs: rows the session holds
\* from its own Find are not read again.  A re-index begins here.
Select(r) ==
  /\ \E kind \in Kinds :
       /\ \/ req[r].pc = "select" /\ kind = req[r].kind
          \/ req[r].pc = "idle" /\ kind = "reindex"
       /\ Others(r, [req[r] EXCEPT !.pc = "cancel", !.kind = kind, !.todo = Made,
                        !.known = Made, !.held = [j \in Made |-> Seen(req[r].held, j)]])
  /\ UNCHANGED <<table, queued, run, cx, rec, faults, causes>>

\* One turn of its loop: an active job is cancelled and committed (with what
\* is dirty), any other has its parse phase cleared, to be written later.
CancelOne(r) ==
  /\ req[r].pc = "cancel"
  /\ \E j \in req[r].todo :
       LET old == Seen(req[r].held, j)
           q   == [req[r] EXCEPT !.todo = @ \ {j},
                                 !.held = Restrict(@, DOMAIN @ \ {j}),
                                 !.pc   = IF req[r].todo = {j} THEN "create" ELSE @]
       IN  IF Cancels(old)
           THEN /\ Write([Cleared(req[r].dirty) EXCEPT
                            ![j] = Flush(@, old, Settle(old, "cancelled"), FALSE)])
                /\ Others(r, [q EXCEPT !.held = Nothing, !.dirty = {}])
           ELSE /\ Others(r, [q EXCEPT !.dirty =
                                IF old.pay = EmptyPayload THEN @ ELSE @ \cup {j}])
                /\ UNCHANGED <<table, causes>>
  /\ UNCHANGED <<queued, run, cx, rec, faults>>

\* Mutant of Create: the job that was found, now cancelled, is the answer.
CreateUnlessFound(r) ==
  /\ req[r].pc = "create" /\ Len(table) < MaxJobs
  /\ table' = IF req[r].known = {} THEN Append(table, New) ELSE Cleared(req[r].dirty)
  /\ Others(r, [IdleReq EXCEPT !.pc = "dispatch", !.job = Len(table')])
  /\ UNCHANGED <<queued, run, cx, rec, faults, causes>>

\* Mutant of Create: the new job is not handed back.
CreateUnnamed(r) ==
  /\ req[r].pc = "create" /\ Len(table) < MaxJobs
  /\ table' = Append(Cleared(req[r].dirty), New)
  /\ Others(r, [IdleReq EXCEPT !.pc = "dispatch"])
  /\ UNCHANGED <<queued, run, cx, rec, faults, causes>>

\* create_job commits the new row and what is dirty.  An active job that the
\* request's last look did not show is on record.
Create(r) ==
  /\ req[r].pc = "create" /\ Len(table) < MaxJobs
  /\ table' = Append(Cleared(req[r].dirty), New)
  /\ causes' = IF \E j \in Made \ req[r].known : IsActive(table[j])
               THEN causes \cup {"overlap"} ELSE causes
  /\ Others(r, [IdleReq EXCEPT !.pc = "dispatch", !.job = Len(table')])
  /\ UNCHANGED <<queued, run, cx, rec, faults>>

\* index_stack_block_reason: the re-index has cancelled, and creates nothing.
Blocked(r) ==
  /\ req[r].pc = "create" /\ req[r].kind = "reindex"
  /\ Others(r, [IdleReq EXCEPT !.pc = "refused"])
  /\ causes' = causes \cup {"given_up"}
  /\ UNCHANGED <<table, queued, run, cx, rec, faults>>

\* ensure_dispatched passes over a reused job that is not active; the re-index
\* and the import dispatch in any case.
Answer(r) ==
  /\ req[r].pc = "dispatch"
  /\ LET j == req[r].job
     IN  \/ queued' = queued \cup {j}
         \/ /\ j \in DOMAIN req[r].held /\ ~IsActive(req[r].held[j])
            /\ UNCHANGED queued
  /\ Others(r, [IdleReq EXCEPT !.pc = "done"])
  /\ UNCHANGED <<table, run, cx, rec, faults, causes>>

Request(r) ==
  Find(r) \/ Select(r) \/ CancelOne(r) \/ Create(r) \/ Blocked(r) \/ Answer(r)

-----------------------------------------------------------------------------
(* The executor of a job: its loads and its writes. *)

At(j, pc)      == run' = [run EXCEPT ![j] = [IdleRun EXCEPT !.pc = pc]]
Load(j, pc, r) == run' = [run EXCEPT ![j] = [pc |-> pc, snap |-> r]]

\* A job that is not active is passed over.
Pickup(j) ==
  /\ j \in queued /\ run[j].pc = "off"
  /\ queued' = queued \ {j}
  /\ IF IsActive(table[j]) THEN Load(j, "begin", table[j]) ELSE UNCHANGED run
  /\ UNCHANGED <<table, req, cx, rec, faults, causes>>

\* try_begin_execution, on the row loaded by Pickup; the row is read again at
\* once (the two are one step), and its phase decides: the full chain, or the
\* wait for the parse.
Begin(j) ==
  /\ run[j].pc = "begin"
  /\ IF LeaseIsActive(run[j].snap)
     THEN At(j, "off") /\ UNCHANGED <<table, causes>>
     ELSE /\ Commit(j, run[j].snap, [run[j].snap EXCEPT !.pay = TakeLease(@)], TRUE)
          /\ IF IsAwaiting(table'[j]) THEN At(j, "work") ELSE Load(j, "start", table'[j])
  /\ UNCHANGED <<queued, req, cx, rec, faults>>

\* update_job_status(running) with what Begin read.
Start(j) ==
  /\ run[j].pc = "start"
  /\ Commit(j, run[j].snap, SetStatus(run[j].snap, "running"), FALSE)
  /\ At(j, "work")
  /\ UNCHANGED <<queued, req, cx, rec, faults>>

\* _index_job_should_abort before the outcome; KnowFlow and the clock decide
\* which of the two outcomes it is.
Work(j) ==
  /\ run[j].pc = "work"
  /\ IF table[j].status = "cancelled" THEN At(j, "close")
     ELSE \E pc \in {"settle", "defer"} : Load(j, pc, table[j])
  /\ UNCHANGED <<table, queued, req, cx, rec, faults, causes>>

\* _try_claim_index_job_terminal; "done" stands for "failed" as well.
Claim(j) ==
  /\ run[j].pc = "settle"
  /\ IF IsActive(run[j].snap)
     THEN Commit(j, run[j].snap, Settle(run[j].snap, "done"), FALSE)
     ELSE UNCHANGED <<table, causes>>
  /\ At(j, "close")
  /\ UNCHANGED <<queued, req, cx, rec, faults>>

\* _defer_awaiting_parse_phase, and the deferral of the parse phase itself,
\* with the delayed dispatch (not to be taken before this executor leaves).
Defer(j) ==
  /\ run[j].pc = "defer"
  /\ Commit(j, run[j].snap,
            SetStatus([run[j].snap EXCEPT !.pay = EnterAwaiting(@, "fresh")], "running"), TRUE)
  /\ queued' = queued \cup {j}
  /\ At(j, "close")
  /\ UNCHANGED <<req, cx, rec, faults>>

\* end_execution.
Close(j) ==
  /\ run[j].pc = "close"
  /\ Commit(j, table[j], [table[j] EXCEPT !.pay = DropLease(@)], FALSE)
  /\ At(j, "off")
  /\ UNCHANGED <<queued, req, cx, rec, faults>>

Execute(j) ==
  \/ Pickup(j) \/ Begin(j) \/ Start(j) \/ Work(j) \/ Claim(j) \/ Defer(j)
  \/ Close(j)

-----------------------------------------------------------------------------
(* Users and faults. *)

\* cancel_document_index_job loads the row, and commits.
UserCancels(j) ==
  /\ cx.job = 0 /\ faults < MaxFaults /\ Offered(table[j])
  /\ cx' = [job |-> j, snap |-> table[j]]
  /\ faults' = faults + 1
  /\ UNCHANGED <<table, queued, run, req, rec, causes>>

CancelCommits ==
  /\ cx.job # 0
  /\ Commit(cx.job, cx.snap, Settle(cx.snap, "cancelled"), FALSE)
  /\ cx' = NoCx
  /\ UNCHANGED <<queued, run, req, rec, faults>>

\* The API process restarts with the requests in it; the executors are Celery's
\* (IndexJob has those that die with it).
ApiRestarts ==
  /\ faults < MaxFaults /\ rec.pc = "off"
  /\ req' = [r \in Requests |-> IF req[r].pc \in {"idle", "done", "refused"} THEN req[r]
                                ELSE [IdleReq EXCEPT !.pc = "refused"]]
  /\ causes' = IF \E r \in Requests : req[r].pc \notin {"idle", "done", "refused"}
               THEN causes \cup {"given_up"} ELSE causes
  /\ cx' = NoCx /\ faults' = faults + 1
  /\ rec' = [NoRec EXCEPT !.pc = "scan"]
  /\ UNCHANGED <<table, queued, run>>

\* recover_interrupted_jobs reads the active jobs in one SELECT (taken to give
\* them in the order of their creation).
RecoverScans ==
  /\ rec.pc = "scan"
  /\ LET live == {j \in Made : IsActive(table[j])}
     IN  rec' = [pc |-> "loop", held |-> [j \in live |-> table[j]], todo |-> live,
                 had |-> Nothing]
  /\ UNCHANGED <<table, queued, run, req, cx, faults, causes>>

\* The row as the recovery's session has it: without the lease, once the loop
\* has taken that out of the payload it read.
Edited(j) ==
  IF j \in DOMAIN rec.had
  THEN [Seen(rec.held, j) EXCEPT !.pay = DropLease(rec.had[j])] ELSE Seen(rec.held, j)

\* What a commit of that session writes.
Released == [j \in Made |-> Flush(table[j], Seen(rec.held, j), Edited(j), FALSE)]

\* A job is passed over when it is cancelled, and when it is stale or its document
\* gone.  Else a running one goes back to pending, which commits; the lease goes
\* with the next commit, and the dispatch before it.
RecoverOne ==
  /\ rec.pc = "loop" /\ rec.todo # {}
  /\ LET j     == Min(rec.todo)
         old   == Seen(rec.held, j)
         reset == old.status = "running" /\ ~IsAwaiting(old)
         had   == (IF old.pay.lease # "none" THEN {j} ELSE {})
                  \cup (IF reset THEN {} ELSE DOMAIN rec.had)
         rows  == [Released EXCEPT ![j] = Flush(@, old, SetStatus(old, "pending"), FALSE)]
     IN  \/ rec' = [rec EXCEPT !.todo = @ \ {j}] /\ UNCHANGED <<table, queued, causes>>
         \/ /\ old.status # "cancelled"
            /\ queued' = queued \cup {j}
            /\ IF reset THEN Write(rows) ELSE UNCHANGED <<table, causes>>
            /\ rec' = [rec EXCEPT !.todo = @ \ {j},
                         !.held = IF reset THEN Only(j, rows[j]) ELSE @,
                         !.had  = [i \in had |-> IF i = j THEN old.pay ELSE @[i]]]
  /\ UNCHANGED <<run, req, cx, faults>>

\* The last commit, with the flags of the jobs that are terminal by then cleaned.
RecoverEnds ==
  /\ rec.pc = "loop" /\ rec.todo = {}
  /\ Write([j \in Made |-> IF ~IsActive(table[j]) /\ IsAwaiting(Edited(j))
                           THEN Settle(table[j], table[j].status) ELSE Released[j]])
  /\ rec' = NoRec
  /\ UNCHANGED <<queued, run, req, cx, faults>>

Faults == (\E j \in Made : UserCancels(j)) \/ ApiRestarts
Recovery == RecoverScans \/ RecoverOne \/ RecoverEnds

Next ==
  \/ \E r \in Requests : Request(r)
  \/ \E j \in Made : Execute(j)
  \/ Faults \/ CancelCommits \/ Recovery

Spec == Init /\ [][Next]_vars

-----------------------------------------------------------------------------
(* Properties. *)

ActiveJobs == {j \in Made : IsActive(table[j])}

\* One job of a version is active at a time (find_active_document_index_job,
\* _cancel_active_document_index_jobs), but for two causes: two requests that
\* both looked before either created, and a settled job that a session made
\* active again with a status it had read before (an executor that starts a job
\* cancelled meanwhile, the recovery loop also one that is done meanwhile).
OneActive ==
  causes \cap {"overlap", "revived"} = {} => Cardinality(ActiveJobs) <= 1

\* A terminal job that still looks as if it waited for its parse.
Ghost(row) == ~IsActive(row) /\ IsAwaiting(row)

\* Forced requests cancel each other's jobs, never the last word: as long as no
\* user cancels and no request gives up after its cancellations, the newest job
\* of the version is cancelled only by a request that still has to create one.
NewestStands ==
  faults = 0 /\ "given_up" \notin causes /\ table[Len(table)].status = "cancelled" =>
    \E r \in Requests : req[r].pc \in {"cancel", "create"}

\* A session that had read the job before writes it back: an executor that
\* begins or defers a job it saw active, a claim or a canceller that saw it
\* before it awaited its parse, or the recovery loop, with the payload it read.
PutBack(j) ==
  \/ /\ run[j].pc \in {"begin", "defer"} /\ run'[j].pc # run[j].pc
     /\ IsActive(run[j].snap) /\ ~IsActive(table[j])
  \/ /\ run[j].pc = "settle" /\ run'[j].pc # "settle"
     /\ ~IsAwaiting(run[j].snap) /\ IsAwaiting(table[j])
  \/ cx.job = j /\ ~IsAwaiting(cx.snap) /\ IsAwaiting(table[j])
  \/ \E r \in Requests : /\ j \in req[r].todo \cap DOMAIN req[r].held
                         /\ ~IsAwaiting(req[r].held[j]) /\ IsAwaiting(table[j])
  \/ rec.pc = "loop" /\ j \in DOMAIN rec.had

\* A job at its end is offered for reuse again, because
\* find_active_document_index_job takes any awaiting one, only when a session
\* that had read the row before has put it back.
GhostOnlyFrom ==
  [][\A j \in Made : ~Ghost(table[j]) /\ Ghost(table'[j]) => PutBack(j)]_vars
=============================================================================
