------------------------------- MODULE JobRow -------------------------------
(***************************************************************************)
(* One row of the `jobs` table as the document-index code reads and writes *)
(* it, and what an SQLAlchemy session does with it.                        *)
(*                                                                         *)
(* A session (`SessionLocal`, autoflush off, expire_on_commit) keeps the   *)
(* attributes it loaded until its next commit, rollback or refresh:        *)
(* `db.get` and a SELECT .. FOR UPDATE without populate_existing return    *)
(* that same, possibly stale, object.  At commit only the COLUMNS whose    *)
(* value differs from the loaded one are written, and `payload` is one     *)
(* JSONB column: it is replaced as a whole.  `Flush` is that rule.         *)
(*                                                                         *)
(* Of the payload the model keeps the fields the control flow reads:       *)
(*   phase  index_phase / awaiting_parse                                   *)
(*   lease  exec_lease_until: absent, in the future, or in the past        *)
(*   watch  parse_watch_started_at: absent, or less / more than            *)
(*          knowledge_parse_max_wait_sec - 60 seconds ago                  *)
(* A write that changes any other field (last_parse_progress, dataset_id,  *)
(* the exact lease instant) is a `touched` one: it replaces the column     *)
(* even when these three keep their value.                                 *)
(***************************************************************************)

Active   == {"pending", "running"}
Terminal == {"done", "failed", "cancelled"}
Status   == Active \cup Terminal

Phase == {"full", "awaiting_parse"}
Lease == {"none", "live", "lapsed"}
Watch == {"none", "fresh", "overdue"}

Payload == [phase: Phase, lease: Lease, watch: Watch]
Row     == [status: Status, pay: Payload]

\* The payload the enqueue functions give create_job: no phase fields.
EmptyPayload == [phase |-> "full", lease |-> "none", watch |-> "none"]

IsActive(r)   == r.status \in Active
IsAwaiting(r) == r.pay.phase = "awaiting_parse"

\* Mutant of LeaseIsActive: the lease is looked for under another key.
LeaseNotFound(r) == FALSE

\* _lease_is_active: exec_lease_until is in the future.
LeaseIsActive(r) == r.pay.lease = "live"

\* Mutant of ClearPhaseFields: the phase is reset to a name nobody reads.
ResetToUnknownPhase(p) == [EmptyPayload EXCEPT !.phase = "parse"]

\* clear_parse_phase_fields: every field the model keeps is one it removes.
ClearPhaseFields(p) == EmptyPayload

\* Mutant of EnterAwaiting: a new payload instead of the old one extended.
AwaitingOnly(p, started) ==
  [EmptyPayload EXCEPT !.phase = "awaiting_parse", !.watch = started]

\* enter_awaiting_parse_phase: the watch runs from the first deferral.
EnterAwaiting(p, started) ==
  [p EXCEPT !.phase = "awaiting_parse", !.watch = started]

\* Mutant of TakeLease: the payload object is changed in place, unnoticed.
LeaseNotWritten(p) == p

\* try_begin_execution, renew_execution_lease;  end_execution.
TakeLease(p) == [p EXCEPT !.lease = "live"]
DropLease(p) == [p EXCEPT !.lease = "none"]

\* Mutant of Flush: every column is written.
FlushAllColumns(db, old, new, touched) == new

\* Commit of a session that loaded `old` and now holds `new`, on top of `db`.
Flush(db, old, new, touched) ==
  [status |-> IF new.status = old.status THEN db.status ELSE new.status,
   pay    |-> IF touched \/ new.pay # old.pay THEN new.pay ELSE db.pay]

\* Mutant of SetStatus: a cancelled job is not left alone.
SetStatusAlways(r, st) == [r EXCEPT !.status = st]

\* update_job_status: a cancelled job (as the session sees it) is left alone.
SetStatus(r, st) ==
  IF r.status = "cancelled" /\ st # "cancelled" THEN r ELSE [r EXCEPT !.status = st]

\* Mutant of Settle: the payload is cleared, the status forgotten.
ClearOnly(r, st) == [r EXCEPT !.pay = EmptyPayload]

\* Mutant of Settle: the parse phase stays in the payload.
StatusOnly(r, st) == [r EXCEPT !.status = st]

\* _try_claim_index_job_terminal, and cancel_document_index_job: the status
\* and the cleared payload in one commit.
Settle(r, st) == [status |-> st, pay |-> ClearPhaseFields(r.pay)]

\* More than _EXEC_LEASE_SEC pass: every lease granted so far is in the past.
Lapse(r) == IF r.pay.lease = "live" THEN [r EXCEPT !.pay.lease = "lapsed"] ELSE r

\* knowledge_parse_max_wait_sec passes since the watch was started.
Overrun(r) == IF r.pay.watch = "fresh" THEN [r EXCEPT !.pay.watch = "overdue"] ELSE r
=============================================================================
