----------------------------- MODULE Automation -----------------------------
(***************************************************************************)
(* One automation: the row in agent_automations, the poller that lists     *)
(* what is due and executes it, the owner who edits it or runs it by hand, *)
(* and the restart of the API process, which the executions do not         *)
(* survive.  `next` is next_run_at seen from the clock: none, in the       *)
(* future, or due.                                                         *)
(*                                                                         *)
(* execute_automation reads the row, writes next_run_at and enabled and    *)
(* commits; then it talks to the assistant, for minutes, with no session,  *)
(* and reports in a second one.  The poller executes a list it has read    *)
(* before, one automation after the other.                                 *)
(***************************************************************************)
EXTENDS Naturals, FiniteSets

CONSTANTS
  MaxInstants, \* BOUND: times the automation falls due
  MaxEdits     \* BOUND: edits and runs by hand

ASSUME InstantsAssumption == MaxInstants \in Nat \ {0} /\ MaxEdits \in Nat

VARIABLES
  auto,     \* the row
  ended,    \* ends_at has passed
  hand,     \* what the two executors are doing: the poller, and a request
  edits,
  instants, \* HISTORY: how often the automation has fallen due
  taken,    \* HISTORY: how many of those an edit, a run by hand or the end took
  polled,   \* HISTORY: how often the poller has started it
  moved,    \* HISTORY: edited or run by hand between listing and start
  open      \* HISTORY: runs recorded as "running"

avars == <<auto, ended, hand, edits, instants, taken, polled, moved, open>>

Executors == {"poller", "request"}

AutoRow == [made: BOOLEAN, once: BOOLEAN, enabled: BOOLEAN, deleted: BOOLEAN,
            next: {"none", "later", "due"}]

NoAuto == [made |-> FALSE, once |-> FALSE, enabled |-> FALSE, deleted |-> FALSE, next |-> "none"]
Rest   == [pc |-> "idle", snap |-> NoAuto]

AutomationTypeOK ==
  /\ auto \in AutoRow /\ ended \in BOOLEAN
  /\ hand \in [Executors -> [pc: {"idle", "chosen", "loaded", "chat"}, snap: AutoRow]]
  /\ edits \in 0 .. MaxEdits /\ instants \in 0 .. MaxInstants
  /\ polled \in 0 .. MaxInstants /\ taken \in 0 .. MaxInstants
  /\ moved \in BOOLEAN
  /\ open \in 0 .. (MaxInstants + MaxEdits)
  \* A run that talks to the assistant is on record.
  /\ Cardinality({x \in Executors : hand[x].pc = "chat"}) <= open

AutomationInit ==
  /\ auto = NoAuto /\ ended = FALSE
  /\ hand = [x \in Executors |-> Rest]
  /\ edits = 0 /\ instants = 0 /\ taken = 0 /\ polled = 0 /\ moved = FALSE /\ open = 0

-----------------------------------------------------------------------------
(* The owner. *)

\* Whoever writes next_run_at takes the instant that is due with it.
Takes == taken' = IF auto.next = "due" THEN taken + 1 ELSE taken

\* create_automation and update_automation: a new ends_at perhaps; the next run is
\* now or at starts_at, none when it is switched off or past ends_at.
Set(enabled, once, next) ==
  /\ auto' = [auto EXCEPT !.made = TRUE, !.enabled = enabled, !.once = once, !.next = next]
  /\ ended' \in BOOLEAN
  /\ next \in IF ~enabled \/ ended' THEN {"none"} ELSE {"later", "due"}
  /\ next = "due" => instants < MaxInstants
  /\ instants' = IF next = "due" THEN instants + 1 ELSE instants
  /\ Takes

InHand == hand["poller"].pc \in {"chosen", "loaded"}

Creates ==
  /\ ~auto.made
  /\ \E enabled, once \in BOOLEAN, next \in {"none", "later", "due"} : Set(enabled, once, next)
  /\ UNCHANGED <<hand, edits, polled, moved, open>>

Edits ==
  /\ auto.made /\ ~auto.deleted /\ edits < MaxEdits
  /\ \E enabled, once \in BOOLEAN, next \in {"none", "later", "due"} : Set(enabled, once, next)
  /\ edits' = edits + 1 /\ moved' = (moved \/ InHand)
  /\ UNCHANGED <<hand, polled, open>>

\* delete_automation.
Deletes ==
  /\ auto.made /\ ~auto.deleted /\ edits < MaxEdits
  /\ auto' = [auto EXCEPT !.deleted = TRUE, !.enabled = FALSE, !.next = "none"]
  /\ Takes
  /\ edits' = edits + 1 /\ moved' = (moved \/ InHand)
  /\ UNCHANGED <<ended, hand, instants, polled, open>>

Choose(x) == hand' = [hand EXCEPT ![x].pc = "chosen"]

\* execute_automation(force=True).
RunsByHand ==
  /\ auto.made /\ ~auto.deleted /\ hand["request"].pc = "idle" /\ edits < MaxEdits
  /\ edits' = edits + 1
  /\ Choose("request")
  /\ UNCHANGED <<auto, ended, instants, taken, polled, moved, open>>

-----------------------------------------------------------------------------
(* The poller and the executions. *)

\* list_due_automations.
Due == auto.enabled /\ ~auto.deleted /\ auto.next = "due"

\* The ids are kept; what is executed before this one may take minutes.
Lists ==
  /\ hand["poller"].pc = "idle" /\ Due
  /\ Choose("poller")
  /\ UNCHANGED <<auto, ended, edits, instants, taken, polled, moved, open>>

Refused(x) == auto.deleted \/ (x = "poller" /\ ~auto.enabled)

Off(row) == [row EXCEPT !.enabled = FALSE, !.next = "none"]

\* The first session reads the row: refused, past its end and switched off, or,
\* still due, without a user or a prompt, or the session fails.
TurnsDown(x) ==
  /\ hand[x].pc = "chosen"
  /\ \/ UNCHANGED <<auto, taken, moved>>
     \/ /\ ~Refused(x) /\ ended
        /\ auto' = Off(auto) /\ Takes
        /\ moved' = (moved \/ (x = "request" /\ InHand))
  /\ hand' = [hand EXCEPT ![x] = Rest]
  /\ UNCHANGED <<ended, edits, instants, polled, open>>

Loads(x) ==
  /\ hand[x].pc = "chosen" /\ ~Refused(x) /\ ~ended
  /\ hand' = [hand EXCEPT ![x] = [pc |-> "loaded", snap |-> auto]]
  /\ UNCHANGED <<auto, ended, edits, instants, taken, polled, moved, open>>

\* Mutant of Advanced: the next run is set after the chat, by the report.
NotAdvanced(old) == {auto}

\* next_run_at goes on; a single run, or one with no other before ends_at, switches
\* the automation off.  Only what this session has changed is written.
Advanced(old) ==
  IF ~old.enabled THEN {auto}
  ELSE {Off(auto)} \cup IF old.once THEN {} ELSE {[auto EXCEPT !.next = "later"]}

\* The run is recorded and the row advanced, in one commit.
Starts(x) ==
  /\ hand[x].pc = "loaded"
  /\ auto' \in Advanced(hand[x].snap)
  /\ hand' = [hand EXCEPT ![x] = [Rest EXCEPT !.pc = "chat"]]
  /\ open' = open + 1
  /\ IF x = "poller" THEN polled' = polled + 1 /\ UNCHANGED taken
     ELSE UNCHANGED polled /\ IF hand[x].snap.enabled THEN Takes ELSE UNCHANGED taken
  /\ moved' = (moved \/ (x = "request" /\ InHand))
  /\ UNCHANGED <<ended, edits, instants>>

\* The answer, or the exception, of the assistant is recorded and notified; a report
\* that fails leaves the run "running".
Reports(x) ==
  /\ hand[x].pc = "chat"
  /\ hand' = [hand EXCEPT ![x] = Rest] /\ open' \in {open, open - 1}
  /\ UNCHANGED <<auto, ended, edits, instants, taken, polled, moved>>

-----------------------------------------------------------------------------
(* Time, and the death of the API process: the runs in it stay "running". *)

FallsDue ==
  /\ auto.next = "later" /\ instants < MaxInstants
  /\ auto' = [auto EXCEPT !.next = "due"] /\ instants' = instants + 1
  /\ UNCHANGED <<ended, hand, edits, taken, polled, moved, open>>

EndPasses ==
  /\ auto.made /\ ~ended /\ ended' = TRUE
  /\ UNCHANGED <<auto, hand, edits, instants, taken, polled, moved, open>>

Forgets == hand' = [x \in Executors |-> Rest]

AutomationNext ==
  \/ Creates \/ Edits \/ Deletes \/ RunsByHand \/ Lists
  \/ \E x \in Executors : TurnsDown(x) \/ Loads(x) \/ Starts(x) \/ Reports(x)
  \/ FallsDue \/ EndPasses

-----------------------------------------------------------------------------
(* Properties. *)

\* The poller never starts the automation more often than it has fallen due.  Each
\* time it is started once, whatever restarts, or an edit, a run by hand or the end
\* has taken that instant, or it is still to come; unless one of them came between
\* the poller's list and the commit of its start, which does not look at next_run_at
\* again.
OncePerInstant ==
  /\ polled <= instants
  /\ ~moved => instants = polled + taken + IF auto.next = "due" THEN 1 ELSE 0
=============================================================================
