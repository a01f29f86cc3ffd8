----------------------------- MODULE Supervisor -----------------------------
(***************************************************************************)
(* One chat turn under the supervisor: the route, the specialist's single  *)
(* steps or the orchestrator's tool loop, the hand-back to the             *)
(* orchestrator, and what the chat stream tells the client                 *)
(* (services/agent_supervisor.py, services/agent_aip_executor.py,          *)
(* services/ai_chat_service.py).                                           *)
(*                                                                         *)
(* The orchestrator's hop is ToolLoop's stream Turn.  A specialist's hop   *)
(* is one LLM answer and its calls; the supervisor decides from the        *)
(* step_complete event whether it runs another.  No hop under src/ ends in *)
(* a complete event with a needs_assist hand-off, so that branch of the    *)
(* supervisor is not modelled.                                             *)
(***************************************************************************)
EXTENDS ToolLoop

CONSTANTS
  SupervisorRounds,  \* max_supervisor_rounds
  SpecialistNudges   \* _CONTENT_ONLY_MAX_NUDGES

ASSUME SupervisorAssumption == {SupervisorRounds, SpecialistNudges} \subseteq Nat \ {0}

VARIABLES
  hop,        \* where the supervisor is
  spec,       \* the specialist's round, nudges and evidence
  completes,  \* complete events the chat stream has consumed
  shown,      \* the text the client was given: nothing, an answer or an error
  paused,     \* _was_suspended
  closed      \* the last SSE event: done, suspended, error

svvars == <<hop, spec, completes, shown, paused, closed>>
vars == <<loopvars, svvars>>

FreshSpec == [round |-> 1, nudges |-> 0, evidence |-> FALSE]

Init ==
  /\ LoopInit("off")
  /\ hop = "route"
  /\ spec = FreshSpec
  /\ completes = 0
  /\ shown = "nothing" /\ paused = FALSE /\ closed = "no"

\* A complete event reaches the chat stream, which pushes its text at once.
Complete(text) ==
  /\ completes' = completes + 1
  /\ shown' = text
  /\ hop' = "tail"
  /\ UNCHANGED <<paused, closed>>

Says(step) == step /\ UNCHANGED loopvars

\* The reply made of the tools' results; none may come of it.
Replies == Complete("answer") \/ Complete("nothing")

\* A graph answer, no route, a capability gap, a task DAG, or an exception while
\* the route is planned: one complete event, with or without a reply, and
\* without a hop of this module.  The suspended event of a DAG's node has been
\* passed on before it.
RouteAnswers ==
  /\ hop = "route" /\ hop' = "tail"
  /\ completes' = completes + 1
  /\ shown' \in {"nothing", "answer", "error"}
  /\ paused' \in BOOLEAN
  /\ UNCHANGED <<spec, closed>>

\* The hop of an automatically created skill is one step whose step_complete
\* the chat stream ignores; only an exception gives it a complete event.
RouteAutoSkill ==
  /\ hop = "route"
  /\ \/ hop' = "tail" /\ UNCHANGED <<completes, shown, paused, closed>>
     \/ Complete("error")
  /\ UNCHANGED spec

RouteSpecialist ==
  /\ hop = "route" /\ hop' = "specialist"
  /\ UNCHANGED <<spec, completes, shown, paused, closed>>

\* The orchestrator's hop, first or after a specialist gave up.
EnterHop(from, to) ==
  /\ hop = from /\ hop' = to
  /\ EnterLoop(Turn)
  /\ UNCHANGED <<at, src, redis, record, crashes, spec, completes, shown, paused, closed>>

(***************************************************************************)
(* The specialist's steps.                                                 *)
(***************************************************************************)

\* Mutant of Again: one round too many.
AgainOnceMore(s) ==
  /\ spec' = [s EXCEPT !.round = @ + 1]
  /\ IF s.round <= SupervisorRounds
     THEN UNCHANGED <<hop, completes, shown, paused, closed>>
     ELSE (s.evidence /\ Replies) \/ Complete("error")

\* The next supervisor round, or, when they are used up, a final reply made of
\* the evidence, or the apology for too many rounds.
Again(s) ==
  /\ spec' = [s EXCEPT !.round = @ + 1]
  /\ IF s.round < SupervisorRounds
     THEN UNCHANGED <<hop, completes, shown, paused, closed>>
     ELSE (s.evidence /\ Replies) \/ Complete("error")

\* The specialist's rounds are over and not looked at again.
GivesUp ==
  /\ spec' = FreshSpec /\ hop' = "giveup"
  /\ UNCHANGED <<completes, shown, paused, closed>>

\* The step is the last: deliverable evidence, or a diagram in the reply, is the
\* answer, and without it the task goes back to the orchestrator.
HandsIn(s, reply) ==
  \/ spec' = s /\ s.evidence /\ Replies
  \/ spec' = s /\ reply /\ Complete("answer")
  \/ GivesUp

\* Tools ran: their results are evidence, a diagram is one; several-step tasks go
\* on, a request for assistance goes to the orchestrator.
StepCalls ==
  /\ hop = "specialist"
  /\ LET s == [spec EXCEPT !.evidence = TRUE] IN HandsIn(s, FALSE) \/ Again(s)

\* Text only: after results it ends the step, before them it is nudged, at most
\* SpecialistNudges times.
StepTalks ==
  /\ hop = "specialist"
  /\ IF spec.evidence
     THEN HandsIn(spec, FALSE)
     ELSE \/ HandsIn(spec, TRUE)
          \/ spec.nudges < SpecialistNudges /\ Again([spec EXCEPT !.nudges = @ + 1])

\* The LLM gives no choice: its error text is the reply of a step that is over,
\* unless an earlier round left evidence.
StepFails == hop = "specialist" /\ HandsIn(spec, FALSE)

\* _run_specialist_hop turns an exception into an apology and a complete event.
StepRaises == hop = "specialist" /\ Complete("error") /\ UNCHANGED spec

(***************************************************************************)
(* The end of an orchestrator's hop.                                       *)
(***************************************************************************)

\* Mutant of LoopAnswered: the supervisor does not return and reroutes.
LoopAnsweredGoesOn ==
  /\ hop \in {"orchestrator", "reroute"}
  /\ pc[Turn] \in {"complete", "raised"}
  /\ completes' = completes + 1 /\ shown' = "answer"
  /\ hop' = IF hop = "orchestrator" THEN "giveup" ELSE "tail"
  /\ UNCHANGED <<spec, paused, closed>>

LoopAnswered ==
  /\ hop \in {"orchestrator", "reroute"}
  /\ pc[Turn] \in {"complete", "raised"}
  /\ IF pc[Turn] = "raised" THEN Complete("error")
     ELSE Replies
  /\ UNCHANGED spec

\* Mutant of LoopSuspended: the rounds' loop has no safety net and waits for the
\* complete event.
LoopSuspendedAwaited ==
  /\ hop = "reroute" /\ pc[Turn] = "suspended"
  /\ paused' = TRUE /\ hop' = "tail"
  /\ UNCHANGED <<completes, shown, spec, closed>>

\* The suspended event is passed on and the hop ends without complete: in the
\* supervisor's rounds the safety net adds a complete event of its own, after a
\* hand-back nothing does.
LoopSuspended ==
  /\ hop \in {"orchestrator", "reroute"}
  /\ pc[Turn] = "suspended"
  /\ paused' = TRUE /\ hop' = "tail"
  /\ IF hop = "orchestrator"
     THEN completes' = completes + 1 /\ shown' = "error"
     ELSE UNCHANGED <<completes, shown>>
  /\ UNCHANGED <<spec, closed>>

\* The chat stream's own end.
Closes ==
  /\ hop = "tail" /\ hop' = "closed"
  /\ closed' = IF paused THEN "suspended" ELSE IF shown # "nothing" THEN "done" ELSE "error"
  /\ UNCHANGED <<spec, completes, shown, paused>>

\* The client has gone, or the process: the turn's generators are closed.
Cut ==
  /\ hop \notin {"closed", "cut"} /\ hop' = "cut"
  /\ UNCHANGED <<spec, completes, shown, paused, closed>>

SupervisorStep ==
  \/ Says(RouteAnswers) \/ Says(RouteAutoSkill) \/ Says(RouteSpecialist)
  \/ EnterHop("route", "orchestrator") \/ EnterHop("giveup", "reroute")
  \/ Says(StepCalls) \/ Says(StepTalks) \/ Says(StepFails) \/ Says(StepRaises)
  \/ Says(LoopAnswered) \/ Says(LoopSuspended) \/ Says(Closes)

\* A lost client or a restart closes the supervisor's generator with the loop's.
Next ==
  \/ SupervisorStep
  \/ Says(Cut /\ ~Live(Turn))
  \/ /\ LoopNext
     /\ IF \/ pc[Turn] # "cut" /\ pc'[Turn] = "cut"
           \/ crashes' # crashes /\ hop \notin {"closed", "cut"}
        THEN Cut ELSE UNCHANGED svvars

Spec == Init /\ [][Next]_vars

Fairness ==
  /\ WF_vars(SupervisorStep)
  /\ \A s \in Streams : WF_vars(Step(s) /\ UNCHANGED svvars)
  /\ \A r \in Resumes : WF_vars(ResumeStep(r) /\ UNCHANGED svvars)

FairSpec == Spec /\ Fairness

TypeOK ==
  /\ LoopTypeOK
  /\ hop \in {"route", "specialist", "giveup", "orchestrator", "reroute", "tail", "closed", "cut"}
  /\ spec \in [round : 1..SupervisorRounds + 1, nudges : 0..SpecialistNudges, evidence : BOOLEAN]
  /\ completes \in Nat
  /\ shown \in {"nothing", "answer", "error"}
  /\ paused \in BOOLEAN
  /\ closed \in {"no", "done", "suspended", "error"}

\* The client gets at most one complete event in a turn, and a stream that ends
\* as done has had one: reroutes, fallbacks and handlers do not answer twice.
OneAnswer == completes <= 1 /\ (closed = "done" => completes = 1)

\* The supervisor gives every turn an end: hops, rounds and nudges are bounded
\* and a suspended loop is not waited for.
TurnCloses == <>(hop \in {"closed", "cut"})
=============================================================================
