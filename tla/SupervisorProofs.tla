-------------------------- MODULE SupervisorProofs --------------------------
(***************************************************************************)
(* Proofs about one chat turn under the supervisor (Supervisor), for any   *)
(* bounds on its rounds and those of the loop.                             *)
(*                                                                         *)
(*   TurnTyped         Spec => []TypeOK                                    *)
(*   AnswersOnce       Spec => []OneAnswer                                 *)
(*   TurnKeepsKeys     Spec => [] what ToolLoopProofs proves of the        *)
(*                             questions, with the loop entered by a hop   *)
(*                                                                         *)
(* TurnInv is inductive: before the turn's tail nothing has been shown,    *)
(* and before the orchestrator's hop the loop has not begun.               *)
(***************************************************************************)
EXTENDS Supervisor, ToolLoopProofs

Hops == {"route", "specialist", "giveup", "orchestrator", "reroute", "tail", "closed", "cut"}

\* What the client has been given by the time the supervisor is at a hop.
ShownInv ==
  /\ hop \in Hops /\ completes \in {0, 1}
  /\ hop \notin {"tail", "closed", "cut"} => completes = 0 /\ shown = "nothing"
  /\ hop \notin {"closed", "cut"} => closed = "no"
  /\ shown \in {"nothing", "answer", "error"} /\ (shown # "nothing" => completes = 1)
  /\ paused \in BOOLEAN
  /\ closed \in {"no", "done", "suspended", "error"} /\ (closed = "done" => completes = 1)

\* The specialist has rounds left as long as it is at work, and the loop waits
\* for its hop.
HopInv ==
  /\ spec \in [round : 1..SupervisorRounds + 1, nudges : 0..SpecialistNudges,
               evidence : BOOLEAN]
  /\ hop \in {"route", "specialist"} => spec.round <= SupervisorRounds
  /\ hop \in {"route", "specialist", "giveup"} => pc[Turn] = "off"

TurnInv == LoopInv /\ ShownInv /\ HopInv

LEMMA TurnStart == Init => TurnInv
PROOF
  <1> SUFFICES ASSUME Init PROVE TurnInv
    OBVIOUS
  <1>1. LoopInv
    <2>1. "off" \in PC \ {"ask"} /\ LoopInit("off")
      BY DEF PC, Init
    <2> QED BY <2>1, LoopTypesStart, HitlStart DEF LoopInv
  <1>2. ShownInv
    BY DEF Init, ShownInv, Hops
  <1>3. HopInv
    BY SupervisorAssumption DEF Init, HopInv, FreshSpec, LoopInit, Streams
  <1> QED BY <1>1, <1>2, <1>3 DEF TurnInv

\* The loop's invariant says nothing of the supervisor's variables.
LEMMA LoopUntouched == LoopInv /\ UNCHANGED loopvars => LoopInv'
PROOF
  BY LoopInvStep

\* One turn of the supervisor keeps what has been shown in step with where it
\* is.
LEMMA TurnShown ==
  ASSUME ShownInv, SupervisorStep \/ Says(Cut) \/ Cut \/ UNCHANGED svvars
  PROVE  ShownInv'
PROOF
  <1>1. ASSUME hop \notin {"tail", "closed", "cut"}, NEW text \in {"nothing", "answer", "error"},
               Complete(text)
        PROVE  ShownInv'
    BY <1>1 DEF Complete, ShownInv, Hops
  <1>2. ASSUME NEW to \in Hops \ {"tail", "closed", "cut"},
               hop \notin {"tail", "closed", "cut"}, hop' = to \/ hop' = hop,
               UNCHANGED <<completes, shown, paused, closed>>
        PROVE  ShownInv'
    BY <1>2 DEF ShownInv
  <1>3. ASSUME NEW s, hop = "specialist", Again(s)
        PROVE  ShownInv'
    <2>1. CASE UNCHANGED <<hop, completes, shown, paused, closed>>
      BY <2>1 DEF ShownInv
    <2> QED BY <1>1, <1>3, <2>1 DEF Again, Replies
  <1>4. ASSUME hop = "specialist", GivesUp
        PROVE  ShownInv'
    BY <1>2, <1>4 DEF GivesUp, Hops
  <1>5. ASSUME NEW s, NEW reply, hop = "specialist", HandsIn(s, reply)
        PROVE  ShownInv'
    BY <1>1, <1>4, <1>5 DEF HandsIn, Replies
  <1>6. CASE RouteAnswers
    BY <1>6 DEF RouteAnswers, ShownInv, Hops
  <1>7. CASE RouteAutoSkill
    <2>1. CASE hop' = "tail" /\ UNCHANGED <<completes, shown, paused, closed>>
      BY <1>7, <2>1 DEF RouteAutoSkill, ShownInv, Hops
    <2> QED BY <1>1, <1>7, <2>1 DEF RouteAutoSkill
  <1>8. CASE RouteSpecialist \/ EnterHop("route", "orchestrator") \/ EnterHop("giveup", "reroute")
    BY <1>2, <1>8 DEF RouteSpecialist, EnterHop, Hops
  <1>9. CASE StepCalls
    BY <1>3, <1>5, <1>9 DEF StepCalls
  <1>10. CASE StepTalks
    BY <1>3, <1>5, <1>10 DEF StepTalks
  <1>11. CASE StepFails \/ StepRaises
    BY <1>1, <1>5, <1>11 DEF StepFails, StepRaises
  <1>12. CASE LoopAnswered
    BY <1>1, <1>12 DEF LoopAnswered, Replies
  <1>13. CASE LoopSuspended
    BY <1>13 DEF LoopSuspended, ShownInv, Hops
  <1>14. CASE Closes
    BY <1>14 DEF Closes, ShownInv, Hops
  <1>15. CASE Cut
    BY <1>15 DEF Cut, ShownInv, Hops
  <1>16. CASE UNCHANGED svvars
    BY <1>16 DEF svvars, ShownInv
  <1> QED
    BY <1>6, <1>7, <1>8, <1>9, <1>10, <1>11, <1>12, <1>13, <1>14, <1>15, <1>16
    DEF SupervisorStep, Says

\* Its rounds and nudges stay counted.
LEMMA TurnHops ==
  ASSUME ShownInv, HopInv, LoopInv, SupervisorStep
  PROVE  HopInv'
PROOF
  <1>s. /\ SupervisorRounds \in Nat \ {0} /\ SpecialistNudges \in Nat
        /\ spec.round \in 1..SupervisorRounds + 1 /\ spec.nudges \in 0..SpecialistNudges
    BY SupervisorAssumption DEF HopInv
  <1>u. ASSUME UNCHANGED <<spec, loopvars>>, hop' \in {"route", "specialist", "giveup"} =>
                 hop \in {"route", "specialist"}
        PROVE  HopInv'
    BY <1>u DEF HopInv, loopvars
  <1>a. ASSUME NEW s, s \in [round : 1..SupervisorRounds, nudges : 0..SpecialistNudges,
                             evidence : BOOLEAN],
               hop = "specialist", UNCHANGED loopvars,
               Again(s) \/ \E reply : HandsIn(s, reply)
        PROVE  HopInv'
    <2>1. pc'[Turn] = "off"
      BY <1>a DEF HopInv, loopvars
    <2>2. CASE Again(s)
      <3> DEFINE k == s.round + 1
      <3>1. k \in 1..SupervisorRounds + 1 /\ (s.round < SupervisorRounds => k <= SupervisorRounds)
        BY <1>s, <1>a
      <3>2. spec' = [s EXCEPT !.round = k]
        BY <2>2 DEF Again
      <3> HIDE DEF k
      <3>3. spec' \in [round : 1..SupervisorRounds + 1, nudges : 0..SpecialistNudges,
                       evidence : BOOLEAN] /\ spec'.round = k
        BY <1>a, <3>1, <3>2
      <3>4. s.round < SupervisorRounds \/ hop' = "tail"
        BY <2>2 DEF Again, Replies, Complete
      <3> QED BY <2>1, <3>1, <3>3, <3>4 DEF HopInv
    <2>3. CASE \E reply : HandsIn(s, reply)
      <3>1. spec' \in {s, FreshSpec} /\ hop' \in {"tail", "giveup"}
        BY <2>3 DEF HandsIn, GivesUp, Replies, Complete
      <3>2. spec' \in [round : 1..SupervisorRounds + 1, nudges : 0..SpecialistNudges,
                       evidence : BOOLEAN]
        <4>1. FreshSpec \in [round : 1..SupervisorRounds, nudges : 0..SpecialistNudges,
                             evidence : BOOLEAN]
          BY <1>s DEF FreshSpec
        <4>2. spec' \in [round : 1..SupervisorRounds, nudges : 0..SpecialistNudges,
                         evidence : BOOLEAN]
          BY <1>a, <3>1, <4>1
        <4> QED BY <1>s, <4>2
      <3> QED BY <2>1, <3>1, <3>2 DEF HopInv
    <2> QED BY <1>a, <2>2, <2>3
  <1>w. hop = "specialist" => spec \in [round : 1..SupervisorRounds, nudges : 0..SpecialistNudges,
                                        evidence : BOOLEAN]
    BY <1>s DEF HopInv
  <1>1. CASE Says(RouteAnswers) \/ Says(RouteAutoSkill) \/ Says(RouteSpecialist)
    BY <1>u, <1>1 DEF Says, RouteAnswers, RouteAutoSkill, RouteSpecialist, Complete
  <1>2. CASE EnterHop("route", "orchestrator") \/ EnterHop("giveup", "reroute")
    BY <1>2 DEF EnterHop, HopInv
  <1>3. CASE Says(StepCalls)
    <2> DEFINE s == [spec EXCEPT !.evidence = TRUE]
    <2>1. s \in [round : 1..SupervisorRounds, nudges : 0..SpecialistNudges, evidence : BOOLEAN]
      BY <1>3, <1>w DEF Says, StepCalls
    <2>2. hop = "specialist" /\ UNCHANGED loopvars /\ (HandsIn(s, FALSE) \/ Again(s))
      BY <1>3 DEF Says, StepCalls
    <2> HIDE DEF s
    <2> QED BY <1>a, <2>1, <2>2
  <1>4. CASE Says(StepTalks)
    <2>1. /\ hop = "specialist" /\ UNCHANGED loopvars
          /\ \/ \E reply : HandsIn(spec, reply)
             \/ spec.nudges < SpecialistNudges /\ Again([spec EXCEPT !.nudges = @ + 1])
      BY <1>4 DEF Says, StepTalks
    <2>2. CASE \E reply : HandsIn(spec, reply)
      BY <1>a, <1>w, <2>1, <2>2
    <2>3. CASE spec.nudges < SpecialistNudges /\ Again([spec EXCEPT !.nudges = @ + 1])
      <3> DEFINE k == spec.nudges + 1
                 s == [spec EXCEPT !.nudges = k]
      <3>1. k \in 0..SpecialistNudges
        BY <1>s, <2>3
      <3> HIDE DEF k
      <3>2. s \in [round : 1..SupervisorRounds, nudges : 0..SpecialistNudges, evidence : BOOLEAN]
        BY <1>w, <2>1, <3>1
      <3>3. Again(s)
        BY <2>3 DEF k
      <3> HIDE DEF s
      <3> QED BY <1>a, <2>1, <3>2, <3>3
    <2> QED BY <2>1, <2>2, <2>3
  <1>5. CASE Says(StepFails) \/ Says(StepRaises)
    <2>1. CASE Says(StepFails)
      BY <1>a, <1>w, <2>1 DEF Says, StepFails
    <2>2. CASE Says(StepRaises)
      BY <1>u, <2>2 DEF Says, StepRaises, Complete
    <2> QED BY <1>5, <2>1, <2>2
  <1>6. CASE Says(LoopAnswered) \/ Says(LoopSuspended) \/ Says(Closes)
    BY <1>u, <1>6 DEF Says, LoopAnswered, LoopSuspended, Closes, Replies, Complete
  <1> QED BY <1>1, <1>2, <1>3, <1>4, <1>5, <1>6 DEF SupervisorStep

\* A hop into the loop is the loop's own start.
LEMMA HopEnters ==
  ASSUME LoopInv, pc[Turn] = "off", EnterLoop(Turn),
         UNCHANGED <<at, src, redis, record, crashes>>
  PROVE  LoopInv'
PROOF
  <1>1. /\ LoopTypeOK /\ HitlInv /\ Turn \in Streams /\ Turn \notin Resumes
        /\ pc \in [Streams -> PC] /\ loop \in [Streams -> LoopState]
    BY StreamsAssumption DEF LoopInv, Streams, LoopTypeOK, PC, LoopState
  <1>2. "think" \in PC \ {"ask"} /\ "think" \in InTry
    BY DEF PC, InTry
  <1>3. /\ Go(Turn, "think") /\ loop' = [loop EXCEPT ![Turn] = FreshLoop]
        /\ UNCHANGED <<at, src, ckpt, request, response, used, told, orphaned, undeleted, said, ran,
                       crashes>>
    BY DEF EnterLoop, redis, record
  <1>4. LoopTypeOK'
    <2>1. pc' \in [Streams -> PC] /\ loop' \in [Streams -> LoopState]
      BY <1>1, <1>2, <1>3, LoopMoves, LoopStates
    <2> QED BY <1>1, <1>3, <2>1 DEF LoopTypeOK, PC, LoopState
  <1>5. HitlInv'
    <2>1. pc' = [pc EXCEPT ![Turn] = "think"] /\ \A o \in Streams : o # Turn => loop'[o] = loop[o]
      BY <1>1, <1>3 DEF Go
    <2>2. UNCHANGED <<at, src, request, response, record, crashes>> /\ UNCHANGED ckpt
      BY <1>3 DEF record
    <2> QED BY <1>1, <1>2, <2>1, <2>2, GoesOn
  <1> QED BY <1>4, <1>5 DEF LoopInv

\* What the loop does by itself leaves a stream that was not entered alone, if
\* it is the turn's.
LEMMA LoopWaits ==
  ASSUME LoopInv, pc[Turn] = "off", LoopNext
  PROVE  pc'[Turn] = "off"
PROOF
  <1>1. Turn \in Streams /\ Turn \notin Resumes /\ pc \in [Streams -> PC]
    BY StreamsAssumption DEF LoopInv, Streams, LoopTypeOK, PC
  <1>2. Resumes \subseteq Streams
    BY DEF Streams
  <1>g. ASSUME NEW s \in Streams, s # Turn, NEW w, Go(s, w)
        PROVE  pc'[Turn] = "off"
    BY <1>1, <1>g DEF Go
  <1>3. ASSUME NEW s \in Streams, Step(s)
        PROVE  pc'[Turn] = "off"
    <2>1. s # Turn
      BY <1>3 DEF Step, AnswersDirectly, Talks, Calls, Runs, AsksUser, Heard, Suspends,
                  EndRound, Completes, Raises, InTry
    <2>2. UNCHANGED pc \/ \E w : Go(s, w)
      BY <1>3 DEF Step, AnswersDirectly, Talks, Calls, Runs, AsksUser, Heard, Suspends,
                  EndRound, Completes, Raises, EndStream, Goes, NextRound, EndPass
    <2> QED BY <1>g, <2>1, <2>2
  <1>4. ASSUME NEW r \in Resumes, ResumeStep(r)
        PROVE  pc'[Turn] = "off"
    <2>1. \E w : Go(r, w)
      BY <1>4 DEF ResumeStep, Writes, Loads, Ran, EnterLoop
    <2> QED BY <1>1, <1>2, <1>g, <2>1
  <1>5. CASE LoopWorld
    <2>1. ASSUME NEW s \in Streams, Disconnects(s)
          PROVE  pc'[Turn] = "off"
      <3>1. s # Turn /\ \E w : Go(s, w)
        BY <2>1 DEF Disconnects, EndStream, InTry
      <3> QED BY <1>g, <2>1, <3>1
    <2>2. CASE Crash
      BY <1>1, <2>2 DEF Crash, Live
    <2>3. ASSUME NEW c \in Checkpoints, Expires(c)
          PROVE  pc'[Turn] = "off"
      BY <2>3 DEF Expires
    <2>4. ASSUME NEW r \in Resumes, NEW c \in Checkpoints, NEW answer, NEW writes,
                 Post(r, c, answer, writes)
          PROVE  pc'[Turn] = "off"
      <3>1. \E w : Go(r, w)
        BY <2>4 DEF Post
      <3> QED BY <1>1, <1>2, <1>g, <3>1
    <2> QED BY <1>5, <2>1, <2>2, <2>3, <2>4 DEF LoopWorld
  <1> QED BY <1>3, <1>4, <1>5 DEF LoopNext

LEMMA TurnStep == TurnInv /\ [Next]_vars => TurnInv'
PROOF
  <1> SUFFICES ASSUME TurnInv, [Next]_vars PROVE TurnInv'
    OBVIOUS
  <1>0. LoopInv /\ ShownInv /\ HopInv
    BY DEF TurnInv
  <1>1. CASE SupervisorStep
    <2>1. LoopInv'
      <3>1. CASE UNCHANGED loopvars
        BY <1>0, <3>1, LoopUntouched
      <3>2. CASE EnterHop("route", "orchestrator") \/ EnterHop("giveup", "reroute")
        BY <1>0, <3>2, HopEnters DEF EnterHop, HopInv
      <3> QED BY <1>1, <3>1, <3>2 DEF SupervisorStep, Says
    <2> QED BY <1>0, <1>1, <2>1, TurnShown, TurnHops DEF TurnInv
  <1>2. CASE UNCHANGED vars \/ Says(Cut /\ ~Live(Turn))
    <2>1. UNCHANGED loopvars /\ UNCHANGED spec /\ (hop' = "cut" \/ hop' = hop)
          /\ (Cut \/ UNCHANGED svvars)
      BY <1>2 DEF vars, svvars, Says, Cut
    <2>2. HopInv'
      BY <1>0, <2>1 DEF HopInv, loopvars
    <2> QED BY <1>0, <2>1, <2>2, LoopUntouched, TurnShown DEF TurnInv
  <1>3. CASE LoopNext /\ (Cut \/ UNCHANGED svvars)
    <2>1. LoopInv' /\ ShownInv'
      BY <1>0, <1>3, LoopInvStep, TurnShown
    <2>2. UNCHANGED spec /\ (hop' = "cut" \/ hop' = hop)
      BY <1>3 DEF Cut, svvars
    <2>3. HopInv'
      BY <1>0, <1>3, <2>2, LoopWaits DEF HopInv
    <2> QED BY <2>1, <2>3 DEF TurnInv
  <1> QED BY <1>1, <1>2, <1>3 DEF Next

LEMMA TurnInvHolds == Spec => []TurnInv
PROOF
  BY TurnStart, TurnStep, PTL DEF Spec

-----------------------------------------------------------------------------
(* Theorems. *)

\* Rounds and nudges stay within max_supervisor_rounds and
\* _CONTENT_ONLY_MAX_NUDGES, with the loop entered by a hop (agent_supervisor).
THEOREM TurnTyped == Spec => []TypeOK
PROOF
  <1>1. TurnInv => TypeOK
    BY DEF TurnInv, LoopInv, ShownInv, Hops, HopInv, TypeOK
  <1> QED BY <1>1, TurnInvHolds, PTL

\* The client gets at most one complete event in a turn, and a stream that
\* ends as done has had one, by whichever hop the turn was answered
\* (agent_supervisor, the chat stream's tail).
THEOREM AnswersOnce == Spec => []OneAnswer
PROOF
  <1>1. TurnInv => OneAnswer
    BY DEF TurnInv, ShownInv, OneAnswer
  <1> QED BY <1>1, TurnInvHolds, PTL

\* What ToolLoopProofs says of questions, answers and the tools they confirm,
\* failed calls to Redis included, holds too when the loop is a hop that may come
\* late or be cut.
THEOREM TurnKeepsKeys == Spec => [](SuspendedWaits /\ RunsOnlyAccepted /\ AnsweredIsCleared)
PROOF
  <1>1. TurnInv => SuspendedWaits /\ RunsOnlyAccepted /\ AnsweredIsCleared
    BY LoopSafety DEF TurnInv
  <1> QED BY <1>1, TurnInvHolds, PTL
=============================================================================
