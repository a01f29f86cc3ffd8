------------------------------ MODULE ToolLoop ------------------------------
(***************************************************************************)
(* The orchestrator's tool loop, its questions to the user and the         *)
(* checkpoints a stopped turn is resumed from                              *)
(* (services/agent_tool_loop.py, services/ai_chat_checkpoint.py,           *)
(* core/agent_interrupt_store.py, core/human_in_the_loop.py).              *)
(*                                                                         *)
(* A stream is one run of the loop: the chat turn's, or one opened by      *)
(* POST /checkpoints/{id}/resume.  Before a tool that needs confirmation,  *)
(* or for ask_user_choice, it saves a checkpoint and a request in Redis    *)
(* and polls for the answer for 30 s; without one it ends "suspended" and  *)
(* leaves both for a resume.  After each round of calls it also saves the  *)
(* loop's own checkpoint, for a resume after a crash.                      *)
(*                                                                         *)
(* Redis may fail any call, and the code goes on: a save that reports a    *)
(* failure may have stored, a failed read is no answer, and a failed DEL   *)
(* is ignored.                                                             *)
(*                                                                         *)
(* The endpoints /tools/{id}/confirm and /choose raise ImportError, so the *)
(* answer is written by the resume endpoint only.  The parent loop refuses *)
(* every tool but its orchestration entries, so a tool the user confirms   *)
(* runs in a resumed stream or not at all.  What a tool, the LLM or the    *)
(* plan comes back with is a choice; the message list is not modelled.     *)
(***************************************************************************)
EXTENDS Naturals, Sequences, FiniteSets, FiniteSetsExt

CONSTANTS
  Turn,      \* the stream of the chat turn
  Resumes,   \* the streams opened by the resume endpoint
  Asks,      \* the questions (confirmation_id or choice_id, with checkpoint_id)
  Batches,   \* the sequences of calls the LLM may make in one answer
  Rounds,    \* tool_rounds_for_adaptive_pass
  Passes,    \* max_adaptive_execution_passes
  Nudges,    \* max_nudges of the content-only branch
  Crashes    \* bound: restarts of the API process

Streams == {Turn} \cup Resumes

Kinds == {"plain", "confirm", "choice"}
NoAsk == "none"

ASSUME StreamsAssumption ==
  Turn \notin Resumes /\ Streams \cap Asks = {} /\ NoAsk \notin Streams \cup Asks
ASSUME BatchesAssumption == Batches \subseteq Seq(Kinds)
ASSUME BoundsAssumption ==
  {Rounds, Passes} \subseteq Nat \ {0} /\ {Nudges, Crashes} \subseteq Nat

VARIABLES
  pc,       \* where each stream is
  loop,     \* its loop_state and counters
  at,       \* the question a stream polls
  src,      \* the checkpoint a resume works on, and the answer it brings
  ckpt,     \* Redis: the phase of each checkpoint, "none" when there is no key
  request,  \* Redis: the request's own fields are there
  response, \* Redis: the "response" field of the request's key
  used,     \* the ids generated
  told,     \* questions reported suspended, that no resume has finished since
  orphaned, \* questions whose stream stopped waiting and told nobody
  undeleted,\* questions whose checkpoint is left because its DEL failed
  said,     \* what the user answered to each question, in any resume
  ran,      \* how often the confirmed tool of each question was started
  crashes

redis == <<ckpt, request, response>>
record == <<used, told, orphaned, undeleted, said, ran>>
loopvars == <<pc, loop, at, src, redis, record, crashes>>

\* A confirmation and a choice have an id of their own; the checkpoint saved
\* between rounds is named after the stream, whose loop_state keeps its id.
Checkpoints == Asks \cup Streams

Ended == {"complete", "suspended", "raised", "cut", "over"}

\* How the chat turn's stream ended matters to its supervisor; nobody but the
\* client learns how a resume did.
Over(s, how) == IF s \in Resumes THEN "over" ELSE how
Live(s) == pc[s] \notin Ended \cup {"off"}

\* Where a stream is within the loop, or a resume within its try.
InTry == {"run", "think", "calls", "ask", "closing"}

FreshLoop == [pass |-> 1, round |-> 1, nudges |-> 0,
              evidence |-> FALSE, confirmed |-> FALSE, batch |-> <<>>]

\* The chat turn's stream has entered the loop, or will.
LoopInit(where) ==
  /\ pc = [s \in Streams |-> IF s = Turn THEN where ELSE "off"]
  /\ loop = [s \in Streams |-> FreshLoop]
  /\ at = [s \in Streams |-> NoAsk]
  /\ src = [r \in Resumes |-> [id |-> NoAsk, answer |-> "none"]]
  /\ ckpt = [c \in Checkpoints |-> "none"]
  /\ request = [a \in Asks |-> FALSE]
  /\ response = [a \in Asks |-> "none"]
  /\ used = {} /\ told = {} /\ orphaned = {} /\ undeleted = {}
  /\ said = [a \in Asks |-> {}]
  /\ ran = [a \in Asks |-> 0]
  /\ crashes = 0

Asking(batch) == Cardinality({k \in DOMAIN batch : batch[k] # "plain"})

\* The ids no stream has generated and no batch under way may still need.
Spare == Cardinality(Asks \ used) - MapThenSumSet(LAMBDA s : Asking(loop[s].batch), Streams)

Go(s, where) == pc' = [pc EXCEPT ![s] = where]

\* The next call of the batch, with what this one left in loop_state.
Drop(s, evidence) ==
  loop' = [loop EXCEPT ![s].batch = Tail(@), ![s].evidence = @ \/ evidence]

\* Each DEL of what is to go may fail, and nobody looks at its result.
Clears(gone) ==
  \E deleted \in SUBSET gone, emptied \in SUBSET gone :
    /\ ckpt' = [c \in Checkpoints |-> IF c \in deleted THEN "none" ELSE ckpt[c]]
    /\ request' = [a \in Asks |-> request[a] /\ a \notin emptied]
    /\ response' = [a \in Asks |-> IF a \in emptied THEN "none" ELSE response[a]]
    /\ undeleted' = {a \in undeleted \cup (gone \cap Asks) : a \notin deleted /\ ckpt[a] # "none"}

\* What the end of a stream leaves of its own question, once what it resumed
\* is done with.
Leaves(s, how, gone) ==
  /\ told' = (told \ gone) \cup (IF how = "suspended" THEN {at[s]} ELSE {})
  /\ orphaned' = (orphaned \ gone) \cup (IF how = "suspended" THEN {} ELSE {at[s]} \cap Asks)
  /\ loop' = [loop EXCEPT ![s] = FreshLoop]
  /\ at' = [at EXCEPT ![s] = NoAsk]

Resumed(s) == IF s \in Resumes THEN {src[s].id} ELSE {}

\* Mutant of EndStream: the finally clears the requests but not the checkpoint.
EndKeepsCheckpoint(s, how) ==
  /\ Go(s, Over(s, how))
  /\ LET gone == Resumed(s) IN
     /\ request' = [a \in Asks |-> request[a] /\ a \notin gone]
     /\ response' = [a \in Asks |-> IF a \in gone THEN "none" ELSE response[a]]
     /\ Leaves(s, how, gone)
  /\ UNCHANGED <<ckpt, undeleted>>

\* The stream ends; a resume's finally clears what it was resumed from.
EndStream(s, how) == Go(s, Over(s, how)) /\ Clears(Resumed(s)) /\ Leaves(s, how, Resumed(s))

\* The loop is entered with a loop_state of its own, a resumed one too.
EnterLoop(s) ==
  /\ Go(s, "think")
  /\ loop' = [loop EXCEPT ![s] = FreshLoop]

(***************************************************************************)
(* The rounds.                                                             *)
(***************************************************************************)

\* A pass is over: the goal is met or passes are used up, or a new plan.
EndPass(s, evidence) ==
  \/ /\ Go(s, "closing")
     /\ loop' = [loop EXCEPT ![s].batch = <<>>, ![s].evidence = evidence]
  \/ /\ loop[s].pass < Passes
     /\ Go(s, "think")
     /\ loop' = [loop EXCEPT ![s] = [FreshLoop EXCEPT !.pass = loop[s].pass + 1,
                   !.evidence = evidence, !.confirmed = loop[s].confirmed]]

\* Mutant of NextRound: one round too many.
OneRoundMore(s, nudges) ==
  IF loop[s].round <= Rounds
  THEN /\ Go(s, "think")
       /\ loop' = [loop EXCEPT ![s].round = @ + 1, ![s].nudges = nudges]
  ELSE EndPass(s, loop[s].evidence)

\* Mutant of NextRound: the rounds are not counted.
RoundsUncounted(s, nudges) == Go(s, "think") /\ loop' = [loop EXCEPT ![s].nudges = nudges]

NextRound(s, nudges) ==
  IF loop[s].round < Rounds
  THEN /\ Go(s, "think")
       /\ loop' = [loop EXCEPT ![s].round = @ + 1, ![s].nudges = nudges]
  ELSE EndPass(s, loop[s].evidence)

\* A planned direct answer, a semantic answer, an empty choice: a complete
\* event at once.
AnswersDirectly(s) ==
  /\ pc[s] = "think"
  /\ EndStream(s, "complete")
  /\ UNCHANGED <<src, used, said, ran, crashes>>

\* The LLM answers with text only.
Talks(s) ==
  /\ pc[s] = "think"
  /\ \/ EndPass(s, loop[s].evidence)   \* evidence, a deliverable, or no tools
     \/ /\ ~loop[s].evidence
        /\ loop[s].nudges < Nudges
        /\ NextRound(s, loop[s].nudges + 1)
  /\ UNCHANGED <<at, src, redis, record, crashes>>

Calls(s) ==
  /\ pc[s] = "think"
  /\ \E b \in Batches :
       /\ Asking(b) <= Spare
       /\ loop' = [loop EXCEPT ![s].batch = b]
  /\ Go(s, "calls")
  /\ UNCHANGED <<at, src, redis, record, crashes>>

\* A tool the loop may call, a cached result, a broken circuit, or the error
\* for a tool that must be delegated; a tool that raises is a failed result.
Runs(s) ==
  /\ pc[s] = "calls" /\ loop[s].batch # <<>>
  /\ Head(loop[s].batch) = "plain" \/ (Head(loop[s].batch) = "confirm" /\ loop[s].confirmed)
  /\ Drop(s, TRUE)
  /\ UNCHANGED <<pc, at, src, redis, record, crashes>>

\* The checkpoint and the request are saved.  Unless both calls report success a
\* tool to be confirmed goes on to be refused, and a choice is a failed result.
AsksUser(s, a, saved, stored, waits) ==
  LET kind == Head(loop[s].batch) IN
  /\ pc[s] = "calls" /\ loop[s].batch # <<>>
  /\ kind = "choice" \/ (kind = "confirm" /\ ~loop[s].confirmed)
  /\ a \notin used
  /\ used' = used \cup {a}
  /\ waits => saved /\ stored
  /\ ckpt' = [ckpt EXCEPT ![a] = IF saved THEN kind ELSE "none"]
  /\ request' = [request EXCEPT ![a] = stored]
  /\ orphaned' = IF saved /\ ~waits THEN orphaned \cup {a} ELSE orphaned
  /\ IF waits
     THEN Go(s, "ask") /\ at' = [at EXCEPT ![s] = a] /\ UNCHANGED loop
     ELSE Drop(s, kind = "confirm") /\ UNCHANGED <<pc, at>>
  /\ UNCHANGED <<src, response, told, undeleted, said, ran, crashes>>

\* Accepted opens the batch's confirmed tools, rejected leaves this call without
\* a result.
Goes(s) ==
  /\ IF response[at[s]] = "accepted"
     THEN loop' = [loop EXCEPT ![s].confirmed = TRUE]
     ELSE Drop(s, FALSE)
  /\ Go(s, "calls")
  /\ at' = [at EXCEPT ![s] = NoAsk]

\* Mutant of Heard: a rejection leaves the checkpoint.
HeardKeeps(s) ==
  /\ pc[s] = "ask" /\ response[at[s]] # "none"
  /\ IF response[at[s]] = "rejected" THEN UNCHANGED <<redis, undeleted>> ELSE Clears({at[s]})
  /\ Goes(s)
  /\ UNCHANGED <<src, used, told, orphaned, said, ran, crashes>>

\* _hitl_poll returns the answer: both keys are to go.
Heard(s) ==
  /\ pc[s] = "ask" /\ response[at[s]] # "none"
  /\ Clears({at[s]})
  /\ Goes(s)
  /\ UNCHANGED <<src, used, told, orphaned, said, ran, crashes>>

\* Thirty seconds are over, whatever came since the last read: the generator
\* returns without complete.
Suspends(s) ==
  /\ pc[s] = "ask"
  /\ EndStream(s, "suspended")
  /\ UNCHANGED <<src, used, said, ran, crashes>>

\* The batch is done: the loop's own checkpoint is saved (or not), and the goal
\* decides whether another round follows.
EndRound(s) ==
  /\ pc[s] = "calls" /\ loop[s].batch = <<>>
  /\ \E saved \in BOOLEAN :
       ckpt' = [ckpt EXCEPT ![s] = IF saved THEN "round" ELSE @]
  /\ NextRound(s, loop[s].nudges) \/ EndPass(s, loop[s].evidence)
  /\ UNCHANGED <<at, src, request, response, record, crashes>>

\* The final reply is synthesised and sent with the complete event.
Completes(s) ==
  /\ pc[s] = "closing"
  /\ EndStream(s, "complete")
  /\ UNCHANGED <<src, used, said, ran, crashes>>

\* The LLM client, the database, a plan or the arguments of a call raise.
Raises(s) ==
  /\ pc[s] \in InTry
  /\ EndStream(s, "raised")
  /\ UNCHANGED <<src, used, said, ran, crashes>>

(***************************************************************************)
(* Resuming.                                                               *)
(***************************************************************************)

\* POST /checkpoints/{id}/resume loads the checkpoint.  A confirmation is
\* written unless the answer read here is there; a choice only if the key is, to
\* validate it.  A read that fails finds nothing.
Post(r, c, answer, writes) ==
  /\ pc[r] = "off" /\ ckpt[c] # "none"
  /\ answer # "none" => c \in Asks /\ (answer = "chosen") = (ckpt[c] = "choice")
  /\ writes => answer # "none" /\ (answer = "chosen" => request[c] \/ response[c] # "none")
  /\ answer \in {"accepted", "rejected"} /\ response[c] = "none" => writes
  /\ said' = IF answer = "none" THEN said ELSE [said EXCEPT ![c] = @ \cup {answer}]
  /\ src' = [src EXCEPT ![r] = [id |-> c, answer |-> answer]]
  /\ Go(r, IF writes THEN "posting" ELSE "opened")
  /\ UNCHANGED <<loop, at, redis, used, told, orphaned, undeleted, ran, crashes>>

\* HSET makes the key anew when the other stream has just deleted it, or fails.
Writes(r) ==
  /\ pc[r] = "posting"
  /\ UNCHANGED response \/ response' = [response EXCEPT ![src[r].id] = src[r].answer]
  /\ Go(r, "opened")
  /\ UNCHANGED <<loop, at, src, ckpt, request, record, crashes>>

\* Mutant of Loads: the return without an answer runs the finally.
LoadsInTry(r) ==
  /\ pc[r] = "opened"
  /\ EndStream(r, "raised")
  /\ UNCHANGED <<src, used, said, ran, crashes>>

\* Mutant of Loads: whatever is not a refusal runs the tool.
LoadsUnlessRejected(r) ==
  /\ pc[r] = "opened" /\ src[r].id \in Asks
  /\ IF response[src[r].id] = "rejected"
     THEN EnterLoop(r) /\ UNCHANGED ran
     ELSE Go(r, "run") /\ ran' = [ran EXCEPT ![src[r].id] = @ + 1] /\ UNCHANGED loop
  /\ UNCHANGED <<at, src, redis, used, told, orphaned, undeleted, said, crashes>>

\* iter_resumed_agent_stream loads again.  Without a checkpoint or an answer, or
\* when a read fails, it ends before its try; a choice is resumed as a refusal,
\* for only a confirmation sets accepted.
Loads(r) ==
  LET c == src[r].id
      answer == IF ckpt[c] = "round" THEN "resume"
                ELSE IF c \in Asks THEN response[c] ELSE "none" IN
  /\ pc[r] = "opened"
  /\ \/ Go(r, "over") /\ UNCHANGED <<loop, ran>>
     \/ /\ ckpt[c] # "none" /\ answer # "none"
        /\ IF ckpt[c] = "confirm" /\ answer = "accepted"
           THEN Go(r, "run") /\ ran' = [ran EXCEPT ![c] = @ + 1] /\ UNCHANGED loop
           ELSE EnterLoop(r) /\ UNCHANGED ran
  /\ UNCHANGED <<at, src, redis, used, told, orphaned, undeleted, said, crashes>>

\* The confirmed tool has returned, without a timeout or a circuit breaker.
Ran(r) ==
  /\ pc[r] = "run"
  /\ EnterLoop(r)
  /\ UNCHANGED <<at, src, redis, record, crashes>>

(***************************************************************************)
(* The world.                                                              *)
(***************************************************************************)

\* The client goes away: CancelledError at the next await, through finally, or
\* at the event a resume yields before its try.
Disconnects(s) ==
  \/ /\ pc[s] \in InTry
     /\ EndStream(s, "cut")
     /\ UNCHANGED <<src, used, said, ran, crashes>>
  \/ /\ pc[s] = "opened" /\ Go(s, "over")
     /\ UNCHANGED <<loop, at, src, redis, record, crashes>>

\* The process is killed: no finally runs.
Crash ==
  /\ crashes < Crashes
  /\ \E s \in Streams : Live(s)
  /\ crashes' = crashes + 1
  /\ pc' = [s \in Streams |-> IF Live(s) THEN Over(s, "cut") ELSE pc[s]]
  /\ loop' = [s \in Streams |-> FreshLoop]
  /\ at' = [s \in Streams |-> NoAsk]
  /\ orphaned' = orphaned \cup {a \in Asks : \E s \in Streams : at[s] = a}
  /\ UNCHANGED <<src, redis, used, told, undeleted, said, ran>>

\* The streams that have to do with a checkpoint.
Working(c) ==
  {s \in Streams : Live(s) /\ (at[s] = c \/ s = c \/ (s \in Resumes /\ src[s].id = c))}

\* A day has passed; no stream lives that long.
Expires(c) ==
  /\ ckpt[c] # "none" /\ Working(c) = {}
  /\ ckpt' = [ckpt EXCEPT ![c] = "none"]
  /\ request' = [a \in Asks |-> request[a] /\ a # c]
  /\ response' = [a \in Asks |-> IF a = c THEN "none" ELSE response[a]]
  /\ told' = told \ {c} /\ orphaned' = orphaned \ {c} /\ undeleted' = undeleted \ {c}
  /\ UNCHANGED <<pc, loop, at, src, used, said, ran, crashes>>

Step(s) ==
  \/ AnswersDirectly(s) \/ Talks(s) \/ Calls(s) \/ Runs(s)
  \/ \E a \in Asks, saved, stored, waits \in BOOLEAN : AsksUser(s, a, saved, stored, waits)
  \/ Heard(s) \/ Suspends(s) \/ EndRound(s) \/ Completes(s) \/ Raises(s)

ResumeStep(r) == Writes(r) \/ Loads(r) \/ Ran(r)

LoopWorld ==
  \/ \E s \in Streams : Disconnects(s)
  \/ Crash
  \/ \E c \in Checkpoints : Expires(c)
  \/ \E r \in Resumes, c \in Checkpoints, answer \in {"none", "accepted", "rejected", "chosen"},
        writes \in BOOLEAN : Post(r, c, answer, writes)

LoopNext == (\E s \in Streams : Step(s)) \/ (\E r \in Resumes : ResumeStep(r)) \/ LoopWorld

(***************************************************************************)
(* Properties.                                                             *)
(***************************************************************************)

LoopTypeOK ==
  /\ pc \in [Streams -> Ended \cup
              {"off", "posting", "opened", "run", "think", "calls", "ask", "closing"}]
  /\ loop \in [Streams -> [pass : 1..Passes, round : 1..Rounds, nudges : 0..Nudges,
                           evidence : BOOLEAN, confirmed : BOOLEAN, batch : Seq(Kinds)]]
  /\ at \in [Streams -> Asks \cup {NoAsk}]
  /\ src \in [Resumes -> [id : Checkpoints \cup {NoAsk},
                          answer : {"none", "accepted", "rejected", "chosen"}]]
  /\ ckpt \in [Checkpoints -> {"none", "confirm", "choice", "round"}]
  /\ request \in [Asks -> BOOLEAN]
  /\ response \in [Asks -> {"none", "accepted", "rejected", "chosen"}]
  /\ used \subseteq Asks /\ told \subseteq used
  /\ orphaned \subseteq Asks /\ undeleted \subseteq Asks
  /\ said \in [Asks -> SUBSET {"accepted", "rejected", "chosen"}]
  /\ ran \in [Asks -> Nat]
  /\ crashes \in 0..Crashes

\* A turn that was reported suspended can be resumed: until the user answers or
\* the day is over, the checkpoint and its request stay in Redis, whatever
\* other streams, early resumes and restarts do.
SuspendedWaits ==
  \A a \in told : said[a] = {} => ckpt[a] # "none" /\ request[a]

\* A tool that needs confirmation is started for a question only after the user
\* accepted that question.
RunsOnlyAccepted == \A a \in Asks : ran[a] > 0 => "accepted" \in said[a]

\* A checkpoint that nobody polls is there for a reason: the client was told of
\* it and no resume has finished, its stream was lost (or failed half a save)
\* without telling, or Redis failed the DEL.  An answer, a refusal or a finished
\* resume leaves no other.
AnsweredIsCleared ==
  \A a \in Asks : ckpt[a] # "none" =>
    a \in told \cup orphaned \cup undeleted \/ \E s \in Streams : at[s] = a

\* The tool of a question is started a second time only beside another resume
\* of it that is still under way, or when a crash or a failed DEL kept that one
\* from clearing the checkpoint.
RunsAgainOnlyBeside ==
  [][\A a \in Asks : ran[a] > 0 /\ ran'[a] > ran[a] /\ crashes = 0 /\ a \notin undeleted
       => \E r \in Resumes : src[r].id = a /\ pc[r] \in InTry]_loopvars

LoopFairness ==
  /\ \A s \in Streams : WF_loopvars(Step(s))
  /\ \A r \in Resumes : WF_loopvars(ResumeStep(r))

LoopSpec == LoopInit("think") /\ [][LoopNext]_loopvars

\* Every stream ends: rounds, passes and nudges are counted, the poll gives up
\* after 30 s, and every tool call ends, in time or by its timeout.
EveryStreamEnds == \A s \in Streams : Live(s) ~> ~Live(s)
=============================================================================
