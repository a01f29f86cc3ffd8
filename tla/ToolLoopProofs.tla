--------------------------- MODULE ToolLoopProofs ---------------------------
(***************************************************************************)
(* Proofs about the tool loop (ToolLoop), for any streams, questions and   *)
(* batches of calls, and any bounds.                                       *)
(*                                                                         *)
(*   LoopTyped            LoopSpec => []LoopTypeOK                         *)
(*   SuspensionsWait      LoopSpec => []SuspendedWaits                     *)
(*   ConsentComesFirst    LoopSpec => []RunsOnlyAccepted                   *)
(*   AnswersClear         LoopSpec => []AnsweredIsCleared                  *)
(*   SecondRunsOverlap    LoopSpec => RunsAgainOnlyBeside                  *)
(*                                                                         *)
(* All rest on HitlInv, which says who may take a question's keys out of   *)
(* Redis and what he has then seen: the stream that polls it, or a resume  *)
(* that is past its second load.                                           *)
(***************************************************************************)
EXTENDS ToolLoop, TLAPS

\* A stream that polls polls a question of the call it has come to.
PollInv ==
  \A s \in Streams : /\ pc[s] = "ask" <=> at[s] \in Asks
                     /\ pc[s] = "ask" => loop[s].batch # <<>>
                     /\ at[s] \in Asks => at[s] \in used

\* Keys in Redis belong to questions that were asked, and answers to users.
KeyInv ==
  \A a \in Asks : /\ ckpt[a] # "round" /\ (ckpt[a] # "none" => a \in used)
                  /\ response[a] \in {"none"} \cup said[a]

\* A resume about to write brings what the user said; one past its load has an
\* answer to go by.
SourceInv ==
  \A r \in Resumes :
    /\ pc[r] = "posting" => src[r].id \in Asks /\ src[r].answer \in said[src[r].id]
    /\ pc[r] \in InTry /\ src[r].id \in Asks => said[src[r].id] # {}

\* The keys of a question that is polled, or was left to a resume, stay until
\* the user answers.
WaitInv ==
  \A a \in Asks : a \in told \/ (\E s \in Streams : at[s] = a)
    => said[a] # {} \/ (ckpt[a] # "none" /\ request[a])

\* A tool is started after its user's consent, and its checkpoint is gone when
\* the last stream that started it has ended, unless Redis failed the DEL.
RunInv ==
  \A a \in Asks : ran[a] > 0 =>
    /\ "accepted" \in said[a] /\ a \in used
    /\ crashes = 0 /\ ckpt[a] # "none" /\ a \notin undeleted =>
         \E r \in Resumes : src[r].id = a /\ pc[r] \in InTry

HitlInv == PollInv /\ KeyInv /\ SourceInv /\ WaitInv /\ AnsweredIsCleared /\ RunInv

-----------------------------------------------------------------------------
(* Types. *)

PC == Ended \cup {"off", "posting", "opened", "run", "think", "calls", "ask", "closing"}
LoopState == [pass : 1..Passes, round : 1..Rounds, nudges : 0..Nudges,
              evidence : BOOLEAN, confirmed : BOOLEAN, batch : Seq(Kinds)]
Answers == {"none", "accepted", "rejected", "chosen"}

\* A new loop_state, and one with a field changed, is a loop_state.
LEMMA LoopStates ==
  /\ FreshLoop \in LoopState
  /\ \A l \in LoopState :
       /\ \A b \in Seq(Kinds) : [l EXCEPT !.batch = b] \in LoopState
       /\ [l EXCEPT !.confirmed = TRUE] \in LoopState
       /\ \A e \in BOOLEAN : [l EXCEPT !.batch = <<>>, !.evidence = e] \in LoopState
       /\ l.batch # <<>> => \A e \in BOOLEAN :
            [l EXCEPT !.batch = Tail(@), !.evidence = @ \/ e] \in LoopState
       /\ \A n \in 0..Nudges : l.round < Rounds =>
            [l EXCEPT !.round = @ + 1, !.nudges = n] \in LoopState
       /\ \A e \in BOOLEAN : l.pass < Passes =>
            [FreshLoop EXCEPT !.pass = l.pass + 1, !.evidence = e, !.confirmed = l.confirmed]
              \in LoopState
PROOF
  <1>1. FreshLoop \in LoopState
    BY BoundsAssumption DEF FreshLoop, LoopState
  <1>2. ASSUME NEW l \in LoopState
        PROVE  /\ \A b \in Seq(Kinds) : [l EXCEPT !.batch = b] \in LoopState
               /\ [l EXCEPT !.confirmed = TRUE] \in LoopState
               /\ \A e \in BOOLEAN : [l EXCEPT !.batch = <<>>, !.evidence = e] \in LoopState
    <2>1. \A b \in Seq(Kinds) : [l EXCEPT !.batch = b] \in LoopState
      BY DEF LoopState
    <2>2. [l EXCEPT !.confirmed = TRUE] \in LoopState
      BY DEF LoopState
    <2>3. ASSUME NEW e \in BOOLEAN
          PROVE  [l EXCEPT !.batch = <<>>, !.evidence = e] \in LoopState
      <3>1. <<>> \in Seq(Kinds)
        OBVIOUS
      <3> QED BY <3>1 DEF LoopState
    <2> QED BY <2>1, <2>2, <2>3
  <1>3. ASSUME NEW l \in LoopState, l.batch # <<>>, NEW e \in BOOLEAN
        PROVE  [l EXCEPT !.batch = Tail(@), !.evidence = @ \/ e] \in LoopState
    <2> DEFINE b == Tail(l.batch)
               f == l.evidence \/ e
    <2>1. b \in Seq(Kinds)
      <3>1. l.batch \in Seq(Kinds)
        BY DEF LoopState
      <3> QED BY <1>3, <3>1
    <2>2. f \in BOOLEAN
      BY Zenon
    <2> HIDE DEF b, f
    <2>3. [l EXCEPT !.batch = b, !.evidence = f] \in LoopState
      BY <2>1, <2>2 DEF LoopState
    <2> QED BY <2>3 DEF b, f
  <1>4. ASSUME NEW l \in LoopState, NEW n \in 0..Nudges, l.round < Rounds
        PROVE  [l EXCEPT !.round = @ + 1, !.nudges = n] \in LoopState
    <2> DEFINE k == l.round + 1
    <2>1. k \in 1..Rounds
      BY <1>4, BoundsAssumption DEF LoopState
    <2> HIDE DEF k
    <2>2. [l EXCEPT !.round = k, !.nudges = n] \in LoopState
      BY <2>1 DEF LoopState
    <2> QED BY <2>2 DEF k
  <1>5. ASSUME NEW l \in LoopState, NEW e \in BOOLEAN, l.pass < Passes
        PROVE  [FreshLoop EXCEPT !.pass = l.pass + 1, !.evidence = e, !.confirmed = l.confirmed]
                 \in LoopState
    <2> DEFINE k == l.pass + 1
    <2>1. k \in 1..Passes /\ l.confirmed \in BOOLEAN
      BY <1>5, BoundsAssumption DEF LoopState
    <2> HIDE DEF k
    <2>2. [FreshLoop EXCEPT !.pass = k, !.evidence = e, !.confirmed = l.confirmed] \in LoopState
      BY <1>1, <2>1 DEF LoopState
    <2> QED BY <2>2 DEF k
  <1> QED BY <1>1, <1>2, <1>3, <1>4, <1>5

\* A step of one stream keeps the type of the loop_states.
LEMMA LoopMoves ==
  ASSUME LoopTypeOK, NEW s \in Streams
  PROVE  /\ loop[s] \in LoopState
         /\ \A l \in LoopState : loop' = [loop EXCEPT ![s] = l] => loop' \in [Streams -> LoopState]
         /\ \A w \in PC : Go(s, w) => pc' \in [Streams -> PC]
         /\ \A e \in BOOLEAN : EndPass(s, e) =>
              pc' \in [Streams -> PC] /\ loop' \in [Streams -> LoopState]
         /\ \A n \in 0..Nudges : NextRound(s, n) =>
              pc' \in [Streams -> PC] /\ loop' \in [Streams -> LoopState]
         /\ \A e \in BOOLEAN : loop[s].batch # <<>> /\ Drop(s, e) =>
              loop' \in [Streams -> LoopState]
PROOF
  <1>1. loop \in [Streams -> LoopState] /\ pc \in [Streams -> PC]
    BY DEF LoopTypeOK, LoopState, PC
  <1>2. \A w \in PC : Go(s, w) => pc' \in [Streams -> PC]
    BY <1>1 DEF Go
  <1>3. \A l \in LoopState : loop' = [loop EXCEPT ![s] = l] => loop' \in [Streams -> LoopState]
    BY <1>1
  <1>4. {"think", "closing"} \subseteq PC /\ loop[s].evidence \in BOOLEAN
    BY <1>1 DEF PC, LoopState
  <1>5. ASSUME NEW e \in BOOLEAN, EndPass(s, e)
        PROVE  pc' \in [Streams -> PC] /\ loop' \in [Streams -> LoopState]
    <2>1. pc' \in [Streams -> PC]
      BY <1>2, <1>4, <1>5 DEF EndPass
    <2>2. CASE loop' = [loop EXCEPT ![s].batch = <<>>, ![s].evidence = e]
      <3>1. loop' = [loop EXCEPT ![s] = [loop[s] EXCEPT !.batch = <<>>, !.evidence = e]]
        BY <1>1, <2>2
      <3> QED BY <1>1, <1>3, <2>1, <3>1, LoopStates
    <2>3. CASE loop[s].pass < Passes /\
               loop' = [loop EXCEPT ![s] = [FreshLoop EXCEPT !.pass = loop[s].pass + 1,
                          !.evidence = e, !.confirmed = loop[s].confirmed]]
      BY <1>1, <1>3, <2>1, <2>3, LoopStates
    <2> QED BY <1>5, <2>1, <2>2, <2>3 DEF EndPass
  <1>6. ASSUME NEW n \in 0..Nudges, NextRound(s, n)
        PROVE  pc' \in [Streams -> PC] /\ loop' \in [Streams -> LoopState]
    <2>1. CASE loop[s].round < Rounds
      <3>1. Go(s, "think")
        BY <1>6, <2>1 DEF NextRound
      <3>2. loop' = [loop EXCEPT ![s] = [loop[s] EXCEPT !.round = @ + 1, !.nudges = n]]
        BY <1>1, <1>6, <2>1 DEF NextRound
      <3>3. [loop[s] EXCEPT !.round = @ + 1, !.nudges = n] \in LoopState
        BY <1>1, <2>1, LoopStates
      <3> QED BY <1>2, <1>3, <1>4, <3>1, <3>2, <3>3
    <2>2. CASE ~(loop[s].round < Rounds)
      BY <1>4, <1>5, <1>6, <2>2 DEF NextRound
    <2> QED BY <2>1, <2>2
  <1>7. ASSUME NEW e \in BOOLEAN, loop[s].batch # <<>>, Drop(s, e)
        PROVE  loop' \in [Streams -> LoopState]
    <2>1. loop' = [loop EXCEPT ![s] = [loop[s] EXCEPT !.batch = Tail(@), !.evidence = @ \/ e]]
      BY <1>1, <1>7 DEF Drop
    <2> QED BY <1>1, <1>3, <1>7, <2>1, LoopStates
  <1> QED BY <1>1, <1>2, <1>3, <1>5, <1>6, <1>7

\* What clearing a question's keys leaves in Redis.
LEMMA ClearEffect ==
  ASSUME LoopTypeOK, NEW gone, Clears(gone)
  PROVE  /\ ckpt' \in [Checkpoints -> {"none", "confirm", "choice", "round"}]
         /\ request' \in [Asks -> BOOLEAN] /\ response' \in [Asks -> Answers]
         /\ undeleted' \subseteq Asks
         /\ \A a \in Asks :
              /\ ckpt'[a] \in {ckpt[a], "none"} /\ response'[a] \in {response[a], "none"}
              /\ a \notin gone => ckpt'[a] = ckpt[a] /\ request'[a] = request[a]
              /\ a \in gone \/ a \in undeleted => ckpt'[a] = "none" \/ a \in undeleted'
PROOF
  <1>1. PICK deleted \in SUBSET gone, emptied \in SUBSET gone :
          /\ ckpt' = [c \in Checkpoints |-> IF c \in deleted THEN "none" ELSE ckpt[c]]
          /\ request' = [a \in Asks |-> request[a] /\ a \notin emptied]
          /\ response' = [a \in Asks |-> IF a \in emptied THEN "none" ELSE response[a]]
          /\ undeleted' = {a \in undeleted \cup (gone \cap Asks) :
                              a \notin deleted /\ ckpt[a] # "none"}
    BY DEF Clears
  <1>2. Asks \subseteq Checkpoints /\ undeleted \subseteq Asks
    BY DEF Checkpoints, LoopTypeOK
  <1>3. ckpt' \in [Checkpoints -> {"none", "confirm", "choice", "round"}]
    BY <1>1 DEF LoopTypeOK
  <1>4. request' \in [Asks -> BOOLEAN]
    BY <1>1 DEF LoopTypeOK
  <1>5. response' \in [Asks -> Answers]
    BY <1>1 DEF LoopTypeOK, Answers
  <1>6. undeleted' \subseteq Asks
    BY <1>1, <1>2
  <1>7. ASSUME NEW a \in Asks
        PROVE  /\ ckpt'[a] = IF a \in deleted THEN "none" ELSE ckpt[a]
               /\ response'[a] \in {response[a], "none"}
               /\ a \notin gone => request'[a] = request[a]
    <2>1. ckpt'[a] = IF a \in deleted THEN "none" ELSE ckpt[a]
      BY <1>1, <1>2
    <2>2. response'[a] \in {response[a], "none"}
      BY <1>1
    <2>3. a \notin gone => request'[a] = request[a]
      <3>1. request'[a] = (request[a] /\ a \notin emptied) /\ request[a] \in BOOLEAN
        BY <1>1 DEF LoopTypeOK
      <3> QED BY <3>1
    <2> QED BY <2>1, <2>2, <2>3
  <1>8. ASSUME NEW a \in Asks, a \in gone \/ a \in undeleted, ckpt'[a] # "none"
        PROVE  a \in undeleted'
    BY <1>1, <1>7, <1>8
  <1> QED BY <1>3, <1>4, <1>5, <1>6, <1>7, <1>8

\* What the end of a stream does to it and to Redis.
LEMMA EndEffect ==
  ASSUME LoopTypeOK, NEW s \in Streams, NEW how \in Ended, EndStream(s, how)
  PROVE  /\ pc' = [pc EXCEPT ![s] = Over(s, how)] /\ at' = [at EXCEPT ![s] = NoAsk]
         /\ loop' = [loop EXCEPT ![s] = FreshLoop]
         /\ told' = (told \ Resumed(s)) \cup (IF how = "suspended" THEN {at[s]} ELSE {})
         /\ orphaned' = (orphaned \ Resumed(s)) \cup
                          (IF how = "suspended" THEN {} ELSE {at[s]} \cap Asks)
         /\ ckpt' \in [Checkpoints -> {"none", "confirm", "choice", "round"}]
         /\ request' \in [Asks -> BOOLEAN] /\ response' \in [Asks -> Answers]
         /\ undeleted' \subseteq Asks
         /\ \A a \in Asks :
              /\ ckpt'[a] \in {ckpt[a], "none"} /\ response'[a] \in {response[a], "none"}
              /\ a \notin Resumed(s) => ckpt'[a] = ckpt[a] /\ request'[a] = request[a]
              /\ a \in Resumed(s) \/ a \in undeleted => ckpt'[a] = "none" \/ a \in undeleted'
PROOF
  <1>1. Clears(Resumed(s))
    BY DEF EndStream
  <1>2. /\ pc' = [pc EXCEPT ![s] = Over(s, how)] /\ at' = [at EXCEPT ![s] = NoAsk]
        /\ loop' = [loop EXCEPT ![s] = FreshLoop]
        /\ told' = (told \ Resumed(s)) \cup (IF how = "suspended" THEN {at[s]} ELSE {})
        /\ orphaned' = (orphaned \ Resumed(s)) \cup
                         (IF how = "suspended" THEN {} ELSE {at[s]} \cap Asks)
    BY DEF EndStream, Leaves, Go
  <1> QED BY <1>1, <1>2, ClearEffect

\* A stream that ends, ends.
LEMMA OverEnds == \A s, how : how \in Ended => Over(s, how) \in Ended
PROOF
  BY DEF Over, Ended

LEMMA LoopTypesStart == ASSUME NEW where \in PC, LoopInit(where) PROVE LoopTypeOK
PROOF
  <1>1. loop \in [Streams -> LoopState]
    BY LoopStates DEF LoopInit
  <1>2. pc \in [Streams -> PC]
    BY DEF LoopInit, PC
  <1>3. crashes \in 0..Crashes
    BY BoundsAssumption DEF LoopInit
  <1> QED BY <1>1, <1>2, <1>3 DEF LoopInit, LoopTypeOK, LoopState, PC

\* The end of a stream keeps the types.
LEMMA LoopTypesEnd ==
  ASSUME LoopTypeOK, PollInv, NEW s \in Streams, NEW how \in Ended, EndStream(s, how),
         UNCHANGED <<src, used, said, ran, crashes>>, how = "suspended" => pc[s] = "ask"
  PROVE  LoopTypeOK'
PROOF
  <1>t. pc \in [Streams -> PC] /\ loop \in [Streams -> LoopState]
    BY DEF LoopTypeOK, PC, LoopState
  <1>0. /\ pc' = [pc EXCEPT ![s] = Over(s, how)] /\ at' = [at EXCEPT ![s] = NoAsk]
        /\ loop' = [loop EXCEPT ![s] = FreshLoop]
        /\ told' = (told \ Resumed(s)) \cup (IF how = "suspended" THEN {at[s]} ELSE {})
        /\ orphaned' = (orphaned \ Resumed(s)) \cup
                         (IF how = "suspended" THEN {} ELSE {at[s]} \cap Asks)
        /\ ckpt' \in [Checkpoints -> {"none", "confirm", "choice", "round"}]
        /\ request' \in [Asks -> BOOLEAN] /\ response' \in [Asks -> Answers]
        /\ undeleted' \subseteq Asks
    BY EndEffect
  <1>1. pc' \in [Streams -> PC]
    <2>1. Over(s, how) \in PC
      BY OverEnds DEF PC
    <2> QED BY <1>t, <1>0, <2>1
  <1>2. loop' \in [Streams -> LoopState]
    BY <1>t, <1>0, LoopStates
  <1>3. at' \in [Streams -> Asks \cup {NoAsk}]
    BY <1>0 DEF LoopTypeOK
  <1>4. told' \subseteq used' /\ orphaned' \subseteq Asks
    <2>1. told \subseteq used /\ orphaned \subseteq Asks /\ (how = "suspended" => at[s] \in used)
      BY DEF LoopTypeOK, PollInv
    <2> QED BY <1>0, <2>1
  <1>5. response' \in [Asks -> {"none", "accepted", "rejected", "chosen"}]
    BY <1>0 DEF Answers
  <1>6. /\ src' = src /\ used' = used /\ said' = said /\ ran' = ran /\ crashes' = crashes
        /\ ckpt' \in [Checkpoints -> {"none", "confirm", "choice", "round"}]
        /\ request' \in [Asks -> BOOLEAN] /\ undeleted' \subseteq Asks
    BY <1>0
  <1>7. /\ src' \in [Resumes -> [id : Checkpoints \cup {NoAsk},
                               answer : {"none", "accepted", "rejected", "chosen"}]]
        /\ said' \in [Asks -> SUBSET {"accepted", "rejected", "chosen"}]
        /\ ran' \in [Asks -> Nat] /\ crashes' \in 0..Crashes /\ used' \subseteq Asks
    BY <1>6 DEF LoopTypeOK
  <1> QED BY <1>1, <1>2, <1>3, <1>4, <1>5, <1>6, <1>7 DEF LoopTypeOK, PC, LoopState

\* An operation on one stream keeps the types.
LEMMA LoopTypesStep ==
  ASSUME LoopTypeOK, PollInv, NEW s \in Streams, Step(s)
  PROVE  LoopTypeOK'
PROOF
  <1>t. pc \in [Streams -> PC] /\ loop \in [Streams -> LoopState]
    BY DEF LoopTypeOK, PC, LoopState
  <1>l. ASSUME NEW how \in Ended, EndStream(s, how), UNCHANGED <<src, used, said, ran, crashes>>,
               how = "suspended" => pc[s] = "ask"
        PROVE  LoopTypeOK'
    BY <1>l, LoopTypesEnd
  <1>m. ASSUME pc' \in [Streams -> PC], loop' \in [Streams -> LoopState],
               UNCHANGED <<at, src, record, crashes>>, UNCHANGED <<request, response>>,
               ckpt' \in [Checkpoints -> {"none", "confirm", "choice", "round"}]
        PROVE  LoopTypeOK'
    BY <1>m DEF LoopTypeOK, PC, LoopState, record
  <1>c. UNCHANGED ckpt => ckpt' \in [Checkpoints -> {"none", "confirm", "choice", "round"}]
    BY DEF LoopTypeOK
  <1>e. loop[s].evidence \in BOOLEAN /\ loop[s].nudges \in 0..Nudges /\ told \subseteq used
    BY <1>t DEF LoopState, LoopTypeOK
  <1>p. {"complete", "suspended", "raised", "cut"} \subseteq Ended
        /\ {"think", "calls", "ask", "closing"} \subseteq PC
    BY DEF Ended, PC
  <1>1. CASE AnswersDirectly(s) \/ Completes(s) \/ Raises(s)
    <2>1. /\ EndStream(s, "complete") \/ EndStream(s, "raised")
          /\ UNCHANGED <<src, used, said, ran, crashes>>
      BY <1>1 DEF AnswersDirectly, Completes, Raises
    <2> QED BY <1>l, <1>p, <2>1
  <1>2. CASE Talks(s)
    <2>1. UNCHANGED <<at, src, record, crashes>> /\ UNCHANGED <<request, response, ckpt>>
      BY <1>2 DEF Talks, redis
    <2>2. pc' \in [Streams -> PC] /\ loop' \in [Streams -> LoopState]
      <3>1. CASE EndPass(s, loop[s].evidence)
        BY <1>e, <3>1, LoopMoves
      <3>2. CASE loop[s].nudges < Nudges /\ NextRound(s, loop[s].nudges + 1)
        <4>1. loop[s].nudges + 1 \in 0..Nudges
          BY <1>e, <3>2, BoundsAssumption
        <4> QED BY <3>2, <4>1, LoopMoves
      <3> QED BY <1>2, <3>1, <3>2 DEF Talks
    <2> QED BY <1>m, <1>c, <2>1, <2>2
  <1>3. CASE Calls(s)
    <2>1. PICK b \in Batches : loop' = [loop EXCEPT ![s].batch = b]
      BY <1>3 DEF Calls
    <2>2. loop' = [loop EXCEPT ![s] = [loop[s] EXCEPT !.batch = b]] /\ b \in Seq(Kinds)
      BY <1>t, <2>1, BatchesAssumption
    <2>3. loop' \in [Streams -> LoopState]
      BY <1>t, <2>2, LoopStates
    <2>4. /\ Go(s, "calls") /\ UNCHANGED <<at, src, record, crashes>>
          /\ UNCHANGED <<request, response, ckpt>>
      BY <1>3 DEF Calls, redis
    <2> QED BY <1>m, <1>c, <1>p, <2>3, <2>4, LoopMoves
  <1>4. CASE Runs(s)
    <2>1. /\ loop[s].batch # <<>> /\ Drop(s, TRUE) /\ UNCHANGED pc
          /\ UNCHANGED <<at, src, record, crashes>> /\ UNCHANGED <<request, response, ckpt>>
      BY <1>4 DEF Runs, redis
    <2> QED BY <1>m, <1>c, <1>t, <2>1, LoopMoves
  <1>5. ASSUME NEW a \in Asks, NEW saved \in BOOLEAN, NEW stored \in BOOLEAN,
               NEW waits \in BOOLEAN, AsksUser(s, a, saved, stored, waits)
        PROVE  LoopTypeOK'
    <2> DEFINE kind == Head(loop[s].batch)
    <2>1. /\ loop[s].batch # <<>> /\ kind \in {"choice", "confirm"}
          /\ used' = used \cup {a}
          /\ UNCHANGED <<src, response, told, undeleted, said, ran, crashes>>
          /\ orphaned' = orphaned \cup {a} \/ orphaned' = orphaned
          /\ ckpt' = [ckpt EXCEPT ![a] = IF saved THEN kind ELSE "none"]
          /\ request' = [request EXCEPT ![a] = stored]
          /\ \/ Go(s, "ask") /\ at' = [at EXCEPT ![s] = a] /\ UNCHANGED loop
             \/ Drop(s, kind = "confirm") /\ UNCHANGED <<pc, at>>
      BY <1>5 DEF AsksUser
    <2> HIDE DEF kind
    <2>2. pc' \in [Streams -> PC] /\ loop' \in [Streams -> LoopState]
      BY <1>t, <1>p, <2>1, LoopMoves
    <2>3. request' \in [Asks -> BOOLEAN]
      BY <2>1 DEF LoopTypeOK
    <2>4. ckpt' \in [Checkpoints -> {"none", "confirm", "choice", "round"}]
      BY <2>1 DEF LoopTypeOK
    <2>5. at' \in [Streams -> Asks \cup {NoAsk}]
      BY <2>1 DEF LoopTypeOK
    <2>6. /\ used' \subseteq Asks /\ told' \subseteq used'
          /\ orphaned' \subseteq Asks /\ undeleted' \subseteq Asks
      BY <2>1 DEF LoopTypeOK
    <2> QED BY <2>1, <2>2, <2>3, <2>4, <2>5, <2>6 DEF LoopTypeOK, PC, LoopState
  <1>6. CASE Heard(s)
    <2>1. /\ pc[s] = "ask" /\ Go(s, "calls")
          /\ UNCHANGED <<src, used, told, orphaned, said, ran, crashes>>
          /\ Clears({at[s]}) /\ at' = [at EXCEPT ![s] = NoAsk]
          /\ \/ loop' = [loop EXCEPT ![s].confirmed = TRUE] \/ Drop(s, FALSE)
      BY <1>6 DEF Heard, Goes
    <2>2. loop' \in [Streams -> LoopState]
      <3>1. CASE loop' = [loop EXCEPT ![s].confirmed = TRUE]
        <4>1. loop' = [loop EXCEPT ![s] = [loop[s] EXCEPT !.confirmed = TRUE]]
          BY <1>t, <3>1
        <4> QED BY <1>t, <4>1, LoopStates
      <3>2. CASE Drop(s, FALSE)
        BY <2>1, <3>2, LoopMoves DEF PollInv
      <3> QED BY <2>1, <3>1, <3>2
    <2>3. /\ ckpt' \in [Checkpoints -> {"none", "confirm", "choice", "round"}]
          /\ request' \in [Asks -> BOOLEAN] /\ undeleted' \subseteq Asks
          /\ response' \in [Asks -> {"none", "accepted", "rejected", "chosen"}]
      BY <2>1, ClearEffect DEF Answers
    <2>4. pc' \in [Streams -> PC]
      BY <1>p, <2>1, LoopMoves
    <2>5. at' \in [Streams -> Asks \cup {NoAsk}]
      BY <2>1 DEF LoopTypeOK
    <2> QED BY <2>1, <2>2, <2>3, <2>4, <2>5 DEF LoopTypeOK, PC, LoopState
  <1>7. CASE Suspends(s)
    <2>1. pc[s] = "ask" /\ EndStream(s, "suspended") /\ UNCHANGED <<src, used, said, ran, crashes>>
      BY <1>7 DEF Suspends
    <2> QED BY <1>l, <1>p, <2>1
  <1>8. CASE EndRound(s)
    <2>1. UNCHANGED <<at, src, request, response, record, crashes>>
      BY <1>8 DEF EndRound
    <2>2. pc' \in [Streams -> PC] /\ loop' \in [Streams -> LoopState]
      BY <1>8, <1>e, LoopMoves DEF EndRound
    <2>3. ckpt' \in [Checkpoints -> {"none", "confirm", "choice", "round"}]
      BY <1>8 DEF EndRound, LoopTypeOK
    <2> QED BY <1>m, <2>1, <2>2, <2>3
  <1> QED BY <1>1, <1>2, <1>3, <1>4, <1>5, <1>6, <1>7, <1>8 DEF Step

\* A resume's own steps keep the types.
LEMMA LoopTypesResume ==
  ASSUME LoopTypeOK, NEW r \in Resumes, ResumeStep(r)
  PROVE  LoopTypeOK'
PROOF
  <1>1. r \in Streams /\ {"run", "think", "opened", "over"} \subseteq PC
    BY DEF Streams, PC, Ended
  <1>2. pc \in [Streams -> PC] /\ loop \in [Streams -> LoopState]
    BY DEF LoopTypeOK, PC, LoopState
  <1>3. CASE Writes(r)
    <2>1. src[r].answer \in {"none", "accepted", "rejected", "chosen"}
      BY DEF LoopTypeOK
    <2>2. /\ response' = response \/ response' = [response EXCEPT ![src[r].id] = src[r].answer]
          /\ Go(r, "opened")
          /\ UNCHANGED <<loop, at, src, ckpt, request, record, crashes>>
      BY <1>3 DEF Writes
    <2>3. response' \in [Asks -> {"none", "accepted", "rejected", "chosen"}]
      BY <2>1, <2>2 DEF LoopTypeOK
    <2>4. pc' \in [Streams -> PC]
      BY <1>1, <2>2, LoopMoves
    <2> QED BY <2>2, <2>3, <2>4 DEF LoopTypeOK, PC, record
  <1>4. CASE Loads(r) \/ Ran(r)
    <2>1. UNCHANGED <<at, src, ckpt, request, response, used, told, orphaned, undeleted, said,
                      crashes>>
      BY <1>4 DEF Loads, Ran, redis, record
    <2>2. \/ Go(r, "over") /\ UNCHANGED <<loop, ran>>
          \/ Go(r, "run") /\ ran' = [ran EXCEPT ![src[r].id] = @ + 1] /\ UNCHANGED loop
          \/ EnterLoop(r) /\ UNCHANGED ran
      BY <1>4 DEF Loads, Ran, record
    <2>3. pc' \in [Streams -> PC] /\ loop' \in [Streams -> LoopState]
      BY <1>1, <1>2, <2>2, LoopMoves, LoopStates DEF EnterLoop
    <2>4. ran' \in [Asks -> Nat]
      BY <2>2 DEF LoopTypeOK
    <2> QED BY <2>1, <2>3, <2>4 DEF LoopTypeOK, PC, LoopState
  <1> QED BY <1>3, <1>4 DEF ResumeStep

\* What befalls the loop from outside keeps the types.
LEMMA LoopTypesWorld ==
  ASSUME LoopTypeOK, PollInv, LoopWorld
  PROVE  LoopTypeOK'
PROOF
  <1>t. /\ pc \in [Streams -> PC] /\ loop \in [Streams -> LoopState]
        /\ {"posting", "opened", "over"} \subseteq PC /\ "cut" \in Ended /\ Ended \subseteq PC
    BY DEF LoopTypeOK, PC, LoopState, Ended
  <1>1. ASSUME NEW s \in Streams, Disconnects(s)
        PROVE  LoopTypeOK'
    <2>1. CASE EndStream(s, "cut") /\ UNCHANGED <<src, used, said, ran, crashes>>
      BY <1>t, <2>1, LoopTypesEnd
    <2>2. CASE Go(s, "over") /\ UNCHANGED <<loop, at, src, redis, record, crashes>>
      <3>1. pc' \in [Streams -> PC]
        BY <1>t, <2>2, LoopMoves
      <3> QED BY <1>t, <2>2, <3>1 DEF LoopTypeOK, PC, LoopState, redis, record
    <2> QED BY <1>1, <2>1, <2>2 DEF Disconnects
  <1>2. CASE Crash
    <2>1. pc' \in [Streams -> PC]
      <3>1. \A s \in Streams : Over(s, "cut") \in PC
        BY <1>t, OverEnds
      <3> QED BY <1>2, <1>t, <3>1 DEF Crash
    <2>2. loop' \in [Streams -> LoopState]
      BY <1>2, LoopStates DEF Crash
    <2>3. at' \in [Streams -> Asks \cup {NoAsk}] /\ crashes' \in 0..Crashes
      BY <1>2, BoundsAssumption DEF Crash, LoopTypeOK
    <2>4. UNCHANGED <<src, ckpt, request, response, used, told, undeleted, said, ran>>
      BY <1>2 DEF Crash, redis
    <2>5. orphaned' \subseteq Asks
      BY <1>2 DEF Crash, LoopTypeOK
    <2> QED BY <2>1, <2>2, <2>3, <2>4, <2>5 DEF LoopTypeOK, PC, LoopState
  <1>3. ASSUME NEW c \in Checkpoints, Expires(c)
        PROVE  LoopTypeOK'
    <2>1. /\ ckpt' = [ckpt EXCEPT ![c] = "none"]
          /\ request' = [a \in Asks |-> request[a] /\ a # c]
          /\ response' = [a \in Asks |-> IF a = c THEN "none" ELSE response[a]]
          /\ told' = told \ {c} /\ orphaned' = orphaned \ {c} /\ undeleted' = undeleted \ {c}
          /\ UNCHANGED <<pc, loop, at, src, used, said, ran, crashes>>
      BY <1>3 DEF Expires
    <2>2. ckpt' \in [Checkpoints -> {"none", "confirm", "choice", "round"}]
      BY <2>1 DEF LoopTypeOK
    <2>3. response' \in [Asks -> {"none", "accepted", "rejected", "chosen"}]
      BY <2>1 DEF LoopTypeOK
    <2>4. request' \in [Asks -> BOOLEAN]
      BY <2>1 DEF LoopTypeOK
    <2> QED BY <2>1, <2>2, <2>3, <2>4 DEF LoopTypeOK
  <1>4. ASSUME NEW r \in Resumes, NEW c \in Checkpoints,
               NEW answer \in {"none", "accepted", "rejected", "chosen"}, NEW writes \in BOOLEAN,
               Post(r, c, answer, writes)
        PROVE  LoopTypeOK'
    <2>1. /\ said' = IF answer = "none" THEN said ELSE [said EXCEPT ![c] = @ \cup {answer}]
          /\ src' = [src EXCEPT ![r] = [id |-> c, answer |-> answer]]
          /\ Go(r, "posting") \/ Go(r, "opened")
          /\ UNCHANGED <<loop, at, ckpt, request, response, used, told, orphaned, undeleted, ran,
                         crashes>>
      BY <1>4 DEF Post, redis
    <2>2. pc' \in [Streams -> PC]
      <3>1. r \in Streams
        BY DEF Streams
      <3> QED BY <1>t, <2>1, <3>1, LoopMoves
    <2>3. src' \in [Resumes -> [id : Checkpoints \cup {NoAsk},
                                answer : {"none", "accepted", "rejected", "chosen"}]]
      BY <2>1 DEF LoopTypeOK
    <2>4. said' \in [Asks -> SUBSET {"accepted", "rejected", "chosen"}]
      <3>1. CASE answer = "none"
        BY <2>1, <3>1 DEF LoopTypeOK
      <3>2. CASE answer # "none"
        <4>1. said' = [said EXCEPT ![c] = @ \cup {answer}] /\ c \in Asks
          BY <1>4, <2>1, <3>2 DEF Post
        <4> QED BY <3>2, <4>1 DEF LoopTypeOK
      <3> QED BY <3>1, <3>2
    <2> QED BY <2>1, <2>2, <2>3, <2>4 DEF LoopTypeOK, PC
  <1> QED BY <1>1, <1>2, <1>3, <1>4 DEF LoopWorld

-----------------------------------------------------------------------------
(* Who takes the keys of a question. *)

\* A stream goes on to its next position, and a question's keys stay.
LEMMA GoesOn ==
  ASSUME LoopTypeOK, HitlInv, NEW s \in Streams, NEW w \in InTry \ {"ask"},
         pc[s] # "ask", pc' = [pc EXCEPT ![s] = w],
         s \in Resumes /\ src[s].id \in Asks => said[src[s].id] # {},
         UNCHANGED <<at, src, request, response, record, crashes>>,
         \A a \in Asks : ckpt'[a] = ckpt[a],
         \A o \in Streams : o # s => loop'[o] = loop[o]
  PROVE  HitlInv'
PROOF
  <1>1. \A o \in Streams : pc'[o] = IF o = s THEN w ELSE pc[o]
    BY DEF LoopTypeOK
  <1>2. UNCHANGED <<used, told, orphaned, undeleted, said, ran>>
    BY DEF record
  <1>3. PollInv'
    BY <1>1, <1>2 DEF HitlInv, PollInv, InTry
  <1>4. KeyInv'
    BY <1>2 DEF HitlInv, KeyInv
  <1>5. SourceInv'
    <2>1. Resumes \subseteq Streams
      BY DEF Streams
    <2> QED BY <1>1, <1>2, <2>1 DEF HitlInv, SourceInv, InTry
  <1>6. WaitInv'
    BY <1>2 DEF HitlInv, WaitInv
  <1>7. AnsweredIsCleared'
    BY <1>1, <1>2 DEF HitlInv, AnsweredIsCleared
  <1>8. RunInv'
    <2>1. Resumes \subseteq Streams
      BY DEF Streams
    <2> QED BY <1>1, <1>2, <2>1 DEF HitlInv, RunInv, InTry
  <1> QED BY <1>3, <1>4, <1>5, <1>6, <1>7, <1>8 DEF HitlInv

\* A stream ends, from where its finally runs, and leaves its question to the
\* user or to nobody.
LEMMA Ends ==
  ASSUME LoopTypeOK, HitlInv, NEW s \in Streams, NEW how \in Ended, pc[s] \in InTry,
         EndStream(s, how), UNCHANGED <<src, used, said, ran, crashes>>,
         how = "suspended" => pc[s] = "ask"
  PROVE  HitlInv'
PROOF
  <1>e. /\ pc' = [pc EXCEPT ![s] = Over(s, how)] /\ at' = [at EXCEPT ![s] = NoAsk]
        /\ loop' = [loop EXCEPT ![s] = FreshLoop]
        /\ told' = (told \ Resumed(s)) \cup (IF how = "suspended" THEN {at[s]} ELSE {})
        /\ orphaned' = (orphaned \ Resumed(s)) \cup
                         (IF how = "suspended" THEN {} ELSE {at[s]} \cap Asks)
        /\ \A a \in Asks :
             /\ ckpt'[a] \in {ckpt[a], "none"} /\ response'[a] \in {response[a], "none"}
             /\ a \notin Resumed(s) => ckpt'[a] = ckpt[a] /\ request'[a] = request[a]
             /\ a \in Resumed(s) \/ a \in undeleted => ckpt'[a] = "none" \/ a \in undeleted'
    BY EndEffect
  <1>1. /\ \A o \in Streams : pc'[o] = IF o = s THEN Over(s, how) ELSE pc[o]
        /\ \A o \in Streams : at'[o] = IF o = s THEN NoAsk ELSE at[o]
        /\ \A o \in Streams : o # s => loop'[o] = loop[o]
    BY <1>e DEF LoopTypeOK
  <1>2. /\ NoAsk \notin Asks /\ Asks \subseteq Checkpoints /\ Resumes \subseteq Streams
        /\ Over(s, how) \notin InTry /\ Over(s, how) # "posting"
    <2>1. Over(s, how) \in Ended
      BY OverEnds
    <2> QED BY <2>1, StreamsAssumption DEF Checkpoints, Streams, Ended, InTry
  <1>r. \A a : a \in Resumed(s) <=> s \in Resumes /\ src[s].id = a
    BY DEF Resumed
  <1>3. PollInv'
    BY <1>1, <1>2 DEF HitlInv, PollInv, InTry
  <1>4. KeyInv'
    BY <1>2, <1>e DEF HitlInv, KeyInv
  <1>5. SourceInv'
    BY <1>1, <1>2 DEF HitlInv, SourceInv
  <1>6. WaitInv'
    <2> SUFFICES ASSUME NEW a \in Asks, a \in told' \/ (\E o \in Streams : at'[o] = a),
                        said[a] = {}
                 PROVE  ckpt'[a] # "none" /\ request'[a]
      BY DEF WaitInv
    <2>1. a \in told \/ \E o \in Streams : at[o] = a
      BY <1>e, <1>1, <1>2
    <2>2. ckpt[a] # "none" /\ request[a]
      BY <2>1 DEF HitlInv, WaitInv
    <2>3. a \notin Resumed(s)
      BY <1>r DEF HitlInv, SourceInv
    <2> QED BY <1>e, <2>2, <2>3
  <1>7. AnsweredIsCleared'
    <2> SUFFICES ASSUME NEW a \in Asks, ckpt'[a] # "none", a \notin undeleted'
                 PROVE  a \in told' \cup orphaned' \/ \E o \in Streams : at'[o] = a
      BY DEF AnsweredIsCleared
    <2>1. ckpt[a] # "none" /\ a \notin Resumed(s) /\ a \notin undeleted
      BY <1>e
    <2>2. a \in told \cup orphaned \/ \E o \in Streams : at[o] = a
      BY <2>1 DEF HitlInv, AnsweredIsCleared
    <2>3. CASE a \in told \cup orphaned
      BY <1>e, <2>1, <2>3
    <2>4. CASE \E o \in Streams : at[o] = a
      BY <1>e, <1>1, <2>4
    <2> QED BY <2>2, <2>3, <2>4
  <1>8. RunInv'
    <2> SUFFICES ASSUME NEW a \in Asks, ran[a] > 0, crashes = 0, ckpt'[a] # "none",
                        a \notin undeleted'
                 PROVE  \E r \in Resumes : src[r].id = a /\ pc'[r] \in InTry
      BY DEF HitlInv, RunInv
    <2>1. ckpt[a] # "none" /\ a \notin Resumed(s) /\ a \notin undeleted
      BY <1>e
    <2>2. PICK r \in Resumes : src[r].id = a /\ pc[r] \in InTry
      BY <2>1 DEF HitlInv, RunInv
    <2>3. r # s
      BY <1>r, <2>1, <2>2
    <2> QED BY <1>1, <1>2, <2>2, <2>3
  <1> QED BY <1>3, <1>4, <1>5, <1>6, <1>7, <1>8 DEF HitlInv

\* A stream asks: its keys are new, and it waits for them or leaves them.
LEMMA HitlAsk ==
  ASSUME LoopTypeOK, HitlInv, NEW s \in Streams, NEW a \in Asks, NEW saved \in BOOLEAN,
         NEW stored \in BOOLEAN, NEW waits \in BOOLEAN, AsksUser(s, a, saved, stored, waits)
  PROVE  HitlInv'
PROOF
  <1>t. pc \in [Streams -> PC] /\ loop \in [Streams -> LoopState]
    BY DEF LoopTypeOK, PC, LoopState
  <1> DEFINE kind == Head(loop[s].batch)
  <1>1. /\ loop[s].batch # <<>> /\ kind \in {"choice", "confirm"} /\ pc[s] = "calls"
        /\ a \notin used /\ used' = used \cup {a} /\ (waits => saved /\ stored)
        /\ UNCHANGED <<src, response, told, undeleted, said, ran, crashes>>
        /\ ckpt' = [ckpt EXCEPT ![a] = IF saved THEN kind ELSE "none"]
        /\ request' = [request EXCEPT ![a] = stored]
        /\ orphaned' = IF saved /\ ~waits THEN orphaned \cup {a} ELSE orphaned
        /\ IF waits
           THEN Go(s, "ask") /\ at' = [at EXCEPT ![s] = a] /\ UNCHANGED loop
           ELSE Drop(s, kind = "confirm") /\ UNCHANGED <<pc, at>>
    BY DEF AsksUser
  <1> HIDE DEF kind
  <1>2. /\ a \in Checkpoints /\ Resumes \subseteq Streams /\ told \subseteq used
        /\ Asks \subseteq Checkpoints
    BY DEF Checkpoints, Streams, LoopTypeOK
  <1>3. /\ \A b \in Asks : b # a => ckpt'[b] = ckpt[b] /\ request'[b] = request[b]
        /\ ckpt'[a] # "round" /\ (ckpt'[a] # "none" <=> saved) /\ (request'[a] <=> stored)
    BY <1>1, <1>2 DEF LoopTypeOK
  <1>4. /\ \A o \in Streams : o # s => pc'[o] = pc[o] /\ at'[o] = at[o] /\ loop'[o] = loop[o]
        /\ IF waits THEN pc'[s] = "ask" /\ at'[s] = a /\ loop'[s] = loop[s]
           ELSE pc'[s] = "calls" /\ at'[s] = at[s]
    BY <1>t, <1>1 DEF Go, Drop, LoopTypeOK
  <1>5. \A o \in Streams : at[o] # a
    BY <1>1 DEF HitlInv, PollInv
  <1>6. PollInv'
    BY <1>1, <1>4 DEF HitlInv, PollInv
  <1>7. KeyInv'
    BY <1>1, <1>3 DEF HitlInv, KeyInv
  <1>8. SourceInv'
    BY <1>1, <1>2, <1>4 DEF HitlInv, SourceInv, InTry
  <1>9. WaitInv'
    <2> SUFFICES ASSUME NEW b \in Asks, b \in told \/ (\E o \in Streams : at'[o] = b),
                        said[b] = {}
                 PROVE  ckpt'[b] # "none" /\ request'[b]
      BY <1>1 DEF WaitInv
    <2>1. CASE b = a
      BY <1>1, <1>2, <1>3, <1>4, <1>5, <2>1
    <2>2. CASE b # a
      BY <1>3, <1>4, <2>2 DEF HitlInv, WaitInv
    <2> QED BY <2>1, <2>2
  <1>10. AnsweredIsCleared'
    <2> SUFFICES ASSUME NEW b \in Asks, ckpt'[b] # "none"
                 PROVE  b \in told \cup orphaned' \cup undeleted \/ \E o \in Streams : at'[o] = b
      BY <1>1 DEF AnsweredIsCleared
    <2>1. CASE b = a
      BY <1>1, <1>3, <1>4, <2>1
    <2>2. CASE b # a
      <3>1. b \in told \cup orphaned \cup undeleted \/ \E o \in Streams : at[o] = b
        BY <1>3, <2>2 DEF HitlInv, AnsweredIsCleared
      <3>2. at[s] \notin Asks /\ orphaned \subseteq orphaned'
        BY <1>1 DEF HitlInv, PollInv
      <3> QED BY <1>4, <3>1, <3>2
    <2> QED BY <2>1, <2>2
  <1>11. RunInv'
    <2> SUFFICES ASSUME NEW b \in Asks, ran[b] > 0
                 PROVE  /\ "accepted" \in said[b] /\ b \in used'
                        /\ crashes = 0 /\ ckpt'[b] # "none" /\ b \notin undeleted =>
                             \E r \in Resumes : src[r].id = b /\ pc'[r] \in InTry
      BY <1>1 DEF RunInv
    <2>1. b # a /\ b \in used /\ "accepted" \in said[b]
      BY <1>1 DEF HitlInv, RunInv
    <2>2. ASSUME crashes = 0, ckpt'[b] # "none", b \notin undeleted
          PROVE  \E r \in Resumes : src[r].id = b /\ pc'[r] \in InTry
      <3>1. PICK r \in Resumes : src[r].id = b /\ pc[r] \in InTry
        BY <1>3, <2>1, <2>2 DEF HitlInv, RunInv
      <3>2. pc'[r] \in InTry
        BY <1>2, <1>4, <3>1 DEF InTry
      <3> QED BY <3>1, <3>2
    <2> QED BY <1>1, <2>1, <2>2
  <1> QED BY <1>6, <1>7, <1>8, <1>9, <1>10, <1>11 DEF HitlInv

\* A poll brings the answer, and the stream takes what it can of the keys.
LEMMA HitlHeard ==
  ASSUME LoopTypeOK, HitlInv, NEW s \in Streams, Heard(s)
  PROVE  HitlInv'
PROOF
  <1>t. pc \in [Streams -> PC] /\ loop \in [Streams -> LoopState]
    BY DEF LoopTypeOK, PC, LoopState
  <1> DEFINE a == at[s]
  <1>1. /\ pc[s] = "ask" /\ response[a] # "none" /\ Go(s, "calls")
        /\ UNCHANGED <<src, used, told, orphaned, said, ran, crashes>>
        /\ Clears({a}) /\ at' = [at EXCEPT ![s] = NoAsk]
        /\ loop' = [loop EXCEPT ![s].confirmed = TRUE] \/ Drop(s, FALSE)
    BY DEF Heard, Goes
  <1>2. a \in Asks /\ said[a] # {}
    BY <1>1 DEF HitlInv, PollInv, KeyInv
  <1> HIDE DEF a
  <1>3. NoAsk \notin Asks /\ Resumes \subseteq Streams /\ Asks \subseteq Checkpoints
    BY StreamsAssumption DEF Streams, Checkpoints
  <1>4. /\ \A o \in Streams : pc'[o] = IF o = s THEN "calls" ELSE pc[o]
        /\ \A o \in Streams : at'[o] = IF o = s THEN NoAsk ELSE at[o]
        /\ \A o \in Streams : o # s => loop'[o] = loop[o]
    BY <1>t, <1>1 DEF Go, Drop, LoopTypeOK
  <1>5. \A b \in Asks :
          /\ ckpt'[b] \in {ckpt[b], "none"} /\ response'[b] \in {response[b], "none"}
          /\ b # a => ckpt'[b] = ckpt[b] /\ request'[b] = request[b]
          /\ b = a \/ b \in undeleted => ckpt'[b] = "none" \/ b \in undeleted'
    BY <1>1, ClearEffect
  <1>6. PollInv'
    BY <1>1, <1>3, <1>4 DEF HitlInv, PollInv
  <1>7. KeyInv'
    BY <1>1, <1>5 DEF HitlInv, KeyInv
  <1>8. SourceInv'
    BY <1>1, <1>3, <1>4 DEF HitlInv, SourceInv, InTry
  <1>9. WaitInv'
    <2> SUFFICES ASSUME NEW b \in Asks, b \in told \/ (\E o \in Streams : at'[o] = b),
                        said[b] = {}
                 PROVE  ckpt'[b] # "none" /\ request'[b]
      BY <1>1 DEF WaitInv
    <2>1. b # a
      BY <1>2
    <2>2. b \in told \/ \E o \in Streams : at[o] = b
      BY <1>3, <1>4
    <2> QED BY <1>5, <2>1, <2>2 DEF HitlInv, WaitInv
  <1>10. AnsweredIsCleared'
    <2> SUFFICES ASSUME NEW b \in Asks, ckpt'[b] # "none", b \notin undeleted'
                 PROVE  b \in told \cup orphaned \/ \E o \in Streams : at'[o] = b
      BY <1>1 DEF AnsweredIsCleared
    <2>1. b # a /\ b \notin undeleted /\ ckpt[b] # "none"
      BY <1>5
    <2>2. b \in told \cup orphaned \/ \E o \in Streams : at[o] = b
      BY <2>1 DEF HitlInv, AnsweredIsCleared
    <2> QED BY <1>4, <2>1, <2>2 DEF a
  <1>11. RunInv'
    <2> SUFFICES ASSUME NEW b \in Asks, ran[b] > 0, crashes = 0, ckpt'[b] # "none",
                        b \notin undeleted'
                 PROVE  \E r \in Resumes : src[r].id = b /\ pc'[r] \in InTry
      BY <1>1 DEF HitlInv, RunInv
    <2>1. b \notin undeleted /\ ckpt[b] # "none"
      BY <1>5
    <2>2. PICK r \in Resumes : src[r].id = b /\ pc[r] \in InTry
      BY <2>1 DEF HitlInv, RunInv
    <2>3. pc'[r] \in InTry
      BY <1>3, <1>4, <2>2 DEF InTry
    <2> QED BY <2>2, <2>3
  <1> QED BY <1>6, <1>7, <1>8, <1>9, <1>10, <1>11 DEF HitlInv

LEMMA HitlStep ==
  ASSUME LoopTypeOK, HitlInv, NEW s \in Streams, Step(s)
  PROVE  HitlInv'
PROOF
  <1>t. pc \in [Streams -> PC] /\ loop \in [Streams -> LoopState]
    BY DEF LoopTypeOK, PC, LoopState
  <1>s. pc[s] \in InTry /\ s \in Resumes /\ src[s].id \in Asks => said[src[s].id] # {}
    BY DEF HitlInv, SourceInv
  <1>p. "think" \in InTry \ {"ask"} /\ "calls" \in InTry \ {"ask"} /\ "closing" \in InTry \ {"ask"}
    BY DEF InTry
  <1>n. ASSUME NEW e, EndPass(s, e) \/ \E n : NextRound(s, n)
        PROVE  /\ \/ pc' = [pc EXCEPT ![s] = "think"]
                  \/ pc' = [pc EXCEPT ![s] = "closing"]
               /\ \A o \in Streams : o # s => loop'[o] = loop[o]
    BY <1>n, <1>t DEF EndPass, NextRound, Go
  <1>1. CASE AnswersDirectly(s) \/ Completes(s) \/ Raises(s)
    <2>1. /\ EndStream(s, "complete") \/ EndStream(s, "raised")
          /\ UNCHANGED <<src, used, said, ran, crashes>> /\ pc[s] \in InTry
      BY <1>1 DEF AnswersDirectly, Completes, Raises, InTry
    <2>2. "complete" \in Ended /\ "raised" \in Ended
      BY DEF Ended
    <2> QED BY <2>1, <2>2, Ends
  <1>2. CASE Suspends(s)
    <2>1. /\ EndStream(s, "suspended") /\ UNCHANGED <<src, used, said, ran, crashes>>
          /\ pc[s] = "ask" /\ pc[s] \in InTry
      BY <1>2 DEF Suspends, InTry
    <2>2. "suspended" \in Ended
      BY DEF Ended
    <2> QED BY <2>1, <2>2, Ends
  <1>3. CASE Talks(s) \/ Calls(s) \/ Runs(s) \/ EndRound(s)
    <2>1. /\ pc[s] \in {"think", "calls"}
          /\ UNCHANGED <<at, src, request, response, record, crashes>>
      BY <1>3 DEF Talks, Calls, Runs, EndRound, redis
    <2>2. \A a \in Asks : ckpt'[a] = ckpt[a]
      <3>1. CASE UNCHANGED ckpt
        BY <3>1
      <3>2. CASE EndRound(s)
        BY <3>2, StreamsAssumption DEF EndRound, LoopTypeOK
      <3> QED BY <1>3, <3>1, <3>2 DEF Talks, Calls, Runs, redis
    <2>3. /\ \/ pc' = [pc EXCEPT ![s] = "think"]
             \/ pc' = [pc EXCEPT ![s] = "closing"]
             \/ pc' = [pc EXCEPT ![s] = "calls"]
          /\ \A o \in Streams : o # s => loop'[o] = loop[o]
      <3>1. CASE Talks(s) \/ EndRound(s)
        BY <1>n, <3>1 DEF Talks, EndRound
      <3>2. CASE Calls(s)
        BY <1>t, <3>2 DEF Calls, Go
      <3>3. CASE Runs(s)
        <4>1. pc' = pc /\ pc[s] = "calls"
          BY <3>3 DEF Runs
        <4>2. pc' = [pc EXCEPT ![s] = "calls"]
          BY <4>1, <1>t
        <4>3. \A o \in Streams : o # s => loop'[o] = loop[o]
          BY <1>t, <3>3 DEF Runs, Drop
        <4> QED BY <4>2, <4>3
      <3> QED BY <1>3, <3>1, <3>2, <3>3
    <2>4. s \in Resumes /\ src[s].id \in Asks => said[src[s].id] # {}
      BY <1>s, <2>1 DEF InTry
    <2>5. pc[s] # "ask"
      BY <2>1
    <2> QED BY <1>p, <2>1, <2>2, <2>3, <2>4, <2>5, GoesOn
  <1> QED BY <1>1, <1>2, <1>3, HitlAsk, HitlHeard DEF Step

\* A resume writes, loads or returns from its tool.
LEMMA HitlResume ==
  ASSUME LoopTypeOK, HitlInv, NEW r \in Resumes, ResumeStep(r)
  PROVE  HitlInv'
PROOF
  <1>t. /\ r \in Streams /\ Resumes \subseteq Streams /\ Asks \subseteq Checkpoints
        /\ pc \in [Streams -> PC] /\ loop \in [Streams -> LoopState]
    BY DEF Streams, Checkpoints, LoopTypeOK, PC, LoopState
  <1>p. "think" \in InTry \ {"ask"} /\ "run" \in InTry \ {"ask"}
    BY DEF InTry
  <1>1. CASE Writes(r)
    <2> DEFINE a == src[r].id
    <2>1. /\ pc[r] = "posting" /\ Go(r, "opened")
          /\ response' = response \/ response' = [response EXCEPT ![a] = src[r].answer]
          /\ UNCHANGED <<loop, at, src, ckpt, request, used, told, orphaned, undeleted, said, ran,
                         crashes>>
      BY <1>1 DEF Writes, record
    <2>2. a \in Asks /\ src[r].answer \in said[a]
      BY <2>1 DEF HitlInv, SourceInv
    <2>3. \A b \in Asks : response'[b] = response[b] \/ (b = a /\ response'[b] = src[r].answer)
      BY <2>1, <2>2 DEF LoopTypeOK
    <2>4. \A o \in Streams : pc'[o] = IF o = r THEN "opened" ELSE pc[o]
      BY <1>t, <2>1 DEF Go
    <2> HIDE DEF a
    <2>5. PollInv'
      BY <2>1, <2>4 DEF HitlInv, PollInv
    <2>6. KeyInv'
      BY <2>1, <2>2, <2>3 DEF HitlInv, KeyInv
    <2>7. SourceInv'
      BY <1>t, <2>1, <2>4 DEF HitlInv, SourceInv, InTry
    <2>8. WaitInv'
      BY <2>1 DEF HitlInv, WaitInv
    <2>9. AnsweredIsCleared'
      BY <2>1 DEF HitlInv, AnsweredIsCleared
    <2>10. RunInv'
      BY <1>t, <2>1, <2>4 DEF HitlInv, RunInv, InTry
    <2> QED BY <2>5, <2>6, <2>7, <2>8, <2>9, <2>10 DEF HitlInv
  <1>2. CASE Loads(r)
    <2> DEFINE c == src[r].id
               answer == IF ckpt[c] = "round" THEN "resume"
                         ELSE IF c \in Asks THEN response[c] ELSE "none"
    <2>1. /\ pc[r] = "opened"
          /\ UNCHANGED <<at, src, ckpt, request, response, used, told, orphaned, undeleted, said,
                         crashes>>
          /\ \/ Go(r, "over") /\ UNCHANGED <<loop, ran>>
             \/ /\ ckpt[c] # "none" /\ answer # "none"
                /\ IF ckpt[c] = "confirm" /\ answer = "accepted"
                   THEN Go(r, "run") /\ ran' = [ran EXCEPT ![c] = @ + 1] /\ UNCHANGED loop
                   ELSE EnterLoop(r) /\ UNCHANGED ran
      BY <1>2 DEF Loads, redis
    <2>2. ckpt[c] # "none" /\ answer # "none" /\ c \in Asks =>
            said[c] # {} /\ response[c] \in said[c] /\ c \in used /\ answer = response[c]
      BY DEF HitlInv, KeyInv
    <2>3. CASE Go(r, "over") /\ UNCHANGED <<loop, ran>>
      <3>1. /\ \A o \in Streams : pc'[o] = IF o = r THEN "over" ELSE pc[o]
            /\ UNCHANGED <<loop, ran>>
        BY <1>t, <2>3 DEF Go
      <3>2. PollInv'
        BY <2>1, <3>1 DEF HitlInv, PollInv
      <3>3. KeyInv' /\ WaitInv'
        BY <2>1, <3>1 DEF HitlInv, KeyInv, WaitInv
      <3>4. SourceInv'
        BY <1>t, <2>1, <3>1 DEF HitlInv, SourceInv, InTry
      <3>5. AnsweredIsCleared'
        BY <2>1 DEF HitlInv, AnsweredIsCleared
      <3>6. RunInv'
        BY <1>t, <2>1, <3>1 DEF HitlInv, RunInv, InTry
      <3> QED BY <3>2, <3>3, <3>4, <3>5, <3>6 DEF HitlInv
    <2>4. CASE /\ ckpt[c] # "none" /\ answer # "none" /\ ckpt[c] = "confirm" /\ answer = "accepted"
               /\ Go(r, "run") /\ ran' = [ran EXCEPT ![c] = @ + 1] /\ UNCHANGED loop
      <3>1. /\ \A o \in Streams : pc'[o] = IF o = r THEN "run" ELSE pc[o]
            /\ ran' = [ran EXCEPT ![c] = @ + 1] /\ UNCHANGED loop
        BY <1>t, <2>4 DEF Go
      <3>2. c \in Asks /\ "accepted" \in said[c] /\ c \in used
        BY <2>2, <2>4
      <3> HIDE DEF c, answer
      <3>3. PollInv'
        BY <2>1, <3>1 DEF HitlInv, PollInv
      <3>4. KeyInv' /\ WaitInv'
        BY <2>1 DEF HitlInv, KeyInv, WaitInv
      <3>5. SourceInv'
        BY <1>t, <2>1, <3>1, <3>2 DEF HitlInv, SourceInv, c
      <3>6. AnsweredIsCleared'
        BY <2>1 DEF HitlInv, AnsweredIsCleared
      <3>7. RunInv'
        <4>1. \A a \in Asks : a # c => ran'[a] = ran[a]
          BY <3>1 DEF LoopTypeOK
        <4>2. src[r].id = c /\ pc'[r] \in InTry
          BY <1>t, <3>1 DEF c, InTry
        <4>3. \A o \in Resumes : pc[o] \in InTry => pc'[o] \in InTry
          BY <1>t, <3>1 DEF InTry
        <4> QED BY <2>1, <3>2, <4>1, <4>2, <4>3 DEF HitlInv, RunInv
      <3> QED BY <3>3, <3>4, <3>5, <3>6, <3>7 DEF HitlInv
    <2>5. CASE ckpt[c] # "none" /\ answer # "none" /\ EnterLoop(r) /\ UNCHANGED ran
      <3>1. EnterLoop(r) /\ UNCHANGED ran
        BY <2>5
      <3>2. pc' = [pc EXCEPT ![r] = "think"] /\ \A o \in Streams : o # r => loop'[o] = loop[o]
        BY <1>t, <3>1 DEF EnterLoop, Go
      <3>3. src[r].id \in Asks => said[src[r].id] # {}
        BY <2>2, <2>5
      <3>4. UNCHANGED <<record, crashes>> /\ pc[r] # "ask"
        BY <2>1, <3>1 DEF record
      <3> QED BY <1>p, <1>t, <2>1, <3>2, <3>3, <3>4, GoesOn
    <2> HIDE DEF answer, c
    <2> QED BY <2>1, <2>3, <2>4, <2>5
  <1>3. CASE Ran(r)
    <2>1. /\ pc[r] = "run" /\ UNCHANGED <<at, src, ckpt, request, response, record, crashes>>
          /\ pc' = [pc EXCEPT ![r] = "think"] /\ \A o \in Streams : o # r => loop'[o] = loop[o]
      BY <1>3, <1>t DEF Ran, EnterLoop, Go, redis
    <2>2. src[r].id \in Asks => said[src[r].id] # {}
      BY <2>1 DEF HitlInv, SourceInv, InTry
    <2>3. pc[r] # "ask"
      BY <2>1
    <2> QED BY <1>p, <1>t, <2>1, <2>2, <2>3, GoesOn
  <1> QED BY <1>1, <1>2, <1>3 DEF ResumeStep

\* What befalls the loop from outside takes no key but with a stream's end or
\* after a day.
LEMMA HitlWorld ==
  ASSUME LoopTypeOK, HitlInv, LoopWorld
  PROVE  HitlInv'
PROOF
  <1>t. /\ Resumes \subseteq Streams /\ Asks \subseteq Checkpoints /\ NoAsk \notin Asks
        /\ pc \in [Streams -> PC] /\ crashes \in Nat
    BY BoundsAssumption, StreamsAssumption DEF Streams, Checkpoints, LoopTypeOK, PC
  <1>1. ASSUME NEW s \in Streams, Disconnects(s)
        PROVE  HitlInv'
    <2>1. CASE /\ EndStream(s, "cut") /\ UNCHANGED <<src, used, said, ran, crashes>>
               /\ pc[s] \in InTry
      <3>1. "cut" \in Ended
        BY DEF Ended
      <3> QED BY <2>1, <3>1, Ends
    <2>2. CASE /\ pc[s] = "opened" /\ Go(s, "over")
               /\ UNCHANGED <<loop, at, src, redis, record, crashes>>
      <3>1. /\ \A o \in Streams : pc'[o] = IF o = s THEN "over" ELSE pc[o]
            /\ UNCHANGED <<loop, at, src, ckpt, request, response, used, told, orphaned, undeleted,
                           said, ran, crashes>>
        BY <1>t, <2>2 DEF Go, redis, record
      <3>2. PollInv'
        BY <2>2, <3>1 DEF HitlInv, PollInv
      <3>3. KeyInv' /\ WaitInv'
        BY <3>1 DEF HitlInv, KeyInv, WaitInv
      <3>4. SourceInv'
        BY <1>t, <3>1 DEF HitlInv, SourceInv, InTry
      <3>5. AnsweredIsCleared'
        BY <3>1 DEF HitlInv, AnsweredIsCleared
      <3>6. RunInv'
        BY <1>t, <2>2, <3>1 DEF HitlInv, RunInv, InTry
      <3> QED BY <3>2, <3>3, <3>4, <3>5, <3>6 DEF HitlInv
    <2> QED BY <1>1, <2>1, <2>2 DEF Disconnects
  <1>2. CASE Crash
    <2>1. /\ \A s \in Streams : pc'[s] = IF Live(s) THEN Over(s, "cut") ELSE pc[s]
          /\ \A s \in Streams : at'[s] = NoAsk
          /\ orphaned' = orphaned \cup {a \in Asks : \E s \in Streams : at[s] = a}
          /\ UNCHANGED <<src, ckpt, request, response, used, told, undeleted, said, ran>>
          /\ crashes' = crashes + 1
      BY <1>2 DEF Crash, redis
    <2>2. \A o \in Streams : pc'[o] \in Ended \cup {"off"}
      <3>1. \A o \in Streams : Over(o, "cut") \in Ended
        BY OverEnds DEF Ended
      <3> QED BY <2>1, <3>1 DEF Live
    <2>3. PollInv'
      BY <1>t, <2>1, <2>2 DEF PollInv, Ended
    <2>4. KeyInv'
      BY <2>1 DEF HitlInv, KeyInv
    <2>5. SourceInv'
      BY <1>t, <2>2 DEF SourceInv, Ended, InTry
    <2>6. WaitInv'
      BY <1>t, <2>1 DEF HitlInv, WaitInv
    <2>7. AnsweredIsCleared'
      BY <2>1 DEF HitlInv, AnsweredIsCleared
    <2>8. RunInv'
      BY <1>t, <2>1 DEF HitlInv, RunInv
    <2> QED BY <2>3, <2>4, <2>5, <2>6, <2>7, <2>8 DEF HitlInv
  <1>3. ASSUME NEW c \in Checkpoints, Expires(c)
        PROVE  HitlInv'
    <2>1. /\ \A a \in Asks : /\ ckpt'[a] = IF a = c THEN "none" ELSE ckpt[a]
                             /\ request'[a] <=> request[a] /\ a # c
                             /\ response'[a] = IF a = c THEN "none" ELSE response[a]
          /\ told' = told \ {c} /\ orphaned' = orphaned \ {c} /\ undeleted' = undeleted \ {c}
          /\ UNCHANGED <<pc, loop, at, src, used, said, ran, crashes>>
      BY <1>3, <1>t DEF Expires, LoopTypeOK
    <2>2. \A s \in Streams : c \in Asks => at[s] # c
      <3> SUFFICES ASSUME NEW s \in Streams, c \in Asks, at[s] = c
                   PROVE  FALSE
        OBVIOUS
      <3>1. pc[s] = "ask"
        BY DEF HitlInv, PollInv
      <3>2. s \in Working(c)
        BY <3>1 DEF Working, Live, Ended
      <3> QED BY <1>3, <3>2 DEF Expires
    <2>3. PollInv' /\ KeyInv' /\ SourceInv'
      BY <2>1 DEF HitlInv, PollInv, KeyInv, SourceInv
    <2>4. WaitInv'
      BY <2>1, <2>2 DEF HitlInv, WaitInv
    <2>5. AnsweredIsCleared'
      BY <2>1 DEF HitlInv, AnsweredIsCleared
    <2>6. RunInv'
      BY <2>1 DEF HitlInv, RunInv
    <2> QED BY <2>3, <2>4, <2>5, <2>6 DEF HitlInv
  <1>4. ASSUME NEW r \in Resumes, NEW c \in Checkpoints,
               NEW answer \in {"none", "accepted", "rejected", "chosen"}, NEW writes \in BOOLEAN,
               Post(r, c, answer, writes)
        PROVE  HitlInv'
    <2>1. /\ pc[r] = "off" /\ (answer # "none" => c \in Asks)
          /\ said' = IF answer = "none" THEN said ELSE [said EXCEPT ![c] = @ \cup {answer}]
          /\ src' = [src EXCEPT ![r] = [id |-> c, answer |-> answer]]
          /\ pc' = [pc EXCEPT ![r] = IF writes THEN "posting" ELSE "opened"]
          /\ UNCHANGED <<loop, at, ckpt, request, response, used, told, orphaned, undeleted, ran,
                         crashes>>
      BY <1>4 DEF Post, redis, Go
    <2>2. /\ \A o \in Streams : pc'[o] = IF o = r THEN (IF writes THEN "posting" ELSE "opened")
                                         ELSE pc[o]
          /\ \A o \in Resumes : src'[o] = IF o = r THEN [id |-> c, answer |-> answer] ELSE src[o]
      BY <1>t, <2>1 DEF LoopTypeOK
    <2>3. /\ \A a \in Asks : said[a] \subseteq said'[a]
          /\ answer # "none" => answer \in said'[c]
      BY <2>1 DEF LoopTypeOK
    <2>4. writes => answer # "none" /\ c \in Asks
      BY <1>4 DEF Post
    <2>5. PollInv'
      BY <1>t, <2>1, <2>2 DEF HitlInv, PollInv
    <2>6. KeyInv' /\ WaitInv'
      BY <2>1, <2>3 DEF HitlInv, KeyInv, WaitInv
    <2>7. SourceInv'
      <3> SUFFICES ASSUME NEW o \in Resumes
                   PROVE  /\ pc'[o] = "posting" =>
                               src'[o].id \in Asks /\ src'[o].answer \in said'[src'[o].id]
                          /\ pc'[o] \in InTry /\ src'[o].id \in Asks => said'[src'[o].id] # {}
        BY DEF SourceInv
      <3>1. CASE o = r
        BY <1>t, <2>2, <2>3, <2>4, <3>1 DEF InTry
      <3>2. CASE o # r
        <4>1. pc'[o] = pc[o] /\ src'[o] = src[o]
          BY <1>t, <2>2, <3>2
        <4> QED BY <4>1, <2>3 DEF HitlInv, SourceInv
      <3> QED BY <3>1, <3>2
    <2>8. AnsweredIsCleared'
      BY <2>1 DEF HitlInv, AnsweredIsCleared
    <2>9. RunInv'
      <3>1. \A o \in Resumes : pc[o] \in InTry => pc'[o] = pc[o] /\ src'[o] = src[o]
        BY <1>t, <2>1, <2>2 DEF InTry
      <3> QED BY <2>1, <2>3, <3>1 DEF HitlInv, RunInv
    <2> QED BY <2>5, <2>6, <2>7, <2>8, <2>9 DEF HitlInv
  <1> QED BY <1>1, <1>2, <1>3, <1>4 DEF LoopWorld

LEMMA HitlStart == ASSUME NEW where \in PC \ {"ask"}, LoopInit(where) PROVE HitlInv
PROOF
  <1>1. NoAsk \notin Asks /\ \A s \in Streams : at[s] = NoAsk
    BY StreamsAssumption DEF LoopInit
  <1>2. \A s \in Streams : pc[s] # "ask"
    BY DEF LoopInit
  <1>3. \A r \in Resumes : pc[r] = "off"
    BY StreamsAssumption DEF LoopInit, Streams
  <1>4. PollInv
    BY <1>1, <1>2 DEF PollInv
  <1>5. KeyInv
    BY DEF LoopInit, KeyInv, Checkpoints
  <1>6. SourceInv
    BY <1>3 DEF SourceInv, InTry
  <1>7. WaitInv
    BY <1>1 DEF LoopInit, WaitInv
  <1>8. AnsweredIsCleared
    BY DEF LoopInit, AnsweredIsCleared, Checkpoints
  <1>9. RunInv
    BY DEF LoopInit, RunInv
  <1> QED BY <1>4, <1>5, <1>6, <1>7, <1>8, <1>9 DEF HitlInv

LoopInv == LoopTypeOK /\ HitlInv

LEMMA LoopInvStep == LoopInv /\ [LoopNext]_loopvars => LoopInv'
PROOF
  <1> SUFFICES ASSUME LoopInv, [LoopNext]_loopvars PROVE LoopInv'
    OBVIOUS
  <1>0. LoopTypeOK /\ HitlInv /\ PollInv
    BY DEF LoopInv, HitlInv
  <1>1. CASE UNCHANGED loopvars
    <2>1. LoopTypeOK'
      BY <1>0, <1>1 DEF loopvars, redis, record, LoopTypeOK
    <2>2. HitlInv'
      BY <1>0, <1>1
      DEF loopvars, redis, record, HitlInv, PollInv, KeyInv, SourceInv, WaitInv,
          AnsweredIsCleared, RunInv
    <2> QED BY <2>1, <2>2 DEF LoopInv
  <1>2. ASSUME NEW s \in Streams, Step(s)
        PROVE  LoopInv'
    BY <1>0, <1>2, LoopTypesStep, HitlStep DEF LoopInv
  <1>3. ASSUME NEW r \in Resumes, ResumeStep(r)
        PROVE  LoopInv'
    BY <1>0, <1>3, LoopTypesResume, HitlResume DEF LoopInv
  <1>4. CASE LoopWorld
    BY <1>0, <1>4, LoopTypesWorld, HitlWorld DEF LoopInv
  <1> QED BY <1>1, <1>2, <1>3, <1>4 DEF LoopNext

\* What the invariant says of questions and their answers.
LEMMA LoopSafety == LoopInv => SuspendedWaits /\ RunsOnlyAccepted /\ AnsweredIsCleared
PROOF
  <1>1. LoopInv => SuspendedWaits
    BY DEF LoopInv, LoopTypeOK, HitlInv, WaitInv, SuspendedWaits
  <1>2. LoopInv => RunsOnlyAccepted
    BY DEF LoopInv, HitlInv, RunInv, RunsOnlyAccepted
  <1>3. LoopInv => AnsweredIsCleared
    BY DEF LoopInv, HitlInv
  <1> QED BY <1>1, <1>2, <1>3

LEMMA LoopInvHolds == LoopSpec => []LoopInv
PROOF
  <1>1. LoopInit("think") => LoopInv
    <2>1. "think" \in PC \ {"ask"}
      BY DEF PC
    <2> QED BY <2>1, LoopTypesStart, HitlStart DEF LoopInv
  <1> QED BY <1>1, LoopInvStep, PTL DEF LoopSpec

-----------------------------------------------------------------------------
(* Theorems. *)

\* The loop's counters stay within their bounds, and what Redis holds is what
\* the code reads (agent_tool_loop, agent_interrupt_store).
THEOREM LoopTyped == LoopSpec => []LoopTypeOK
PROOF
  <1>1. LoopInv => LoopTypeOK
    BY DEF LoopInv
  <1> QED BY <1>1, LoopInvHolds, PTL

\* A turn that was reported suspended can be resumed until the user answers or
\* its keys expire, whatever other streams do (the finally of a resume).
THEOREM SuspensionsWait == LoopSpec => []SuspendedWaits
PROOF
  BY LoopSafety, LoopInvHolds, PTL

\* A tool that needs confirmation starts for a question only after the user
\* accepted that question (iter_resumed_agent_stream).
THEOREM ConsentComesFirst == LoopSpec => []RunsOnlyAccepted
PROOF
  BY LoopSafety, LoopInvHolds, PTL

\* A checkpoint nobody polls was left for the client, by a stream that was lost,
\* or by a DEL that failed, whose result nobody reads; none outlives an answer
\* otherwise (_hitl_poll, the finally of a resume, clear_checkpoint).
THEOREM AnswersClear == LoopSpec => []AnsweredIsCleared
PROOF
  BY LoopSafety, LoopInvHolds, PTL

\* Without a crash or a failed DEL the tool of a question starts a second time
\* only beside another resume of it (two that both load before either clears).
THEOREM SecondRunsOverlap == LoopSpec => RunsAgainOnlyBeside
PROOF
  <1> DEFINE Beside ==
        \A a \in Asks : ran[a] > 0 /\ ran'[a] > ran[a] /\ crashes = 0 /\ a \notin undeleted
          => \E r \in Resumes : src[r].id = a /\ pc[r] \in InTry
  <1>1. LoopInv /\ [LoopNext]_loopvars => [Beside]_loopvars
    <2> SUFFICES ASSUME LoopInv, LoopNext, NEW a \in Asks, ran[a] > 0, ran'[a] > ran[a],
                        crashes = 0, a \notin undeleted
                 PROVE  \E r \in Resumes : src[r].id = a /\ pc[r] \in InTry
      OBVIOUS
    <2>1. ran \in [Asks -> Nat]
      BY DEF LoopInv, LoopTypeOK
    <2>2. ~UNCHANGED ran
      BY <2>1
    <2>3. PICK r \in Resumes : Loads(r)
      <3>1. ASSUME NEW s \in Streams, Step(s)
            PROVE  UNCHANGED ran
        BY <3>1 DEF Step, AnswersDirectly, Talks, Calls, Runs, AsksUser, Heard, Suspends,
                    EndRound, Completes, Raises, record
      <3>2. ASSUME NEW r \in Resumes, Writes(r) \/ Ran(r)
            PROVE  UNCHANGED ran
        BY <3>2 DEF Writes, Ran, record
      <3>3. ASSUME LoopWorld
            PROVE  UNCHANGED ran
        BY <3>3 DEF LoopWorld, Disconnects, Crash, Expires, Post, record
      <3> QED BY <2>2, <3>1, <3>2, <3>3 DEF LoopNext, ResumeStep
    <2> DEFINE c == src[r].id
    <2>4. ckpt[c] # "none" /\ ran' = [ran EXCEPT ![c] = @ + 1]
      BY <2>2, <2>3 DEF Loads
    <2>5. a = c
      BY <2>1, <2>4
    <2> HIDE DEF c
    <2> QED BY <2>4, <2>5 DEF LoopInv, HitlInv, RunInv
  <1> QED BY <1>1, LoopInvHolds, PTL DEF LoopSpec, RunsAgainOnlyBeside
=============================================================================
