------------------------ MODULE IndexRequestsProofs ------------------------
(***************************************************************************)
(* Proofs about the jobs of one document version (IndexRequests), for any  *)
(* set of requests and any bounds.                                         *)
(*                                                                         *)
(*   Shaped          Spec => []TypeOK                                      *)
(*   OneIsActive     Spec => []OneActive                                   *)
(*   LastWordStands  Spec => []NewestStands                                *)
(*   GhostsPutBack   Spec => GhostOnlyFrom                                 *)
(*                                                                         *)
(* None of the three properties is inductive: what a request does next     *)
(* rests on rows its session read long before.  OnlyInv says of those rows *)
(* that a job seen settled is settled still, StandInv that without faults  *)
(* only the requests cancel, SeenInv what an executor saw.                 *)
(***************************************************************************)
EXTENDS IndexRequests, FiniteSetTheorems, WellFoundedInduction, TLAPS

-----------------------------------------------------------------------------
(* The invariants. *)

\* What a session may hold of the rows: values for some of the jobs.
Kept(S, V) == UNION {[D -> V] : D \in SUBSET S}

RunPc == {"off", "begin", "start", "work", "settle", "defer", "close"}
ReqPc == {"idle", "select", "cancel", "create", "dispatch", "done", "refused"}

Executor   == [pc: RunPc, snap: Row]
Session(S) == [pc: ReqPc, kind: Kinds \cup {"none"}, held: Kept(S, Row),
               todo: SUBSET S, dirty: SUBSET S, known: SUBSET S, job: {0} \cup S]
Canceller(S) == [job: {0} \cup S, snap: Row]
Recoverer(S) == [pc: {"off", "scan", "loop"}, held: Kept(S, Row), todo: SUBSET S,
                 had: Kept(S, Payload)]

\* The shape of every variable; TypeOK follows from it.
Shape ==
  /\ table \in Seq(Row) /\ Len(table) \in 1 .. MaxJobs
  /\ queued \subseteq Made
  /\ run \in [Jobs -> Executor] /\ \A j \in Jobs \ Made : run[j] = IdleRun
  /\ req \in [Requests -> Session(Made)]
  /\ \A r \in Requests : req[r].job # 0 <=> req[r].pc = "dispatch"
  /\ cx \in Canceller(Made)
  /\ rec \in Recoverer(Made)
  /\ faults \in 0 .. MaxFaults
  /\ causes \subseteq {"overlap", "revived", "given_up"}

\* What a request takes for settled: the jobs it has looked through before it
\* creates, and the rows it holds as settled.
LooksThrough(r) ==
  \A j \in req[r].known :
    req[r].pc = "create" \/ (req[r].pc = "cancel" /\ j \notin req[r].todo)
      => ~IsActive(table[j])
HoldsSettled(r) ==
  \A j \in DOMAIN req[r].held : ~IsActive(req[r].held[j]) => ~IsActive(table[j])

\* One job is active, and what a request takes for settled is settled.
OnlyInv ==
  causes \cap {"overlap", "revived"} = {} =>
    /\ \A i, j \in Made : IsActive(table[i]) /\ IsActive(table[j]) => i = j
    /\ \A r \in Requests : LooksThrough(r) /\ HoldsSettled(r)

\* Before the first fault only requests cancel, and go on to create.
StandInv ==
  faults = 0 =>
    /\ cx.job = 0 /\ rec.pc = "off"
    /\ "given_up" \notin causes /\ table[Len(table)].status = "cancelled" =>
         \E r \in Requests : req[r].pc \in {"cancel", "create"}

\* An executor begins a job that it saw active, and defers none that it saw
\* cancelled.
SeenInv ==
  \A j \in Jobs : /\ run[j].pc = "begin" => IsActive(run[j].snap)
                  /\ run[j].pc = "defer" => run[j].snap.status # "cancelled"

-----------------------------------------------------------------------------
(* The rows. *)

\* A row put together by a commit, by a cancellation, or with a status set, is
\* a row; TakeLease, DropLease and EnterAwaiting give payloads.
LEMMA RowShapes ==
  /\ New \in Row
  /\ \A db, old, new \in Row : \A t \in BOOLEAN : Flush(db, old, new, t) \in Row
  /\ \A r \in Row : \A s \in Status : Settle(r, s) \in Row /\ SetStatus(r, s) \in Row
  /\ \A p \in Payload : /\ TakeLease(p) \in Payload /\ DropLease(p) \in Payload
                        /\ EnterAwaiting(p, "fresh") \in Payload
  /\ \A r \in Row : \A p \in Payload : [r EXCEPT !.pay = p] \in Row
PROOF
  <1>1. New \in Row
    BY DEF New, Row, Payload, EmptyPayload, Phase, Lease, Watch, Status, Active, Terminal
  <1>2. \A db, old, new \in Row : \A t \in BOOLEAN : Flush(db, old, new, t) \in Row
    BY DEF Flush, Row
  <1>3. \A r \in Row : \A s \in Status : Settle(r, s) \in Row /\ SetStatus(r, s) \in Row
    BY DEF Settle, SetStatus, ClearPhaseFields, Row, Payload, EmptyPayload, Phase, Lease, Watch
  <1>4. \A p \in Payload : /\ TakeLease(p) \in Payload /\ DropLease(p) \in Payload
                           /\ EnterAwaiting(p, "fresh") \in Payload
    BY DEF TakeLease, DropLease, EnterAwaiting, Payload, Phase, Lease, Watch
  <1>5. \A r \in Row : \A p \in Payload : [r EXCEPT !.pay = p] \in Row
    BY DEF Row
  <1> QED BY <1>1, <1>2, <1>3, <1>4, <1>5

\* Rows given job by job are a sequence of the same length.
LEMMA RowsAreASequence ==
  ASSUME NEW n \in Nat, NEW rows \in [1 .. n -> Row]
  PROVE  rows \in Seq(Row) /\ Len(rows) = n /\ DOMAIN rows = 1 .. n
PROOF
  OBVIOUS

\* The table grows by Create alone; what a session keeps is kept.
LEMMA KeptGrows ==
  ASSUME NEW S, NEW T, S \subseteq T
  PROVE  /\ \A V : Kept(S, V) \subseteq Kept(T, V)
         /\ Session(S) \subseteq Session(T)
         /\ Canceller(S) \subseteq Canceller(T) /\ Recoverer(S) \subseteq Recoverer(T)
PROOF
  <1>1. \A V : Kept(S, V) \subseteq Kept(T, V)
    BY DEF Kept
  <1>2. Session(S) \subseteq Session(T)
    BY <1>1 DEF Session
  <1>3. Canceller(S) \subseteq Canceller(T) /\ Recoverer(S) \subseteq Recoverer(T)
    BY <1>1 DEF Canceller, Recoverer
  <1> QED BY <1>1, <1>2, <1>3

\* Nothing, one row, and the rows at hand can be kept.
LEMMA KeptForms ==
  /\ DOMAIN Nothing = {}
  /\ \A S, V : Nothing \in Kept(S, V)
  /\ \A S, V : \A f \in Kept(S, V) : /\ DOMAIN f \subseteq S
                                     /\ \A j \in DOMAIN f : f[j] \in V
  /\ \A S, V : \A j \in S : \A v \in V : Only(j, v) \in Kept(S, V)
  /\ \A S, V : \A f \in Kept(S, V) : \A D : Restrict(f, DOMAIN f \ D) \in Kept(S, V)
PROOF
  <1>1. DOMAIN Nothing = {} /\ \A S, V : Nothing \in Kept(S, V)
    <2>1. DOMAIN Nothing = {} /\ Nothing = [x \in {} |-> 0]
      BY DEF Nothing
    <2>2. \A S, V : Nothing \in [{} -> V] /\ {} \in SUBSET S
      BY <2>1
    <2> QED BY <2>1, <2>2 DEF Kept
  <1>2. \A S, V : \A f \in Kept(S, V) : /\ DOMAIN f \subseteq S
                                        /\ \A j \in DOMAIN f : f[j] \in V
    BY DEF Kept
  <1>3. ASSUME NEW S, NEW V, NEW j \in S, NEW v \in V
        PROVE  Only(j, v) \in Kept(S, V)
    <2>1. Only(j, v) \in [{j} -> V] /\ {j} \in SUBSET S
      BY DEF Only
    <2> QED BY <2>1 DEF Kept
  <1>4. ASSUME NEW S, NEW V, NEW f \in Kept(S, V), NEW D
        PROVE  Restrict(f, DOMAIN f \ D) \in Kept(S, V)
    <2>1. PICK C \in SUBSET S : f \in [C -> V]
      BY DEF Kept
    <2>2. Restrict(f, DOMAIN f \ D) \in [C \ D -> V] /\ C \ D \in SUBSET S
      BY <2>1 DEF Restrict
    <2> QED BY <2>2 DEF Kept
  <1> QED BY <1>1, <1>2, <1>3, <1>4

-----------------------------------------------------------------------------
(* The shape of every variable. *)

LEMMA JobRange ==
  ASSUME Shape
  PROVE  /\ Made = 1 .. Len(table) /\ Made \subseteq Jobs /\ Made \subseteq Nat
         /\ table \in [Made -> Row] /\ Len(table) \in Made
PROOF
  BY BoundsAssumption DEF Shape, Made, Jobs

\* A commit replaces rows and adds none, and the history only grows.
LEMMA WriteShape ==
  ASSUME Shape, NEW rows \in [Made -> Row], Write(rows)
  PROVE  /\ table' = rows /\ table' \in Seq(Row)
         /\ Len(table') = Len(table) /\ Made' = Made
         /\ causes' \subseteq {"overlap", "revived", "given_up"}
         /\ causes' \in {causes, causes \cup {"revived"}}
PROOF
  <1>1. table' = rows /\ causes' \in {causes, causes \cup {"revived"}}
    BY DEF Write
  <1>2. /\ table' \in Seq(Row) /\ Len(table') = Len(table)
        /\ DOMAIN table' = 1 .. Len(table)
    <2>1. Len(table) \in Nat /\ rows \in [1 .. Len(table) -> Row]
      BY JobRange DEF Shape
    <2> QED BY <1>1, <2>1, RowsAreASequence
  <1>3. Made' = Made
    BY <1>2, JobRange DEF Made
  <1> QED BY <1>1, <1>2, <1>3 DEF Shape

LEMMA CommitShape ==
  ASSUME Shape, NEW j \in Made, NEW old \in Row, NEW new \in Row, NEW t \in BOOLEAN,
         Commit(j, old, new, t)
  PROVE  /\ table' = [table EXCEPT ![j] = Flush(table[j], old, new, t)]
         /\ table' \in Seq(Row) /\ table' \in [Made -> Row]
         /\ Len(table') = Len(table) /\ Made' = Made
         /\ causes' \subseteq {"overlap", "revived", "given_up"}
         /\ causes' \in {causes, causes \cup {"revived"}}
PROOF
  <1> DEFINE rows == [table EXCEPT ![j] = Flush(table[j], old, new, t)]
  <1>1. rows \in [Made -> Row]
    BY RowShapes, JobRange
  <1>2. Write(rows)
    BY DEF Commit
  <1> QED BY <1>1, <1>2, WriteShape

\* What the sessions of a canceller and of the recovery write are rows.
LEMMA SessionRows ==
  ASSUME Shape
  PROVE  /\ \A D : Cleared(D) \in [Made -> Row]
         /\ \A S, held : held \in Kept(S, Row) => \A j \in Made : Seen(held, j) \in Row
         /\ \A j \in Made : Seen(rec.held, j) \in Row /\ Edited(j) \in Row
         /\ Released \in [Made -> Row]
PROOF
  <1>1. \A r \in Row : r.status \in Status
    BY DEF Row
  <1>2. \A D : Cleared(D) \in [Made -> Row]
    BY <1>1, JobRange, RowShapes DEF Cleared
  <1>3. \A S, held : held \in Kept(S, Row) => \A j \in Made : Seen(held, j) \in Row
    BY JobRange, KeptForms DEF Seen
  <1>4. \A j \in Made : Seen(rec.held, j) \in Row /\ Edited(j) \in Row
    <2>1. rec.held \in Kept(Made, Row) /\ rec.had \in Kept(Made, Payload)
      BY DEF Shape, Recoverer
    <2>2. TAKE j \in Made
    <2>3. Seen(rec.held, j) \in Row
      BY <1>3, <2>1
    <2>4. Edited(j) \in Row
      BY <2>1, <2>3, RowShapes, KeptForms DEF Edited
    <2> QED BY <2>3, <2>4
  <1>5. Released \in [Made -> Row]
    BY <1>4, JobRange, RowShapes DEF Released
  <1> QED BY <1>2, <1>3, <1>4, <1>5

\* The requests' part of Shape, after one of them has moved.
LEMMA RequestShape ==
  ASSUME Shape, Made \subseteq Made', NEW r \in Requests, NEW q \in Session(Made'),
         q.job # 0 <=> q.pc = "dispatch", Others(r, q)
  PROVE  /\ req' \in [Requests -> Session(Made')]
         /\ \A o \in Requests : req'[o].job # 0 <=> req'[o].pc = "dispatch"
PROOF
  <1>1. Session(Made) \subseteq Session(Made')
    BY KeptGrows
  <1>2. req \in [Requests -> Session(Made')] /\ req' = [req EXCEPT ![r] = q]
    BY <1>1 DEF Shape, Others
  <1> QED BY <1>2 DEF Shape

\* Another set of dirty jobs, or of rows held, leaves a session a session.
LEMMA SessionKeeps ==
  ASSUME NEW S, NEW q \in Session(S), NEW held \in Kept(S, Row), NEW D \in SUBSET S
  PROVE  /\ [q EXCEPT !.held = held, !.dirty = D] \in Session(S)
         /\ [q EXCEPT !.dirty = D] \in Session(S)
PROOF
  BY DEF Session

LEMMA FreshShapes ==
  /\ \A S : IdleReq \in Session(S) /\ NoCx \in Canceller(S) /\ NoRec \in Recoverer(S)
  /\ IdleRun \in Executor
PROOF
  BY RowShapes, KeptForms
  DEF IdleReq, Session, ReqPc, NoCx, Canceller, NoRec, Recoverer, IdleRun, Executor, RunPc

\* What Find and Create answer with.
LEMMA AnswerShape ==
  ASSUME NEW S, NEW j \in S, NEW held \in Kept(S, Row)
  PROVE  /\ [IdleReq EXCEPT !.pc = "dispatch", !.job = j] \in Session(S)
         /\ [IdleReq EXCEPT !.pc = "dispatch", !.job = j, !.held = held] \in Session(S)
PROOF
  <1>1. IdleReq \in Session(S)
    BY FreshShapes
  <1> QED BY <1>1 DEF Session, ReqPc

LEMMA ShapeInit == Init => Shape
PROOF
  <1> SUFFICES ASSUME Init PROVE Shape
    OBVIOUS
  <1>1. table \in Seq(Row) /\ Len(table) \in 1 .. MaxJobs /\ Made = {1}
    BY RowShapes, BoundsAssumption DEF Init, Made
  <1>2. queued \subseteq Made /\ faults \in 0 .. MaxFaults
    BY <1>1, BoundsAssumption DEF Init
  <1>3. run \in [Jobs -> Executor] /\ \A j \in Jobs \ Made : run[j] = IdleRun
    BY FreshShapes DEF Init
  <1>4. req \in [Requests -> Session(Made)] /\ cx \in Canceller(Made) /\ rec \in Recoverer(Made)
    BY FreshShapes DEF Init
  <1>5. \A r \in Requests : req[r].job # 0 <=> req[r].pc = "dispatch"
    BY DEF Init, IdleReq
  <1> QED BY <1>1, <1>2, <1>3, <1>4, <1>5 DEF Init, Shape

\* A row taken as one with all its columns.
LEMMA RowColumns ==
  /\ \A r \in Row : r.status \in Status /\ r.pay \in Payload
  /\ {"pending", "running", "done", "failed", "cancelled"} \subseteq Status
PROOF
  BY DEF Row, Status, Active, Terminal

\* The requests' half of Next keeps the shape.
LEMMA ShapeRequest ==
  ASSUME Shape, NEW r \in Requests, Request(r)
  PROVE  Shape'
PROOF
  <1> USE DEF Shape
  <1>a. req[r] \in Session(Made) /\ req[r].held \in Kept(Made, Row)
    BY DEF Session
  <1>b. /\ table \in Kept(Made, Row)
        /\ \A j \in Made : Only(j, table[j]) \in Kept(Made, Row)
    <2>1. table \in [Made -> Row] /\ Made \in SUBSET Made
      BY JobRange
    <2>2. table \in Kept(Made, Row)
      BY <2>1 DEF Kept
    <2> QED BY <2>1, <2>2, KeptForms
  <1>c. ASSUME UNCHANGED <<table, queued, run, cx, rec, faults>>,
               causes' \subseteq {"overlap", "revived", "given_up"},
               NEW q \in Session(Made), Others(r, q), q.job # 0 <=> q.pc = "dispatch"
        PROVE  Shape'
    <2>1. Made' = Made
      BY <1>c DEF Made
    <2>2. /\ req' \in [Requests -> Session(Made')]
          /\ \A o \in Requests : req'[o].job # 0 <=> req'[o].pc = "dispatch"
      BY <1>c, <2>1, RequestShape
    <2> QED BY <1>c, <2>1, <2>2
  <1>1. CASE Find(r)
    <2>1. PICK kind \in Kinds \ {"reindex"} :
            LET live == {j \in Made : Offered(table[j])}
                q    == [req[r] EXCEPT !.kind = kind, !.held = table, !.known = Made]
            IN  \/ live = {} /\ Others(r, [q EXCEPT !.pc = "create", !.held = Nothing])
                \/ live # {} /\ kind = "force" /\ Others(r, [q EXCEPT !.pc = "select"])
                \/ /\ kind = "reuse"
                   /\ \E j \in live :
                        Others(r, [IdleReq EXCEPT !.pc = "dispatch", !.job = j,
                                                  !.held = Only(j, table[j])])
      BY <1>1 DEF Find
    <2> DEFINE q == [req[r] EXCEPT !.kind = kind, !.held = table, !.known = Made]
    <2>2. q \in Session(Made) /\ q.pc = "idle" /\ q.job = 0
      BY <1>1, <1>a, <1>b DEF Find, Session, ReqPc
    <2>3. /\ [q EXCEPT !.pc = "create", !.held = Nothing] \in Session(Made)
          /\ [q EXCEPT !.pc = "select"] \in Session(Made)
      BY <2>2, KeptForms DEF Session, ReqPc
    <2>4. ASSUME NEW j \in Made
          PROVE  /\ [IdleReq EXCEPT !.pc = "dispatch", !.job = j,
                                    !.held = Only(j, table[j])] \in Session(Made)
                 /\ j # 0
      <3> HIDE DEF q
      <3>1. j # 0
        BY JobRange
      <3> HIDE DEF Shape
      <3> QED BY <1>b, <3>1, AnswerShape
    <2>5. UNCHANGED <<table, queued, run, cx, rec, faults, causes>>
      BY <1>1 DEF Find
    <2> HIDE DEF Shape, q
    <2>6. CASE Others(r, [q EXCEPT !.pc = "create", !.held = Nothing])
      BY <2>2, <2>3, <2>5, <2>6, <1>c DEF Shape, Session
    <2>7. CASE Others(r, [q EXCEPT !.pc = "select"])
      BY <2>2, <2>3, <2>5, <2>7, <1>c DEF Shape, Session
    <2>8. ASSUME NEW j \in Made, Others(r, [IdleReq EXCEPT !.pc = "dispatch", !.job = j,
                                                           !.held = Only(j, table[j])])
          PROVE  Shape'
      BY <2>4, <2>5, <2>8, <1>c DEF Shape, IdleReq
    <2> QED BY <2>1, <2>6, <2>7, <2>8 DEF q
  <1>2. CASE Select(r)
    <2>1. PICK kind \in Kinds :
            /\ \/ req[r].pc = "select" /\ kind = req[r].kind
               \/ req[r].pc = "idle" /\ kind = "reindex"
            /\ Others(r, [req[r] EXCEPT !.pc = "cancel", !.kind = kind, !.todo = Made,
                             !.known = Made, !.held = [j \in Made |-> Seen(req[r].held, j)]])
      BY <1>2 DEF Select
    <2>2. [j \in Made |-> Seen(req[r].held, j)] \in Kept(Made, Row)
      BY <1>a, SessionRows DEF Kept
    <2>3. [req[r] EXCEPT !.pc = "cancel", !.kind = kind, !.todo = Made, !.known = Made,
                  !.held = [j \in Made |-> Seen(req[r].held, j)]] \in Session(Made)
      BY <1>a, <2>2 DEF Session, ReqPc
    <2>4. req[r].job = 0
      BY <2>1
    <2>5. UNCHANGED <<table, queued, run, cx, rec, faults, causes>>
      BY <1>2 DEF Select
    <2> QED BY <1>a, <1>c, <2>1, <2>3, <2>4, <2>5 DEF Session
  <1>3. CASE CancelOne(r)
    <2>1. PICK j \in req[r].todo :
            LET old == Seen(req[r].held, j)
                q   == [req[r] EXCEPT !.todo = @ \ {j},
                                      !.held = Restrict(@, DOMAIN @ \ {j}),
                                      !.pc   = IF req[r].todo = {j} THEN "create" ELSE @]
            IN  IF Cancels(old)
                THEN /\ Write([Cleared(req[r].dirty) EXCEPT
                                 ![j] = Flush(@, old, Settle(old, "cancelled"), FALSE)])
                     /\ Others(r, [q EXCEPT !.held = Nothing, !.dirty = {}])
                ELSE /\ Others(r, [q EXCEPT !.dirty =
                                     IF old.pay = EmptyPayload THEN @ ELSE @ \cup {j}])
                     /\ UNCHANGED <<table, causes>>
      BY <1>3 DEF CancelOne
    <2> DEFINE old == Seen(req[r].held, j)
               q   == [req[r] EXCEPT !.todo = @ \ {j},
                                     !.held = Restrict(@, DOMAIN @ \ {j}),
                                     !.pc   = IF req[r].todo = {j} THEN "create" ELSE @]
               rows == [Cleared(req[r].dirty) EXCEPT
                          ![j] = Flush(@, old, Settle(old, "cancelled"), FALSE)]
    <2>2. j \in Made /\ old \in Row
      BY <1>a, SessionRows DEF Session
    <2>3. Restrict(req[r].held, DOMAIN req[r].held \ {j}) \in Kept(Made, Row)
      BY <1>a, KeptForms
    <2>4. q \in Session(Made) /\ q.pc \in {"cancel", "create"} /\ q.job = 0
      BY <1>3, <1>a, <2>3 DEF Session, ReqPc, CancelOne
    <2>5. /\ [q EXCEPT !.held = Nothing, !.dirty = {}] \in Session(Made)
          /\ [q EXCEPT !.dirty = IF old.pay = EmptyPayload THEN @ ELSE @ \cup {j}]
               \in Session(Made)
      <3> HIDE DEF Shape, q, old, rows
      <3>1. q.dirty \cup {j} \in SUBSET Made /\ q.dirty \in SUBSET Made
        BY <2>2, <2>4 DEF Session
      <3>2. {} \in SUBSET Made /\ Nothing \in Kept(Made, Row)
        BY KeptForms
      <3>3. [q EXCEPT !.held = Nothing, !.dirty = {}] \in Session(Made)
        BY <2>4, <3>2, SessionKeeps
      <3>4. [q EXCEPT !.dirty = IF old.pay = EmptyPayload THEN @ ELSE @ \cup {j}]
              \in Session(Made)
        <4> DEFINE D == IF old.pay = EmptyPayload THEN q.dirty ELSE q.dirty \cup {j}
        <4>1. D \in SUBSET Made
          BY <3>1
        <4> HIDE DEF D
        <4>2. [q EXCEPT !.dirty = D] \in Session(Made)
          BY <2>4, <3>2, <4>1, SessionKeeps
        <4> QED BY <4>2 DEF D
      <3> QED BY <3>3, <3>4
    <2>6. rows \in [Made -> Row]
      BY <2>2, SessionRows, RowShapes, RowColumns
    <2>7. UNCHANGED <<queued, run, cx, rec, faults>>
      BY <1>3 DEF CancelOne
    <2> HIDE DEF q, old, rows
    <2>8. CASE Cancels(old)
      <3>1. Write(rows) /\ Others(r, [q EXCEPT !.held = Nothing, !.dirty = {}])
        BY <2>1, <2>8 DEF old, q, rows
      <3>2. /\ table' \in Seq(Row) /\ Len(table') = Len(table) /\ Made' = Made
            /\ causes' \subseteq {"overlap", "revived", "given_up"}
        BY <2>6, <3>1, WriteShape
      <3> DEFINE qq == [q EXCEPT !.held = Nothing, !.dirty = {}]
      <3>3. qq \in Session(Made') /\ (qq.job # 0 <=> qq.pc = "dispatch")
        BY <2>4, <2>5, <3>2 DEF Session
      <3>4. /\ req' \in [Requests -> Session(Made')]
            /\ \A o \in Requests : req'[o].job # 0 <=> req'[o].pc = "dispatch"
        <4> HIDE DEF Shape, qq
        <4> QED BY <3>1, <3>2, <3>3, RequestShape DEF qq
      <3> QED BY <2>7, <3>2, <3>4
    <2>9. CASE ~Cancels(old)
      <3> DEFINE qq == [q EXCEPT !.dirty = IF old.pay = EmptyPayload THEN @ ELSE @ \cup {j}]
      <3>1. Others(r, qq) /\ UNCHANGED <<table, causes>>
        BY <2>1, <2>9 DEF old, q
      <3>2. qq \in Session(Made) /\ (qq.job # 0 <=> qq.pc = "dispatch")
        BY <2>4, <2>5 DEF Session
      <3> HIDE DEF qq
      <3> QED BY <1>c, <2>7, <3>1, <3>2
    <2> QED BY <2>8, <2>9
  <1>4. CASE Create(r)
    <2>1. /\ Len(table) < MaxJobs /\ UNCHANGED <<queued, run, cx, rec, faults>>
          /\ table' = Append(Cleared(req[r].dirty), New)
          /\ Others(r, [IdleReq EXCEPT !.pc = "dispatch", !.job = Len(table')])
          /\ causes' \subseteq causes \cup {"overlap"}
      BY <1>4 DEF Create
    <2>2. /\ Cleared(req[r].dirty) \in Seq(Row)
          /\ Len(Cleared(req[r].dirty)) = Len(table)
      BY SessionRows, JobRange, RowsAreASequence
    <2>3. table' \in Seq(Row) /\ Len(table') = Len(table) + 1
      BY <2>1, <2>2, RowShapes
    <2>4. /\ Made' = Made \cup {Len(table')} /\ Len(table') \in 1 .. MaxJobs
          /\ Made \subseteq Made' /\ Made' \subseteq Jobs
      BY <2>1, <2>3, JobRange, BoundsAssumption DEF Made, Jobs
    <2>5. [IdleReq EXCEPT !.pc = "dispatch", !.job = Len(table')] \in Session(Made')
      <3> HIDE DEF Shape
      <3> QED BY <2>4, KeptForms, AnswerShape
    <2>6. /\ req' \in [Requests -> Session(Made')]
          /\ \A o \in Requests : req'[o].job # 0 <=> req'[o].pc = "dispatch"
      <3> DEFINE q == [IdleReq EXCEPT !.pc = "dispatch", !.job = Len(table')]
      <3>1. q.job # 0 /\ q.pc = "dispatch"
        BY <2>4 DEF IdleReq
      <3> HIDE DEF Shape, q
      <3> QED BY <2>1, <2>4, <2>5, <3>1, RequestShape DEF q
    <2>7. cx' \in Canceller(Made') /\ rec' \in Recoverer(Made')
      BY <2>1, <2>4, KeptGrows
    <2> QED BY <2>1, <2>3, <2>4, <2>6, <2>7 DEF Jobs
  <1>5. CASE Blocked(r)
    <2> DEFINE q == [IdleReq EXCEPT !.pc = "refused"]
    <2>1. q \in Session(Made) /\ (q.job # 0 <=> q.pc = "dispatch")
      BY FreshShapes DEF Session, ReqPc, IdleReq
    <2>2. /\ Others(r, q) /\ UNCHANGED <<table, queued, run, cx, rec, faults>>
          /\ causes' \subseteq {"overlap", "revived", "given_up"}
      BY <1>5 DEF Blocked
    <2> HIDE DEF q
    <2> QED BY <1>c, <2>1, <2>2
  <1>6. CASE Answer(r)
    <2> DEFINE q == [IdleReq EXCEPT !.pc = "done"]
    <2>1. q \in Session(Made) /\ q.pc = "done" /\ q.job = 0
      BY FreshShapes DEF Session, ReqPc, IdleReq
    <2>2. Others(r, q) /\ UNCHANGED <<table, run, cx, rec, faults, causes>>
      BY <1>6 DEF Answer
    <2>3. req[r].job \in Made
      BY <1>6, <1>a DEF Answer, Session
    <2>4. queued' \subseteq Made /\ Made' = Made
      BY <1>6, <2>2, <2>3 DEF Answer, Made
    <2>5. /\ req' \in [Requests -> Session(Made')]
          /\ \A o \in Requests : req'[o].job # 0 <=> req'[o].pc = "dispatch"
      <3> HIDE DEF Shape, q
      <3> QED BY <2>1, <2>2, <2>4, RequestShape
    <2> QED BY <2>2, <2>4, <2>5
  <1> QED BY <1>1, <1>2, <1>3, <1>4, <1>5, <1>6 DEF Request

\* The executors' part of Shape, after one of them has moved.
LEMMA RunShape ==
  ASSUME Shape, Made' = Made, NEW j \in Made, NEW pc \in RunPc, NEW row \in Row,
         At(j, pc) \/ Load(j, pc, row)
  PROVE  run' \in [Jobs -> Executor] /\ \A i \in Jobs \ Made' : run'[i] = IdleRun
PROOF
  <1>1. [IdleRun EXCEPT !.pc = pc] \in Executor /\ [pc |-> pc, snap |-> row] \in Executor
    BY FreshShapes DEF Executor
  <1>2. PICK e \in Executor : run' = [run EXCEPT ![j] = e]
    BY <1>1 DEF At, Load
  <1>3. j \in Jobs /\ run \in [Jobs -> Executor]
    BY JobRange DEF Shape
  <1> QED BY <1>2, <1>3 DEF Shape

\* The executors' half of Next keeps the shape.
LEMMA ShapeExecute ==
  ASSUME Shape, NEW j \in Made, Execute(j)
  PROVE  Shape'
PROOF
  <1>a. run[j] \in Executor /\ run[j].snap \in Row /\ run[j].snap.pay \in Payload
    BY JobRange, RowColumns DEF Shape, Executor
  <1>b. table[j] \in Row /\ table[j].pay \in Payload /\ j \in Jobs
    BY JobRange, RowColumns
  <1>c. ASSUME UNCHANGED <<req, cx, rec, faults>>, queued' \subseteq Made,
               NEW rows \in Seq(Row), table' = rows, Len(rows) = Len(table), Made' = Made,
               causes' \subseteq {"overlap", "revived", "given_up"},
               NEW pc \in RunPc, NEW row \in Row,
               At(j, pc) \/ Load(j, pc, row) \/ UNCHANGED run
        PROVE  Shape'
    <2>1. run' \in [Jobs -> Executor] /\ \A i \in Jobs \ Made' : run'[i] = IdleRun
      <3>1. CASE UNCHANGED run
        BY <1>c, <3>1 DEF Shape
      <3>2. CASE At(j, pc) \/ Load(j, pc, row)
        BY <1>c, <3>2, RunShape
      <3> QED BY <1>c, <3>1, <3>2
    <2> QED BY <1>c, <2>1 DEF Shape
  <1>d. ASSUME UNCHANGED <<table, causes, req, cx, rec, faults>>, queued' \subseteq Made,
               NEW pc \in RunPc, NEW row \in Row,
               At(j, pc) \/ Load(j, pc, row) \/ UNCHANGED run
        PROVE  Shape'
    <2>1. /\ Made' = Made /\ table' = table /\ table \in Seq(Row)
          /\ causes' \subseteq {"overlap", "revived", "given_up"}
      BY <1>d DEF Shape, Made
    <2> QED BY <1>c, <1>d, <2>1
  <1>e. ASSUME NEW new \in Row, NEW t \in BOOLEAN, NEW old \in Row, Commit(j, old, new, t),
               UNCHANGED <<req, cx, rec, faults>>, queued' \subseteq Made,
               NEW pc \in RunPc, NEW row \in Row, At(j, pc) \/ Load(j, pc, row)
        PROVE  Shape'
    <2>1. /\ table' \in Seq(Row) /\ Len(table') = Len(table) /\ Made' = Made
          /\ causes' \subseteq {"overlap", "revived", "given_up"}
      BY <1>e, CommitShape
    <2>2. run' \in [Jobs -> Executor] /\ \A i \in Jobs \ Made' : run'[i] = IdleRun
      BY <1>e, <2>1, RunShape
    <2> QED BY <1>e, <2>1, <2>2 DEF Shape
  <1>q. queued \subseteq Made /\ queued \ {j} \subseteq Made /\ queued \cup {j} \subseteq Made
    BY DEF Shape
  <1>p. /\ {"off", "begin", "start", "work", "settle", "defer", "close"} \subseteq RunPc
        /\ {"running", "done", "pending", "cancelled"} \subseteq Status
    BY RowColumns DEF RunPc
  <1>1. CASE Pickup(j)
    <2>1. /\ UNCHANGED <<table, causes, req, cx, rec, faults>> /\ queued' \subseteq Made
          /\ Load(j, "begin", table[j]) \/ UNCHANGED run
      BY <1>1, <1>q DEF Pickup
    <2> QED BY <1>b, <1>d, <1>p, <2>1
  <1>2. CASE Begin(j)
    <2> DEFINE old == run[j].snap
               new == [old EXCEPT !.pay = TakeLease(@)]
    <2>1. new \in Row
      BY <1>a, RowShapes
    <2>2. UNCHANGED <<req, cx, rec, faults>> /\ queued' \subseteq Made
      BY <1>2, <1>q DEF Begin
    <2>3. CASE LeaseIsActive(run[j].snap)
      <3>1. At(j, "off") /\ UNCHANGED <<table, causes>>
        BY <1>2, <2>3 DEF Begin
      <3> QED BY <1>b, <1>d, <1>p, <2>2, <3>1
    <2>4. CASE ~LeaseIsActive(run[j].snap)
      <3>1. /\ Commit(j, old, new, TRUE)
            /\ At(j, "work") \/ Load(j, "start", table'[j])
        BY <1>2, <2>4 DEF Begin
      <3>2. table'[j] \in Row
        <4> HIDE DEF old, new
        <4>1. table' \in [Made -> Row]
          BY <1>a, <2>1, <3>1, CommitShape DEF old
        <4> QED BY <4>1
      <3> HIDE DEF new
      <3>3. /\ table' \in Seq(Row) /\ Len(table') = Len(table) /\ Made' = Made
            /\ causes' \subseteq {"overlap", "revived", "given_up"}
        BY <1>a, <2>1, <3>1, CommitShape
      <3>4. run' \in [Jobs -> Executor] /\ \A i \in Jobs \ Made' : run'[i] = IdleRun
        <4>1. CASE At(j, "work")
          BY <1>b, <1>p, <3>3, <4>1, RunShape
        <4>2. CASE Load(j, "start", table'[j])
          <5>1. [pc |-> "start", snap |-> table'[j]] \in Executor
            BY <1>p, <3>2 DEF Executor
          <5> QED BY <1>b, <3>3, <4>2, <5>1 DEF Load, Shape
        <4> QED BY <3>1, <4>1, <4>2
      <3> QED BY <2>2, <3>3, <3>4 DEF Shape
    <2> QED BY <2>3, <2>4
  <1>3. CASE Start(j)
    <2>1. SetStatus(run[j].snap, "running") \in Row
      BY <1>a, <1>p, RowShapes
    <2>2. /\ UNCHANGED <<req, cx, rec, faults>> /\ queued' \subseteq Made /\ At(j, "work")
          /\ Commit(j, run[j].snap, SetStatus(run[j].snap, "running"), FALSE)
      BY <1>3, <1>q DEF Start
    <2> QED BY <1>a, <1>b, <1>e, <1>p, <2>1, <2>2
  <1>4. CASE Work(j)
    <2>1. /\ UNCHANGED <<table, causes, req, cx, rec, faults>> /\ queued' \subseteq Made
          /\ \/ At(j, "close") \/ Load(j, "settle", table[j]) \/ Load(j, "defer", table[j])
      BY <1>4, <1>q DEF Work
    <2> QED BY <1>b, <1>d, <1>p, <2>1
  <1>5. CASE Claim(j)
    <2>1. Settle(run[j].snap, "done") \in Row
      BY <1>a, <1>p, RowShapes
    <2>2. UNCHANGED <<req, cx, rec, faults>> /\ queued' \subseteq Made /\ At(j, "close")
      BY <1>5, <1>q DEF Claim
    <2>3. \/ Commit(j, run[j].snap, Settle(run[j].snap, "done"), FALSE)
          \/ UNCHANGED <<table, causes>>
      BY <1>5 DEF Claim
    <2>4. CASE Commit(j, run[j].snap, Settle(run[j].snap, "done"), FALSE)
      BY <1>a, <1>b, <1>e, <1>p, <2>1, <2>2, <2>4
    <2>5. CASE UNCHANGED <<table, causes>>
      BY <1>b, <1>d, <1>p, <2>2, <2>5
    <2> QED BY <2>3, <2>4, <2>5
  <1>6. CASE Defer(j)
    <2> DEFINE met == [run[j].snap EXCEPT !.pay = EnterAwaiting(@, "fresh")]
    <2>1. SetStatus(met, "running") \in Row
      BY <1>a, <1>p, RowShapes
    <2>2. /\ UNCHANGED <<req, cx, rec, faults>> /\ queued' \subseteq Made /\ At(j, "close")
          /\ Commit(j, run[j].snap, SetStatus(met, "running"), TRUE)
      BY <1>6, <1>q DEF Defer
    <2> HIDE DEF met
    <2> QED BY <1>a, <1>b, <1>e, <1>p, <2>1, <2>2
  <1>7. CASE Close(j)
    <2> DEFINE new == [table[j] EXCEPT !.pay = DropLease(@)]
    <2>1. new \in Row
      BY <1>b, RowShapes
    <2>2. /\ UNCHANGED <<req, cx, rec, faults>> /\ queued' \subseteq Made /\ At(j, "off")
          /\ Commit(j, table[j], new, FALSE)
      BY <1>7, <1>q DEF Close
    <2> HIDE DEF new
    <2> QED BY <1>b, <1>e, <1>p, <2>1, <2>2
  <1> QED BY <1>1, <1>2, <1>3, <1>4, <1>5, <1>6, <1>7 DEF Execute

\* The loop of recover_interrupted_jobs takes a job of its list.
LEMMA MinBelongs ==
  ASSUME NEW S \in SUBSET Nat, S # {}
  PROVE  Min(S) \in S
PROOF
  <1>1. PICK x \in S : \A y \in S : ~(<<y, x>> \in OpToRel(<, Nat))
    BY NatLessThanWellFounded, WFMin
  <1>2. ASSUME NEW y \in S, y < x
        PROVE  <<y, x>> \in OpToRel(<, Nat)
    <2> DEFINE p == <<y, x>>
    <2>1. p \in Nat \X Nat /\ p[1] = y /\ p[2] = x
      OBVIOUS
    <2>2. p[1] < p[2]
      BY <1>2, <2>1
    <2> HIDE DEF p
    <2>3. p \in OpToRel(<, Nat)
      BY <2>1, <2>2, Zenon DEF OpToRel
    <2> QED BY <2>3 DEF p
  <1>3. \A y \in S : ~(y < x)
    BY <1>1, <1>2, Zenon
  <1>4. \A y \in S : x =< y
    BY <1>3
  <1> QED BY <1>4 DEF Min

\* A user's cancellation, a restart and its recovery keep the shape.
LEMMA ShapeFaults ==
  ASSUME Shape, Faults \/ CancelCommits
  PROVE  Shape'
PROOF
  <1>1. ASSUME NEW j \in Made, UserCancels(j)
        PROVE  Shape'
    <2>1. cx' \in Canceller(Made) /\ faults' \in 0 .. MaxFaults
      BY <1>1, JobRange, BoundsAssumption DEF UserCancels, Canceller, Shape
    <2>2. UNCHANGED <<table, queued, run, req, rec, causes>> /\ Made' = Made
      BY <1>1 DEF UserCancels, Made
    <2> QED BY <2>1, <2>2 DEF Shape
  <1>2. CASE ApiRestarts
    <2> DEFINE over == {"idle", "done", "refused"}
    <2>1. UNCHANGED <<table, queued, run>> /\ Made' = Made
      BY <1>2 DEF ApiRestarts, Made
    <2>2. /\ faults' \in 0 .. MaxFaults /\ cx' \in Canceller(Made) /\ rec' \in Recoverer(Made)
          /\ causes' \subseteq {"overlap", "revived", "given_up"}
      <3>1. [NoRec EXCEPT !.pc = "scan"] \in Recoverer(Made)
        <4>1. NoRec \in Recoverer(Made)
          BY FreshShapes
        <4> QED BY <4>1 DEF Recoverer
      <3> QED BY <1>2, <3>1, FreshShapes, BoundsAssumption DEF ApiRestarts, Shape
    <2>3. [IdleReq EXCEPT !.pc = "refused"] \in Session(Made)
      <3>1. IdleReq \in Session(Made)
        BY FreshShapes
      <3> QED BY <3>1 DEF Session, ReqPc
    <2>4. req' = [r \in Requests |-> IF req[r].pc \in over THEN req[r]
                                     ELSE [IdleReq EXCEPT !.pc = "refused"]]
      BY <1>2 DEF ApiRestarts
    <2>5. req' \in [Requests -> Session(Made)]
      BY <2>3, <2>4 DEF Shape
    <2>6. \A r \in Requests : req'[r].job # 0 <=> req'[r].pc = "dispatch"
      <3> SUFFICES ASSUME NEW r \in Requests PROVE req'[r].job # 0 <=> req'[r].pc = "dispatch"
        OBVIOUS
      <3>1. CASE req[r].pc \in over
        BY <2>4, <3>1 DEF Shape
      <3>2. CASE req[r].pc \notin over
        BY <2>4, <3>2 DEF IdleReq
      <3> QED BY <3>1, <3>2
    <2> QED BY <2>1, <2>2, <2>5, <2>6 DEF Shape
  <1>3. CASE CancelCommits
    <2>1. cx.job \in Made /\ cx.snap \in Row /\ Settle(cx.snap, "cancelled") \in Row
      BY <1>3, RowShapes, RowColumns DEF CancelCommits, Shape, Canceller
    <2>2. /\ table' \in Seq(Row) /\ Len(table') = Len(table) /\ Made' = Made
          /\ causes' \subseteq {"overlap", "revived", "given_up"}
      BY <1>3, <2>1, CommitShape DEF CancelCommits
    <2>3. cx' \in Canceller(Made) /\ UNCHANGED <<queued, run, req, rec, faults>>
      BY <1>3, FreshShapes DEF CancelCommits
    <2> QED BY <2>2, <2>3 DEF Shape
  <1> QED BY <1>1, <1>2, <1>3 DEF Faults

LEMMA ShapeRecovery ==
  ASSUME Shape, Recovery
  PROVE  Shape'
PROOF
  <1>a. /\ rec \in Recoverer(Made) /\ rec.held \in Kept(Made, Row)
        /\ rec.had \in Kept(Made, Payload) /\ rec.todo \in SUBSET Made
    BY DEF Shape, Recoverer
  <1>1. CASE RecoverScans
    <2> DEFINE live == {j \in Made : IsActive(table[j])}
    <2>1. [j \in live |-> table[j]] \in Kept(Made, Row) /\ live \in SUBSET Made
      <3>1. [j \in live |-> table[j]] \in [live -> Row] /\ live \in SUBSET Made
        BY JobRange
      <3> QED BY <3>1 DEF Kept
    <2>2. rec' = [pc |-> "loop", held |-> [j \in live |-> table[j]], todo |-> live,
                  had |-> Nothing]
      BY <1>1 DEF RecoverScans
    <2>3. rec' \in Recoverer(Made)
      BY <2>1, <2>2, KeptForms DEF Recoverer
    <2>4. UNCHANGED <<table, queued, run, req, cx, faults, causes>> /\ Made' = Made
      BY <1>1 DEF RecoverScans, Made
    <2> QED BY <2>3, <2>4 DEF Shape
  <1>2. CASE RecoverOne
    <2> DEFINE j     == Min(rec.todo)
               old   == Seen(rec.held, j)
               reset == old.status = "running" /\ ~IsAwaiting(old)
               had   == (IF old.pay.lease # "none" THEN {j} ELSE {})
                        \cup (IF reset THEN {} ELSE DOMAIN rec.had)
               rows  == [Released EXCEPT ![j] = Flush(@, old, SetStatus(old, "pending"), FALSE)]
               next  == [rec EXCEPT !.todo = @ \ {j},
                           !.held = IF reset THEN Only(j, rows[j]) ELSE @,
                           !.had  = [i \in had |-> IF i = j THEN old.pay ELSE @[i]]]
    <2>1. j \in Made /\ old \in Row /\ old.pay \in Payload
      BY <1>2, <1>a, JobRange, MinBelongs, SessionRows, RowColumns DEF RecoverOne
    <2>2. /\ UNCHANGED <<run, req, cx, faults>>
          /\ \/ rec' = [rec EXCEPT !.todo = @ \ {j}] /\ UNCHANGED <<table, queued, causes>>
             \/ /\ queued' = queued \cup {j}
                /\ IF reset THEN Write(rows) ELSE UNCHANGED <<table, causes>>
                /\ rec' = next
      BY <1>2 DEF RecoverOne
    <2> HIDE DEF j
    <2>3. rows \in [Made -> Row]
      BY <2>1, SessionRows, RowShapes, RowColumns
    <2>4. [rec EXCEPT !.todo = @ \ {j}] \in Recoverer(Made)
      BY <1>a DEF Recoverer
    <2>5. [i \in had |-> IF i = j THEN old.pay ELSE rec.had[i]] \in Kept(Made, Payload)
      <3>1. had \in SUBSET Made
        BY <1>a, <2>1, KeptForms
      <3>2. ASSUME NEW i \in had
            PROVE  (IF i = j THEN old.pay ELSE rec.had[i]) \in Payload
        <4>1. CASE i = j
          BY <2>1, <4>1
        <4>2. CASE i # j
          BY <1>a, <4>2, KeptForms
        <4> QED BY <4>1, <4>2
      <3> HIDE DEF had, old
      <3>3. [i \in had |-> IF i = j THEN old.pay ELSE rec.had[i]] \in [had -> Payload]
        BY <3>2
      <3> QED BY <3>1, <3>3 DEF Kept
    <2> HIDE DEF rows, old, had
    <2>6. next \in Recoverer(Made)
      <3>1. Only(j, rows[j]) \in Kept(Made, Row)
        BY <2>1, <2>3, KeptForms
      <3> QED BY <1>a, <2>5, <3>1 DEF Recoverer
    <2> HIDE DEF next, reset
    <2>7. queued' \subseteq Made /\ rec' \in Recoverer(Made)
      BY <2>1, <2>2, <2>4, <2>6 DEF Shape
    <2>8. /\ table' \in Seq(Row) /\ Len(table') = Len(table) /\ Made' = Made
          /\ causes' \subseteq {"overlap", "revived", "given_up"}
      <3>1. CASE Write(rows)
        BY <2>3, <3>1, WriteShape
      <3>2. CASE UNCHANGED <<table, causes>>
        BY <3>2 DEF Shape, Made
      <3> QED BY <2>2, <3>1, <3>2
    <2> QED BY <2>2, <2>7, <2>8 DEF Shape
  <1>3. CASE RecoverEnds
    <2> DEFINE rows == [j \in Made |-> IF ~IsActive(table[j]) /\ IsAwaiting(Edited(j))
                                       THEN Settle(table[j], table[j].status)
                                       ELSE Released[j]]
    <2>1. rows \in [Made -> Row]
      BY SessionRows, JobRange, RowShapes, RowColumns
    <2>2. Write(rows) /\ rec' \in Recoverer(Made) /\ UNCHANGED <<queued, run, req, cx, faults>>
      BY <1>3, FreshShapes DEF RecoverEnds
    <2> HIDE DEF rows
    <2>3. /\ table' \in Seq(Row) /\ Len(table') = Len(table) /\ Made' = Made
          /\ causes' \subseteq {"overlap", "revived", "given_up"}
      BY <2>1, <2>2, WriteShape
    <2> QED BY <2>2, <2>3 DEF Shape
  <1> QED BY <1>1, <1>2, <1>3 DEF Recovery

LEMMA ShapeStep == Shape /\ [Next]_vars => Shape'
PROOF
  <1> SUFFICES ASSUME Shape, [Next]_vars PROVE Shape'
    OBVIOUS
  <1>1. CASE UNCHANGED vars
    BY <1>1 DEF vars, Shape, Made
  <1> QED
    BY <1>1, ShapeRequest, ShapeExecute, ShapeFaults, ShapeRecovery DEF Next

LEMMA ShapeTypes == Shape => TypeOK
PROOF
  <1> SUFFICES ASSUME Shape PROVE TypeOK
    OBVIOUS
  <1>1. ASSUME NEW j \in Jobs
        PROVE  /\ run[j].pc \in {"off", "begin", "start", "work", "settle", "defer", "close"}
               /\ run[j].snap \in Row
               /\ j \notin Made => run[j] = IdleRun
    BY DEF Shape, Executor, RunPc
  <1>2. ASSUME NEW r \in Requests
        PROVE  /\ req[r].pc \in {"idle", "select", "cancel", "create", "dispatch", "done",
                                 "refused"}
               /\ req[r].kind \in Kinds \cup {"none"}
               /\ DOMAIN req[r].held \subseteq Made /\ Range(req[r].held) \subseteq Row
               /\ req[r].todo \cup req[r].dirty \cup req[r].known \subseteq Made
               /\ req[r].job \in {0} \cup Made
               /\ req[r].job # 0 <=> req[r].pc = "dispatch"
    <2>1. req[r] \in Session(Made)
      BY DEF Shape
    <2>2. DOMAIN req[r].held \subseteq Made /\ Range(req[r].held) \subseteq Row
      BY <2>1, KeptForms DEF Session, Range
    <2> QED BY <2>1, <2>2 DEF Session, ReqPc, Shape
  <1>3. /\ cx.job \in {0} \cup Made /\ cx.snap \in Row
        /\ rec.pc \in {"off", "scan", "loop"} /\ rec.todo \subseteq Made
    BY DEF Shape, Canceller, Recoverer
  <1> QED BY <1>1, <1>2, <1>3 DEF Shape, TypeOK

LEMMA ShapeHolds == Spec => []Shape
PROOF
  BY ShapeInit, ShapeStep, PTL DEF Spec

\* The variables keep their types, every session holds rows of the version
\* only, and a request that answers has a job to answer with
\* (document_index_coordinator, knowledge_service).
THEOREM Shaped == Spec => []TypeOK
PROOF
  BY ShapeHolds, ShapeTypes, PTL

-----------------------------------------------------------------------------
(* One active job. *)

\* Every step is a commit, the creation of a job, or leaves the rows alone.
LEMMA StepWrites ==
  ASSUME Shape, [Next]_vars
  PROVE  \/ UNCHANGED table /\ causes' \in {causes, causes \cup {"given_up"}}
         \/ \E rows \in [Made -> Row] : Write(rows)
         \/ \E r \in Requests : Create(r)
PROOF
  <1>1. ASSUME NEW r \in Requests, CancelOne(r)
        PROVE  \/ UNCHANGED <<table, causes>>
               \/ \E rows \in [Made -> Row] : Write(rows)
    <2>1. PICK j \in req[r].todo :
            LET old == Seen(req[r].held, j)
            IN  IF Cancels(old)
                THEN Write([Cleared(req[r].dirty) EXCEPT
                              ![j] = Flush(@, old, Settle(old, "cancelled"), FALSE)])
                ELSE UNCHANGED <<table, causes>>
      BY <1>1 DEF CancelOne
    <2> DEFINE old == Seen(req[r].held, j)
    <2>2. j \in Made /\ old \in Row
      BY SessionRows DEF Shape, Session
    <2>3. [Cleared(req[r].dirty) EXCEPT
             ![j] = Flush(@, old, Settle(old, "cancelled"), FALSE)] \in [Made -> Row]
      BY <2>2, SessionRows, RowShapes, RowColumns
    <2> HIDE DEF old
    <2> QED BY <2>1, <2>3 DEF old
  <1>2. ASSUME NEW r \in Requests, Request(r), ~CancelOne(r), ~Create(r)
        PROVE  UNCHANGED table /\ causes' \in {causes, causes \cup {"given_up"}}
    BY <1>2 DEF Request, Find, Select, Blocked, Answer
  <1>3. ASSUME NEW j \in Made, NEW old \in Row, NEW new \in Row, NEW t \in BOOLEAN,
               Commit(j, old, new, t)
        PROVE  \E rows \in [Made -> Row] : Write(rows)
    <2>1. [table EXCEPT ![j] = Flush(table[j], old, new, t)] \in [Made -> Row]
      BY JobRange, RowShapes
    <2> QED BY <1>3, <2>1 DEF Commit
  <1>4. ASSUME NEW j \in Made, Execute(j)
        PROVE  UNCHANGED <<table, causes>> \/ \E rows \in [Made -> Row] : Write(rows)
    <2>1. run[j].snap \in Row /\ run[j].snap.pay \in Payload
      BY JobRange, RowColumns DEF Shape, Executor
    <2>2. table[j] \in Row /\ table[j].pay \in Payload
      BY JobRange, RowColumns
    <2>3. CASE UNCHANGED <<table, causes>>
      BY <2>3
    <2>4. CASE Commit(j, run[j].snap, [run[j].snap EXCEPT !.pay = TakeLease(@)], TRUE)
      <3>1. [run[j].snap EXCEPT !.pay = TakeLease(@)] \in Row
        BY <2>1, RowShapes
      <3> QED BY <1>3, <2>1, <2>4, <3>1
    <2>5. CASE Commit(j, run[j].snap, SetStatus(run[j].snap, "running"), FALSE)
      <3>1. SetStatus(run[j].snap, "running") \in Row
        BY <2>1, RowShapes, RowColumns
      <3> QED BY <1>3, <2>1, <2>5, <3>1
    <2>6. CASE Commit(j, run[j].snap, Settle(run[j].snap, "done"), FALSE)
      <3>1. Settle(run[j].snap, "done") \in Row
        BY <2>1, RowShapes, RowColumns
      <3> QED BY <1>3, <2>1, <2>6, <3>1
    <2>7. CASE Commit(j, run[j].snap,
                 SetStatus([run[j].snap EXCEPT !.pay = EnterAwaiting(@, "fresh")], "running"),
                 TRUE)
      <3> DEFINE met == [run[j].snap EXCEPT !.pay = EnterAwaiting(@, "fresh")]
      <3>1. met \in Row
        BY <2>1, RowShapes
      <3> HIDE DEF met
      <3>2. SetStatus(met, "running") \in Row
        BY <3>1, RowShapes, RowColumns
      <3> QED BY <1>3, <2>1, <2>7, <3>2 DEF met
    <2>8. CASE Commit(j, table[j], [table[j] EXCEPT !.pay = DropLease(@)], FALSE)
      <3>1. [table[j] EXCEPT !.pay = DropLease(@)] \in Row
        BY <2>2, RowShapes
      <3> QED BY <1>3, <2>2, <2>8, <3>1
    <2> QED
      BY <1>4, <2>3, <2>4, <2>5, <2>6, <2>7, <2>8
      DEF Execute, Pickup, Begin, Start, Work, Claim, Defer, Close
  <1>5. ASSUME Faults
        PROVE  UNCHANGED table /\ causes' \in {causes, causes \cup {"given_up"}}
    BY <1>5 DEF Faults, UserCancels, ApiRestarts
  <1>6. ASSUME CancelCommits
        PROVE  \E rows \in [Made -> Row] : Write(rows)
    <2>1. cx.job \in Made /\ cx.snap \in Row /\ Settle(cx.snap, "cancelled") \in Row
      BY <1>6, RowShapes, RowColumns DEF CancelCommits, Shape, Canceller
    <2> QED BY <1>3, <1>6, <2>1 DEF CancelCommits
  <1>7. ASSUME Recovery
        PROVE  UNCHANGED <<table, causes>> \/ \E rows \in [Made -> Row] : Write(rows)
    <2>1. CASE RecoverScans
      BY <2>1 DEF RecoverScans
    <2>2. CASE RecoverOne
      <3> DEFINE j    == Min(rec.todo)
                 old  == Seen(rec.held, j)
                 rows == [Released EXCEPT ![j] = Flush(@, old, SetStatus(old, "pending"), FALSE)]
      <3>1. rec.todo \in SUBSET Made
        BY DEF Shape, Recoverer
      <3>2. j \in Made /\ old \in Row
        BY <2>2, <3>1, JobRange, MinBelongs, SessionRows DEF RecoverOne
      <3>3. UNCHANGED <<table, causes>> \/ Write(rows)
        BY <2>2 DEF RecoverOne
      <3> HIDE DEF j
      <3>4. rows \in [Made -> Row]
        BY <3>2, SessionRows, RowShapes, RowColumns
      <3> HIDE DEF rows
      <3> QED BY <3>3, <3>4
    <2>3. CASE RecoverEnds
      <3> DEFINE rows == [j \in Made |-> IF ~IsActive(table[j]) /\ IsAwaiting(Edited(j))
                                         THEN Settle(table[j], table[j].status)
                                         ELSE Released[j]]
      <3>1. rows \in [Made -> Row]
        BY SessionRows, JobRange, RowShapes, RowColumns
      <3>2. Write(rows)
        BY <2>3 DEF RecoverEnds
      <3> HIDE DEF rows
      <3> QED BY <3>1, <3>2
    <2> QED BY <1>7, <2>1, <2>2, <2>3 DEF Recovery
  <1>8. CASE UNCHANGED vars
    BY <1>8 DEF vars
  <1> QED BY <1>1, <1>2, <1>4, <1>5, <1>6, <1>7, <1>8 DEF Next, Request

\* Create appends one row, and settles no other.
LEMMA CreateRows ==
  ASSUME Shape, NEW r \in Requests, Create(r)
  PROVE  /\ Made' = Made \cup {Len(table')} /\ Len(table') \notin Made
         /\ table'[Len(table')] = New
         /\ \A j \in Made : /\ table'[j] = Cleared(req[r].dirty)[j]
                            /\ table'[j].status = table[j].status
PROOF
  <1>1. table' = Append(Cleared(req[r].dirty), New)
    BY DEF Create
  <1>2. /\ Cleared(req[r].dirty) \in Seq(Row) /\ Len(Cleared(req[r].dirty)) = Len(table)
        /\ Cleared(req[r].dirty) \in [Made -> Row]
    BY SessionRows, JobRange, RowsAreASequence
  <1>3. Len(table') = Len(table) + 1 /\ Made' = 1 .. Len(table) + 1 /\ Made = 1 .. Len(table)
    BY <1>1, <1>2, RowShapes, JobRange DEF Made
  <1>4. /\ table'[Len(table')] = New
        /\ \A j \in Made : table'[j] = Cleared(req[r].dirty)[j]
    BY <1>1, <1>2, <1>3, RowShapes
  <1>5. \A j \in Made : Cleared(req[r].dirty)[j].status = table[j].status
    BY DEF Cleared, Settle
  <1>6. Len(table) \in Nat
    BY DEF Shape
  <1> QED BY <1>3, <1>4, <1>5, <1>6

\* A settled job stays settled, as long as no step is on record as the cause
\* of a second active job.
LEMMA SettledStays ==
  ASSUME Shape, [Next]_vars, causes' \cap {"overlap", "revived"} = {}
  PROVE  /\ causes \cap {"overlap", "revived"} = {} /\ Made \subseteq Made'
         /\ \A j \in Made : ~IsActive(table[j]) => ~IsActive(table'[j])
PROOF
  <1>1. CASE UNCHANGED table /\ causes' \in {causes, causes \cup {"given_up"}}
    BY <1>1 DEF Made
  <1>2. ASSUME NEW rows \in [Made -> Row], Write(rows)
        PROVE  /\ causes \cap {"overlap", "revived"} = {} /\ Made \subseteq Made'
               /\ \A j \in Made : ~IsActive(table[j]) => ~IsActive(table'[j])
    BY <1>2, WriteShape DEF Write
  <1>3. ASSUME NEW r \in Requests, Create(r)
        PROVE  /\ causes \cap {"overlap", "revived"} = {} /\ Made \subseteq Made'
               /\ \A j \in Made : ~IsActive(table[j]) => ~IsActive(table'[j])
    <2>1. causes \cap {"overlap", "revived"} = {}
      BY <1>3 DEF Create
    <2> QED BY <1>3, <2>1, CreateRows DEF IsActive
  <1> QED BY <1>1, <1>2, <1>3, StepWrites

LEMMA OnlyInit == Init => OnlyInv
PROOF
  <1> SUFFICES ASSUME Init PROVE OnlyInv
    OBVIOUS
  <1>1. Made = {1}
    BY DEF Init, Made
  <1>2. \A r \in Requests : LooksThrough(r) /\ HoldsSettled(r)
    BY KeptForms DEF Init, IdleReq, LooksThrough, HoldsSettled
  <1> QED BY <1>1, <1>2 DEF OnlyInv

LEMMA OnlyStep == Shape /\ OnlyInv /\ [Next]_vars => OnlyInv'
PROOF
  <1> SUFFICES ASSUME Shape, OnlyInv, [Next]_vars,
                      causes' \cap {"overlap", "revived"} = {}
               PROVE  /\ \A i, j \in Made' : IsActive(table'[i]) /\ IsActive(table'[j]) => i = j
                      /\ \A r \in Requests : LooksThrough(r)' /\ HoldsSettled(r)'
    BY DEF OnlyInv
  <1>s. /\ causes \cap {"overlap", "revived"} = {} /\ Made \subseteq Made'
        /\ \A j \in Made : ~IsActive(table[j]) => ~IsActive(table'[j])
    BY SettledStays
  <1>h. /\ \A i, j \in Made : IsActive(table[i]) /\ IsActive(table[j]) => i = j
        /\ \A r \in Requests : LooksThrough(r) /\ HoldsSettled(r)
    BY <1>s DEF OnlyInv
  <1>t. \A r \in Requests : /\ req[r] \in Session(Made) /\ req[r].known \subseteq Made
                            /\ req[r].held \in Kept(Made, Row)
                            /\ DOMAIN req[r].held \subseteq Made
    BY KeptForms DEF Shape, Session
  <1>k. ASSUME NEW r \in Requests, req'[r] = req[r]
        PROVE  LooksThrough(r)' /\ HoldsSettled(r)'
    BY <1>k, <1>s, <1>h, <1>t DEF LooksThrough, HoldsSettled
  <1>i. ASSUME NEW r \in Requests, req'[r].pc \notin {"create", "cancel"},
               \A j \in DOMAIN req'[r].held : j \in Made /\ req'[r].held[j] = table[j]
        PROVE  LooksThrough(r)' /\ HoldsSettled(r)'
    BY <1>i, <1>s DEF LooksThrough, HoldsSettled
  <1>o. ASSUME NEW r \in Requests, NEW q, Others(r, q)
        PROVE  /\ req'[r] = q
               /\ \A o \in Requests : o # r => req'[o] = req[o]
    BY <1>o DEF Others, Shape
  <1>1. \A i, j \in Made' : IsActive(table'[i]) /\ IsActive(table'[j]) => i = j
    <2>1. CASE Made' = Made
      BY <2>1, <1>s, <1>h
    <2>2. ASSUME NEW r \in Requests, Create(r)
          PROVE  \A i, j \in Made' : IsActive(table'[i]) /\ IsActive(table'[j]) => i = j
      <3>1. \A j \in Made \ req[r].known : ~IsActive(table[j])
        BY <2>2 DEF Create
      <3>2. \A j \in req[r].known : ~IsActive(table[j])
        BY <2>2, <1>h DEF LooksThrough, Create
      <3>3. \A j \in Made : ~IsActive(table'[j])
        BY <3>1, <3>2, <1>s
      <3> QED BY <2>2, <3>3, CreateRows
    <2>3. CASE \E rows \in [Made -> Row] : Write(rows)
      BY <2>1, <2>3, WriteShape
    <2>4. CASE UNCHANGED table
      BY <2>1, <2>4 DEF Made
    <2> QED BY <2>2, <2>3, <2>4, StepWrites
  <1>2. ASSUME NEW r \in Requests, Request(r), NEW o \in Requests
        PROVE  LooksThrough(o)' /\ HoldsSettled(o)'
    <2>0. CASE o # r
      <3>1. \E q : Others(r, q)
        BY <1>2 DEF Request, Find, Select, CancelOne, Create, Blocked, Answer
      <3> QED BY <2>0, <3>1, <1>o, <1>k
    <2> SUFFICES ASSUME o = r
                 PROVE  LooksThrough(r)' /\ HoldsSettled(r)'
      BY <2>0
    <2>1. CASE Find(r)
      <3>1. PICK kind \in Kinds \ {"reindex"} :
              LET live == {j \in Made : Offered(table[j])}
                  q    == [req[r] EXCEPT !.kind = kind, !.held = table, !.known = Made]
              IN  \/ live = {} /\ Others(r, [q EXCEPT !.pc = "create", !.held = Nothing])
                  \/ live # {} /\ kind = "force" /\ Others(r, [q EXCEPT !.pc = "select"])
                  \/ /\ kind = "reuse"
                     /\ \E j \in live :
                          Others(r, [IdleReq EXCEPT !.pc = "dispatch", !.job = j,
                                                    !.held = Only(j, table[j])])
        BY <2>1 DEF Find
      <3> DEFINE q == [req[r] EXCEPT !.kind = kind, !.held = table, !.known = Made]
      <3>2. CASE /\ {j \in Made : Offered(table[j])} = {}
                 /\ Others(r, [q EXCEPT !.pc = "create", !.held = Nothing])
        <4>1. /\ req'[r].pc = "create" /\ req'[r].known = Made /\ req'[r].held = Nothing
          <5>1. req'[r] = [q EXCEPT !.pc = "create", !.held = Nothing]
            BY <3>2, <1>o
          <5> QED BY <5>1, <1>t DEF Session
        <4>2. \A j \in Made : ~IsActive(table[j])
          BY <3>2 DEF Offered
        <4> QED BY <4>1, <4>2, <1>s, KeptForms DEF LooksThrough, HoldsSettled
      <3>3. CASE Others(r, [q EXCEPT !.pc = "select"])
        <4>1. req'[r].pc = "select" /\ req'[r].held = table
          <5>1. req'[r] = [q EXCEPT !.pc = "select"]
            BY <3>3, <1>o
          <5> QED BY <5>1, <1>t DEF Session
        <4> QED BY <4>1, <1>i DEF Made
      <3>4. ASSUME NEW j \in Made,
                   Others(r, [IdleReq EXCEPT !.pc = "dispatch", !.job = j,
                                             !.held = Only(j, table[j])])
            PROVE  LooksThrough(r)' /\ HoldsSettled(r)'
        <4>1. req'[r].pc = "dispatch" /\ req'[r].held = Only(j, table[j])
          <5>1. req'[r] = [IdleReq EXCEPT !.pc = "dispatch", !.job = j,
                                          !.held = Only(j, table[j])]
            BY <3>4, <1>o
          <5> QED BY <5>1 DEF IdleReq
        <4> QED BY <4>1, <1>i DEF Only
      <3> QED BY <3>1, <3>2, <3>3, <3>4
    <2>2. CASE Select(r)
      <3>1. PICK kind \in Kinds :
              Others(r, [req[r] EXCEPT !.pc = "cancel", !.kind = kind, !.todo = Made,
                            !.known = Made, !.held = [j \in Made |-> Seen(req[r].held, j)]])
        BY <2>2 DEF Select
      <3>2. /\ req'[r].pc = "cancel" /\ req'[r].todo = Made /\ req'[r].known = Made
            /\ req'[r].held = [j \in Made |-> Seen(req[r].held, j)]
        <4>1. req'[r] = [req[r] EXCEPT !.pc = "cancel", !.kind = kind, !.todo = Made,
                            !.known = Made, !.held = [j \in Made |-> Seen(req[r].held, j)]]
          BY <3>1, <1>o
        <4> QED BY <4>1, <1>t DEF Session
      <3>3. \A j \in Made : ~IsActive(Seen(req[r].held, j)) => ~IsActive(table[j])
        BY <1>h DEF Seen, HoldsSettled
      <3> QED BY <3>2, <3>3, <1>s DEF LooksThrough, HoldsSettled
    <2>3. CASE CancelOne(r)
      <3>1. PICK j \in req[r].todo :
              LET old == Seen(req[r].held, j)
                  q   == [req[r] EXCEPT !.todo = @ \ {j},
                                        !.held = Restrict(@, DOMAIN @ \ {j}),
                                        !.pc   = IF req[r].todo = {j} THEN "create" ELSE @]
              IN  IF Cancels(old)
                  THEN /\ Write([Cleared(req[r].dirty) EXCEPT
                                   ![j] = Flush(@, old, Settle(old, "cancelled"), FALSE)])
                       /\ Others(r, [q EXCEPT !.held = Nothing, !.dirty = {}])
                  ELSE /\ Others(r, [q EXCEPT !.dirty =
                                       IF old.pay = EmptyPayload THEN @ ELSE @ \cup {j}])
                       /\ UNCHANGED <<table, causes>>
        BY <2>3 DEF CancelOne
      <3> DEFINE old == Seen(req[r].held, j)
                 q   == [req[r] EXCEPT !.todo = @ \ {j},
                                       !.held = Restrict(@, DOMAIN @ \ {j}),
                                       !.pc   = IF req[r].todo = {j} THEN "create" ELSE @]
      <3>2. j \in Made /\ req[r].pc = "cancel"
        BY <2>3, <1>t DEF CancelOne, Session
      <3>3. /\ req'[r].known = req[r].known /\ req'[r].todo = req[r].todo \ {j}
            /\ req'[r].pc = (IF req[r].todo = {j} THEN "create" ELSE "cancel")
            /\ \A i \in DOMAIN req'[r].held : /\ i \in DOMAIN req[r].held
                                              /\ req'[r].held[i] = req[r].held[i]
        <4> DEFINE q1 == [q EXCEPT !.held = Nothing, !.dirty = {}]
                   q2 == [q EXCEPT !.dirty = IF old.pay = EmptyPayload THEN @ ELSE @ \cup {j}]
        <4>1. req'[r] = q1 \/ req'[r] = q2
          BY <3>1, <1>o
        <4>2. /\ q1.known = req[r].known /\ q1.todo = req[r].todo \ {j}
              /\ q1.pc = (IF req[r].todo = {j} THEN "create" ELSE "cancel")
              /\ DOMAIN q1.held = {}
          BY <3>2, <1>t, KeptForms DEF Session
        <4>3. /\ q2.known = req[r].known /\ q2.todo = req[r].todo \ {j}
              /\ q2.pc = (IF req[r].todo = {j} THEN "create" ELSE "cancel")
              /\ q2.held = Restrict(req[r].held, DOMAIN req[r].held \ {j})
          BY <3>2, <1>t DEF Session
        <4>4. \A i \in DOMAIN q2.held : /\ i \in DOMAIN req[r].held
                                        /\ q2.held[i] = req[r].held[i]
          BY <4>3 DEF Restrict
        <4> HIDE DEF q1, q2
        <4> QED BY <4>1, <4>2, <4>3, <4>4
      <3>4. ~IsActive(table'[j])
        <4>1. CASE Cancels(old)
          <5>1. table' = [Cleared(req[r].dirty) EXCEPT
                            ![j] = Flush(@, old, Settle(old, "cancelled"), FALSE)]
            BY <3>1, <4>1 DEF Write
          <5>2. table'[j] = Flush(Cleared(req[r].dirty)[j], old, Settle(old, "cancelled"), FALSE)
            BY <3>2, <5>1 DEF Cleared
          <5> HIDE DEF old
          <5> QED BY <4>1, <5>2 DEF Flush, Settle, Cancels, IsActive, Active
        <4>2. CASE ~Cancels(old)
          <5>1. ~IsActive(table[j])
            BY <4>2, <3>2, <1>h DEF Cancels, Seen, HoldsSettled
          <5> QED BY <5>1, <3>2, <1>s
        <4> QED BY <4>1, <4>2
      <3>5. LooksThrough(r)'
        BY <3>2, <3>3, <3>4, <1>s, <1>h, <1>t DEF LooksThrough
      <3>6. HoldsSettled(r)'
        BY <3>3, <1>s, <1>h, <1>t DEF HoldsSettled
      <3> QED BY <3>5, <3>6
    <2>4. CASE Create(r) \/ Blocked(r) \/ Answer(r)
      <3>1. \/ req'[r] = [IdleReq EXCEPT !.pc = "dispatch", !.job = Len(table')]
            \/ req'[r] = [IdleReq EXCEPT !.pc = "refused"]
            \/ req'[r] = [IdleReq EXCEPT !.pc = "done"]
        BY <2>4, <1>o DEF Create, Blocked, Answer
      <3>2. req'[r].pc \notin {"create", "cancel"} /\ req'[r].held = Nothing
        BY <3>1 DEF IdleReq
      <3> QED BY <3>2, <1>i, KeptForms
    <2> QED BY <1>2, <2>1, <2>2, <2>3, <2>4 DEF Request
  <1>3. CASE ApiRestarts
    <2> SUFFICES ASSUME NEW o \in Requests PROVE LooksThrough(o)' /\ HoldsSettled(o)'
      BY <1>1
    <2>1. req'[o] = req[o] \/ req'[o] = [IdleReq EXCEPT !.pc = "refused"]
      BY <1>3 DEF ApiRestarts
    <2>2. CASE req'[o] = [IdleReq EXCEPT !.pc = "refused"]
      <3>1. req'[o].pc = "refused" /\ req'[o].held = Nothing
        BY <2>2 DEF IdleReq
      <3> QED BY <3>1, <1>i, KeptForms
    <2> QED BY <2>1, <2>2, <1>k
  <1>4. CASE UNCHANGED req
    BY <1>4, <1>1, <1>k
  <1>5. \/ \E r \in Requests : Request(r)
        \/ ApiRestarts
        \/ UNCHANGED req
    BY DEF Next, vars, Execute, Pickup, Begin, Start, Work, Claim, Defer, Close, Faults,
           UserCancels, CancelCommits, Recovery, RecoverScans, RecoverOne, RecoverEnds
  <1> QED BY <1>1, <1>2, <1>3, <1>4, <1>5

LEMMA OnlyOneActive == Shape /\ OnlyInv => OneActive
PROOF
  <1> SUFFICES ASSUME Shape, OnlyInv, causes \cap {"overlap", "revived"} = {}
               PROVE  Cardinality(ActiveJobs) <= 1
    BY DEF OneActive
  <1>1. CASE ActiveJobs = {}
    BY <1>1, FS_EmptySet
  <1>2. ASSUME NEW j \in ActiveJobs
        PROVE  Cardinality(ActiveJobs) <= 1
    <2>1. ActiveJobs = {j}
      BY <1>2 DEF OnlyInv, ActiveJobs
    <2>2. Cardinality({j}) = 1
      BY FS_Singleton
    <2>3. Cardinality(ActiveJobs) = 1
      BY <2>1, <2>2, Zenon
    <2> QED BY <2>3
  <1> QED BY <1>1, <1>2

\* One job of a version is active at a time, unless two requests both looked
\* before either created, or a session wrote back a status it had read before
\* (find_active_document_index_job, _cancel_active_document_index_jobs).
THEOREM OneIsActive == Spec => []OneActive
PROOF
  <1>1. Spec => []OnlyInv
    BY ShapeHolds, OnlyInit, OnlyStep, PTL DEF Spec
  <1> QED BY <1>1, ShapeHolds, OnlyOneActive, PTL

-----------------------------------------------------------------------------
(* The last word of the requests. *)

\* No executor cancels a job.
LEMMA ExecutorsDoNotCancel ==
  ASSUME Shape, NEW j \in Made, Execute(j), NEW i \in Made
  PROVE  /\ UNCHANGED <<req, cx, rec, faults>> /\ causes' \in {causes, causes \cup {"revived"}}
         /\ Len(table') = Len(table)
         /\ table'[i].status = "cancelled" => table[i].status = "cancelled"
PROOF
  <1>1. run[j].snap \in Row /\ run[j].snap.pay \in Payload
    BY JobRange, RowColumns DEF Shape, Executor
  <1>2. table[j] \in Row /\ table[j].pay \in Payload /\ table \in [Made -> Row]
    BY JobRange, RowColumns
  <1>3. UNCHANGED <<req, cx, rec, faults>>
    BY DEF Execute, Pickup, Begin, Start, Work, Claim, Defer, Close
  <1>4. ASSUME NEW old, NEW new, NEW t, Commit(j, old, new, t),
               new.status \in {old.status, "running", "done"}
        PROVE  /\ causes' \in {causes, causes \cup {"revived"}} /\ Len(table') = Len(table)
               /\ table'[i].status = "cancelled" => table[i].status = "cancelled"
    <2>1. /\ table' = [table EXCEPT ![j] = Flush(table[j], old, new, t)]
          /\ causes' \in {causes, causes \cup {"revived"}}
      BY <1>4 DEF Commit, Write
    <2>2. Flush(table[j], old, new, t).status \in {table[j].status, "running", "done"}
      BY <1>4 DEF Flush
    <2>3. table'[i].status = "cancelled" => table[i].status = "cancelled"
      BY <1>2, <2>1, <2>2
    <2>4. Len(table') = Len(table)
      BY <2>1 DEF Shape
    <2> QED BY <2>1, <2>3, <2>4
  <1>5. CASE UNCHANGED <<table, causes>>
    BY <1>3, <1>5
  <1>6. CASE Commit(j, run[j].snap, [run[j].snap EXCEPT !.pay = TakeLease(@)], TRUE)
    <2>1. [run[j].snap EXCEPT !.pay = TakeLease(@)].status = run[j].snap.status
      BY <1>1 DEF Row
    <2> QED BY <1>3, <1>4, <1>6, <2>1
  <1>7. CASE Commit(j, run[j].snap, SetStatus(run[j].snap, "running"), FALSE)
    <2>1. SetStatus(run[j].snap, "running").status \in {run[j].snap.status, "running"}
      BY <1>1 DEF Row, SetStatus
    <2> QED BY <1>3, <1>4, <1>7, <2>1
  <1>8. CASE Commit(j, run[j].snap, Settle(run[j].snap, "done"), FALSE)
    <2>1. Settle(run[j].snap, "done").status = "done"
      BY DEF Settle
    <2> QED BY <1>3, <1>4, <1>8, <2>1
  <1>9. CASE Commit(j, run[j].snap,
               SetStatus([run[j].snap EXCEPT !.pay = EnterAwaiting(@, "fresh")], "running"), TRUE)
    <2> DEFINE met == [run[j].snap EXCEPT !.pay = EnterAwaiting(@, "fresh")]
    <2>1. met \in Row /\ met.status = run[j].snap.status
      BY <1>1, RowShapes DEF Row
    <2> HIDE DEF met
    <2>2. SetStatus(met, "running").status \in {run[j].snap.status, "running"}
      BY <2>1 DEF Row, SetStatus
    <2> QED BY <1>3, <1>4, <1>9, <2>2 DEF met
  <1>10. CASE Commit(j, table[j], [table[j] EXCEPT !.pay = DropLease(@)], FALSE)
    <2>1. [table[j] EXCEPT !.pay = DropLease(@)].status = table[j].status
      BY <1>2 DEF Row
    <2> QED BY <1>3, <1>4, <1>10, <2>1
  <1> QED
    BY <1>5, <1>6, <1>7, <1>8, <1>9, <1>10
    DEF Execute, Pickup, Begin, Start, Work, Claim, Defer, Close

LEMMA StandInit == Init => StandInv
PROOF
  BY RowShapes DEF Init, StandInv, NoCx, NoRec, New

LEMMA StandStep == Shape /\ StandInv /\ [Next]_vars => StandInv'
PROOF
  <1> DEFINE Asked == "given_up" \notin causes /\ table[Len(table)].status = "cancelled" =>
                        \E r \in Requests : req[r].pc \in {"cancel", "create"}
  <1> SUFFICES ASSUME Shape, StandInv, [Next]_vars, faults' = 0
               PROVE  cx'.job = 0 /\ rec'.pc = "off" /\ Asked'
    BY DEF StandInv
  <1>0. faults \in Nat /\ Len(table) \in Made
    BY JobRange, BoundsAssumption DEF Shape
  <1>1. CASE UNCHANGED vars
    BY <1>0, <1>1 DEF vars, StandInv
  <1>2. ASSUME Faults
        PROVE  FALSE
    BY <1>0, <1>2 DEF Faults, UserCancels, ApiRestarts
  <1>3. ASSUME CancelCommits \/ Recovery
        PROVE  FALSE
    BY <1>0, <1>3
    DEF CancelCommits, Recovery, RecoverScans, RecoverOne, RecoverEnds, StandInv
  <1>4. ASSUME NEW j \in Made, Execute(j)
        PROVE  cx'.job = 0 /\ rec'.pc = "off" /\ Asked'
    BY <1>0, <1>4, ExecutorsDoNotCancel DEF StandInv
  <1>5. ASSUME NEW r \in Requests, Request(r)
        PROVE  cx'.job = 0 /\ rec'.pc = "off" /\ Asked'
    <2>1. UNCHANGED <<cx, rec, faults>>
      BY <1>5 DEF Request, Find, Select, CancelOne, Create, Blocked, Answer
    <2>2. cx'.job = 0 /\ rec'.pc = "off" /\ Asked
      BY <2>1 DEF StandInv
    <2>3. ASSUME NEW q, Others(r, q)
          PROVE  req'[r] = q /\ \A o \in Requests : o # r => req'[o] = req[o]
      BY <2>3 DEF Others, Shape
    <2>4. CASE CancelOne(r)
      <3>1. req[r] \in Session(Made) /\ req[r].pc = "cancel"
        BY <2>4 DEF Shape, CancelOne
      <3>2. PICK j \in req[r].todo :
              LET old == Seen(req[r].held, j)
                  q   == [req[r] EXCEPT !.todo = @ \ {j},
                                        !.held = Restrict(@, DOMAIN @ \ {j}),
                                        !.pc   = IF req[r].todo = {j} THEN "create" ELSE @]
              IN  \/ Others(r, [q EXCEPT !.held = Nothing, !.dirty = {}])
                  \/ Others(r, [q EXCEPT !.dirty =
                                  IF old.pay = EmptyPayload THEN @ ELSE @ \cup {j}])
        BY <2>4 DEF CancelOne
      <3> DEFINE q == [req[r] EXCEPT !.todo = @ \ {j},
                                     !.held = Restrict(@, DOMAIN @ \ {j}),
                                     !.pc   = IF req[r].todo = {j} THEN "create" ELSE @]
      <3>3. \/ req'[r] = [q EXCEPT !.held = Nothing, !.dirty = {}]
            \/ req'[r] = [q EXCEPT !.dirty =
                 IF Seen(req[r].held, j).pay = EmptyPayload THEN @ ELSE @ \cup {j}]
        BY <2>3, <3>2
      <3>4. req'[r].pc \in {"cancel", "create"}
        BY <3>1, <3>3 DEF Session
      <3> QED BY <2>2, <3>4
    <2>5. CASE Create(r)
      <3>1. table'[Len(table')].status = "pending"
        BY <2>5, CreateRows DEF New
      <3> QED BY <2>2, <3>1
    <2>6. CASE Blocked(r)
      BY <2>2, <2>6 DEF Blocked
    <2>7. CASE Find(r) \/ Select(r) \/ Answer(r)
      <3>1. /\ UNCHANGED <<table, causes>> /\ req[r].pc \notin {"cancel", "create"}
            /\ \E q : Others(r, q)
        BY <2>7 DEF Find, Select, Answer
      <3>2. \A o \in Requests : req[o].pc \in {"cancel", "create"} => req'[o] = req[o]
        BY <2>3, <3>1
      <3> QED BY <2>2, <3>1, <3>2
    <2> QED BY <1>5, <2>4, <2>5, <2>6, <2>7 DEF Request
  <1> QED BY <1>1, <1>2, <1>3, <1>4, <1>5 DEF Next

\* Without users' cancellations and restarts the newest job of a version is
\* cancelled only while a request still has to create one
\* (_cancel_active_document_index_jobs before create_job).
THEOREM LastWordStands == Spec => []NewestStands
PROOF
  <1>1. Spec => []StandInv
    BY ShapeHolds, StandInit, StandStep, PTL DEF Spec
  <1>2. StandInv => NewestStands
    BY DEF StandInv, NewestStands
  <1> QED BY <1>1, <1>2, PTL

-----------------------------------------------------------------------------
(* Jobs put back. *)

LEMMA SeenStep == Shape /\ SeenInv /\ [Next]_vars => SeenInv'
PROOF
  <1> DEFINE Saw(pc, row) == /\ pc = "begin" => IsActive(row)
                             /\ pc = "defer" => row.status # "cancelled"
  <1> SUFFICES ASSUME Shape, SeenInv, [Next]_vars, NEW i \in Jobs
               PROVE  Saw(run'[i].pc, run'[i].snap)
    BY DEF SeenInv
  <1>1. CASE run'[i] = run[i]
    BY <1>1 DEF SeenInv
  <1>2. ASSUME NEW j \in Made, Execute(j)
        PROVE  Saw(run'[i].pc, run'[i].snap)
    <2>1. run \in [Jobs -> Executor] /\ j \in Jobs
      BY JobRange DEF Shape
    <2>2. ASSUME NEW pc \in {"off", "work", "close"}, At(j, pc)
          PROVE  Saw(run'[i].pc, run'[i].snap)
      <3>1. run' = [run EXCEPT ![j] = [IdleRun EXCEPT !.pc = pc]]
        BY <2>2 DEF At
      <3>2. [IdleRun EXCEPT !.pc = pc].pc \notin {"begin", "defer"}
        BY <2>2 DEF IdleRun
      <3> QED BY <1>1, <2>1, <3>1, <3>2
    <2>3. ASSUME NEW pc, NEW row, Load(j, pc, row), Saw(pc, row)
          PROVE  Saw(run'[i].pc, run'[i].snap)
      <3>1. run' = [run EXCEPT ![j] = [pc |-> pc, snap |-> row]]
        BY <2>3 DEF Load
      <3> QED BY <1>1, <2>1, <2>3, <3>1
    <2>4. CASE UNCHANGED run
      BY <1>1, <2>4
    <2>5. \/ At(j, "off") \/ At(j, "work") \/ At(j, "close") \/ UNCHANGED run
          \/ Load(j, "start", table'[j]) \/ Load(j, "settle", table[j])
          \/ Load(j, "defer", table[j]) /\ table[j].status # "cancelled"
          \/ Load(j, "begin", table[j]) /\ IsActive(table[j])
      BY <1>2 DEF Execute, Pickup, Begin, Start, Work, Claim, Defer, Close
    <2> QED BY <2>2, <2>3, <2>4, <2>5
  <1>3. (\E j \in Made : Execute(j)) \/ UNCHANGED run
    BY DEF Next, vars, Request, Find, Select, CancelOne, Create, Blocked, Answer, Faults,
           UserCancels, ApiRestarts, CancelCommits, Recovery, RecoverScans, RecoverOne, RecoverEnds
  <1> QED BY <1>1, <1>2, <1>3

\* A row settled by a session is left awaiting if it awaits what the session
\* did not see.
LEMMA SettleGhost ==
  ASSUME NEW db \in Row, NEW old \in Row, NEW s \in Status,
         Ghost(Flush(db, old, Settle(old, s), FALSE))
  PROVE  IsAwaiting(db) /\ old.pay = EmptyPayload
PROOF
  <1>1. /\ Settle(old, s).pay = EmptyPayload /\ EmptyPayload.phase # "awaiting_parse"
    BY DEF Settle, ClearPhaseFields, EmptyPayload
  <1>2. Flush(db, old, Settle(old, s), FALSE).pay =
          (IF EmptyPayload # old.pay THEN EmptyPayload ELSE db.pay)
    BY <1>1 DEF Flush
  <1> QED BY <1>1, <1>2 DEF Ghost, IsAwaiting

LEMMA GhostStep ==
  Shape /\ SeenInv /\ [Next]_vars =>
    [\A j \in Made : ~Ghost(table[j]) /\ Ghost(table'[j]) => PutBack(j)]_vars
PROOF
  <1> SUFFICES ASSUME Shape, SeenInv, Next, NEW i \in Made, ~Ghost(table[i]), Ghost(table'[i])
               PROVE  PutBack(i)
    OBVIOUS
  <1>r. table \in [Made -> Row] /\ table[i] \in Row
    BY JobRange
  <1>p. /\ \A r \in Row : ~IsAwaiting(Settle(r, "cancelled")) /\ ~IsAwaiting(Settle(r, "done"))
        /\ \A r : \A s : ~IsAwaiting(Settle(r, s)) /\ Settle(r, s).pay = EmptyPayload
        /\ ~IsAwaiting(New)
    BY DEF Settle, ClearPhaseFields, IsAwaiting, EmptyPayload, New
  <1>c. \A D : ~Ghost(Cleared(D)[i]) /\ (IsAwaiting(Cleared(D)[i]) => Cleared(D)[i] = table[i])
    BY <1>p DEF Cleared, Ghost
  <1>1. ASSUME NEW r \in Requests, Request(r)
        PROVE  PutBack(i)
    <2>1. CASE CancelOne(r)
      <3>1. PICK j \in req[r].todo :
              LET old == Seen(req[r].held, j)
              IN  IF Cancels(old)
                  THEN Write([Cleared(req[r].dirty) EXCEPT
                                ![j] = Flush(@, old, Settle(old, "cancelled"), FALSE)])
                  ELSE UNCHANGED <<table, causes>>
        BY <2>1 DEF CancelOne
      <3> DEFINE old == Seen(req[r].held, j)
                 base == Cleared(req[r].dirty)
      <3>2. j \in Made /\ old \in Row /\ base \in [Made -> Row]
        BY SessionRows DEF Shape, Session
      <3>3. table' = [base EXCEPT ![j] = Flush(base[j], old, Settle(old, "cancelled"), FALSE)]
        BY <3>1, <3>2 DEF Write
      <3>4. ~Ghost(base[i]) /\ (IsAwaiting(base[i]) => base[i] = table[i])
        BY <1>c
      <3> HIDE DEF base
      <3>5. i = j
        BY <3>2, <3>3, <3>4
      <3>6. table'[i] = Flush(base[i], old, Settle(old, "cancelled"), FALSE)
        BY <3>2, <3>3, <3>5
      <3>7. IsAwaiting(base[i]) /\ old.pay = EmptyPayload
        <4> HIDE DEF old
        <4> QED BY <3>2, <3>6, RowColumns, SettleGhost
      <3>8. IsAwaiting(table[i]) /\ ~IsAwaiting(old)
        BY <3>4, <3>7 DEF IsAwaiting, EmptyPayload
      <3>9. j \in DOMAIN req[r].held /\ ~IsAwaiting(req[r].held[j])
        BY <3>5, <3>8 DEF Seen
      <3> QED BY <3>5, <3>8, <3>9 DEF PutBack
    <2>2. CASE Create(r)
      <3>1. table'[i] = Cleared(req[r].dirty)[i]
        BY <2>2, CreateRows
      <3> QED BY <1>c, <3>1
    <2>3. CASE UNCHANGED table
      BY <2>3
    <2> QED BY <1>1, <2>1, <2>2, <2>3 DEF Request, Find, Select, Blocked, Answer
  <1>2. ASSUME NEW j \in Made, Execute(j)
        PROVE  PutBack(i)
    <2>1. /\ run[j] \in Executor /\ run[j].snap \in Row /\ run[j].snap.pay \in Payload
          /\ table[j] \in Row /\ table[j].pay \in Payload /\ j \in Jobs
          /\ run \in [Jobs -> Executor]
      BY JobRange, RowColumns DEF Shape, Executor
    <2>2. ASSUME NEW old, NEW new, NEW t, Commit(j, old, new, t)
          PROVE  i = j /\ Ghost(Flush(table[i], old, new, t))
      <3>1. table' = [table EXCEPT ![j] = Flush(table[j], old, new, t)]
        BY <2>2 DEF Commit, Write
      <3> QED BY <1>r, <3>1
    <2>a. \A pc : At(j, pc) => run'[j].pc = pc
      BY <2>1 DEF At, IdleRun
    <2>l. \A pc, row : Load(j, pc, row) => run'[j].pc = pc
      BY <2>1 DEF Load
    <2>3. CASE Begin(j)
      <3> DEFINE new == [run[j].snap EXCEPT !.pay = TakeLease(@)]
      <3>1. new \in Row /\ new.status = run[j].snap.status
        BY <2>1, RowShapes DEF Row
      <3>2. ~LeaseIsActive(run[j].snap)
        BY <2>3 DEF Begin
      <3>3. Commit(j, run[j].snap, new, TRUE) /\ run'[j].pc # "begin"
        BY <2>3, <2>a, <2>l, <3>2 DEF Begin
      <3>4. i = j /\ Ghost(Flush(table[i], run[j].snap, new, TRUE))
        BY <2>2, <3>3
      <3>5. ~IsActive(table[i])
        BY <3>1, <3>4 DEF Ghost, Flush, IsActive
      <3>6. IsActive(run[i].snap) /\ run[i].pc = "begin"
        BY <2>1, <2>3, <3>4 DEF SeenInv, Begin
      <3> QED BY <3>3, <3>4, <3>5, <3>6 DEF PutBack
    <2>4. CASE Start(j)
      <3> DEFINE new == SetStatus(run[j].snap, "running")
      <3>1. /\ new.pay = run[j].snap.pay /\ new.status \in {run[j].snap.status, "running"}
            /\ Commit(j, run[j].snap, new, FALSE)
        BY <2>1, <2>4 DEF SetStatus, Row, Start
      <3> HIDE DEF new
      <3>2. i = j /\ Ghost(Flush(table[i], run[j].snap, new, FALSE))
        BY <2>2, <3>1
      <3> QED BY <3>1, <3>2 DEF Ghost, Flush, IsActive, IsAwaiting, Active
    <2>5. CASE Claim(j)
      <3>1. CASE UNCHANGED table
        BY <3>1
      <3>2. CASE Commit(j, run[j].snap, Settle(run[j].snap, "done"), FALSE)
        <4>1. i = j /\ Ghost(Flush(table[i], run[j].snap, Settle(run[j].snap, "done"), FALSE))
          BY <2>2, <3>2
        <4>3. IsAwaiting(table[i]) /\ run[j].snap.pay = EmptyPayload
          BY <1>r, <2>1, <4>1, RowColumns, SettleGhost
        <4>4. run[i].pc = "settle" /\ run'[i].pc # "settle"
          BY <2>5, <2>a, <4>1 DEF Claim
        <4>5. ~IsAwaiting(run[i].snap)
          BY <4>1, <4>3 DEF IsAwaiting, EmptyPayload
        <4> QED BY <4>3, <4>4, <4>5 DEF PutBack
      <3> QED BY <2>5, <3>1, <3>2 DEF Claim
    <2>6. CASE Defer(j)
      <3> DEFINE met == [run[j].snap EXCEPT !.pay = EnterAwaiting(@, "fresh")]
                 new == SetStatus(met, "running")
      <3>1. met \in Row /\ met.status = run[j].snap.status
        BY <2>1, RowShapes DEF Row
      <3>2. Commit(j, run[j].snap, new, TRUE) /\ run[j].pc = "defer" /\ run'[j].pc = "close"
        BY <2>6, <2>a DEF Defer
      <3> HIDE DEF met
      <3>3. new.status = run[j].snap.status \/ new.status = "running"
        BY <3>1 DEF SetStatus, Row
      <3>4. new.status = "running" \/ run[j].snap.status = "cancelled"
        BY <3>1 DEF SetStatus, Row
      <3> HIDE DEF new
      <3>5. i = j /\ Ghost(Flush(table[i], run[j].snap, new, TRUE))
        BY <2>2, <3>2
      <3>6. new.status = run[j].snap.status /\ ~IsActive(table[i])
        BY <3>3, <3>5 DEF Ghost, Flush, IsActive, Active
      <3>7. IsActive(run[j].snap)
        BY <2>1, <3>2, <3>4, <3>6 DEF SeenInv, IsActive, Active
      <3> QED BY <3>2, <3>5, <3>6, <3>7 DEF PutBack
    <2>7. CASE Close(j)
      <3> DEFINE new == [table[j] EXCEPT !.pay = DropLease(@)]
      <3>1. /\ new.status = table[j].status /\ (IsAwaiting(new) => IsAwaiting(table[j]))
            /\ Commit(j, table[j], new, FALSE)
        BY <2>1, <2>7 DEF Close, DropLease, IsAwaiting, Row, Payload
      <3> HIDE DEF new
      <3>2. i = j /\ Ghost(Flush(table[i], table[j], new, FALSE))
        BY <2>2, <3>1
      <3> QED BY <3>1, <3>2 DEF Ghost, Flush, IsActive, IsAwaiting
    <2>8. CASE Pickup(j) \/ Work(j)
      BY <2>8 DEF Pickup, Work
    <2> QED BY <1>2, <2>3, <2>4, <2>5, <2>6, <2>7, <2>8 DEF Execute
  <1>3. CASE CancelCommits
    <2>1. cx.job \in Made /\ cx.snap \in Row /\ Settle(cx.snap, "cancelled") \in Row
      BY <1>3, RowShapes, RowColumns DEF CancelCommits, Shape, Canceller
    <2>2. table' = [table EXCEPT ![cx.job] = Flush(table[cx.job], cx.snap,
                                                   Settle(cx.snap, "cancelled"), FALSE)]
      BY <1>3 DEF CancelCommits, Commit, Write
    <2>3. /\ i = cx.job
          /\ Ghost(Flush(table[i], cx.snap, Settle(cx.snap, "cancelled"), FALSE))
      BY <1>r, <2>1, <2>2
    <2>4. IsAwaiting(table[i]) /\ cx.snap.pay = EmptyPayload
      BY <1>r, <2>1, <2>3, RowColumns, SettleGhost
    <2> QED BY <2>3, <2>4 DEF PutBack, IsAwaiting, EmptyPayload
  <1>4. CASE Recovery
    <2>1. CASE RecoverScans
      BY <2>1 DEF RecoverScans
    <2>2. ASSUME rec.pc = "loop", i \notin DOMAIN rec.had
          PROVE  Released[i] = table[i] /\ Edited(i) = Seen(rec.held, i)
      <3>1. Seen(rec.held, i) = Edited(i)
        BY <2>2 DEF Edited
      <3> QED BY <1>r, <3>1 DEF Released, Flush, Row
    <2>3. CASE RecoverOne
      <3> DEFINE j   == Min(rec.todo)
                 old == Seen(rec.held, j)
      <3>1. rec.todo \in SUBSET Made /\ rec.pc = "loop"
        BY <2>3 DEF RecoverOne, Shape, Recoverer
      <3>2. j \in Made /\ old \in Row
        BY <2>3, <3>1, JobRange, MinBelongs, SessionRows DEF RecoverOne
      <3>3. \/ UNCHANGED table
            \/ /\ Write([Released EXCEPT ![j] = Flush(@, old, SetStatus(old, "pending"), FALSE)])
               /\ old.status = "running"
        BY <2>3 DEF RecoverOne
      <3> HIDE DEF j
      <3>4. ASSUME i \notin DOMAIN rec.had, old.status = "running",
                   table' = [Released EXCEPT
                               ![j] = Flush(Released[j], old, SetStatus(old, "pending"), FALSE)]
            PROVE  FALSE
        <4>1. Released \in [Made -> Row] /\ Released[i] = table[i]
          BY <2>2, <3>1, <3>4, SessionRows
        <4>2. i = j
          BY <3>2, <3>4, <4>1
        <4>3. SetStatus(old, "pending").status = "pending"
          BY <3>2, <3>4 DEF SetStatus, Row
        <4>4. table'[i].status = "pending"
          <5>1. table'[i] = Flush(Released[j], old, SetStatus(old, "pending"), FALSE)
            BY <3>2, <3>4, <4>1, <4>2
          <5> HIDE DEF old
          <5> QED BY <3>4, <4>3, <5>1 DEF Flush
        <4> QED BY <4>4 DEF Ghost, IsActive, Active
      <3> QED BY <3>1, <3>3, <3>4 DEF Write, PutBack
    <2>4. CASE RecoverEnds
      <3>1. rec.pc = "loop"
        BY <2>4 DEF RecoverEnds
      <3>2. \/ table'[i] = Settle(table[i], table[i].status)
            \/ table'[i] = Released[i]
        BY <2>4 DEF RecoverEnds, Write
      <3>3. table'[i] = Released[i]
        BY <1>p, <3>2 DEF Ghost
      <3> QED BY <2>2, <3>1, <3>3 DEF PutBack
    <2> QED BY <1>4, <2>1, <2>3, <2>4 DEF Recovery
  <1>5. CASE Faults
    BY <1>5 DEF Faults, UserCancels, ApiRestarts
  <1> QED BY <1>1, <1>2, <1>3, <1>4, <1>5 DEF Next

\* A settled job is offered for reuse again only after a session that had read
\* the row before has written it back (find_active_document_index_job takes any
\* job that awaits its parse).
THEOREM GhostsPutBack == Spec => GhostOnlyFrom
PROOF
  <1>1. Init => SeenInv
    BY DEF Init, SeenInv, IdleRun
  <1>2. Spec => []SeenInv
    BY <1>1, ShapeHolds, SeenStep, PTL DEF Spec
  <1> QED BY <1>2, ShapeHolds, GhostStep, PTL DEF Spec, GhostOnlyFrom
=============================================================================
