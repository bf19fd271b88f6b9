----------------------------- MODULE FleetProofs -----------------------------
(***************************************************************************)
(* What holds of the fleet for any number of boards, exams and jobs and    *)
(* for any limits: the type invariant, the invariants that TLC checks on   *)
(* small fleets, and the refinement of the abstract life of jobs.          *)
(***************************************************************************)
EXTENDS Fleet, FiniteSetTheorems, TLAPS

-----------------------------------------------------------------------------
(* Types of the handlers' parts.                                             *)

(* No job is a job, and a blank record describes a board not heard of.       *)
LEMMA BlankTyped == NoJob \in Job /\ Blank \in Live
BY DEF NoJob, Job, Blank, Live, Errors

(* What a heartbeat does to a board's record keeps it a record.              *)
LEMMA HeartbeatTyped ==
  ASSUME NEW L \in Live, NEW hb \in Heartbeats
  PROVE  /\ Digest(L, hb) \in Live
         /\ AfterDelivery(Digest(L, hb)) \in Live
<1>0. NoJob \in Job
  BY BlankTyped
<1>1. AfterResult(L, hb) \in Live
  BY <1>0 DEF AfterResult, Live, Errors
<1>2. ASSUME NEW R \in Live PROVE AfterCompletion(R, hb) \in Live
  <2>1. CASE FinishedBy(R, hb)
    BY <1>0, <2>1 DEF AfterCompletion, Live, Errors, Job
  <2>2. CASE ~FinishedBy(R, hb) /\ EndedBy(R, hb)
    BY <2>2 DEF AfterCompletion, Live, Errors
  <2> QED
    BY <2>1, <2>2 DEF AfterCompletion
<1>3. ASSUME NEW C \in Live PROVE AfterNaming(C, hb) \in Live
  BY DEF AfterNaming, Live, Listed
<1>4. hb.running \in BOOLEAN
  BY DEF Heartbeats
<1>5. Digest(L, hb) \in Live
  <2>1. AfterNaming(AfterCompletion(AfterResult(L, hb), hb), hb) \in Live
    BY <1>1, <1>2, <1>3
  <2> QED
    BY <1>4, <2>1 DEF Digest, Live
<1>6. ASSUME NEW D \in Live PROVE AfterDelivery(D) \in Live
  BY DEF AfterDelivery, Live, Job
<1> QED
  BY <1>5, <1>6

(* So do the tick and the passing of time.                                   *)
LEMMA TickTyped ==
  ASSUME NEW L \in Live
  PROVE  AfterTick(L) \in Live
BY BlankTyped DEF AfterTick, Live, Errors

LEMMA AgedTyped ==
  ASSUME NEW L \in Live
  PROVE  Aged(L) \in Live
<1>1. ASSUME NEW n \in Nat, NEW limit \in Nat PROVE Older(n, limit) \in Nat
  BY DEF Older
<1>2. ASSUME NEW j \in Job PROVE AgedJob(j) \in Job
  <2>1. Deadline(j) \in Nat
    BY LimitsAssumption DEF Deadline
  <2>2. Older(j.age, Deadline(j)) \in Nat
    BY <1>1, <2>1 DEF Job
  <2> QED
    BY <2>2 DEF AgedJob, Job
<1>3. Older(L.seen, OfflineAfter) \in Nat
  BY <1>1, LimitsAssumption DEF Live
<1> QED
  BY <1>2, <1>3 DEF Aged, Live

(* A board is always counted among finitely many.                            *)
LEMMA CountsAreNaturals ==
  ASSUME NEW S \in SUBSET Hosts
  PROVE  IsFiniteSet(S) /\ Cardinality(S) \in Nat
BY HostsAssumption, FS_Subset, FS_CardinalityType

(* Every event named by a handler is an event of the log.                    *)
LEMMA EventsTyped ==
  /\ \A h \in Hosts, hb \in Heartbeats :
       HeartbeatEvents(h, hb) \subseteq [host: Hosts \cup {NoHost}, what: EventKinds]
  /\ \A h \in Hosts : TickEvents(h) \subseteq [host: Hosts \cup {NoHost}, what: EventKinds]
<1>1. ASSUME NEW h \in Hosts, NEW S \in SUBSET EventKinds
      PROVE  {Event(h, what) : what \in S} \subseteq [host: Hosts \cup {NoHost}, what: EventKinds]
  <2>1. \A what \in EventKinds : Event(h, what) \in [host: Hosts \cup {NoHost}, what: EventKinds]
    BY DEF Event
  <2> QED
    BY <2>1
<1>2. ASSUME NEW h \in Hosts, NEW hb \in Heartbeats
      PROVE  HeartbeatEvents(h, hb) \subseteq [host: Hosts \cup {NoHost}, what: EventKinds]
  <2> DEFINE L == live[h]
             R == AfterResult(L, hb)
             S == (IF boards[h] = "absent" THEN {"new board"} ELSE {})
                    \cup (IF boards[h] = "live" /\ (L.noted \/ IsOffline(L))
                          THEN {"back online"} ELSE {})
                    \cup (IF FailedBy(L, hb) THEN {"failed"} ELSE {})
                    \cup (IF ~FinishedBy(R, hb) THEN {}
                          ELSE IF R.job.kind = "start" THEN {"running"} ELSE {"stopped"})
                    \cup (IF ~FinishedBy(R, hb) /\ EndedBy(R, hb) THEN {"ended"} ELSE {})
  <2>1. S \in SUBSET EventKinds
    BY DEF EventKinds
  <2>2. HeartbeatEvents(h, hb) = {Event(h, what) : what \in S}
    BY DEF HeartbeatEvents
  <2> QED
    BY <1>1, <2>1, <2>2
<1>3. ASSUME NEW h \in Hosts
      PROVE  TickEvents(h) \subseteq [host: Hosts \cup {NoHost}, what: EventKinds]
  <2> DEFINE L == live[h]
             S == (IF IsOffline(L) /\ ~L.noted THEN {"offline"} ELSE {})
                    \cup (IF ~Expired(L) THEN {}
                          ELSE IF L.job.picked THEN {"timed out"} ELSE {"expired"})
  <2>1. S \in SUBSET EventKinds
    BY DEF EventKinds
  <2>2. TickEvents(h) = {Event(h, what) : what \in S}
    BY DEF TickEvents
  <2> QED
    BY <1>1, <2>1, <2>2
<1> QED
  BY <1>2, <1>3

(* The ids of one command: distinct boards get distinct ids, all of them     *)
(* from nextJob on and below the next command's.                             *)
LEMMA IdsOfACommand ==
  ASSUME nextJob \in Nat, NEW hs \in Requests, NEW kind,
         NEW h \in Queued(hs, kind)
  PROVE  /\ IdFor(hs, kind, h) \in nextJob..(nextJob + Cardinality(Queued(hs, kind)) - 1)
         /\ \A g \in Queued(hs, kind) : IdFor(hs, kind, g) = IdFor(hs, kind, h) => g = h
<1> DEFINE Q == Queued(hs, kind)
           Before(g) == {f \in Q : Position(hs, f) < Position(hs, g)}
<1>0. Q \subseteq Hosts /\ \A g \in Q : \E i \in DOMAIN hs : hs[i] = g
  BY DEF Queued, Considered, Requests
<1>1. DOMAIN hs \subseteq Nat /\ \A i, j \in DOMAIN hs : hs[i] = hs[j] => i = j
  BY DEF Requests
<1>2. \A g \in Q : Position(hs, g) \in DOMAIN hs /\ hs[Position(hs, g)] = g
  BY <1>0 DEF Position
<1>3. \A g \in Q : Position(hs, g) \in Nat
  BY <1>1, <1>2
<1>4. \A f, g \in Q : Position(hs, f) = Position(hs, g) => f = g
  BY <1>2
<1>5. IsFiniteSet(Q) /\ Cardinality(Q) \in Nat
  BY <1>0, CountsAreNaturals
<1>6. \A g \in Q : IsFiniteSet(Before(g)) /\ Cardinality(Before(g)) \in Nat
  <2>1. \A g \in Q : Before(g) \in SUBSET Hosts
    BY <1>0
  <2> QED
    BY <2>1, CountsAreNaturals
<1>7. \A g \in Q : Cardinality(Before(g)) < Cardinality(Q)
  <2> TAKE g \in Q
  <2>1. Before(g) \subseteq Q /\ g \notin Before(g)
    BY <1>3
  <2>2. Before(g) # Q
    BY <2>1
  <2> QED
    BY <1>5, <1>6, <2>1, <2>2, FS_Subset
<1>8. ASSUME NEW f \in Q, NEW g \in Q, Position(hs, f) < Position(hs, g)
      PROVE  Cardinality(Before(f)) < Cardinality(Before(g))
  <2>1. Before(f) \subseteq Before(g)
    BY <1>3, <1>8
  <2>2. f \in Before(g) /\ f \notin Before(f)
    BY <1>3, <1>8
  <2> QED
    BY <1>6, <2>1, <2>2, FS_Subset
<1>9. \A g \in Q : IdFor(hs, kind, g) = nextJob + Cardinality(Before(g))
  BY DEF IdFor
<1>10. ASSUME NEW g \in Q, IdFor(hs, kind, g) = IdFor(hs, kind, h) PROVE g = h
  <2> DEFINE m == Cardinality(Before(g))
             n == Cardinality(Before(h))
  <2>0. m \in Nat /\ n \in Nat /\ nextJob + m = nextJob + n
    BY <1>6, <1>9, <1>10
  <2>1. m = n
    <3> HIDE DEF m, n
    <3> QED BY <2>0
  <2>2. ~(Position(hs, g) < Position(hs, h)) /\ ~(Position(hs, h) < Position(hs, g))
    BY <1>6, <1>8, <2>1
  <2> QED
    BY <1>3, <1>4, <2>2
<1>11. IdFor(hs, kind, h) \in nextJob..(nextJob + Cardinality(Q) - 1)
  <2> DEFINE n == Cardinality(Before(h))
             q == Cardinality(Q)
  <2>1. n \in Nat /\ q \in Nat /\ n < q /\ IdFor(hs, kind, h) = nextJob + n
    BY <1>5, <1>6, <1>7, <1>9
  <2> HIDE DEF n, q
  <2>2. IdFor(hs, kind, h) \in nextJob..(nextJob + q - 1)
    BY <2>1
  <2> QED
    BY <2>2 DEF q
<1> QED
  BY <1>10, <1>11

-----------------------------------------------------------------------------
(* The type invariant.                                                       *)

LEMMA InitTyped == Init => TypeOK
<1> SUFFICES ASSUME Init PROVE TypeOK
  OBVIOUS
<1>1. live \in [Hosts -> Live] /\ \A h \in Hosts : live[h] = Blank
  BY BlankTyped DEF Init
<1>2. nextJob \in 1..JobIdBound + 1
  <2>1. JobIdBound \in Nat
    BY LimitsAssumption
  <2>2. nextJob = 1
    BY DEF Init
  <2> QED
    BY <2>1, <2>2
<1>3. news \subseteq [host: Hosts \cup {NoHost}, what: EventKinds]
  <2>1. Event(NoHost, "server started") \in [host: Hosts \cup {NoHost}, what: EventKinds]
    BY DEF Event, EventKinds
  <2>2. news = {Event(NoHost, "server started")}
    BY DEF Init
  <2> QED
    BY <2>1, <2>2
<1> QED
  BY <1>1, <1>2, <1>3 DEF Init, TypeOK

(* What log leaves behind.                                                   *)
LEMMA LogTyped ==
  ASSUME dirty \in BOOLEAN,
         NEW S, S \subseteq [host: Hosts \cup {NoHost}, what: EventKinds],
         Log(S)
  PROVE  dirty' \in BOOLEAN /\ news' \subseteq [host: Hosts \cup {NoHost}, what: EventKinds]
BY DEF Log

(* Each method keeps the types.                                              *)
LEMMA NextTyped == TypeOK /\ [Next]_vars => TypeOK'
<1> SUFFICES ASSUME TypeOK, [Next]_vars PROVE TypeOK'
  OBVIOUS
<1> DEFINE Events == [host: Hosts \cup {NoHost}, what: EventKinds]
<1>0. /\ \A what \in {"limit", "renamed", "forgotten", "queued", "cancelled"} :
           \A h \in Hosts : Event(h, what) \in Events
      /\ \A what \in {"command", "exam created", "exam deleted"} : Event(NoHost, what) \in Events
      /\ {} \subseteq Events
  BY DEF Event, EventKinds
<1>1. ASSUME NEW h \in Hosts, NEW hb \in Heartbeats, Heartbeat(h, hb) PROVE TypeOK'
  <2>1. boards' \in [Hosts -> {"absent", "recorded", "live"}] /\ boards'[h] = "live"
    BY <1>1 DEF TypeOK, Heartbeat
  <2>2. AfterDelivery(Digest(live[h], hb)) \in Live
    BY HeartbeatTyped DEF TypeOK
  <2>3. live' \in [Hosts -> Live]
    BY <1>1, <2>2 DEF TypeOK, Heartbeat
  <2>4. \A g \in Hosts : boards'[g] # "live" => live'[g] = Blank
    BY <1>1, <2>1 DEF TypeOK, Heartbeat
  <2>5. HeartbeatEvents(h, hb) \subseteq Events
    BY EventsTyped
  <2>6. dirty' \in BOOLEAN /\ news' \subseteq Events
    BY <1>1, <2>5, LogTyped DEF TypeOK, Heartbeat
  <2> QED
    BY <1>1, <2>1, <2>3, <2>4, <2>6 DEF TypeOK, Heartbeat
<1>2. ASSUME NEW h \in Hosts, RefuseBoard(h) PROVE TypeOK'
  <2>1. (IF capWarned THEN {} ELSE {Event(h, "limit")}) \subseteq Events
    BY <1>0
  <2>2. dirty' \in BOOLEAN /\ news' \subseteq Events
    BY <1>2, <2>1, LogTyped DEF TypeOK, RefuseBoard
  <2> QED
    BY <1>2, <2>2 DEF TypeOK, RefuseBoard
<1>3. ASSUME NEW h \in Hosts, Forget(h) PROVE TypeOK'
  <2>1. {Event(h, "forgotten")} \subseteq Events
    BY <1>0
  <2>2. dirty' \in BOOLEAN /\ news' \subseteq Events
    BY <1>3, <2>1, LogTyped DEF TypeOK, Forget
  <2>3. live' \in [Hosts -> Live]
    BY <1>3, BlankTyped DEF TypeOK, Forget
  <2>4. \A g \in Hosts : boards'[g] # "live" => live'[g] = Blank
    BY <1>3 DEF TypeOK, Forget
  <2> QED
    BY <1>3, <2>2, <2>3, <2>4 DEF TypeOK, Forget
<1>4. ASSUME NEW h \in Hosts, NEW l \in Labels \cup {NoLabel}, Rename(h, l) PROVE TypeOK'
  <2>1. {Event(h, "renamed")} \subseteq Events
    BY <1>0
  <2>2. dirty' \in BOOLEAN /\ news' \subseteq Events
    BY <1>4, <2>1, LogTyped DEF TypeOK, Rename
  <2> QED
    BY <1>4, <2>2 DEF TypeOK, Rename
<1>5. ASSUME NEW hs \in Requests, NEW kind \in {"start", "stop"},
             NEW e \in Exams \cup {NoExam}, Enqueue(hs, kind, e)
      PROVE  TypeOK'
  <2> DEFINE Q == Queued(hs, kind)
  <2>1. Q \subseteq Hosts /\ Cancelled(hs, kind) \subseteq Hosts
    BY DEF Queued, Cancelled, Considered, Requests
  <2>2. Cardinality(Q) \in Nat
    BY <2>1, CountsAreNaturals
  <2>3. nextJob' \in 1..JobIdBound + 1
    <3> HIDE DEF Q
    <3>1. nextJob' = nextJob + Cardinality(Q) /\ nextJob + Cardinality(Q) <= JobIdBound + 1
      BY <1>5 DEF Enqueue, Q
    <3> QED
      BY <2>2, <3>1, LimitsAssumption DEF TypeOK
  <2>4. \A h \in Q : NewJob(hs, kind, e, h) \in Job
    <3> TAKE h \in Q
    <3>1. IdFor(hs, kind, h) \in Nat
      BY <2>2, IdsOfACommand DEF TypeOK
    <3> QED
      BY <3>1 DEF NewJob, Job
  <2>5. \A h \in Hosts : live'[h] \in Live
    <3> TAKE h \in Hosts
    <3>1. live[h] \in Live
      BY DEF TypeOK
    <3>2. CASE h \in Cancelled(hs, kind)
      BY <1>5, <3>1, <3>2, BlankTyped DEF Enqueue, Live
    <3>3. CASE h \notin Cancelled(hs, kind) /\ h \in Q
      <4>1. live'[h] = Opened(live[h], NewJob(hs, kind, e, h))
        BY <1>5, <3>3 DEF Enqueue
      <4> QED
        BY <2>4, <3>1, <3>3, <4>1, ZenonT(40) DEF Opened, Live, Errors
    <3>4. CASE h \notin Cancelled(hs, kind) /\ h \notin Q
      BY <1>5, <3>1, <3>4 DEF Enqueue
    <3> QED
      BY <3>2, <3>3, <3>4
  <2>6. live' \in [Hosts -> Live]
    BY <1>5, <2>5 DEF Enqueue
  <2>7. \A h \in Hosts : boards'[h] # "live" => live'[h] = Blank
    BY <1>5 DEF Enqueue, TypeOK, Queued, Cancelled, Skips
  <2>8. ({Event(NoHost, "command")} \cup {Event(h, "cancelled") : h \in Cancelled(hs, kind)}
           \cup {Event(h, "queued") : h \in Q}) \subseteq Events
    BY <1>0, <2>1, ZenonT(40)
  <2>9. dirty' \in BOOLEAN /\ news' \subseteq Events
    BY <1>5, <2>8, LogTyped DEF TypeOK, Enqueue
  <2> QED
    BY <1>5, <2>3, <2>6, <2>7, <2>9 DEF TypeOK, Enqueue
<1>6. ASSUME NEW e \in Exams, CreateExam(e) \/ DeleteExam(e) PROVE TypeOK'
  <2>1. {Event(NoHost, "exam created")} \subseteq Events /\ {Event(NoHost, "exam deleted")} \subseteq Events
    BY <1>0
  <2>2. dirty' \in BOOLEAN /\ news' \subseteq Events
    BY <1>6, <2>1, LogTyped DEF TypeOK, CreateExam, DeleteExam
  <2> QED
    BY <1>6, <2>2 DEF TypeOK, CreateExam, DeleteExam
<1>7. CASE Tick
  <2>1. \A h \in Hosts : AfterTick(live[h]) \in Live
    BY TickTyped DEF TypeOK
  <2>2. live' \in [Hosts -> Live] /\ \A h \in Hosts : boards'[h] # "live" => live'[h] = Blank
    BY <1>7, <2>1 DEF TypeOK, Tick
  <2>3. UNION {TickEvents(h) : h \in {g \in Hosts : boards[g] = "live"}} \subseteq Events
    BY EventsTyped
  <2>4. dirty' \in BOOLEAN /\ news' \subseteq Events
    BY <1>7, <2>3, LogTyped DEF TypeOK, Tick
  <2> QED
    BY <1>7, <2>2, <2>4 DEF TypeOK, Tick
<1>8. CASE TimePasses
  <2>1. \A h \in Hosts : Aged(live[h]) \in Live
    BY AgedTyped DEF TypeOK
  <2>2. live' \in [Hosts -> Live] /\ \A h \in Hosts : boards'[h] # "live" => live'[h] = Blank
    BY <1>8, <2>1 DEF TypeOK, TimePasses
  <2>3. dirty' \in BOOLEAN /\ news' \subseteq Events
    BY <1>0, <1>8, LogTyped DEF TypeOK, TimePasses
  <2> QED
    BY <1>8, <2>2, <2>3 DEF TypeOK, TimePasses
<1>9. CASE TakeSnapshot
  BY <1>9 DEF TypeOK, TakeSnapshot
<1>10. CASE UNCHANGED vars
  BY <1>10 DEF TypeOK, vars
<1> QED
  BY <1>1, <1>2, <1>3, <1>4, <1>5, <1>6, <1>7, <1>8, <1>9, <1>10 DEF Next

(* The variables keep their types, and the server keeps no record of a board *)
(* that is not live.                                                         *)
THEOREM TypeCorrect == Spec => []TypeOK
BY InitTyped, NextTyped, PTL DEF Spec

-----------------------------------------------------------------------------
(* Jobs.  A handler on the board's side or the clock's side never opens a    *)
(* job: what is open after it was open before, with its id and no new error. *)

Continues(L, M) ==
  Open(M) => /\ Open(L)
             /\ M.job.id = L.job.id /\ M.job.kind = L.job.kind
             /\ M.error = L.error
             /\ L.job.picked => M.job.picked

(* A heartbeat continues the open job at most, and has it picked up.         *)
LEMMA HeartbeatContinues ==
  ASSUME NEW L \in Live, NEW hb \in Heartbeats
  PROVE  LET M == AfterDelivery(Digest(L, hb))
         IN  Continues(L, M) /\ (Open(M) => M.job.picked)
<1>1. ASSUME NEW A \in Live, NEW B \in Live, NEW C \in Live, Continues(A, B), Continues(B, C)
      PROVE  Continues(A, C)
  BY <1>1 DEF Continues
<1>2. AfterResult(L, hb) \in Live /\ Continues(L, AfterResult(L, hb))
  BY BlankTyped DEF AfterResult, Continues, Open, NoJob, Live, Errors
<1>3. ASSUME NEW R \in Live
      PROVE  AfterCompletion(R, hb) \in Live /\ Continues(R, AfterCompletion(R, hb))
  <2>1. CASE FinishedBy(R, hb)
    BY <2>1, BlankTyped DEF AfterCompletion, Continues, Open, NoJob, Live, Errors, Job
  <2>2. CASE ~FinishedBy(R, hb) /\ EndedBy(R, hb)
    BY <2>2 DEF AfterCompletion, EndedBy, Continues, Open, Live, Errors
  <2>3. CASE ~FinishedBy(R, hb) /\ ~EndedBy(R, hb)
    BY <2>3 DEF AfterCompletion, Continues
  <2> QED
    BY <2>1, <2>2, <2>3
<1>4. ASSUME NEW C \in Live
      PROVE  AfterNaming(C, hb) \in Live /\ Continues(C, AfterNaming(C, hb))
  BY DEF AfterNaming, Continues, Open, Live, Listed
<1>5. Digest(L, hb) \in Live /\ Continues(L, Digest(L, hb))
  <2> DEFINE R == AfterResult(L, hb)
             C == AfterCompletion(R, hb)
             N == AfterNaming(C, hb)
  <2>1. R \in Live /\ C \in Live /\ N \in Live /\ Continues(L, N)
    BY <1>1, <1>2, <1>3, <1>4
  <2>2. Digest(L, hb) \in Live
    BY HeartbeatTyped
  <2>3. Digest(L, hb).job = N.job /\ Digest(L, hb).error = N.error
    BY <2>1 DEF Digest, Live
  <2> QED
    BY <2>1, <2>2, <2>3 DEF Continues, Open
<1>6. ASSUME NEW D \in Live
      PROVE  AfterDelivery(D) \in Live /\ Continues(D, AfterDelivery(D))
               /\ (Open(AfterDelivery(D)) => AfterDelivery(D).job.picked)
  BY DEF AfterDelivery, Continues, Open, Live, Job
<1> QED
  BY <1>1, <1>5, <1>6

(* So does a tick; a job that survives it is as it was.                      *)
LEMMA TickContinues ==
  ASSUME NEW L \in Live
  PROVE  Continues(L, AfterTick(L)) /\ (Open(AfterTick(L)) => AfterTick(L).job = L.job)
<1>1. CASE Expired(L)
  BY <1>1 DEF AfterTick, Continues, Open, NoJob, Live
<1>2. CASE ~Expired(L)
  BY <1>2 DEF AfterTick, Continues, Open, Live
<1> QED
  BY <1>1, <1>2

(* Time only makes a job older.                                              *)
LEMMA AgedContinues ==
  ASSUME NEW L \in Live
  PROVE  /\ Continues(L, Aged(L)) /\ Open(Aged(L)) = Open(L)
         /\ Aged(L).job.id = L.job.id /\ Aged(L).job.picked = L.job.picked
<1>1. Aged(L).job = AgedJob(L.job) /\ Aged(L).error = L.error
  BY DEF Aged, Live
<1>2. /\ AgedJob(L.job).id = L.job.id /\ AgedJob(L.job).kind = L.job.kind
      /\ AgedJob(L.job).picked = L.job.picked
  BY DEF AgedJob, Live, Job
<1> QED
  BY <1>1, <1>2 DEF Continues, Open

(* The inductive invariant about jobs.                                       *)
JobsInv == TypeOK /\ JobIdsUnique /\ NoErrorBesideJob

(* A step in which every open job continues one keeps it.                    *)
LEMMA ContinuingKeepsJobs ==
  ASSUME JobsInv, nextJob' = nextJob,
         \A h \in Hosts : Open(live[h])' => Continues(live[h], live'[h])
  PROVE  JobIdsUnique' /\ NoErrorBesideJob'
BY DEF JobsInv, JobIdsUnique, NoErrorBesideJob, Continues, Open

(* Every step keeps it; only a command opens jobs, with ids of their own.    *)
LEMMA NextKeepsJobs == JobsInv /\ [Next]_vars => JobIdsUnique' /\ NoErrorBesideJob'
<1> SUFFICES ASSUME JobsInv, [Next]_vars PROVE JobIdsUnique' /\ NoErrorBesideJob'
  OBVIOUS
<1>0. live \in [Hosts -> Live] /\ nextJob \in Nat /\ ~Open(Blank)
  BY LimitsAssumption DEF JobsInv, TypeOK, Open, Blank, NoJob
<1>1. ASSUME NEW h \in Hosts, NEW hb \in Heartbeats, Heartbeat(h, hb)
      PROVE  JobIdsUnique' /\ NoErrorBesideJob'
  <2>1. \A g \in Hosts : g # h => live'[g] = live[g]
    BY <1>0, <1>1 DEF Heartbeat
  <2>2. live'[h] = AfterDelivery(Digest(live[h], hb))
    BY <1>0, <1>1 DEF Heartbeat
  <2>3. \A g \in Hosts : Continues(live[g], live'[g])
    BY <1>0, <2>1, <2>2, HeartbeatContinues DEF Continues
  <2> QED
    BY <1>1, <2>3, ContinuingKeepsJobs DEF Heartbeat
<1>2. ASSUME NEW h \in Hosts, Forget(h) PROVE JobIdsUnique' /\ NoErrorBesideJob'
  <2>1. \A g \in Hosts : Continues(live[g], live'[g])
    BY <1>0, <1>2 DEF Forget, Continues
  <2> QED
    BY <1>2, <2>1, ContinuingKeepsJobs DEF Forget
<1>3. ASSUME NEW hs \in Requests, NEW kind \in {"start", "stop"},
             NEW e \in Exams \cup {NoExam}, Enqueue(hs, kind, e)
      PROVE  JobIdsUnique' /\ NoErrorBesideJob'
  <2> DEFINE Q == Queued(hs, kind)
  <2>1. Cardinality(Q) \in Nat
    BY CountsAreNaturals DEF Queued, Considered, Requests
  <2>2. nextJob' = nextJob + Cardinality(Q)
    BY <1>3 DEF Enqueue
  <2>3. ASSUME NEW h \in Hosts, h \in Q
        PROVE  /\ live'[h].job.id \in nextJob..nextJob' - 1
               /\ live'[h].error = "none"
               /\ live'[h].job.id = IdFor(hs, kind, h)
    <3>1. h \notin Cancelled(hs, kind)
      BY <2>3 DEF Queued, Cancelled
    <3>2. live'[h] = Opened(live[h], NewJob(hs, kind, e, h))
      BY <1>3, <2>3, <3>1 DEF Enqueue
    <3>3. live'[h].job.id = IdFor(hs, kind, h) /\ live'[h].error = "none"
      BY <1>0, <3>2 DEF Opened, NewJob, Live
    <3>4. IdFor(hs, kind, h) \in nextJob..(nextJob + Cardinality(Q) - 1)
      BY <1>0, <2>3, IdsOfACommand
    <3> HIDE DEF Q
    <3>5. IdFor(hs, kind, h) \in nextJob..nextJob' - 1
      BY <1>0, <2>1, <2>2, <3>4
    <3> QED
      BY <3>3, <3>5
  <2>4. ASSUME NEW h \in Hosts, h \notin Q, Open(live'[h])
        PROVE  live'[h] = live[h]
    <3>1. CASE h \in Cancelled(hs, kind)
      <4>1. live'[h].job = NoJob
        BY <1>0, <1>3, <3>1 DEF Enqueue, Live
      <4> QED
        BY <2>4, <4>1 DEF Open, NoJob
    <3>2. CASE h \notin Cancelled(hs, kind)
      BY <1>3, <2>4, <3>2 DEF Enqueue
    <3> QED
      BY <3>1, <3>2
  <2>5. \A h \in Hosts : Open(live'[h]) /\ h \notin Q =>
          live'[h].job.id \in 1..nextJob - 1 /\ live'[h].error = "none" /\ Open(live[h])
    BY <2>4 DEF JobsInv, JobIdsUnique, NoErrorBesideJob
  <2>6. NoErrorBesideJob'
    BY <2>3, <2>5 DEF NoErrorBesideJob, Open
  <2>7. \A h \in Hosts : Open(live'[h]) => live'[h].job.id \in 1..nextJob' - 1
    <3> TAKE h \in Hosts
    <3>1. nextJob \in Nat \ {0} /\ nextJob' \in Nat /\ nextJob <= nextJob'
      <4> HIDE DEF Q
      <4> QED BY <1>0, <2>1, <2>2 DEF JobsInv, TypeOK
    <3>2. CASE h \in Q
      BY <2>3, <3>1, <3>2
    <3>3. CASE h \notin Q
      BY <2>5, <3>1, <3>3
    <3> QED
      BY <3>2, <3>3
  <2>8. ASSUME NEW g \in Hosts, NEW h \in Hosts, Open(live'[g]), Open(live'[h]),
               live'[g].job.id = live'[h].job.id
        PROVE  g = h
    <3>1. CASE g \in Q /\ h \in Q
      BY <1>0, <2>3, <2>8, <3>1, IdsOfACommand
    <3>2. CASE g \notin Q /\ h \notin Q
      BY <2>4, <2>8, <3>2 DEF JobsInv, JobIdsUnique
    <3>3. CASE g \in Q /\ h \notin Q
      BY <1>0, <2>3, <2>5, <2>8, <3>3
    <3>4. CASE g \notin Q /\ h \in Q
      BY <1>0, <2>3, <2>5, <2>8, <3>4
    <3> QED
      BY <3>1, <3>2, <3>3, <3>4
  <2> QED
    BY <2>6, <2>7, <2>8 DEF JobIdsUnique, Open
<1>4. CASE Tick
  <2>1. \A g \in Hosts : Continues(live[g], live'[g])
    BY <1>0, <1>4, TickContinues DEF Tick, Continues
  <2> QED
    BY <1>4, <2>1, ContinuingKeepsJobs DEF Tick
<1>5. CASE TimePasses
  <2>1. \A g \in Hosts : Continues(live[g], live'[g])
    BY <1>0, <1>5, AgedContinues DEF TimePasses, Continues
  <2> QED
    BY <1>5, <2>1, ContinuingKeepsJobs DEF TimePasses
<1>6. ASSUME UNCHANGED <<live, nextJob>> PROVE JobIdsUnique' /\ NoErrorBesideJob'
  BY <1>6 DEF JobsInv, JobIdsUnique, NoErrorBesideJob, Open
<1>7. ASSUME NEW h \in Hosts, NEW l \in Labels \cup {NoLabel}, NEW e \in Exams,
             RefuseBoard(h) \/ Rename(h, l) \/ CreateExam(e) \/ DeleteExam(e) \/ TakeSnapshot
      PROVE  UNCHANGED <<live, nextJob>>
  BY <1>7 DEF RefuseBoard, Rename, CreateExam, DeleteExam, TakeSnapshot
<1> QED
  BY <1>1, <1>2, <1>3, <1>4, <1>5, <1>6, <1>7
     DEF Next, vars, RefuseBoard, Rename, CreateExam, DeleteExam, TakeSnapshot

LEMMA JobsInvariant == Spec => []JobsInv
<1>1. Init => JobsInv
  <2> SUFFICES ASSUME Init PROVE JobsInv
    OBVIOUS
  <2>1. \A h \in Hosts : live[h] = Blank
    BY DEF Init
  <2>2. ~Open(Blank)
    BY DEF Open, Blank, NoJob
  <2>3. JobIdsUnique /\ NoErrorBesideJob
    BY <2>1, <2>2 DEF JobIdsUnique, NoErrorBesideJob
  <2> QED
    BY <2>3, InitTyped DEF JobsInv
<1>2. JobsInv /\ [Next]_vars => JobsInv'
  BY NextTyped, NextKeepsJobs DEF JobsInv
<1> QED
  BY <1>1, <1>2, PTL DEF Spec

(* Open jobs have ids of their own, each below the next one: whatever the    *)
(* order of commands, heartbeats and timeouts, a report names one job.       *)
THEOREM JobIdsStayUnique == Spec => []JobIdsUnique
<1>1. JobsInv => JobIdsUnique
  BY DEF JobsInv
<1> QED
  BY <1>1, JobsInvariant, PTL

(* An open job and an error never coexist.                                   *)
THEOREM NoErrorStaysBesideAJob == Spec => []NoErrorBesideJob
<1>1. JobsInv => NoErrorBesideJob
  BY DEF JobsInv
<1> QED
  BY <1>1, JobsInvariant, PTL

-----------------------------------------------------------------------------
(* The server implements the abstract life of a job.                         *)

Ids == 1..JobIdBound

(* How the abstract state follows from the boards' jobs.                     *)
PhaseShape ==
  /\ \A h \in Hosts : Open(live[h]) =>
       /\ live[h].job.id \in Ids
       /\ Holds(live[h].job.id) = {h}
       /\ Phase(live[h].job.id) = IF live[h].job.picked THEN "delivered" ELSE "waiting"
  /\ \A i \in Ids :
       /\ Phase(i) \in {"unissued", "waiting", "delivered", "closed"}
       /\ Phase(i) = "unissued" <=> i >= nextJob
       /\ Phase(i) \in {"waiting", "delivered"} =>
            \E h \in Hosts : Open(live[h]) /\ live[h].job.id = i
       /\ Phase(i) \notin {"waiting", "delivered"} => Holds(i) = {}

LEMMA PhasesAreShaped == JobsInv => PhaseShape
<1> SUFFICES ASSUME JobsInv PROVE PhaseShape
  OBVIOUS
<1>0. nextJob \in Nat /\ nextJob <= JobIdBound + 1 /\ JobIdBound \in Nat
  BY LimitsAssumption DEF JobsInv, TypeOK
<1>1. ASSUME NEW h \in Hosts, Open(live[h])
      PROVE  /\ live[h].job.id \in Ids /\ live[h].job.id < nextJob
             /\ Holds(live[h].job.id) = {h}
             /\ Phase(live[h].job.id) = IF live[h].job.picked THEN "delivered" ELSE "waiting"
  <2>1. live[h].job.id \in 1..nextJob - 1
    BY <1>1 DEF JobsInv, JobIdsUnique
  <2>2. live[h].job.id \in Ids /\ live[h].job.id < nextJob
    BY <1>0, <2>1 DEF Ids
  <2>3. Holds(live[h].job.id) = {h}
    BY <1>1 DEF Holds, JobsInv, JobIdsUnique
  <2>4. Phase(live[h].job.id) = IF live[h].job.picked THEN "delivered" ELSE "waiting"
    <3>1. ~(live[h].job.id >= nextJob)
      BY <1>0, <2>1
    <3>2. \A g \in Hosts : Open(live[g]) /\ live[g].job.id = live[h].job.id => g = h
      BY <1>1 DEF JobsInv, JobIdsUnique
    <3> QED
      BY <1>1, <3>1, <3>2 DEF Phase
  <2> QED
    BY <2>2, <2>3, <2>4
<1>2. ASSUME NEW i \in Ids
      PROVE  /\ Phase(i) \in {"unissued", "waiting", "delivered", "closed"}
             /\ Phase(i) = "unissued" <=> i >= nextJob
             /\ Phase(i) \in {"waiting", "delivered"} =>
                  \E h \in Hosts : Open(live[h]) /\ live[h].job.id = i
             /\ Phase(i) \notin {"waiting", "delivered"} => Holds(i) = {}
  <2>1. CASE i >= nextJob
    <3>1. i \in Nat
      BY <1>0 DEF Ids
    <3>2. \A h \in Hosts : ~(Open(live[h]) /\ live[h].job.id = i)
      BY <1>0, <1>1, <2>1, <3>1
    <3> QED
      BY <2>1, <3>2 DEF Phase, Holds
  <2>2. CASE ~(i >= nextJob)
    BY <2>2 DEF Phase, Holds
  <2> QED
    BY <2>1, <2>2
<1> QED
  BY <1>1, <1>2 DEF PhaseShape

(* A step maps to a step of the abstract life when old ids only continue,    *)
(* the new ones all wait on some board, and one job at most is delivered.    *)
LEMMA ContinuingIsALifeStep ==
  ASSUME PhaseShape, PhaseShape', nextJob \in Nat, nextJob' \in Nat, nextJob <= nextJob',
         \A h \in Hosts : live[h] \in Live /\ live'[h] \in Live,
         \A h \in Hosts : Open(live'[h]) /\ live'[h].job.id < nextJob =>
            /\ Open(live[h]) /\ live[h].job.id = live'[h].job.id
            /\ live[h].job.picked => live'[h].job.picked,
         \A i \in Ids : nextJob <= i /\ i < nextJob' =>
            \E h \in Hosts : Open(live'[h]) /\ live'[h].job.id = i /\ ~live'[h].job.picked,
         \A g, h \in Hosts :
            /\ Open(live[g]) /\ ~live[g].job.picked /\ live'[g].job.picked
            /\ Open(live[h]) /\ ~live[h].job.picked /\ live'[h].job.picked
            => g = h
  PROVE  Jobs!Step
<1>0. \A i \in Ids : i \in Nat
  BY LimitsAssumption DEF Ids
<1>1. \A h \in Hosts : Open(live[h])' = Open(live'[h])
  BY DEF Open
<1>2. ASSUME NEW i \in Ids, Phase(i)' \in {"waiting", "delivered"}, i < nextJob
      PROVE  \E h \in Hosts :
               /\ Open(live[h]) /\ Open(live'[h])
               /\ live[h].job.id = i /\ live'[h].job.id = i
               /\ Holds(i) = {h} /\ Holds(i)' = {h}
               /\ Phase(i) = IF live[h].job.picked THEN "delivered" ELSE "waiting"
               /\ Phase(i)' = IF live'[h].job.picked THEN "delivered" ELSE "waiting"
               /\ live[h].job.picked => live'[h].job.picked
  <2>1. PICK h \in Hosts : Open(live'[h]) /\ live'[h].job.id = i
    BY <1>1, <1>2 DEF PhaseShape
  <2>2. Open(live[h]) /\ live[h].job.id = i /\ (live[h].job.picked => live'[h].job.picked)
    BY <1>2, <2>1
  <2>3. Holds(i) = {h} /\ Phase(i) = IF live[h].job.picked THEN "delivered" ELSE "waiting"
    BY <2>2 DEF PhaseShape
  <2>4. Holds(i)' = {h} /\ Phase(i)' = IF live'[h].job.picked THEN "delivered" ELSE "waiting"
    BY <1>1, <2>1 DEF PhaseShape
  <2> QED
    BY <2>1, <2>2, <2>3, <2>4
<1>3. \A i \in Ids : Phase(i)' # Phase(i) => <<Phase(i), Phase(i)'>> \in Jobs!Moves
  <2> TAKE i \in Ids
  <2>1. CASE i >= nextJob /\ i >= nextJob'
    BY <2>1 DEF PhaseShape
  <2>2. CASE i >= nextJob /\ ~(i >= nextJob')
    <3>1. PICK h \in Hosts : Open(live'[h]) /\ live'[h].job.id = i /\ ~live'[h].job.picked
      BY <1>0, <2>2
    <3>2. Phase(i)' = "waiting" /\ Phase(i) = "unissued"
      BY <1>1, <2>2, <3>1 DEF PhaseShape
    <3> QED
      BY <3>2 DEF Jobs!Moves
  <2>3. CASE ~(i >= nextJob) /\ Phase(i)' \in {"waiting", "delivered"}
    <3>1. i < nextJob
      BY <1>0, <2>3
    <3>2. Phase(i) = Phase(i)' \/ (Phase(i) = "waiting" /\ Phase(i)' = "delivered")
      BY <1>2, <2>3, <3>1
    <3> QED
      BY <3>2 DEF Jobs!Moves
  <2>4. CASE ~(i >= nextJob) /\ Phase(i)' \notin {"waiting", "delivered"}
    <3>1. Phase(i) \in {"waiting", "delivered", "closed"}
      BY <2>4 DEF PhaseShape
    <3>2. ~(i >= nextJob')
      BY <1>0, <2>4
    <3>3. Phase(i)' = "closed"
      BY <2>4, <3>2 DEF PhaseShape
    <3> QED
      BY <3>1, <3>3 DEF Jobs!Moves
  <2> QED
    BY <2>1, <2>2, <2>3, <2>4
<1>4. \A i \in Ids : Phase(i) \in {"waiting", "delivered"} /\ Phase(i)' \in {"waiting", "delivered"}
                    => Holds(i)' = Holds(i)
  <2> TAKE i \in Ids
  <2>1. Phase(i) \in {"waiting", "delivered"} => i < nextJob
    BY <1>0 DEF PhaseShape
  <2> QED
    BY <1>2, <2>1
<1>5. \A i, j \in Ids :
        /\ Phase(i) = "waiting" /\ Phase(i)' = "delivered"
        /\ Phase(j) = "waiting" /\ Phase(j)' = "delivered"
        => i = j
  <2>1. ASSUME NEW i \in Ids, Phase(i) = "waiting", Phase(i)' = "delivered"
        PROVE  \E h \in Hosts : /\ Open(live[h]) /\ ~live[h].job.picked /\ live'[h].job.picked
                               /\ live[h].job.id = i
    <3>1. i < nextJob
      BY <1>0, <2>1 DEF PhaseShape
    <3> QED
      BY <1>2, <2>1, <3>1
  <2> QED
    BY <2>1
<1>6. \A i, j \in Ids : i < j /\ Phase(i)' = "unissued" => Phase(j)' = "unissued"
  <2> SUFFICES ASSUME NEW i \in Ids, NEW j \in Ids, i < j, Phase(i)' = "unissued"
               PROVE  Phase(j)' = "unissued"
    OBVIOUS
  <2>1. i >= nextJob'
    BY DEF PhaseShape
  <2>2. j >= nextJob'
    BY <1>0, <2>1
  <2> QED
    BY <2>2 DEF PhaseShape
<1>7. /\ \A i \in Ids : IF Phase(i)' \in {"waiting", "delivered"}
                       THEN \E h \in Hosts : Holds(i)' = {h} ELSE Holds(i)' = {}
      /\ \A i, j \in Ids : Holds(i)' \cap Holds(j)' # {} => i = j
  <2>1. \A i \in Ids : IF Phase(i)' \in {"waiting", "delivered"}
                       THEN \E h \in Hosts : Holds(i)' = {h} ELSE Holds(i)' = {}
    <3> TAKE i \in Ids
    <3>1. CASE Phase(i)' \in {"waiting", "delivered"}
      <4>1. PICK h \in Hosts : Open(live'[h]) /\ live'[h].job.id = i
        BY <1>1, <3>1 DEF PhaseShape
      <4>2. Holds(i)' = {h}
        BY <1>1, <4>1 DEF PhaseShape
      <4> QED
        BY <3>1, <4>2
    <3>2. CASE Phase(i)' \notin {"waiting", "delivered"}
      BY <3>2 DEF PhaseShape
    <3> QED
      BY <3>1, <3>2
  <2>2. \A i, j \in Ids : Holds(i)' \cap Holds(j)' # {} => i = j
    BY DEF Holds
  <2> QED
    BY <2>1, <2>2
<1> QED
  BY <1>3, <1>4, <1>5, <1>6, <1>7
     DEF Ids, Jobs!Step, Jobs!IsOpen, Jobs!Delivers, Jobs!OneBoardPerJob

(* The ids of one command are all used: none is skipped.                     *)
LEMMA NoIdIsSkipped ==
  ASSUME nextJob \in Nat, NEW hs \in Requests, NEW kind,
         NEW i \in Nat, nextJob <= i, i < nextJob + Cardinality(Queued(hs, kind))
  PROVE  \E h \in Queued(hs, kind) : IdFor(hs, kind, h) = i
<1> DEFINE Q == Queued(hs, kind)
           q == Cardinality(Q)
           T == nextJob..(nextJob + q - 1)
           f == [h \in Q |-> IdFor(hs, kind, h)]
<1>1. IsFiniteSet(Q) /\ q \in Nat
  BY CountsAreNaturals DEF Queued, Considered, Requests
<1>2. \A h \in Q : IdFor(hs, kind, h) \in T
  BY IdsOfACommand
<1>3. \A g, h \in Q : IdFor(hs, kind, g) = IdFor(hs, kind, h) => g = h
  BY IdsOfACommand
<1>4. f \in Injection(Q, T)
  BY <1>2, <1>3 DEF Injection, IsInjective
<1>5. IsFiniteSet(T) /\ Cardinality(T) = q
  <2> HIDE DEF q
  <2>1. nextJob \in Int /\ nextJob + q - 1 \in Int
    BY <1>1
  <2>2. IsFiniteSet(T) /\ Cardinality(T) = IF nextJob > nextJob + q - 1 THEN 0
                                           ELSE (nextJob + q - 1) - nextJob + 1
    BY <2>1, FS_Interval
  <2> QED
    BY <1>1, <2>2
<1>6. f \in Surjection(Q, T)
  BY <1>4, <1>5, FS_Injection
<1>7. i \in T
  <2> HIDE DEF q
  <2>1. i < nextJob + q
    BY DEF q
  <2> QED BY <1>1, <2>1
<1>8. PICK h \in Q : f[h] = i
  BY <1>6, <1>7 DEF Surjection
<1> QED
  BY <1>8

(* Outside commands, boards only continue their jobs.                        *)
LEMMA BoardStepIsALifeStep ==
  ASSUME JobsInv, JobsInv', nextJob' = nextJob,
         \A h \in Hosts : Continues(live[h], live'[h]),
         \A g, h \in Hosts :
            /\ Open(live[g]) /\ ~live[g].job.picked /\ live'[g].job.picked
            /\ Open(live[h]) /\ ~live[h].job.picked /\ live'[h].job.picked
            => g = h
  PROVE  Jobs!Step
<1>1. PhaseShape /\ PhaseShape'
  BY PhasesAreShaped, PTL
<1>2. nextJob \in Nat /\ nextJob' \in Nat /\ nextJob <= nextJob'
  BY LimitsAssumption DEF JobsInv, TypeOK
<1>3. \A h \in Hosts : live[h] \in Live /\ live'[h] \in Live
  BY DEF JobsInv, TypeOK
<1>4. \A h \in Hosts : Open(live'[h]) /\ live'[h].job.id < nextJob =>
        /\ Open(live[h]) /\ live[h].job.id = live'[h].job.id
        /\ live[h].job.picked => live'[h].job.picked
  BY DEF Continues
<1>5. \A i \in Ids : nextJob <= i /\ i < nextJob' =>
        \E h \in Hosts : Open(live'[h]) /\ live'[h].job.id = i /\ ~live'[h].job.picked
  <2>1. \A i \in Ids : i \in Nat
    BY LimitsAssumption DEF Ids
  <2> QED
    BY <1>2, <2>1
<1> QED
  BY ONLY <1>1, <1>2, <1>3, <1>4, <1>5, ContinuingIsALifeStep,
     \A g, h \in Hosts :
       /\ Open(live[g]) /\ ~live[g].job.picked /\ live'[g].job.picked
       /\ Open(live[h]) /\ ~live[h].job.picked /\ live'[h].job.picked
       => g = h

LEMMA NextIsALifeStep ==
  JobsInv /\ JobsInv' /\ [Next]_vars => Jobs!Step
<1> SUFFICES ASSUME JobsInv, JobsInv', [Next]_vars PROVE Jobs!Step
  OBVIOUS
<1>0. /\ live \in [Hosts -> Live] /\ live' \in [Hosts -> Live]
      /\ nextJob \in Nat /\ nextJob' \in Nat
      /\ ~Open(Blank) /\ ~Blank.job.picked
  BY LimitsAssumption DEF JobsInv, TypeOK, Open, Blank, NoJob
<1>1. ASSUME NEW h \in Hosts, NEW hb \in Heartbeats, Heartbeat(h, hb) PROVE Jobs!Step
  <2>1. \A g \in Hosts : g # h => live'[g] = live[g]
    BY <1>0, <1>1 DEF Heartbeat
  <2>2. live'[h] = AfterDelivery(Digest(live[h], hb))
    BY <1>0, <1>1 DEF Heartbeat
  <2>3. \A g \in Hosts : Continues(live[g], live'[g])
    BY <1>0, <2>1, <2>2, HeartbeatContinues DEF Continues
  <2>4. \A g \in Hosts : ~live[g].job.picked /\ live'[g].job.picked => g = h
    BY <2>1
  <2> QED
    BY <1>1, <2>3, <2>4, BoardStepIsALifeStep DEF Heartbeat
<1>2. ASSUME NEW h \in Hosts, Forget(h) PROVE Jobs!Step
  <2>1. \A g \in Hosts : Continues(live[g], live'[g]) /\ (live'[g].job.picked => live[g].job.picked)
    BY <1>0, <1>2 DEF Forget, Continues
  <2> QED
    BY <1>2, <2>1, BoardStepIsALifeStep DEF Forget
<1>3. ASSUME NEW hs \in Requests, NEW kind \in {"start", "stop"},
             NEW e \in Exams \cup {NoExam}, Enqueue(hs, kind, e)
      PROVE  Jobs!Step
  <2> DEFINE Q == Queued(hs, kind)
  <2>1. Cardinality(Q) \in Nat
    BY CountsAreNaturals DEF Queued, Considered, Requests
  <2>2. nextJob' = nextJob + Cardinality(Q)
    BY <1>3 DEF Enqueue
  <2>3. nextJob <= nextJob'
    <3> HIDE DEF Q
    <3> QED BY <1>0, <2>1, <2>2
  <2>4. ASSUME NEW h \in Hosts, h \in Q
        PROVE  /\ live'[h].job.id = IdFor(hs, kind, h) /\ live'[h].job.id >= nextJob
               /\ Open(live'[h]) /\ ~live'[h].job.picked
    <3>1. h \notin Cancelled(hs, kind)
      BY <2>4 DEF Queued, Cancelled
    <3>2. live'[h] = Opened(live[h], NewJob(hs, kind, e, h))
      BY <1>3, <2>4, <3>1 DEF Enqueue
    <3>3. live'[h].job = NewJob(hs, kind, e, h)
      BY <1>0, <3>2 DEF Opened, Live
    <3>4. live'[h].job.id = IdFor(hs, kind, h) /\ Open(live'[h]) /\ ~live'[h].job.picked
      BY <3>3 DEF NewJob, Open
    <3>5. IdFor(hs, kind, h) \in nextJob..(nextJob + Cardinality(Q) - 1)
      BY <1>0, <2>4, IdsOfACommand
    <3>6. IdFor(hs, kind, h) >= nextJob
      <4> HIDE DEF Q
      <4> QED BY <1>0, <2>1, <3>5
    <3> QED
      BY <3>4, <3>6
  <2>5. ASSUME NEW h \in Hosts, h \notin Q
        PROVE  live'[h] = live[h] \/ live'[h].job = NoJob
    <3>1. CASE h \in Cancelled(hs, kind)
      BY <1>0, <1>3, <3>1 DEF Enqueue, Live
    <3>2. CASE h \notin Cancelled(hs, kind)
      BY <1>3, <2>5, <3>2 DEF Enqueue
    <3> QED
      BY <3>1, <3>2
  <2>6. ~NoJob.picked /\ \A h \in Hosts : live'[h].job = NoJob => ~Open(live'[h])
    BY DEF NoJob, Open
  <2>7. \A h \in Hosts : Open(live'[h]) /\ live'[h].job.id < nextJob => live'[h] = live[h]
    <3> SUFFICES ASSUME NEW h \in Hosts, Open(live'[h]), live'[h].job.id < nextJob
                 PROVE  live'[h] = live[h]
      OBVIOUS
    <3>1. live'[h].job.id \in Nat
      BY <1>0 DEF Live, Job
    <3>2. h \notin Q
      BY <1>0, <2>4, <3>1
    <3> QED
      BY <2>5, <2>6, <3>2
  <2>8. \A i \in Ids : nextJob <= i /\ i < nextJob' =>
          \E h \in Hosts : Open(live'[h]) /\ live'[h].job.id = i /\ ~live'[h].job.picked
    <3> SUFFICES ASSUME NEW i \in Ids, nextJob <= i, i < nextJob'
                 PROVE  \E h \in Hosts : Open(live'[h]) /\ live'[h].job.id = i /\ ~live'[h].job.picked
      OBVIOUS
    <3>1. i \in Nat
      BY LimitsAssumption DEF Ids
    <3>2. PICK h \in Q : IdFor(hs, kind, h) = i
      BY <1>0, <2>2, <3>1, NoIdIsSkipped
    <3>3. h \in Hosts
      BY DEF Queued, Considered, Requests
    <3> QED
      BY <2>4, <3>2, <3>3
  <2>9. \A h \in Hosts : live'[h].job.picked => live[h].job.picked
    BY <2>4, <2>5, <2>6
  <2>10. PhaseShape /\ PhaseShape'
    BY PhasesAreShaped, PTL
  <2> QED
    BY <1>0, <2>3, <2>7, <2>8, <2>9, <2>10, ContinuingIsALifeStep
<1>4. CASE Tick
  <2>1. \A h \in Hosts : AfterTick(live[h]).job.picked => live[h].job.picked
    BY <1>0 DEF AfterTick, NoJob, Live
  <2>2. \A g \in Hosts : Continues(live[g], live'[g]) /\ (live'[g].job.picked => live[g].job.picked)
    BY <1>0, <1>4, <2>1, TickContinues DEF Tick, Continues
  <2> QED
    BY <1>4, <2>2, BoardStepIsALifeStep DEF Tick
<1>5. CASE TimePasses
  <2>1. \A g \in Hosts : Continues(live[g], live'[g]) /\ (live'[g].job.picked => live[g].job.picked)
    BY <1>0, <1>5, AgedContinues DEF TimePasses, Continues
  <2> QED
    BY <1>5, <2>1, BoardStepIsALifeStep DEF TimePasses
<1>6. ASSUME UNCHANGED <<live, nextJob>> PROVE Jobs!Step
  <2>1. \A g \in Hosts : Continues(live[g], live'[g]) /\ (live'[g].job.picked => live[g].job.picked)
    BY <1>6 DEF Continues
  <2> QED
    BY <1>6, <2>1, BoardStepIsALifeStep
<1> QED
  BY <1>1, <1>2, <1>3, <1>4, <1>5, <1>6
     DEF Next, vars, RefuseBoard, Rename, CreateExam, DeleteExam, TakeSnapshot

(* Every job id is issued once, to one board, delivered at most once and     *)
(* never reopened: the fleet implements JobLifecycle.                        *)
THEOREM FleetImplementsLifecycle == Spec => ImplementsLifecycle
<1>1. Init => Jobs!Init
  <2> SUFFICES ASSUME Init PROVE Jobs!Init
    OBVIOUS
  <2>1. nextJob = 1 /\ \A h \in Hosts : ~Open(live[h])
    BY DEF Init, Open, Blank, NoJob
  <2>2. \A i \in 1..JobIdBound : Phase(i) = "unissued" /\ Holds(i) = {}
    BY <2>1, LimitsAssumption DEF Phase, Holds
  <2> QED
    BY <2>2 DEF Jobs!Init
<1>2. JobsInv /\ JobsInv' /\ [Next]_vars => Jobs!Step
  BY NextIsALifeStep
<1> QED
  BY <1>1, <1>2, JobsInvariant, PTL DEF Spec, ImplementsLifecycle, Jobs!Spec

-----------------------------------------------------------------------------
(* The board limit and the dirty flag.                                       *)

LEMMA NextKeepsWarning == TypeOK /\ WarnedMeansFull /\ [Next]_vars => WarnedMeansFull'
<1> SUFFICES ASSUME TypeOK, WarnedMeansFull, [Next]_vars PROVE WarnedMeansFull'
  OBVIOUS
<1>0. MaxBoards \in Nat
  BY LimitsAssumption
<1>1. ASSUME NEW h \in Hosts, NEW hb \in Heartbeats, Heartbeat(h, hb) PROVE WarnedMeansFull'
  <2>1. Known \subseteq Known' /\ Known' \subseteq Hosts
    BY <1>1 DEF Known, Heartbeat, TypeOK
  <2>2. IsFiniteSet(Known') /\ Cardinality(Known') \in Nat /\ Cardinality(Known) \in Nat
    BY <2>1, CountsAreNaturals
  <2>3. Cardinality(Known) <= Cardinality(Known')
    BY <2>1, <2>2, FS_Subset
  <2>4. Cardinality(Known)' = Cardinality(Known') /\ capWarned' = capWarned
    BY <1>1 DEF Heartbeat
  <2> QED
    BY <1>0, <2>2, <2>3, <2>4 DEF WarnedMeansFull
<1>2. ASSUME NEW h \in Hosts, RefuseBoard(h) PROVE WarnedMeansFull'
  <2>1. Known' = Known /\ ~(Cardinality(Known) < MaxBoards)
    BY <1>2 DEF RefuseBoard, Admits, Known
  <2>2. Cardinality(Known) \in Nat
    BY CountsAreNaturals DEF Known
  <2> QED
    BY <1>0, <2>1, <2>2 DEF WarnedMeansFull
<1>3. ASSUME NEW h \in Hosts, Forget(h) PROVE WarnedMeansFull'
  BY <1>3 DEF Forget, WarnedMeansFull
<1>4. ASSUME UNCHANGED <<boards, capWarned>> PROVE WarnedMeansFull'
  <2>1. Known' = Known
    BY <1>4 DEF Known
  <2> QED
    BY <1>4, <2>1 DEF WarnedMeansFull
<1> QED
  BY <1>1, <1>2, <1>3, <1>4
     DEF Next, vars, Rename, Enqueue, CreateExam, DeleteExam, Tick, TimePasses, TakeSnapshot

(* A cap reached anew is reported anew, in whatever order boards appear and  *)
(* are forgotten.                                                            *)
THEOREM WarningStaysTrue == Spec => []WarnedMeansFull
<1>1. Init => WarnedMeansFull
  BY DEF Init, WarnedMeansFull
<1>2. TypeOK /\ WarnedMeansFull /\ [Next]_vars => WarnedMeansFull'
  BY NextKeepsWarning
<1> QED
  BY <1>1, <1>2, TypeCorrect, PTL DEF Spec

(* Logging always marks the state dirty.                                     *)
LEMMA NewsIsDirty ==
  ASSUME NEW S, Log(S)
  PROVE  (news' # {} => dirty') /\ news' = S
BY DEF Log

(* Nothing that is persisted changes behind the saver's back.                *)
THEOREM PersistedChangesAreDirty == Spec => ChangesAreDirty
<1> DEFINE P == Persisted' # Persisted \/ news' # {} => dirty'
<1>1. ASSUME TypeOK, Next PROVE P
  <2>1. ASSUME NEW h \in Hosts, NEW hb \in Heartbeats, Heartbeat(h, hb) PROVE P
    <3>1. CASE boards[h] = "absent"
      <4>1. Event(h, "new board") \in HeartbeatEvents(h, hb)
        BY <3>1 DEF HeartbeatEvents
      <4> QED
        BY <2>1, <4>1, NewsIsDirty DEF Heartbeat
    <3>2. CASE boards[h] # "absent"
      <4>1. Known' = Known
        BY <2>1, <3>2 DEF Heartbeat, Known, TypeOK
      <4>2. Persisted' = Persisted
        BY <2>1, <4>1 DEF Heartbeat, Persisted
      <4> QED
        BY <2>1, <4>2, NewsIsDirty DEF Heartbeat
    <3> QED
      BY <3>1, <3>2
  <2>2. ASSUME NEW h \in Hosts, RefuseBoard(h) PROVE P
    <3>1. Persisted' = Persisted
      BY <2>2 DEF RefuseBoard, Persisted, Known
    <3> QED
      BY <2>2, <3>1, NewsIsDirty DEF RefuseBoard
  <2>3. ASSUME NEW h \in Hosts, Forget(h) PROVE P
    BY <2>3, NewsIsDirty DEF Forget
  <2>4. ASSUME NEW h \in Hosts, NEW l, Rename(h, l) PROVE P
    BY <2>4, NewsIsDirty DEF Rename
  <2>5. ASSUME NEW hs, NEW kind, NEW e, Enqueue(hs, kind, e) PROVE P
    BY <2>5, NewsIsDirty DEF Enqueue
  <2>6. ASSUME NEW e, CreateExam(e) \/ DeleteExam(e) PROVE P
    <3>1. Log({Event(NoHost, "exam created")}) \/ Log({Event(NoHost, "exam deleted")})
      BY <2>6 DEF CreateExam, DeleteExam
    <3>2. dirty' = TRUE
      BY <3>1 DEF Log
    <3> QED
      BY <3>2
  <2>7. CASE Tick
    <3>1. Persisted' = Persisted
      BY <2>7 DEF Tick, Persisted, Known
    <3> QED
      BY <2>7, <3>1, NewsIsDirty DEF Tick
  <2>8. CASE TimePasses
    <3>1. Persisted' = Persisted
      BY <2>8 DEF TimePasses, Persisted, Known
    <3> QED
      BY <2>8, <3>1, NewsIsDirty DEF TimePasses
  <2>9. CASE TakeSnapshot
    BY <2>9 DEF TakeSnapshot, Persisted, Known
  <2> QED
    BY <1>1, <2>1, <2>2, <2>3, <2>4, <2>5, <2>6, <2>7, <2>8, <2>9 DEF Next
<1>2. TypeOK /\ [Next]_vars => [P]_vars
  BY <1>1
<1> QED
  BY <1>2, TypeCorrect, PTL DEF Spec, ChangesAreDirty

-----------------------------------------------------------------------------
(* The account that the log gives of each job.                               *)

(* Events are told apart by their board and by what they say.                *)
LEMMA EventsDiffer ==
  \A g, h, v, w : Event(g, v) = Event(h, w) <=> g = h /\ v = w
BY DEF Event

(* A heartbeat and a tick write of the board alone.                          *)
LEMMA EventsAreTheBoards ==
  /\ \A h, hb : \A ev \in HeartbeatEvents(h, hb) : ev.host = h
  /\ \A h : \A ev \in TickEvents(h) : ev.host = h
<1>1. ASSUME NEW h, NEW hb, NEW ev \in HeartbeatEvents(h, hb) PROVE ev.host = h
  <2>1. \E what : ev = Event(h, what)
    BY Zenon DEF HeartbeatEvents
  <2> QED
    BY <2>1 DEF Event
<1>2. ASSUME NEW h, NEW ev \in TickEvents(h) PROVE ev.host = h
  <2>1. \E what : ev = Event(h, what)
    BY Zenon DEF TickEvents
  <2> QED
    BY <2>1 DEF Event
<1> QED
  BY <1>1, <1>2

(* How a heartbeat ends the job of its board.                                *)
LEMMA HeartbeatEnds ==
  ASSUME NEW h \in Hosts, NEW hb \in Heartbeats, live[h] \in Live, Open(live[h]), live[h].job.id # 0
  PROVE  AfterDelivery(Digest(live[h], hb)).job.id # live[h].job.id <=>
           \E w \in Outcomes(live[h].job) : Event(h, w) \in HeartbeatEvents(h, hb)
<1> DEFINE L == live[h]
           R == AfterResult(L, hb)
           C == AfterCompletion(R, hb)
           D == Digest(L, hb)
           M == AfterDelivery(D)
           failed == FailedBy(L, hb)
           done == FinishedBy(R, hb)
           back == boards[h] = "live" /\ (L.noted \/ IsOffline(L))
           Whats == (IF boards[h] = "absent" THEN {"new board"} ELSE {})
                      \cup (IF back THEN {"back online"} ELSE {})
                      \cup (IF failed THEN {"failed"} ELSE {})
                      \cup (IF ~done THEN {} ELSE IF R.job.kind = "start" THEN {"running"} ELSE {"stopped"})
                      \cup (IF ~done /\ EndedBy(R, hb) THEN {"ended"} ELSE {})
<1>1. HeartbeatEvents(h, hb) = {Event(h, what) : what \in Whats}
  BY DEF HeartbeatEvents
<1>2. R \in Live /\ R.job = IF failed THEN NoJob ELSE L.job
  BY BlankTyped DEF AfterResult, Live, Errors
<1>3. C.job = IF done THEN NoJob ELSE R.job
  BY <1>2 DEF AfterCompletion, Live
<1>4. D.job = C.job /\ M.job.id = D.job.id
  <2>1. C \in Live
    <3>1. CASE done
      BY <1>2, <3>1, BlankTyped DEF AfterCompletion, Live, Errors, Job
    <3>2. CASE ~done /\ EndedBy(R, hb)
      BY <1>2, <3>2 DEF AfterCompletion, Live, Errors
    <3> QED
      BY <1>2, <3>1, <3>2 DEF AfterCompletion
  <2>2. AfterNaming(C, hb).job = C.job /\ AfterNaming(C, hb) \in Live
    BY <2>1 DEF AfterNaming, Live, Listed
  <2>3. D \in Live
    BY HeartbeatTyped
  <2>4. D.job = C.job
    BY <2>2 DEF Digest, Live
  <2> HIDE DEF D
  <2>5. M.job.id = D.job.id
    BY <2>3 DEF AfterDelivery, Live, Job
  <2> QED
    BY <2>4, <2>5
<1>5. done => ~failed
  BY <1>2 DEF FinishedBy, NoJob
<1>6. done => R.job = L.job /\ (L.job.kind = "start" \/ (L.job.kind = "stop" /\ L.job.picked))
  BY <1>2, <1>5 DEF FinishedBy
<1>7. NoJob.id = 0
  BY DEF NoJob
<1> HIDE DEF R, C, D, M, failed, done, back, Whats
<1>8. M.job.id # L.job.id <=> failed \/ done
  BY <1>2, <1>3, <1>4, <1>7
<1>9. L.job.kind \in {"start", "stop"}
  BY DEF Open, Live, Job
<1>10. (\E w \in Outcomes(L.job) : w \in Whats) <=> failed \/ done
  <2>1. Whats \cap {"timed out", "forgotten", "queued", "expired", "cancelled"} = {}
    BY DEF Whats
  <2>2. "failed" \in Whats <=> failed
    BY DEF Whats
  <2>3. "running" \in Whats <=> done /\ R.job.kind = "start"
    BY DEF Whats
  <2>4. "stopped" \in Whats <=> done /\ R.job.kind # "start"
    BY DEF Whats
  <2> QED
    BY <1>6, <1>9, <2>1, <2>2, <2>3, <2>4 DEF Outcomes
<1>11. \A w : Event(h, w) \in HeartbeatEvents(h, hb) <=> w \in Whats
  BY <1>1, EventsDiffer
<1> QED
  BY <1>8, <1>10, <1>11 DEF M, D, L

(* How the background task ends a job.                                       *)
LEMMA TickEnds ==
  ASSUME NEW h \in Hosts, live[h] \in Live, Open(live[h]), live[h].job.id # 0
  PROVE  AfterTick(live[h]).job.id # live[h].job.id <=>
           \E w \in Outcomes(live[h].job) : Event(h, w) \in TickEvents(h)
<1> DEFINE L == live[h]
           Whats == (IF IsOffline(L) /\ ~L.noted THEN {"offline"} ELSE {})
                      \cup (IF ~Expired(L) THEN {}
                            ELSE IF L.job.picked THEN {"timed out"} ELSE {"expired"})
<1>1. TickEvents(h) = {Event(h, what) : what \in Whats}
  BY DEF TickEvents
<1>2. AfterTick(L).job = IF Expired(L) THEN NoJob ELSE L.job
  BY DEF AfterTick, Live
<1>3. NoJob.id = 0
  BY DEF NoJob
<1> HIDE DEF L
<1>4. L.job.kind \in {"start", "stop"}
  BY DEF Open, Live, Job, L
<1>5. (\E w \in Outcomes(L.job) : w \in Whats) <=> Expired(L)
  <2>1. "timed out" \in Whats <=> Expired(L) /\ L.job.picked
    OBVIOUS
  <2>2. "expired" \in Whats <=> Expired(L) /\ ~L.job.picked
    OBVIOUS
  <2>3. Whats \subseteq {"offline", "timed out", "expired"}
    OBVIOUS
  <2> HIDE DEF Whats
  <2> QED
    BY <2>1, <2>2, <2>3 DEF Outcomes
<1> HIDE DEF Whats
<1>6. \A w : Event(h, w) \in TickEvents(h) <=> w \in Whats
  BY <1>1, EventsDiffer
<1> QED
  BY <1>2, <1>3, <1>5, <1>6 DEF L

(* What it means that the log accounts for the job of a board in a step.     *)
Accounted(h) ==
  Open(live[h]) =>
    (Ends(h) <=> \E w \in Outcomes(live[h].job) : Event(h, w) \in news')

(* The board's events in the log of a step are Event(h, w).                  *)
LEMMA AccountOfEvents ==
  ASSUME news' \subseteq [host: Hosts \cup {NoHost}, what: EventKinds],
         NEW h \in Hosts, Accounted(h)
  PROVE  Open(live[h]) =>
           (Ends(h) <=> \E ev \in news' : ev.host = h /\ ev.what \in Outcomes(live[h].job))
<1>1. ASSUME NEW ev \in news' PROVE ev = Event(ev.host, ev.what)
  BY DEF Event
<1>2. \A w : Event(h, w).host = h /\ Event(h, w).what = w
  BY DEF Event
<1> QED
  BY <1>1, <1>2 DEF Accounted

(* A board whose job goes on and whose events name no outcome.               *)
LEMMA NothingEnds ==
  ASSUME NEW h \in Hosts, live'[h].job.id = live[h].job.id,
         \A w \in Outcomes(live[h].job) : Event(h, w) \notin news'
  PROVE  Accounted(h)
BY DEF Accounted, Ends

(* A board whose job goes away, with an outcome in the log.                  *)
LEMMA AnOutcomeEnds ==
  ASSUME NEW h \in Hosts, live'[h].job.id # live[h].job.id,
         NEW w \in Outcomes(live[h].job), Event(h, w) \in news'
  PROVE  Accounted(h)
BY DEF Accounted, Ends

(* Every step accounts for every job.                                        *)
LEMMA StepsAreAccountedFor ==
  ASSUME JobsInv, Next, NEW h \in Hosts
  PROVE  Accounted(h)
<1>0. /\ live \in [Hosts -> Live] /\ nextJob \in Nat /\ live[h] \in Live
      /\ \A g \in Hosts : boards[g] # "live" => live[g] = Blank
      /\ NoHost \notin Hosts /\ Blank.job.id = 0 /\ NoJob.id = 0 /\ ~Open(Blank)
  BY LimitsAssumption, NullsAssumption DEF JobsInv, TypeOK, Open, Blank, NoJob
<1> SUFFICES ASSUME Open(live[h]) PROVE Accounted(h)
  BY DEF Accounted
<1>1. live[h].job.id \in 1..nextJob - 1 /\ live[h].job.id # 0 /\ boards[h] = "live"
  BY <1>0 DEF JobsInv, JobIdsUnique
<1>2. live[h].job.kind \in {"start", "stop"}
  BY <1>0 DEF Open, Live, Job
<1>3. ASSUME NEW S, news' = S, \A w : Event(h, w) \notin S, live'[h].job.id = live[h].job.id
      PROVE  Accounted(h)
  BY <1>3, NothingEnds
<1>4. ASSUME NEW g \in Hosts, NEW hb \in Heartbeats, Heartbeat(g, hb) PROVE Accounted(h)
  <2>0. news' = HeartbeatEvents(g, hb)
    BY <1>4 DEF Heartbeat, Log
  <2>1. CASE g = h
    <3>1. live'[h] = AfterDelivery(Digest(live[h], hb))
      BY <1>0, <1>4, <2>1 DEF Heartbeat
    <3>2. live'[h].job.id # live[h].job.id <=>
            \E w \in Outcomes(live[h].job) : Event(h, w) \in news'
      BY <1>0, <1>1, <2>0, <2>1, <3>1, HeartbeatEnds
    <3> QED
      BY <3>2 DEF Accounted, Ends
  <2>2. CASE g # h
    <3>1. live'[h] = live[h]
      BY <1>0, <1>4, <2>2 DEF Heartbeat
    <3>2. \A w : Event(h, w) \notin HeartbeatEvents(g, hb)
      BY <2>2, EventsAreTheBoards DEF Event
    <3> QED
      BY <1>3, <2>0, <3>1, <3>2
  <2> QED
    BY <2>1, <2>2
<1>5. ASSUME NEW g \in Hosts, RefuseBoard(g) PROVE Accounted(h)
  <2>1. news' \subseteq {Event(g, "limit")} /\ live' = live
    BY <1>5 DEF RefuseBoard, Log
  <2>2. "limit" \notin Outcomes(live[h].job)
    BY DEF Outcomes
  <2> QED
    BY <2>1, <2>2, EventsDiffer, NothingEnds
<1>6. ASSUME NEW g \in Hosts, Forget(g) PROVE Accounted(h)
  <2>0. news' = {Event(g, "forgotten")}
    BY <1>6 DEF Forget, Log
  <2>1. CASE g = h
    <3>1. live'[h] = Blank
      BY <1>0, <1>6, <2>1 DEF Forget
    <3>2. "forgotten" \in Outcomes(live[h].job)
      BY DEF Outcomes
    <3> QED
      BY <1>0, <1>1, <2>0, <2>1, <3>1, <3>2, AnOutcomeEnds
  <2>2. CASE g # h
    <3>1. live'[h] = live[h]
      BY <1>0, <1>6, <2>2 DEF Forget
    <3> QED
      BY <1>3, <2>0, <2>2, <3>1, EventsDiffer
  <2> QED
    BY <2>1, <2>2
<1>7. ASSUME NEW g \in Hosts, NEW l \in Labels \cup {NoLabel}, Rename(g, l) PROVE Accounted(h)
  <2>1. news' = {Event(g, "renamed")} /\ live' = live
    BY <1>7 DEF Rename, Log
  <2>2. "renamed" \notin Outcomes(live[h].job)
    BY DEF Outcomes
  <2> QED
    BY <2>1, <2>2, EventsDiffer, NothingEnds
<1>8. ASSUME NEW hs \in Requests, NEW kind \in {"start", "stop"},
             NEW e \in Exams \cup {NoExam}, Enqueue(hs, kind, e)
      PROVE  Accounted(h)
  <2> DEFINE Q == Queued(hs, kind)
             C == Cancelled(hs, kind)
  <2>0. news' = {Event(NoHost, "command")} \cup {Event(g, "cancelled") : g \in C}
                  \cup {Event(g, "queued") : g \in Q}
    BY <1>8 DEF Enqueue, Log
  <2>1. \A w : Event(h, w) \in news' <=> (w = "cancelled" /\ h \in C) \/ (w = "queued" /\ h \in Q)
    <3> HIDE DEF Q, C
    <3> QED
      BY <1>0, <2>0, EventsDiffer
  <2>2. CASE h \in C
    <3>1. live'[h] = [live[h] EXCEPT !.job = NoJob]
      BY <1>8, <2>2 DEF Enqueue
    <3>2. live'[h].job.id = 0
      BY <1>0, <3>1 DEF Live
    <3>3. live[h].job.kind = "start" /\ ~live[h].job.picked
      BY <2>2 DEF Cancelled, Cancels
    <3>4. "cancelled" \in Outcomes(live[h].job)
      BY <3>3 DEF Outcomes
    <3> QED
      BY <1>1, <2>1, <2>2, <3>2, <3>4, AnOutcomeEnds
  <2>3. CASE h \in Q
    <3>1. h \notin C
      BY <2>3 DEF Queued, Cancelled
    <3>2. live'[h] = Opened(live[h], NewJob(hs, kind, e, h))
      BY <1>8, <2>3, <3>1 DEF Enqueue
    <3>3. live'[h].job.id = IdFor(hs, kind, h)
      BY <1>0, <3>2 DEF Opened, NewJob, Live
    <3>4. Cardinality(Q) \in Nat
      BY CountsAreNaturals DEF Queued, Considered, Requests
    <3>5. IdFor(hs, kind, h) \in nextJob..(nextJob + Cardinality(Q) - 1)
      BY <1>0, <2>3, IdsOfACommand
    <3>6. live'[h].job.id # live[h].job.id
      <4> HIDE DEF Q
      <4> QED
        BY <1>0, <1>1, <3>3, <3>4, <3>5
    <3>7. live[h].job.kind = "start" /\ live[h].job.picked
      BY <1>2, <2>3 DEF Queued, Skips, Refuses, Cancels
    <3>8. "queued" \in Outcomes(live[h].job)
      BY <3>7 DEF Outcomes
    <3> QED
      BY <2>1, <2>3, <3>6, <3>8, AnOutcomeEnds
  <2>4. CASE h \notin C /\ h \notin Q
    <3>1. live'[h] = live[h]
      BY <1>8, <2>4 DEF Enqueue
    <3> QED
      BY <1>3, <2>1, <2>4, <3>1
  <2> QED
    BY <2>2, <2>3, <2>4
<1>9. ASSUME NEW e \in Exams, CreateExam(e) \/ DeleteExam(e) PROVE Accounted(h)
  <2>1. live' = live /\ \E w : news' = {Event(NoHost, w)}
    BY <1>9 DEF CreateExam, DeleteExam, Log
  <2> QED
    BY <1>0, <1>3, <2>1, EventsDiffer
<1>10. CASE Tick
  <2>1. live'[h] = AfterTick(live[h])
    BY <1>1, <1>10 DEF Tick
  <2>2. news' = UNION {TickEvents(g) : g \in {f \in Hosts : boards[f] = "live"}}
    BY <1>10 DEF Tick, Log
  <2>3. \A w : Event(h, w) \in news' <=> Event(h, w) \in TickEvents(h)
    <3>1. \A g, w : Event(h, w) \in TickEvents(g) => g = h
      BY EventsAreTheBoards DEF Event
    <3> QED
      BY <1>1, <2>2, <3>1
  <2>4. live'[h].job.id # live[h].job.id <=>
          \E w \in Outcomes(live[h].job) : Event(h, w) \in TickEvents(h)
    BY <1>0, <1>1, <2>1, TickEnds
  <2> QED
    BY <2>3, <2>4 DEF Accounted, Ends
<1>11. CASE TimePasses
  <2>1. live'[h] = Aged(live[h]) /\ news' = {}
    BY <1>1, <1>11 DEF TimePasses, Log
  <2>2. live'[h].job.id = live[h].job.id
    BY <1>0, <2>1, AgedContinues
  <2> QED
    BY <2>1, <2>2, NothingEnds
<1>12. CASE TakeSnapshot
  BY <1>3, <1>12 DEF TakeSnapshot
<1> QED
  BY <1>4, <1>5, <1>6, <1>7, <1>8, <1>9, <1>10, <1>11, <1>12 DEF Next

(* The log accounts for every job: it ends in exactly the steps that write   *)
(* an outcome for its board, an outcome its phase allows.                    *)
THEOREM JobsAreAccountedFor == Spec => JobsEndOnTheRecord
<1> DEFINE P == \A h \in Hosts :
                  Open(live[h]) =>
                    (Ends(h) <=> \E ev \in news' : ev.host = h /\ ev.what \in Outcomes(live[h].job))
<1>1. JobsInv /\ [Next]_vars => [P]_vars
  <2> SUFFICES ASSUME JobsInv, Next PROVE P
    OBVIOUS
  <2>1. news' \subseteq [host: Hosts \cup {NoHost}, what: EventKinds]
    BY NextTyped DEF JobsInv, TypeOK
  <2> QED
    BY <2>1, StepsAreAccountedFor, AccountOfEvents
<1> QED
  BY <1>1, JobsInvariant, PTL DEF Spec, JobsEndOnTheRecord

=============================================================================
