-------------------------- MODULE ExamControlProofs --------------------------
(***************************************************************************)
(* What holds of the server, its boards and their agents together, for any *)
(* number of boards, exams, jobs and restarts and for any limits: types,   *)
(* and the four promises of ExamControl about what an agent reports and    *)
(* what the console says of a board.                                       *)
(*                                                                         *)
(* FleetProofs has the facts about the fleet alone.  ExamControl names the *)
(* fleet F, and this module names it FP together with those facts.         *)
(***************************************************************************)
EXTENDS ExamControl, TLAPS

FP == INSTANCE FleetProofs

-----------------------------------------------------------------------------
(* The two names stand for the same methods.                                 *)

LEMMA SameInit == F!Init <=> FP!Init
BY Zenon DEF F!NoExam, FP!NoExam, F!NoLabel, FP!NoLabel, F!NoHost, FP!NoHost, F!NoJob, FP!NoJob,
  F!Blank, FP!Blank, F!Event, FP!Event, F!Init, FP!Init

LEMMA SameHeartbeats == F!Heartbeats = FP!Heartbeats
BY Zenon DEF F!NoExam, FP!NoExam, F!Results, FP!Results, F!Heartbeats, FP!Heartbeats

LEMMA SameRequests == F!Requests = FP!Requests
BY Zenon DEF F!Cardinality, FP!Cardinality, F!Requests, FP!Requests

LEMMA SameHeartbeat == ASSUME NEW h, NEW hb
  PROVE  F!Heartbeat(h, hb) <=> FP!Heartbeat(h, hb)
BY Zenon DEF F!Cardinality, FP!Cardinality, F!NoExam, FP!NoExam, F!NoJob, FP!NoJob, F!Event,
  FP!Event, F!Open, FP!Open, F!Known, FP!Known, F!Listed, FP!Listed, F!IsOffline,
  FP!IsOffline, F!Log, FP!Log, F!FailedBy, FP!FailedBy, F!AfterResult, FP!AfterResult,
  F!FinishedBy, FP!FinishedBy, F!EndedBy, FP!EndedBy, F!AfterCompletion,
  FP!AfterCompletion, F!AfterNaming, FP!AfterNaming, F!AfterDelivery, FP!AfterDelivery,
  F!Digest, FP!Digest, F!HeartbeatEvents, FP!HeartbeatEvents, F!Admits, FP!Admits,
  F!Heartbeat, FP!Heartbeat

LEMMA SameEnqueue == ASSUME NEW hs, NEW kind, NEW e
  PROVE  F!Enqueue(hs, kind, e) <=> FP!Enqueue(hs, kind, e)
BY Zenon DEF F!Cardinality, FP!Cardinality, F!NoExam, FP!NoExam, F!NoHost, FP!NoHost, F!NoJob,
  FP!NoJob, F!Event, FP!Event, F!Open, FP!Open, F!Listed, FP!Listed, F!IsOffline,
  FP!IsOffline, F!Log, FP!Log, F!Refuses, FP!Refuses, F!Skips, FP!Skips, F!Cancels,
  FP!Cancels, F!Considered, FP!Considered, F!Cancelled, FP!Cancelled, F!Queued,
  FP!Queued, F!Position, FP!Position, F!IdFor, FP!IdFor, F!NewJob, FP!NewJob, F!Opened,
  FP!Opened, F!Enqueue, FP!Enqueue

LEMMA SameForget == ASSUME NEW h
  PROVE  F!Forget(h) <=> FP!Forget(h)
BY Zenon DEF F!NoExam, FP!NoExam, F!NoLabel, FP!NoLabel, F!NoJob, FP!NoJob, F!Blank, FP!Blank,
  F!Event, FP!Event, F!Log, FP!Log, F!Forget, FP!Forget

LEMMA SameTick == F!Tick <=> FP!Tick
BY Zenon DEF F!NoExam, FP!NoExam, F!NoJob, FP!NoJob, F!Event, FP!Event, F!Open, FP!Open,
  F!IsOffline, FP!IsOffline, F!Deadline, FP!Deadline, F!Log, FP!Log, F!Expired,
  FP!Expired, F!AfterTick, FP!AfterTick, F!TickEvents, FP!TickEvents, F!Tick, FP!Tick

LEMMA SameTimePasses == F!TimePasses <=> FP!TimePasses
BY Zenon DEF F!Deadline, FP!Deadline, F!Log, FP!Log, F!Older, FP!Older, F!AgedJob, FP!AgedJob,
  F!Aged, FP!Aged, F!TimePasses, FP!TimePasses

LEMMA SameTakeSnapshot == F!TakeSnapshot <=> FP!TakeSnapshot
BY Zenon DEF F!TakeSnapshot, FP!TakeSnapshot

LEMMA SameTypeOK == F!TypeOK <=> FP!TypeOK
BY Zenon DEF F!NoExam, FP!NoExam, F!NoLabel, FP!NoLabel, F!NoHost, FP!NoHost, F!Errors, FP!Errors,
  F!Job, FP!Job, F!NoJob, FP!NoJob, F!Live, FP!Live, F!Blank, FP!Blank, F!EventKinds,
  FP!EventKinds, F!TypeOK, FP!TypeOK

LEMMA SameJobIdsUnique == F!JobIdsUnique <=> FP!JobIdsUnique
BY Zenon DEF F!Open, FP!Open, F!JobIdsUnique, FP!JobIdsUnique

LEMMA SameNoErrorBesideJob == F!NoErrorBesideJob <=> FP!NoErrorBesideJob
BY Zenon DEF F!Open, FP!Open, F!NoErrorBesideJob, FP!NoErrorBesideJob

LEMMA FleetConstants == FP!NullsAssumption /\ FP!LimitsAssumption /\ FP!HostsAssumption
BY FleetAssumption
   DEF FP!NullsAssumption, FP!LimitsAssumption, FP!HostsAssumption, F!NoExam, FP!NoExam,
       F!NoLabel, FP!NoLabel, F!NoHost, FP!NoHost, IsFiniteSet, F!IsFiniteSet, FP!IsFiniteSet

(* What FleetProofs shows of every step of the fleet: types, distinct ids of *)
(* open jobs, no error beside a job.                                         *)
FleetOK == F!TypeOK /\ F!JobIdsUnique /\ F!NoErrorBesideJob

LEMMA FleetInit == F!Init => FleetOK
<1> SUFFICES ASSUME FP!Init PROVE FP!TypeOK /\ FP!JobIdsUnique /\ FP!NoErrorBesideJob
  BY SameInit, SameTypeOK, SameJobIdsUnique, SameNoErrorBesideJob, Zenon DEF FleetOK
<1>1. FP!TypeOK
  BY FleetConstants, FP!InitTyped, Zenon
<1>2. \A h \in Hosts : ~FP!Open(live[h])
  BY Zenon DEF FP!Init, FP!Open, FP!Blank, FP!NoJob
<1> QED
  BY <1>1, <1>2, Zenon DEF FP!JobIdsUnique, FP!NoErrorBesideJob

(* The steps of the fleet that the composition takes.                        *)
FleetStep ==
  \/ \E h \in Hosts, hb \in F!Heartbeats : F!Heartbeat(h, hb)
  \/ \E hs \in F!Requests, e \in Exams : F!Enqueue(hs, "start", e)
  \/ \E hs \in F!Requests : F!Enqueue(hs, "stop", F!NoExam)
  \/ \E h \in Hosts : F!Forget(h)
  \/ F!Tick \/ F!TimePasses \/ F!TakeSnapshot
  \/ UNCHANGED fleetVars

LEMMA FleetStepIsOne == FleetStep => [FP!Next]_(FP!vars)
<1> SUFFICES ASSUME FleetStep PROVE FP!Next \/ UNCHANGED FP!vars
  OBVIOUS
<1>1. CASE \E h \in Hosts, hb \in F!Heartbeats : F!Heartbeat(h, hb)
  BY <1>1, SameHeartbeats, SameHeartbeat, Zenon DEF FP!Next
<1>2. CASE \E hs \in F!Requests, e \in Exams : F!Enqueue(hs, "start", e)
  BY <1>2, SameRequests, SameEnqueue, Zenon DEF FP!Next
<1>3. CASE \E hs \in F!Requests : F!Enqueue(hs, "stop", F!NoExam)
  BY <1>3, SameRequests, SameEnqueue, Zenon DEF FP!Next, F!NoExam, FP!NoExam
<1>4. CASE \E h \in Hosts : F!Forget(h)
  BY <1>4, SameForget, Zenon DEF FP!Next
<1>5. CASE F!Tick \/ F!TimePasses \/ F!TakeSnapshot
  BY <1>5, SameTick, SameTimePasses, SameTakeSnapshot, Zenon DEF FP!Next
<1>6. CASE UNCHANGED fleetVars
  BY <1>6, Zenon DEF fleetVars, FP!vars
<1> QED
  BY <1>1, <1>2, <1>3, <1>4, <1>5, <1>6, Zenon DEF FleetStep

LEMMA FleetStays == FleetOK /\ FleetStep => FleetOK'
<1> SUFFICES ASSUME FleetOK, FleetStep PROVE FleetOK'
  OBVIOUS
<1>1. FP!JobsInv
  BY SameTypeOK, SameJobIdsUnique, SameNoErrorBesideJob, Zenon DEF FleetOK, FP!JobsInv
<1>2. FP!TypeOK' /\ FP!JobIdsUnique' /\ FP!NoErrorBesideJob'
  BY <1>1, FleetConstants, FleetStepIsOne, FP!NextTyped, FP!NextKeepsJobs, Zenon DEF FP!JobsInv
<1>3. /\ F!TypeOK' <=> FP!TypeOK'
      /\ F!JobIdsUnique' <=> FP!JobIdsUnique'
      /\ F!NoErrorBesideJob' <=> FP!NoErrorBesideJob'
  BY SameTypeOK, SameJobIdsUnique, SameNoErrorBesideJob, PTL
<1> QED
  BY <1>2, <1>3, Zenon DEF FleetOK

-----------------------------------------------------------------------------
(* What the methods do to the record of one board.                           *)

(* A heartbeat leaves the state that it reports, and of an open job at most  *)
(* the delivered one; a start is open after it only if the browser is down.  *)
LEMMA AfterHeartbeat ==
  ASSUME NEW L \in F!Live, NEW hb \in F!Heartbeats
  PROVE  LET D == F!Digest(L, hb)
             M == F!AfterDelivery(D)
         IN  /\ D \in F!Live /\ M \in F!Live
             /\ M.running = hb.running /\ M.seen = 0
             /\ F!Open(M) => /\ F!Open(D) /\ M.job.id = D.job.id /\ M.job.kind = D.job.kind
                             /\ M.job.exam = D.job.exam /\ M.job.picked
             /\ F!Open(D) => F!Open(M) /\ (~D.job.picked => M.job.age = 0)
             /\ F!Open(D) => D.job = L.job
             /\ F!Open(D) /\ D.job.kind = "start" => ~hb.running
<1> DEFINE R == F!AfterResult(L, hb)
           C == F!AfterCompletion(R, hb)
           N == F!AfterNaming(C, hb)
           D == F!Digest(L, hb)
           M == F!AfterDelivery(D)
<1>0. F!NoJob \in F!Job /\ hb.running \in BOOLEAN /\ F!NoJob.kind = "none"
  BY DEF F!NoJob, F!Job, F!Heartbeats
<1>1. R \in F!Live /\ (F!Open(R) => R.job = L.job)
  <2>1. CASE F!FailedBy(L, hb)
    BY <1>0, <2>1 DEF F!AfterResult, F!Live, F!Errors, F!Open
  <2>2. CASE ~F!FailedBy(L, hb)
    BY <2>2 DEF F!AfterResult
  <2> QED
    BY <2>1, <2>2
<1> HIDE DEF R
<1>2. C \in F!Live /\ (F!Open(C) => C.job = R.job /\ ~F!FinishedBy(R, hb))
  <2>1. CASE F!FinishedBy(R, hb)
    BY <1>0, <1>1, <2>1 DEF F!AfterCompletion, F!Live, F!Errors, F!Job, F!Open
  <2>2. CASE ~F!FinishedBy(R, hb) /\ F!EndedBy(R, hb)
    BY <1>1, <2>2 DEF F!AfterCompletion, F!Live, F!Errors, F!Open
  <2>3. CASE ~F!FinishedBy(R, hb) /\ ~F!EndedBy(R, hb)
    BY <1>1, <2>3 DEF F!AfterCompletion
  <2> QED
    BY <2>1, <2>2, <2>3
<1> HIDE DEF C
<1>3. N \in F!Live /\ N.job = C.job
  BY <1>2 DEF F!AfterNaming, F!Live, F!Listed
<1> HIDE DEF N
<1>4. D = [N EXCEPT !.seen = 0, !.noted = FALSE, !.running = hb.running]
  BY DEF F!Digest, N, C, R
<1> HIDE DEF D
<1>5. D \in F!Live /\ D.job = N.job /\ D.running = hb.running /\ D.seen = 0
  BY <1>0, <1>3, <1>4 DEF F!Live
<1>6. F!Open(D) => D.job = L.job
  BY <1>1, <1>2, <1>3, <1>5 DEF F!Open
<1>7. F!Open(D) /\ D.job.kind = "start" => ~hb.running
  BY <1>2, <1>3, <1>5 DEF F!Open, F!FinishedBy
<1>8. /\ M \in F!Live
      /\ M.running = D.running /\ M.seen = D.seen
      /\ F!Open(M) => /\ F!Open(D) /\ M.job.id = D.job.id /\ M.job.kind = D.job.kind
                      /\ M.job.exam = D.job.exam /\ M.job.picked
      /\ F!Open(D) => F!Open(M) /\ (~D.job.picked => M.job.age = 0)
  <2>1. CASE F!Open(D) /\ ~D.job.picked
    <3>1. M = [D EXCEPT !.job = [D.job EXCEPT !.picked = TRUE, !.age = 0]]
      BY <1>5, <2>1 DEF F!AfterDelivery, F!Live, F!Job
    <3> HIDE DEF M
    <3>2. D.job \in F!Job /\ M.job = [D.job EXCEPT !.picked = TRUE, !.age = 0]
      BY <1>5, <3>1 DEF F!Live
    <3> QED
      BY <1>5, <2>1, <3>1, <3>2 DEF F!Live, F!Job, F!Open
  <2>2. CASE ~(F!Open(D) /\ ~D.job.picked)
    BY <1>5, <2>2 DEF F!AfterDelivery, F!Live, F!Job, F!Open
  <2> QED
    BY <2>1, <2>2
<1> HIDE DEF M
<1> QED
  BY <1>5, <1>6, <1>7, <1>8 DEF D, M

(* "running" is logged when the start that is open is completed.             *)
LEMMA RunningCompletes ==
  ASSUME NEW h \in Hosts, NEW g \in Hosts, NEW hb \in F!Heartbeats, live[h] \in F!Live,
         F!Event(g, "running") \in F!HeartbeatEvents(h, hb)
  PROVE  g = h /\ F!Open(live[h]) /\ live[h].job.kind = "start" /\ hb.running
<1> DEFINE R == F!AfterResult(live[h], hb)
<1>1. g = h /\ F!FinishedBy(R, hb) /\ R.job.kind = "start"
  <2>1. PICK what :
          /\ F!Event(g, "running") = F!Event(h, what)
          /\ what \in (IF boards[h] = "absent" THEN {"new board"} ELSE {})
               \cup (IF boards[h] = "live" /\ (live[h].noted \/ F!IsOffline(live[h]))
                     THEN {"back online"} ELSE {})
               \cup (IF F!FailedBy(live[h], hb) THEN {"failed"} ELSE {})
               \cup (IF ~F!FinishedBy(R, hb) THEN {}
                     ELSE IF R.job.kind = "start" THEN {"running"} ELSE {"stopped"})
               \cup (IF ~F!FinishedBy(R, hb) /\ F!EndedBy(R, hb) THEN {"ended"} ELSE {})
    BY Zenon DEF F!HeartbeatEvents
  <2>2. g = h /\ what = "running"
    BY <2>1 DEF F!Event
  <2> HIDE DEF R
  <2> QED
    BY <2>1, <2>2
<1>2. R.job.kind = "start" => R = live[h]
  <2>1. CASE F!FailedBy(live[h], hb)
    BY <2>1 DEF F!AfterResult, F!NoJob, F!Live
  <2>2. CASE ~F!FailedBy(live[h], hb)
    BY <2>2 DEF F!AfterResult
  <2> QED
    BY <2>1, <2>2
<1> QED
  BY <1>1, <1>2 DEF F!FinishedBy, F!Open

(* No other method logs it.                                                  *)
LEMMA OthersDoNotSayRunning ==
  ASSUME NEW g
  PROVE  /\ \A h, what : what # "running" => F!Event(g, "running") # F!Event(h, what)
         /\ \A h : F!Event(g, "running") \notin F!TickEvents(h)
<1>1. \A h, what : what # "running" => F!Event(g, "running") # F!Event(h, what)
  BY DEF F!Event
<1>2. ASSUME NEW h, F!Event(g, "running") \in F!TickEvents(h) PROVE FALSE
  <2>1. PICK what \in {"offline", "timed out", "expired"} : F!Event(g, "running") = F!Event(h, what)
    BY <1>2 DEF F!TickEvents
  <2> QED
    BY <1>1, <2>1
<1> QED
  BY <1>1, <1>2

-----------------------------------------------------------------------------
(* A start and the browser that it brings.                                   *)

(* What the record L of a board with badge b says when, in truth, the        *)
(* browser runs or is about to (busy) for the exam `exam`: running, or the   *)
(* command that explains it, or that the board is silent.  An explanation    *)
(* is younger than the silence, so it cannot time out before the board is    *)
(* offline; and a start that is still open is the one that was executed.     *)
Explains(L, b, busy, exam) ==
  /\ F!Open(L) /\ L.job.kind = "start" => ~L.running
  /\ b = "live" /\ busy /\ ~L.running =>
       /\ F!IsOffline(L) \/ (F!Open(L) /\ L.job.age <= L.seen)
       /\ F!Open(L) /\ L.job.kind = "start" => L.job.picked /\ L.job.exam = exam

(* A blank record explains everything.                                       *)
LEMMA BlankExplains == \A b, busy, exam : b # "live" => Explains(F!Blank, b, busy, exam)
BY DEF Explains, F!Open, F!Blank, F!NoJob

LEMMA TickExplains ==
  ASSUME NEW L \in F!Live, NEW b, NEW busy, NEW exam, Explains(L, b, busy, exam)
  PROVE  Explains(F!AfterTick(L), b, busy, exam)
<1> DEFINE M == F!AfterTick(L)
<1> SUFFICES Explains(M, b, busy, exam)
  OBVIOUS
<1>1. /\ M.running = L.running /\ M.seen = L.seen
      /\ M.job = IF F!Expired(L) THEN F!NoJob ELSE L.job
  BY DEF F!AfterTick, F!Live, F!Errors
<1>2. F!Expired(L) /\ L.job.age <= L.seen => F!IsOffline(L)
  <2>1. F!Deadline(L.job) \in Nat /\ OfflineAfter \in Nat /\ OfflineAfter <= F!Deadline(L.job)
    BY FleetAssumption, PatienceAssumption DEF F!Deadline
  <2>2. L.job.age \in Nat /\ L.seen \in Nat
    BY DEF F!Live, F!Job
  <2> QED
    BY <2>1, <2>2 DEF F!Expired, F!IsOffline
<1>3. F!Open(M) => M.job = L.job
  BY <1>1 DEF F!Open, F!NoJob
<1>4. F!IsOffline(M) = F!IsOffline(L)
  BY <1>1 DEF F!IsOffline
<1>5. F!Open(L) /\ ~F!Expired(L) => F!Open(M)
  BY <1>1 DEF F!Open
<1> HIDE DEF M
<1> QED
  BY <1>1, <1>2, <1>3, <1>4, <1>5 DEF Explains, F!Open

LEMMA TimeExplains ==
  ASSUME NEW L \in F!Live, NEW b, NEW busy, NEW exam, Explains(L, b, busy, exam)
  PROVE  Explains(F!Aged(L), b, busy, exam)
<1> DEFINE M == F!Aged(L)
<1> SUFFICES Explains(M, b, busy, exam)
  OBVIOUS
<1>1. M.running = L.running /\ M.seen = F!Older(L.seen, OfflineAfter) /\ M.job = F!AgedJob(L.job)
  BY DEF F!Aged, F!Live
<1>2. L.job \in F!Job /\ L.seen \in Nat /\ L.job.age \in Nat
  BY DEF F!Live, F!Job
<1>3. /\ M.job.kind = L.job.kind /\ M.job.picked = L.job.picked /\ M.job.exam = L.job.exam
      /\ F!Open(L) => M.job.age = F!Older(L.job.age, F!Deadline(L.job))
  BY <1>1, <1>2 DEF F!AgedJob, F!Job, F!Open
<1>4. F!Open(M) = F!Open(L)
  BY <1>3 DEF F!Open
<1>5. OfflineAfter \in Nat /\ F!Deadline(L.job) \in Nat
  BY FleetAssumption DEF F!Deadline
<1>6. F!IsOffline(L) => F!IsOffline(M)
  BY <1>1, <1>2, <1>5 DEF F!IsOffline, F!Older
<1>7. F!Open(L) /\ L.job.age <= L.seen /\ ~F!IsOffline(L) => M.job.age <= M.seen
  BY <1>1, <1>2, <1>3, <1>5 DEF F!IsOffline, F!Older
<1> HIDE DEF M
<1> QED
  BY <1>1, <1>3, <1>4, <1>6, <1>7 DEF Explains

(* A command opens a job only on a board that answers.                       *)
LEMMA CommandExplains ==
  ASSUME NEW L \in F!Live, NEW kind \in {"start", "stop"}, NEW job,
         NEW b, NEW busy, NEW exam, Explains(L, b, busy, exam),
         ~F!IsOffline(L), ~F!Refuses(L, kind), job.kind = kind, job.age = 0
  PROVE  /\ F!Cancels(L, kind) => Explains([L EXCEPT !.job = F!NoJob], b, busy, exam)
         /\ ~F!Cancels(L, kind) => Explains(F!Opened(L, job), b, busy, exam)
<1>1. ASSUME F!Cancels(L, kind) PROVE Explains([L EXCEPT !.job = F!NoJob], b, busy, exam)
  BY <1>1 DEF F!Cancels, Explains, F!Open, F!NoJob, F!Live, F!IsOffline
<1>2. ASSUME ~F!Cancels(L, kind) PROVE Explains(F!Opened(L, job), b, busy, exam)
  <2> DEFINE M == F!Opened(L, job)
  <2> SUFFICES Explains(M, b, busy, exam)
    OBVIOUS
  <2>1. M.job = job /\ M.running = L.running /\ M.seen = L.seen /\ L.seen \in Nat
    BY DEF F!Opened, F!Live
  <2> HIDE DEF M
  <2>2. CASE kind = "start"
    BY <2>1, <2>2 DEF Explains, F!Refuses, F!Open
  <2>3. CASE kind = "stop"
    BY <2>1, <2>3 DEF Explains, F!Open
  <2> QED
    BY <2>2, <2>3
<1> QED
  BY <1>1, <1>2

-----------------------------------------------------------------------------
(* The inductive invariant.                                                  *)

(* What the agent on a board says with the next heartbeat that is handled.   *)
Reported(h) == IF agent[h].pc = "polling" THEN request[h].result ELSE agent[h].result

(* A start is about to be executed; a browser of this agent lives, or will   *)
(* be reported; and the exam that it is for.                                 *)
Pending(h) == agent[h].pc = "working" /\ agent[h].job.kind = "start"
Busy(h)    == \/ Pending(h)
              \/ agent[h].child /\ session[h].phase \in {"starting", "up"}
              \/ agent[h].pc = "polling" /\ request[h].running
StartedExam(h) == IF Pending(h) THEN agent[h].job.exam ELSE agent[h].exam

(* A board by itself: a request tells whether the agent has a child, a start *)
(* arrives only where there is none, the file and the browser of a child are *)
(* those of its exam, and without a unit of its own every browser has an     *)
(* agent that started it.                                                    *)
BoardOK(h) ==
  LET a == agent[h]
      r == request[h]
      s == session[h]
  IN  /\ a \in Agent /\ r \in F!Heartbeats /\ s \in Session
      /\ a.pc = "working" <=> a.job # F!NoJob
      /\ a.pc = "waiting" => a.child
      /\ a.job.kind # "none" => a.job.id <= JobIdBound
      /\ a.pc \in {"polling", "working"} => a.result = F!NoResult
      /\ a.pc = "polling" => (a.child <=> r.running)
      /\ Pending(h) => ~a.child
      /\ a.child => s.phase # "none"
      /\ a.child /\ s.phase = "starting" => a.file = a.exam
      /\ a.child /\ s.phase = "up" => a.exam = s.exam
      /\ ~KioskSurvives /\ s.phase \in {"starting", "up"} => a.child

(* A board that this run of the server has heard from holds no report, and   *)
(* executes no job, of an earlier run.                                       *)
ReportOK(h) ==
  boards[h] = "live" => /\ Reported(h).id = 0 \/ agent[h].stamp = era
                        /\ agent[h].pc = "working" => agent[h].stamp = era

(* What the server holds of a board explains what is going on there.         *)
StartOK(h) == Explains(live[h], boards[h], Busy(h), StartedExam(h))

(* What the server comes up from.                                            *)
DiskOK ==
  /\ disk.known \subseteq Hosts
  /\ disk.label \in [Hosts -> Labels \cup {F!NoLabel}]
  /\ disk.exams \in [Exams -> {"unused", "listed", "deleted"}]
  /\ disk.nextJob \in 1..JobIdBound + 1

IInv ==
  /\ agent = [h \in Hosts |-> agent[h]]
  /\ request = [h \in Hosts |-> request[h]]
  /\ session = [h \in Hosts |-> session[h]]
  /\ era \in 0..EraBound
  /\ FleetOK /\ DiskOK
  /\ \A h \in Hosts : BoardOK(h) /\ ReportOK(h) /\ StartOK(h)

LEMMA NothingTyped ==
  /\ F!NoJob \in F!Job /\ F!NoJob.kind = "none" /\ F!NoJob.id = 0
  /\ F!NoResult \in F!Results /\ F!NoResult.id = 0
  /\ NoRequest \in F!Heartbeats /\ ~NoRequest.running /\ NoRequest.result = F!NoResult
  /\ NoSession \in Session /\ NoSession.phase = "none"
  /\ F!Blank \in F!Live
<1>1. JobIdBound \in Nat
  BY FleetAssumption
<1>2. F!NoJob \in F!Job /\ F!NoJob.kind = "none" /\ F!NoJob.id = 0
  BY DEF F!NoJob, F!Job
<1>3. F!NoResult \in F!Results /\ F!NoResult.id = 0
  BY <1>1 DEF F!NoResult, F!Results
<1>4. NoRequest \in F!Heartbeats /\ ~NoRequest.running /\ NoRequest.result = F!NoResult
  BY <1>3 DEF NoRequest, F!Heartbeats
<1>5. NoSession \in Session /\ NoSession.phase = "none"
  BY DEF NoSession, Session, Exits
<1>6. F!Blank \in F!Live
  BY <1>2 DEF F!Blank, F!Live, F!Errors
<1> QED
  BY <1>2, <1>3, <1>4, <1>5, <1>6

LEMMA NewAgentTyped ==
  ASSUME NEW file \in Exams \cup {F!NoExam}
  PROVE  LET a == NewAgent(file)
         IN  /\ a \in Agent /\ a.pc = "asleep" /\ ~a.child /\ a.result = F!NoResult
             /\ a.job = F!NoJob /\ a.file = file
BY NothingTyped, ControlAssumption DEF NewAgent, Agent, Exits

LEMMA InitIInv == Init => IInv
<1> SUFFICES ASSUME Init PROVE IInv
  OBVIOUS
<1>1. FleetOK
  BY FleetInit DEF Init
<1>2. DiskOK
  <2>1. /\ disk = Snapshot /\ F!Known \subseteq Hosts
        /\ label \in [Hosts -> Labels \cup {F!NoLabel}]
        /\ exams \in [Exams -> {"unused", "listed", "deleted"}]
        /\ nextJob \in 1..JobIdBound + 1
    BY <1>1 DEF Init, FleetOK, F!TypeOK, F!Known
  <2> QED
    BY <2>1 DEF Snapshot, DiskOK
<1>3. ASSUME NEW h \in Hosts PROVE BoardOK(h) /\ ReportOK(h) /\ StartOK(h)
  <2>1. /\ agent[h] = NewAgent(F!NoExam) /\ request[h] = NoRequest /\ session[h] = NoSession
        /\ live[h] = F!Blank /\ boards[h] # "live"
    BY <1>3 DEF Init, F!Init
  <2>2. BoardOK(h)
    BY <2>1, NothingTyped, NewAgentTyped DEF BoardOK, Pending
  <2> QED
    BY <2>1, <2>2, BlankExplains DEF ReportOK, StartOK
<1>4. era \in 0..EraBound
  BY ControlAssumption DEF Init
<1> QED
  BY <1>1, <1>2, <1>3, <1>4 DEF Init, IInv

-----------------------------------------------------------------------------
(* Steps of one board and its agent.                                         *)

(* Only board h takes part, and the server does not.                         *)
OnlyAt(h) ==
  /\ agent' = [agent EXCEPT ![h] = agent'[h]]
  /\ request' = [request EXCEPT ![h] = request'[h]]
  /\ session' = [session EXCEPT ![h] = session'[h]]
Local(h) == OnlyAt(h) /\ UNCHANGED <<fleetVars, disk, era>>

(* Nothing begins that the server has not been told of.                      *)
Settles(h) == Busy(h)' => Busy(h) /\ StartedExam(h)' = StartedExam(h)

LEMMA ElsewhereKept ==
  ASSUME IInv, NEW h \in Hosts, OnlyAt(h)
  PROVE  /\ agent' = [g \in Hosts |-> agent'[g]]
         /\ request' = [g \in Hosts |-> request'[g]]
         /\ session' = [g \in Hosts |-> session'[g]]
         /\ \A g \in Hosts \ {h} : /\ agent'[g] = agent[g] /\ request'[g] = request[g]
                                   /\ session'[g] = session[g]
         /\ \A g \in Hosts \ {h} : /\ BoardOK(g)' /\ Busy(g)' = Busy(g)
                                   /\ StartedExam(g)' = StartedExam(g)
<1>1. /\ agent' = [g \in Hosts |-> agent'[g]]
      /\ request' = [g \in Hosts |-> request'[g]]
      /\ session' = [g \in Hosts |-> session'[g]]
      /\ \A g \in Hosts \ {h} : /\ agent'[g] = agent[g] /\ request'[g] = request[g]
                                /\ session'[g] = session[g]
  BY DEF IInv, OnlyAt
<1>2. ASSUME NEW g \in Hosts \ {h}
      PROVE  /\ BoardOK(g)' /\ Busy(g)' = Busy(g) /\ StartedExam(g)' = StartedExam(g)
  <2>1. agent'[g] = agent[g] /\ request'[g] = request[g] /\ session'[g] = session[g] /\ BoardOK(g)
    BY <1>1 DEF IInv
  <2> QED
    BY <2>1 DEF BoardOK, Busy, StartedExam, Pending
<1> QED
  BY <1>1, <1>2

LEMMA LocalKeeps ==
  ASSUME IInv, NEW h \in Hosts, Local(h), BoardOK(h)', ReportOK(h)', Settles(h)
  PROVE  IInv'
<1>1. /\ UNCHANGED fleetVars /\ disk' = disk /\ era' = era
      /\ live' = live /\ boards' = boards
  BY DEF Local, fleetVars
<1>2. FleetOK'
  BY <1>1, FleetStays DEF IInv, FleetStep
<1>3. DiskOK'
  BY <1>1 DEF IInv, DiskOK
<1>4. ASSUME NEW g \in Hosts \ {h} PROVE BoardOK(g)' /\ ReportOK(g)' /\ StartOK(g)'
  <2>1. /\ agent'[g] = agent[g] /\ request'[g] = request[g]
        /\ BoardOK(g)' /\ Busy(g)' = Busy(g) /\ StartedExam(g)' = StartedExam(g)
    BY <1>4, ElsewhereKept DEF Local
  <2> QED
    BY <1>1, <2>1 DEF IInv, ReportOK, Reported, StartOK, Explains
<1>5. StartOK(h)'
  BY <1>1 DEF IInv, StartOK, Explains, Settles
<1> QED
  BY <1>1, <1>2, <1>3, <1>4, <1>5, ElsewhereKept DEF IInv, Local

(* The browser.                                                              *)
LEMMA BrowserSteps ==
  ASSUME IInv, NEW h \in Hosts, NEW code \in Exits, SebComesUp(h) \/ SebEnds(h, code)
  PROVE  IInv'
<1>1. /\ Local(h) /\ agent' = agent /\ request' = request /\ era' = era /\ boards' = boards
      /\ session' = [session EXCEPT ![h] = session'[h]]
  BY DEF IInv, SebComesUp, SebEnds, Local, OnlyAt, fleetVars
<1>2. BoardOK(h)
  BY DEF IInv
<1>3. CASE SebComesUp(h)
  <2>1. session'[h] = [session[h] EXCEPT !.phase = "up", !.exam = agent[h].file]
    BY <1>3 DEF IInv, SebComesUp
  <2>2. session[h].phase = "starting"
    BY <1>3 DEF SebComesUp
  <2>3. session'[h] \in Session /\ session'[h].phase = "up" /\ session'[h].exam = agent[h].file
    BY <1>2, <2>1 DEF BoardOK, Session, Agent
  <2> QED
    BY <1>1, <1>2, <2>2, <2>3, LocalKeeps
       DEF IInv, BoardOK, ReportOK, Reported, Settles, Busy, StartedExam, Pending
<1>4. CASE SebEnds(h, code)
  <2>1. session'[h] = Ended(h, code)
    BY <1>4 DEF IInv, SebEnds
  <2>2. /\ session'[h] \in Session /\ session'[h].phase \in {"none", "over"}
        /\ agent[h].child => session'[h].phase # "none"
    BY <2>1, NothingTyped DEF Ended, Over, Session
  <2> QED
    BY <1>1, <1>2, <2>2, LocalKeeps
       DEF IInv, BoardOK, ReportOK, Reported, Settles, Busy, StartedExam, Pending
<1> QED
  BY <1>3, <1>4

(* A script that exited is waited for.                                       *)
LEMMA ReapedAgent ==
  ASSUME NEW h \in Hosts, BoardOK(h), NEW a \in Agent
  PROVE  LET b == Reaped(h, a)
         IN  /\ b \in Agent
             /\ b = [a EXCEPT !.child = b.child, !.exit = b.exit]
             /\ b.child = IF Running(h) \/ ~agent[h].child THEN a.child ELSE FALSE
             /\ b.pc = a.pc /\ b.exam = a.exam /\ b.result = a.result /\ b.job = a.job
             /\ b.file = a.file /\ b.stamp = a.stamp
<1>1. session[h].code \in Exits
  BY DEF BoardOK, Session
<1> QED
  BY <1>1 DEF Reaped, Agent

LEMMA ReapedSession ==
  ASSUME NEW h \in Hosts, BoardOK(h)
  PROVE  /\ SessionReaped(h) \in Session
         /\ SessionReaped(h).phase # "over"
         /\ session[h].phase # "over" => SessionReaped(h) = session[h]
         /\ session[h].phase = "over" => SessionReaped(h).phase = "none"
         /\ agent[h].child => (Running(h) <=> SessionReaped(h).phase \in {"starting", "up"})
BY NothingTyped DEF BoardOK, Session, SessionReaped, Running

LEMMA PollTyped ==
  ASSUME NEW h \in Hosts, BoardOK(h)
  PROVE  /\ Poll(h) \in F!Heartbeats
         /\ Poll(h).running = Running(h)
         /\ Poll(h).result = agent[h].result
<1>1. /\ agent[h].exam \in Exams \cup {F!NoExam} /\ agent[h].result \in F!Results
      /\ agent[h].exit \in Exits /\ session[h].code \in Exits /\ agent[h].child \in BOOLEAN
  BY DEF BoardOK, Agent, Session
<1> QED
  BY <1>1 DEF Poll, F!Heartbeats, Exits, Running

LEMMA BeatKeeps ==
  ASSUME IInv, NEW h \in Hosts, Beat(h)
  PROVE  IInv'
<1> DEFINE a == agent[h]
           b == [Reaped(h, a) EXCEPT !.pc = "polling", !.result = F!NoResult,
                                     !.exam = IF Running(h) THEN a.exam ELSE F!NoExam]
<1>1. BoardOK(h) /\ ReportOK(h) /\ a.pc = "asleep"
  BY DEF IInv, Beat
<1>2. agent'[h] = b /\ request'[h] = Poll(h) /\ session'[h] = SessionReaped(h)
  <2>1. /\ agent' = [agent EXCEPT ![h] = b] /\ request' = [request EXCEPT ![h] = Poll(h)]
        /\ session' = [session EXCEPT ![h] = SessionReaped(h)]
    BY Zenon DEF Beat
  <2> HIDE DEF b
  <2> QED
    BY <2>1 DEF IInv
<1>3. Local(h) /\ era' = era /\ boards' = boards
  BY DEF IInv, Beat, Local, OnlyAt, fleetVars
<1>4. /\ a \in Agent /\ a.job = F!NoJob
  BY <1>1 DEF BoardOK
<1>5. /\ b \in Agent /\ b.pc = "polling" /\ b.result = F!NoResult /\ b.job = F!NoJob
      /\ b.file = a.file /\ b.stamp = a.stamp
      /\ b.exam = IF Running(h) THEN a.exam ELSE F!NoExam
      /\ b.child = Running(h)
  <2>1. /\ Reaped(h, a) \in Agent /\ Reaped(h, a).job = a.job /\ Reaped(h, a).file = a.file
        /\ Reaped(h, a).stamp = a.stamp /\ Reaped(h, a).exam = a.exam
        /\ Reaped(h, a).child = Running(h)
    BY <1>1, <1>4, ReapedAgent, ZenonT(40) DEF Running, Agent
  <2> HIDE DEF a
  <2> QED
    BY <1>4, <2>1, NothingTyped DEF Agent
<1> HIDE DEF b
<1>6. BoardOK(h)'
  BY <1>1, <1>2, <1>4, <1>5, PollTyped, ReapedSession, NothingTyped, ZenonT(40) DEF BoardOK, Pending, Running
<1>7. ReportOK(h)'
  BY <1>1, <1>2, <1>3, <1>5, PollTyped DEF ReportOK, Reported
<1>8. Settles(h)
  BY <1>1, <1>2, <1>4, <1>5, PollTyped, ReapedSession, NothingTyped
     DEF Settles, Busy, StartedExam, Pending, Running, BoardOK
<1> QED
  BY <1>3, <1>6, <1>7, <1>8, LocalKeeps

LEMMA RequestLostKeeps ==
  ASSUME IInv, NEW h \in Hosts, RequestLost(h)
  PROVE  IInv'
<1>1. BoardOK(h) /\ agent[h].pc = "polling" /\ agent[h] \in Agent
  BY DEF IInv, RequestLost, BoardOK
<1>2. agent'[h] = [agent[h] EXCEPT !.pc = "asleep", !.stamp = 0]
  BY DEF IInv, RequestLost
<1>3. /\ Local(h) /\ era' = era /\ boards' = boards
      /\ request'[h] = NoRequest /\ session' = session
  BY DEF IInv, RequestLost, Local, OnlyAt, fleetVars
<1>4. /\ agent'[h] \in Agent /\ agent'[h].pc = "asleep"
      /\ agent'[h].child = agent[h].child /\ agent'[h].exam = agent[h].exam
      /\ agent'[h].result = agent[h].result /\ agent'[h].job = agent[h].job
      /\ agent'[h].file = agent[h].file
  <2>1. 0 \in 0..EraBound
    BY ControlAssumption
  <2> QED
    BY <1>1, <1>2, <2>1 DEF Agent
<1>5. BoardOK(h)' /\ ReportOK(h)' /\ Settles(h)
  BY <1>1, <1>3, <1>4, NothingTyped
     DEF BoardOK, ReportOK, Reported, Settles, Busy, StartedExam, Pending
<1> QED
  BY <1>3, <1>5, LocalKeeps

(* What is left when a job was executed.                                     *)
LEMMA DoneTyped ==
  ASSUME NEW h \in Hosts, BoardOK(h), agent[h].job.kind # "none", NEW ok \in BOOLEAN
  PROVE  LET a == agent[h]
             d == Done(a, ok)
         IN  /\ d \in Agent /\ d.pc = "asleep" /\ d.job = F!NoJob /\ d.result.id = a.job.id
             /\ d.child = a.child /\ d.exam = a.exam /\ d.exit = a.exit
             /\ d.file = a.file /\ d.stamp = a.stamp
<1>1. agent[h] \in Agent /\ agent[h].job \in F!Job /\ agent[h].job.id \in 0..JobIdBound
  BY FleetAssumption DEF BoardOK, Agent, F!Job
<1>2. [id |-> agent[h].job.id, ok |-> ok] \in F!Results
  BY <1>1 DEF F!Results
<1> QED
  BY <1>1, <1>2, NothingTyped DEF Done, Agent

LEMMA StartKeeps ==
  ASSUME IInv, NEW h \in Hosts, Start(h)
  PROVE  IInv'
<1> DEFINE a == agent[h]
           d == Reaped(h, Done(a, TRUE))
           b == [d EXCEPT !.child = TRUE, !.exam = a.job.exam, !.file = a.job.exam]
           s == [NoSession EXCEPT !.phase = "starting"]
<1>1. BoardOK(h) /\ ReportOK(h) /\ Pending(h) /\ ~a.child /\ ~Running(h)
  BY DEF IInv, Start, BoardOK, Pending, Running
<1>2. agent'[h] = b /\ session'[h] = s /\ request' = request
  <2>1. agent' = [agent EXCEPT ![h] = b]
    BY Zenon DEF Start
  <2> HIDE DEF b
  <2> QED
    BY <1>1, <2>1 DEF IInv, Start
<1>3. Local(h) /\ era' = era /\ boards' = boards
  BY DEF IInv, Start, Local, OnlyAt, fleetVars
<1>4. d \in Agent /\ d.pc = "asleep" /\ d.job = F!NoJob /\ d.stamp = a.stamp
  <2>1. /\ Done(a, TRUE) \in Agent /\ Done(a, TRUE).pc = "asleep"
        /\ Done(a, TRUE).job = F!NoJob /\ Done(a, TRUE).stamp = a.stamp
    BY <1>1, DoneTyped DEF Pending
  <2> QED
    BY <1>1, <2>1, ReapedAgent
<1>5. a.job.exam \in Exams \cup {F!NoExam} /\ a.pc = "working"
  BY <1>1 DEF BoardOK, Agent, F!Job, Pending
<1> HIDE DEF d
<1>6. /\ b \in Agent /\ b.pc = "asleep" /\ b.job = F!NoJob /\ b.stamp = a.stamp
      /\ b.child /\ b.exam = a.job.exam /\ b.file = a.job.exam
  BY <1>4, <1>5 DEF Agent
<1>7. s \in Session /\ s.phase = "starting"
  BY DEF NoSession, Session, Exits
<1> HIDE DEF a, b, s
<1>8. BoardOK(h)'
  BY <1>1, <1>2, <1>6, <1>7, NothingTyped DEF BoardOK, Pending
<1>9. ReportOK(h)'
  BY <1>1, <1>2, <1>3, <1>5, <1>6 DEF ReportOK, Reported, a
<1>10. Settles(h)
  BY <1>1, <1>2, <1>6 DEF Settles, Busy, StartedExam, Pending, a
<1> QED
  BY <1>3, <1>8, <1>9, <1>10, LocalKeeps

LEMMA StartFailsKeeps ==
  ASSUME IInv, NEW h \in Hosts, NEW installed \in BOOLEAN, StartFails(h, installed)
  PROVE  IInv'
<1> DEFINE a == agent[h]
           d == IF installed THEN Reaped(h, Done(a, FALSE)) ELSE Done(a, FALSE)
           b == IF installed THEN [d EXCEPT !.file = a.job.exam] ELSE d
           s == IF installed THEN SessionReaped(h) ELSE session[h]
<1>1. BoardOK(h) /\ ReportOK(h) /\ Pending(h) /\ ~a.child
  BY DEF IInv, StartFails, BoardOK, Pending
<1>2. agent'[h] = b /\ session'[h] = s /\ request' = request
  <2>1. /\ agent' = [agent EXCEPT ![h] = b]
        /\ session' = [session EXCEPT ![h] = s]
    BY Zenon DEF StartFails
  <2> HIDE DEF b, s
  <2> QED
    BY <2>1 DEF IInv, StartFails
<1>3. Local(h) /\ era' = era /\ boards' = boards
  BY DEF IInv, StartFails, Local, OnlyAt, fleetVars
<1>4. /\ d \in Agent /\ d.pc = "asleep" /\ d.job = F!NoJob /\ d.stamp = a.stamp /\ ~d.child
  <2>1. /\ Done(a, FALSE) \in Agent /\ Done(a, FALSE).pc = "asleep" /\ ~Done(a, FALSE).child
        /\ Done(a, FALSE).job = F!NoJob /\ Done(a, FALSE).stamp = a.stamp
    BY <1>1, DoneTyped DEF Pending
  <2> QED
    BY <1>1, <2>1, ReapedAgent
<1>5. a.job.exam \in Exams \cup {F!NoExam} /\ a.pc = "working"
  BY <1>1 DEF BoardOK, Agent, F!Job, Pending
<1> HIDE DEF d
<1>6. b \in Agent /\ b.pc = "asleep" /\ b.job = F!NoJob /\ b.stamp = a.stamp /\ ~b.child
  BY <1>4, <1>5 DEF Agent
<1>7. s \in Session /\ (~KioskSurvives => s.phase \notin {"starting", "up"})
  BY <1>1, ReapedSession DEF BoardOK
<1> HIDE DEF a, b, s
<1>8. BoardOK(h)'
  BY <1>1, <1>2, <1>6, <1>7, NothingTyped DEF BoardOK, Pending
<1>9. ReportOK(h)'
  BY <1>1, <1>2, <1>3, <1>5, <1>6 DEF ReportOK, Reported, a
<1>10. Settles(h)
  BY <1>1, <1>2, <1>6 DEF Settles, Busy, Pending
<1> QED
  BY <1>3, <1>8, <1>9, <1>10, LocalKeeps

LEMMA StopKeeps ==
  ASSUME IInv, NEW h \in Hosts, NEW ok \in BOOLEAN, NEW code \in Exits, Stop(h, ok, code)
  PROVE  IInv'
<1> DEFINE a == agent[h]
           d == Done(a, ok)
           b == IF a.child THEN [d EXCEPT !.pc = "waiting"] ELSE d
           s == Killed(h, ok, code)
<1>1. BoardOK(h) /\ ReportOK(h) /\ a.pc = "working" /\ a.job.kind = "stop" /\ ~Pending(h)
  BY DEF IInv, Stop, Pending
<1>2. agent'[h] = b /\ session'[h] = s /\ request' = request
  <2>1. agent' = [agent EXCEPT ![h] = b]
    BY Zenon DEF Stop
  <2> HIDE DEF b
  <2> QED
    BY <2>1 DEF IInv, Stop
<1>3. Local(h) /\ era' = era /\ boards' = boards
  BY DEF IInv, Stop, Local, OnlyAt, fleetVars
<1>4. /\ d \in Agent /\ d.pc = "asleep" /\ d.job = F!NoJob /\ d.stamp = a.stamp
      /\ d.child = a.child /\ d.exam = a.exam /\ d.file = a.file
  BY <1>1, DoneTyped
<1> HIDE DEF d
<1>5. /\ b \in Agent /\ b.pc = (IF a.child THEN "waiting" ELSE "asleep")
      /\ b.job = F!NoJob /\ b.stamp = a.stamp
      /\ b.child = a.child /\ b.exam = a.exam /\ b.file = a.file
  BY <1>4 DEF Agent
<1>6. /\ s \in Session /\ (a.child => s.phase # "none")
      /\ s = session[h] \/ s.phase \in {"none", "over"}
  BY <1>1, NothingTyped DEF BoardOK, Killed, Ended, Over, Session
<1> HIDE DEF a, b, s
<1>7. BoardOK(h)'
  BY <1>1, <1>2, <1>5, <1>6, NothingTyped DEF BoardOK, Pending, a
<1>8. ReportOK(h)'
  BY <1>1, <1>2, <1>3, <1>5 DEF ReportOK, Reported, a
<1>9. Settles(h)
  BY <1>1, <1>2, <1>5, <1>6 DEF Settles, Busy, StartedExam, Pending, a
<1> QED
  BY <1>3, <1>7, <1>8, <1>9, LocalKeeps

LEMMA ReapKeeps ==
  ASSUME IInv, NEW h \in Hosts, Reap(h)
  PROVE  IInv'
<1> DEFINE a == agent[h]
           b == [Reaped(h, a) EXCEPT !.pc = "asleep"]
<1>1. /\ BoardOK(h) /\ ReportOK(h) /\ a.pc = "waiting" /\ a.child /\ ~Running(h)
      /\ a \in Agent /\ a.job = F!NoJob
  BY DEF IInv, Reap, BoardOK, Running
<1>2. agent'[h] = b /\ session'[h] = NoSession /\ request' = request
  <2>1. agent' = [agent EXCEPT ![h] = b]
    BY Zenon DEF Reap
  <2> HIDE DEF b
  <2> QED
    BY <2>1 DEF IInv, Reap
<1>3. Local(h) /\ era' = era /\ boards' = boards
  BY DEF IInv, Reap, Local, OnlyAt, fleetVars
<1>4. /\ Reaped(h, a) \in Agent /\ ~Reaped(h, a).child /\ Reaped(h, a).job = F!NoJob
      /\ Reaped(h, a).result = a.result /\ Reaped(h, a).stamp = a.stamp
  BY <1>1, ReapedAgent
<1>5. /\ b \in Agent /\ b.pc = "asleep" /\ ~b.child /\ b.job = F!NoJob
      /\ b.result = a.result /\ b.stamp = a.stamp
  BY <1>4 DEF Agent
<1> HIDE DEF a, b
<1>6. BoardOK(h)' /\ ReportOK(h)' /\ Settles(h)
  BY <1>1, <1>2, <1>3, <1>5, NothingTyped
     DEF BoardOK, ReportOK, Reported, Settles, Busy, Pending, a
<1> QED
  BY <1>3, <1>6, LocalKeeps

LEMMA AgentRestartsKeeps ==
  ASSUME IInv, NEW h \in Hosts, AgentRestarts(h)
  PROVE  IInv'
<1> DEFINE s == IF KioskSurvives /\ session[h].phase # "over" THEN session[h] ELSE NoSession
<1>1. BoardOK(h) /\ agent[h].file \in Exams \cup {F!NoExam}
  BY DEF IInv, BoardOK, Agent
<1>2. agent'[h] = NewAgent(agent[h].file) /\ session'[h] = s /\ request'[h] = NoRequest
  BY DEF IInv, AgentRestarts
<1>3. Local(h) /\ era' = era /\ boards' = boards
  BY DEF IInv, AgentRestarts, Local, OnlyAt, fleetVars
<1>4. s \in Session /\ (~KioskSurvives => s.phase = "none")
  BY <1>1, NothingTyped DEF BoardOK
<1> HIDE DEF s
<1>5. BoardOK(h)' /\ ReportOK(h)' /\ Settles(h)
  BY <1>1, <1>2, <1>3, <1>4, NothingTyped, NewAgentTyped
     DEF BoardOK, ReportOK, Reported, Settles, Busy, Pending
<1> QED
  BY <1>3, <1>5, LocalKeeps

-----------------------------------------------------------------------------
(* The heartbeat, where the two sides meet.                                  *)

(* A job that goes out is the open one, for the first time.                  *)
LEMMA ReplyIsOpen ==
  ASSUME FleetOK, NEW h \in Hosts, NEW hb \in F!Heartbeats
  PROVE  LET job == F!Reply(h, hb)
             M == F!AfterDelivery(F!Digest(live[h], hb))
         IN  /\ job \in F!Job
             /\ job.kind # "none" =>
                  /\ job.id <= JobIdBound
                  /\ F!Open(M) /\ M.job.picked /\ M.job.age = 0 /\ M.seen = 0
                  /\ M.job.kind = job.kind /\ M.job.exam = job.exam
             /\ job.kind = "start" => ~hb.running
<1> DEFINE D == F!Digest(live[h], hb)
           M == F!AfterDelivery(D)
<1>1. /\ live[h] \in F!Live /\ nextJob \in 1..JobIdBound + 1
      /\ F!Open(live[h]) => live[h].job.id \in 1..nextJob - 1
  BY DEF FleetOK, F!TypeOK, F!JobIdsUnique
<1>2. F!Reply(h, hb) = IF D.job.picked THEN F!NoJob ELSE D.job
  BY DEF F!Reply
<1>3. /\ D \in F!Live /\ M.seen = 0
      /\ F!Open(M) => M.job.kind = D.job.kind /\ M.job.exam = D.job.exam /\ M.job.picked
      /\ F!Open(D) => F!Open(M) /\ (~D.job.picked => M.job.age = 0)
      /\ F!Open(D) => D.job = live[h].job /\ F!Open(live[h])
      /\ F!Open(D) /\ D.job.kind = "start" => ~hb.running
  BY <1>1, AfterHeartbeat DEF F!Open
<1>4. F!Open(live[h]) => live[h].job.id <= JobIdBound
  BY <1>1, FleetAssumption
<1> HIDE DEF D, M
<1>5. D.job \in F!Job
  BY <1>3 DEF F!Live
<1> QED
  BY <1>2, <1>3, <1>4, <1>5, NothingTyped DEF F!Open, D, M

LEMMA HandledKeeps ==
  ASSUME IInv, NEW h \in Hosts, NEW arrives \in BOOLEAN, Handled(h, arrives)
  PROVE  IInv'
<1> DEFINE a == agent[h]
           r == request[h]
           job == IF arrives THEN F!Reply(h, r) ELSE F!NoJob
           b == [a EXCEPT !.job = job, !.stamp = IF job = F!NoJob THEN 0 ELSE era,
                          !.pc = IF job = F!NoJob THEN "asleep" ELSE "working"]
           M == F!AfterDelivery(F!Digest(live[h], r))
<1>1. /\ BoardOK(h) /\ a.pc = "polling" /\ a \in Agent /\ r \in F!Heartbeats
      /\ FleetOK /\ DiskOK /\ era \in 0..EraBound
  BY DEF IInv, Handled, BoardOK
<1>2. /\ agent' = [agent EXCEPT ![h] = b] /\ request' = [request EXCEPT ![h] = NoRequest]
      /\ session' = session /\ disk' = disk /\ era' = era
      /\ F!Heartbeat(h, r)
  BY Zenon DEF Handled
<1>3. /\ boards' = [boards EXCEPT ![h] = "live"]
      /\ live' = [live EXCEPT ![h] = M]
  BY <1>2, Zenon DEF F!Heartbeat
<1>4. /\ job \in F!Job /\ (job = F!NoJob \/ job = F!Reply(h, r))
      /\ job.kind # "none" =>
           /\ job.id <= JobIdBound
           /\ F!Open(M) /\ M.job.picked /\ M.job.age = 0
           /\ M.job.kind = job.kind /\ M.job.exam = job.exam
      /\ job.kind = "start" => ~r.running
  BY <1>1, ReplyIsOpen, NothingTyped
<1>5. /\ M \in F!Live /\ M.running = r.running /\ M.seen = 0
      /\ F!Open(M) /\ M.job.kind = "start" => ~r.running
  <2>1. live[h] \in F!Live
    BY <1>1 DEF FleetOK, F!TypeOK
  <2>2. LET D == F!Digest(live[h], r)
        IN  /\ M \in F!Live /\ M.running = r.running /\ M.seen = 0
            /\ F!Open(M) => F!Open(D) /\ M.job.kind = D.job.kind
            /\ F!Open(D) /\ D.job.kind = "start" => ~r.running
    BY <2>1, <1>1, AfterHeartbeat, Zenon
  <2> QED
    BY <2>2, Zenon
<1> HIDE DEF job, M
<1>6. /\ b \in Agent /\ b.job = job
      /\ b.stamp = (IF job = F!NoJob THEN 0 ELSE era)
      /\ b.pc = (IF job = F!NoJob THEN "asleep" ELSE "working")
      /\ b.child = a.child /\ b.exam = a.exam /\ b.file = a.file
      /\ b.result = a.result /\ b.exit = a.exit
  <2>1. 0 \in 0..EraBound
    BY ControlAssumption
  <2> HIDE DEF a
  <2> QED
    BY <1>1, <1>4, <2>1 DEF Agent
<1> HIDE DEF b
<1>7. /\ agent'[h] = b /\ request'[h] = NoRequest /\ boards'[h] = "live" /\ live'[h] = M
      /\ \A g \in Hosts \ {h} : boards'[g] = boards[g] /\ live'[g] = live[g]
  BY <1>1, <1>2, <1>3 DEF IInv, FleetOK, F!TypeOK
<1>8. OnlyAt(h)
  BY <1>2, <1>7 DEF OnlyAt, IInv
<1>9. FleetOK'
  BY <1>1, <1>2, FleetStays DEF FleetStep
<1>10. BoardOK(h)'
  BY <1>1, <1>2, <1>4, <1>6, <1>7, NothingTyped DEF BoardOK, Pending, a, r
<1>11. ReportOK(h)'
  BY <1>1, <1>2, <1>6, <1>7, NothingTyped DEF BoardOK, ReportOK, Reported, a
<1>12. StartOK(h)'
  <2>1. ASSUME Busy(h)', ~M.running
        PROVE  /\ job.kind = "start" /\ StartedExam(h)' = job.exam
    <3>1. ~a.child
      BY <1>1, <1>5, <2>1 DEF BoardOK, a, r
    <3>2. Pending(h)'
      BY <1>1, <1>6, <1>7, <2>1, <3>1 DEF Busy, a
    <3> QED
      BY <1>6, <1>7, <3>2 DEF Pending, StartedExam
  <2>2. ASSUME Busy(h)', ~M.running
        PROVE  /\ F!Open(M) /\ M.job.age <= M.seen
               /\ M.job.picked /\ M.job.exam = StartedExam(h)'
    BY <1>4, <1>5, <2>1, <2>2
  <2> QED
    BY <1>5, <1>7, <2>2 DEF StartOK, Explains
<1>13. ASSUME NEW g \in Hosts \ {h} PROVE BoardOK(g)' /\ ReportOK(g)' /\ StartOK(g)'
  <2>1. /\ agent'[g] = agent[g] /\ request'[g] = request[g]
        /\ BoardOK(g)' /\ Busy(g)' = Busy(g) /\ StartedExam(g)' = StartedExam(g)
        /\ boards'[g] = boards[g] /\ live'[g] = live[g]
    BY <1>7, <1>8, <1>13, ElsewhereKept
  <2> QED
    BY <1>2, <2>1 DEF IInv, ReportOK, Reported, StartOK, Explains
<1>14. DiskOK'
  BY <1>1, <1>2 DEF DiskOK
<1> QED
  BY <1>1, <1>2, <1>8, <1>9, <1>10, <1>11, <1>12, <1>13, <1>14, ElsewhereKept DEF IInv

-----------------------------------------------------------------------------
(* Steps of the server alone.                                                *)

LEMMA ServerKeeps ==
  ASSUME IInv, UNCHANGED boardVars, FleetOK', DiskOK', era' \in 0..EraBound,
         \A h \in Hosts :
           /\ boards'[h] = "live" => boards[h] = "live" /\ era' = era
           /\ Explains(live[h], boards[h], Busy(h), StartedExam(h))
                => Explains(live'[h], boards'[h], Busy(h), StartedExam(h))
  PROVE  IInv'
<1>1. agent' = agent /\ request' = request /\ session' = session
  BY DEF boardVars
<1>2. ASSUME NEW h \in Hosts PROVE BoardOK(h)' /\ ReportOK(h)' /\ StartOK(h)'
  <2>1. BoardOK(h) /\ ReportOK(h) /\ StartOK(h)
    BY DEF IInv
  <2>2. Busy(h)' = Busy(h) /\ StartedExam(h)' = StartedExam(h)
    BY <1>1 DEF Busy, StartedExam, Pending
  <2>3. BoardOK(h)'
    BY <1>1, <2>1 DEF BoardOK, Pending
  <2>4. ReportOK(h)'
    BY <1>1, <2>1 DEF ReportOK, Reported
  <2>5. StartOK(h)'
    BY <2>1, <2>2 DEF StartOK
  <2> QED
    BY <2>3, <2>4, <2>5
<1> QED
  BY <1>1, <1>2 DEF IInv

LEMMA EnqueueKeeps ==
  ASSUME IInv, NEW hs \in F!Requests, NEW kind \in {"start", "stop"}, NEW e \in Exams \cup {F!NoExam},
         F!Enqueue(hs, kind, e), FleetOK', UNCHANGED <<boardVars, disk, era>>
  PROVE  IInv'
<1>1. UNCHANGED boardVars /\ disk' = disk /\ era' = era /\ boards' = boards
  BY DEF F!Enqueue
<1>2. /\ \A h \in Hosts :
           live'[h] = IF h \in F!Cancelled(hs, kind) THEN [live[h] EXCEPT !.job = F!NoJob]
                      ELSE IF h \in F!Queued(hs, kind)
                      THEN F!Opened(live[h], F!NewJob(hs, kind, e, h)) ELSE live[h]
      /\ live \in [Hosts -> F!Live] /\ DiskOK'
  BY <1>1 DEF F!Enqueue, IInv, FleetOK, F!TypeOK, DiskOK
<1>3. ASSUME NEW h \in Hosts, Explains(live[h], boards[h], Busy(h), StartedExam(h))
      PROVE  Explains(live'[h], boards'[h], Busy(h), StartedExam(h))
  <2>1. h \in F!Cancelled(hs, kind) \cup F!Queued(hs, kind) =>
          ~F!IsOffline(live[h]) /\ ~F!Refuses(live[h], kind)
    BY DEF F!Cancelled, F!Queued, F!Skips
  <2>2. /\ h \in F!Cancelled(hs, kind) => F!Cancels(live[h], kind)
        /\ h \in F!Queued(hs, kind) => ~F!Cancels(live[h], kind)
    BY DEF F!Cancelled, F!Queued
  <2>3. F!NewJob(hs, kind, e, h).kind = kind /\ F!NewJob(hs, kind, e, h).age = 0
    BY DEF F!NewJob
  <2> DEFINE job == F!NewJob(hs, kind, e, h)
  <2> HIDE DEF job
  <2>4. CASE h \in F!Cancelled(hs, kind)
    <3>1. live'[h] = [live[h] EXCEPT !.job = F!NoJob] /\ live[h] \in F!Live
      BY <1>2, <2>4
    <3>2. Explains([live[h] EXCEPT !.job = F!NoJob], boards[h], Busy(h), StartedExam(h))
      BY <1>3, <2>1, <2>2, <2>3, <2>4, <3>1, CommandExplains DEF job
    <3> QED
      BY <1>1, <3>1, <3>2
  <2>5. CASE h \notin F!Cancelled(hs, kind) /\ h \in F!Queued(hs, kind)
    <3>1. live'[h] = F!Opened(live[h], job) /\ live[h] \in F!Live
      BY <1>2, <2>5 DEF job
    <3>2. Explains(F!Opened(live[h], job), boards[h], Busy(h), StartedExam(h))
      BY <1>3, <2>1, <2>2, <2>3, <2>5, <3>1, CommandExplains DEF job
    <3> QED
      BY <1>1, <3>1, <3>2
  <2>6. CASE h \notin F!Cancelled(hs, kind) /\ h \notin F!Queued(hs, kind)
    BY <1>1, <1>2, <1>3, <2>6
  <2> QED
    BY <2>4, <2>5, <2>6
<1> QED
  BY <1>1, <1>2, <1>3, ServerKeeps DEF IInv

LEMMA ForgetKeeps ==
  ASSUME IInv, NEW f \in Hosts, F!Forget(f), FleetOK', UNCHANGED <<boardVars, disk, era>>
  PROVE  IInv'
<1>1. UNCHANGED boardVars /\ disk' = disk /\ era' = era
  OBVIOUS
<1>2. \A h \in Hosts : \/ boards'[h] = "absent" /\ live'[h] = F!Blank
                       \/ boards'[h] = boards[h] /\ live'[h] = live[h]
  BY DEF F!Forget, IInv, FleetOK, F!TypeOK
<1>3. DiskOK'
  BY <1>1 DEF IInv, DiskOK
<1> QED
  BY <1>1, <1>2, <1>3, BlankExplains, ServerKeeps DEF IInv

LEMMA BackgroundKeeps ==
  ASSUME IInv, Background, FleetOK'
  PROVE  IInv'
<1>1. UNCHANGED boardVars /\ disk' = disk /\ era' = era /\ boards' = boards
  BY DEF Background, F!Tick, F!TimePasses
<1>2. live \in [Hosts -> F!Live] /\ DiskOK'
  BY <1>1 DEF IInv, FleetOK, F!TypeOK, DiskOK
<1>3. ASSUME NEW h \in Hosts, Explains(live[h], boards[h], Busy(h), StartedExam(h))
      PROVE  Explains(live'[h], boards'[h], Busy(h), StartedExam(h))
  <2>1. CASE F!Tick
    <3>1. live'[h] = IF boards[h] = "live" THEN F!AfterTick(live[h]) ELSE live[h]
      BY <2>1 DEF F!Tick
    <3> QED
      BY <1>1, <1>2, <1>3, <3>1, TickExplains
  <2>2. CASE F!TimePasses
    <3>1. live'[h] = IF boards[h] = "live" THEN F!Aged(live[h]) ELSE live[h]
      BY <2>2 DEF F!TimePasses
    <3> QED
      BY <1>1, <1>2, <1>3, <3>1, TimeExplains
  <2> QED
    BY <2>1, <2>2 DEF Background
<1> QED
  BY <1>1, <1>2, <1>3, ServerKeeps DEF IInv

LEMMA SaveKeeps ==
  ASSUME IInv, Save, FleetOK'
  PROVE  IInv'
<1>1. /\ UNCHANGED boardVars /\ disk' = Snapshot /\ era' = era
      /\ boards' = boards /\ live' = live
  BY DEF Save, F!TakeSnapshot
<1>2. DiskOK'
  BY <1>1 DEF IInv, FleetOK, F!TypeOK, DiskOK, Snapshot, F!Known
<1> QED
  BY <1>1, <1>2, ServerKeeps DEF IInv

(* A restart: the fleet is as saved, or empty, and no board was heard from.  *)
Restorable(saved) ==
  /\ saved.known \subseteq Hosts
  /\ saved.label \in [Hosts -> Labels \cup {F!NoLabel}]
  /\ saved.exams \in [Exams -> {"unused", "listed", "deleted"}]
  /\ saved.nextJob \in 1..JobIdBound + 1

LEMMA BothRestorable ==
  ASSUME IInv
  PROVE  Restorable(disk) /\ Restorable(Nothing)
<1>1. Restorable(disk)
  BY DEF IInv, DiskOK, Restorable
<1>2. 1 \in 1..JobIdBound + 1
  BY FleetAssumption
<1> QED
  BY <1>1, <1>2 DEF Nothing, Restorable

LEMMA RestartKeeps ==
  ASSUME IInv, NEW saved, Restorable(saved), Restart(saved)
  PROVE  IInv'
<1>1. UNCHANGED boardVars /\ disk' = disk /\ era' \in 0..EraBound
  <2>1. UNCHANGED boardVars /\ disk' = disk /\ era < EraBound /\ era' = era + 1
    BY DEF Restart
  <2>2. era' \in 0..EraBound
    BY <2>1, ControlAssumption DEF IInv
  <2> QED
    BY <2>1, <2>2
<1>2. DiskOK' /\ DiskOK
  BY <1>1 DEF IInv, DiskOK
<1>3. \A h \in Hosts : boards'[h] \in {"absent", "recorded"} /\ live'[h] = F!Blank
  BY DEF Restart
<1>4. FleetOK'
  <2>1. news' \subseteq [host: Hosts \cup {F!NoHost}, what: F!EventKinds]
    <3>1. F!Event(F!NoHost, "server started") \in [host: Hosts \cup {F!NoHost}, what: F!EventKinds]
      BY DEF F!Event, F!EventKinds
    <3> QED
      BY <3>1 DEF Restart
  <2>2. ~F!Open(F!Blank)
    BY DEF F!Open, F!Blank, F!NoJob
  <2>3. F!TypeOK'
    BY <1>2, <1>3, <2>1, NothingTyped DEF Restart, F!TypeOK, Restorable
  <2>4. F!JobIdsUnique' /\ F!NoErrorBesideJob'
    BY <1>3, <2>2 DEF F!JobIdsUnique, F!NoErrorBesideJob, F!Open
  <2> QED
    BY <2>3, <2>4 DEF FleetOK
<1> QED
  BY <1>1, <1>2, <1>3, <1>4, BlankExplains, ServerKeeps

LEMMA ServerRestartsKeeps ==
  ASSUME IInv, ServerRestarts
  PROVE  IInv'
BY BothRestorable, RestartKeeps DEF ServerRestarts

-----------------------------------------------------------------------------
LEMMA NextIsAFleetStep ==
  ASSUME IInv, [Next]_vars
  PROVE  FleetStep \/ ServerRestarts
<1>1. ASSUME NEW h \in Hosts, NEW arrives \in BOOLEAN, Handled(h, arrives) PROVE FleetStep
  <2>1. request[h] \in F!Heartbeats /\ F!Heartbeat(h, request[h])
    BY <1>1 DEF IInv, BoardOK, Handled
  <2> QED
    BY <2>1 DEF FleetStep
<1>2. ASSUME NEW h \in Hosts,
             \/ SebComesUp(h) \/ Beat(h) \/ RequestLost(h) \/ Start(h) \/ Reap(h) \/ AgentRestarts(h)
             \/ \E installed \in BOOLEAN : StartFails(h, installed)
             \/ \E code \in Exits : SebEnds(h, code)
             \/ \E ok \in BOOLEAN, code \in Exits : Stop(h, ok, code)
      PROVE  FleetStep
  <2>1. UNCHANGED fleetVars
    BY <1>2, Zenon
       DEF SebComesUp, Beat, RequestLost, Start, Reap, AgentRestarts, StartFails, SebEnds, Stop
  <2> QED
    BY <2>1, Zenon DEF FleetStep
<1>3. CASE Command
  BY <1>3, Zenon DEF Command, FleetStep
<1>4. CASE Background \/ Save
  BY <1>4, Zenon DEF Background, Save, FleetStep
<1>5. CASE UNCHANGED vars
  BY <1>5, Zenon DEF vars, FleetStep
<1>6. ASSUME NEW h \in Hosts, Answered(h) \/ ReplyLost(h) PROVE FleetStep
  BY <1>1, <1>6, Zenon DEF Answered, ReplyLost
<1> QED
  BY <1>2, <1>3, <1>4, <1>5, <1>6, Zenon DEF Next

LEMMA NextIInv == IInv /\ [Next]_vars => IInv'
<1> SUFFICES ASSUME IInv, [Next]_vars PROVE IInv'
  OBVIOUS
<1>0. CASE ServerRestarts
  BY <1>0, ServerRestartsKeeps
<1> SUFFICES ASSUME ~ServerRestarts PROVE IInv'
  BY <1>0
<1>1. FleetOK'
  BY NextIsAFleetStep, FleetStays DEF IInv
<1>2. ASSUME NEW h \in Hosts, Answered(h) \/ ReplyLost(h) PROVE IInv'
  BY <1>2, HandledKeeps DEF Answered, ReplyLost
<1>3. ASSUME NEW h \in Hosts, NEW code \in Exits, SebComesUp(h) \/ SebEnds(h, code) PROVE IInv'
  BY <1>3, BrowserSteps
<1>4. ASSUME NEW h \in Hosts, Beat(h) \/ RequestLost(h) \/ Start(h) \/ Reap(h) \/ AgentRestarts(h)
      PROVE  IInv'
  BY <1>4, BeatKeeps, RequestLostKeeps, StartKeeps, ReapKeeps, AgentRestartsKeeps
<1>5. ASSUME NEW h \in Hosts, NEW installed \in BOOLEAN, StartFails(h, installed) PROVE IInv'
  BY <1>5, StartFailsKeeps
<1>6. ASSUME NEW h \in Hosts, NEW ok \in BOOLEAN, NEW code \in Exits, Stop(h, ok, code) PROVE IInv'
  BY <1>6, StopKeeps
<1>7. CASE Command
  <2>1. UNCHANGED <<boardVars, disk, era>>
    BY <1>7 DEF Command
  <2>2. ASSUME NEW hs \in F!Requests, NEW e \in Exams, F!Enqueue(hs, "start", e) PROVE IInv'
    BY <1>1, <2>1, <2>2, EnqueueKeeps
  <2>3. ASSUME NEW hs \in F!Requests, F!Enqueue(hs, "stop", F!NoExam) PROVE IInv'
    BY <1>1, <2>1, <2>3, EnqueueKeeps
  <2>4. ASSUME NEW h \in Hosts, F!Forget(h) PROVE IInv'
    BY <1>1, <2>1, <2>4, ForgetKeeps
  <2> QED
    BY <1>7, <2>2, <2>3, <2>4, Zenon DEF Command
<1>8. CASE Background
  BY <1>1, <1>8, BackgroundKeeps
<1>9. CASE Save
  BY <1>1, <1>9, SaveKeeps
<1>10. CASE UNCHANGED vars
  <2>1. UNCHANGED boardVars /\ disk' = disk /\ era' = era /\ boards' = boards /\ live' = live
    BY <1>10 DEF vars, fleetVars
  <2>2. DiskOK'
    BY <2>1 DEF IInv, DiskOK
  <2> QED
    BY <1>1, <2>1, <2>2, ServerKeeps DEF IInv
<1>11. "zero" \in Exits
  BY DEF Exits
<1> QED
  BY <1>2, <1>3, <1>4, <1>5, <1>6, <1>7, <1>8, <1>9, <1>10, <1>11, Zenon DEF Next

LEMMA SpecIInv == Spec => []IInv
BY InitIInv, NextIInv, PTL DEF Spec

-----------------------------------------------------------------------------
(* The promises.                                                             *)

(* The variables keep their types; an agent holds a job exactly while it     *)
(* executes one, and waits only for a script that it has run.                *)
THEOREM TypeCorrect == Spec => []TypeOK
<1>1. IInv => TypeOK
  BY DEF IInv, BoardOK, TypeOK
<1> QED
  BY <1>1, SpecIInv, PTL

(* The fleet keeps its own promises among agents that restart and under a    *)
(* server that comes back from its last save: an open job has an id of its   *)
(* own, below the next one, and no error beside it.                          *)
THEOREM FleetStaysSound == Spec => [](F!TypeOK /\ F!JobIdsUnique /\ F!NoErrorBesideJob)
<1>1. IInv => F!TypeOK /\ F!JobIdsUnique /\ F!NoErrorBesideJob
  BY DEF IInv, FleetOK
<1> QED
  BY <1>1, SpecIInv, PTL

(* The exam that an agent reports is the one on the screen.                  *)
THEOREM ReportedIsShown == Spec => []ReportedExamIsShown
<1>1. IInv => ReportedExamIsShown
  BY DEF IInv, BoardOK, ReportedExamIsShown
<1> QED
  BY <1>1, SpecIInv, PTL

(* A report that names the open job of its board is a report of that job.    *)
THEOREM ReportsNameTheirOwnJob == Spec => []ReportsNameTheirJob
<1>1. ASSUME IInv PROVE ReportsNameTheirJob
  <2> SUFFICES ASSUME NEW h \in Hosts, F!Open(live[h]), Reported(h).id = live[h].job.id
               PROVE  agent[h].stamp = era
    BY DEF ReportsNameTheirJob, Reported
  <2>1. boards[h] = "live"
    BY <1>1 DEF IInv, FleetOK, F!TypeOK, F!Open, F!Blank, F!NoJob
  <2>2. live[h].job.id \in 1..nextJob - 1 /\ nextJob \in 1..JobIdBound + 1
    BY <1>1 DEF IInv, FleetOK, F!TypeOK, F!JobIdsUnique
  <2>3. live[h].job.id # 0
    BY <2>2
  <2> QED
    BY <1>1, <2>1, <2>3 DEF IInv, ReportOK
<1> QED
  BY <1>1, SpecIInv, PTL

(* A board that the console calls idle has no browser, when a browser that   *)
(* an agent started is killed with it.                                       *)
THEOREM IdleIsDown == ASSUME ~KioskSurvives PROVE Spec => []IdleMeansDown
<1>1. ASSUME IInv PROVE IdleMeansDown
  <2> SUFFICES ASSUME NEW h \in Hosts, F!StatusOf(h) = "idle"
               PROVE  session[h].phase \in {"none", "over"}
    BY DEF IdleMeansDown
  <2>1. /\ boards[h] = "live" /\ ~F!IsOffline(live[h]) /\ ~F!Open(live[h]) /\ ~live[h].running
    BY DEF F!StatusOf
  <2>2. ~Busy(h)
    BY <1>1, <2>1 DEF IInv, StartOK, Explains
  <2> QED
    BY <1>1, <2>2 DEF IInv, BoardOK, Busy, Session
<1> QED
  BY <1>1, SpecIInv, PTL

(* "Exam running: X" is logged when the board was started with X.            *)
THEOREM RunningIsTheExam == Spec => RunningNamesTheExam
<1>1. ASSUME IInv, [Next]_vars
      PROVE  \A h \in Hosts :
               live' # live /\ F!Event(h, "running") \in news' => agent[h].exam = live[h].job.exam
  <2> SUFFICES ASSUME NEW h \in Hosts, live' # live, F!Event(h, "running") \in news'
               PROVE  agent[h].exam = live[h].job.exam
    OBVIOUS
  <2>1. ASSUME NEW g \in Hosts, NEW arrives \in BOOLEAN, Handled(g, arrives)
        PROVE  agent[h].exam = live[h].job.exam
    <3>1. BoardOK(g) /\ live[g] \in F!Live /\ request[g] \in F!Heartbeats /\ agent[g].pc = "polling"
      BY <1>1, <2>1 DEF IInv, BoardOK, FleetOK, F!TypeOK, Handled
    <3>2. news' = F!HeartbeatEvents(g, request[g])
      BY <2>1 DEF Handled, F!Heartbeat, F!Log
    <3>3. g = h /\ F!Open(live[h]) /\ live[h].job.kind = "start" /\ request[h].running
      BY <3>1, <3>2, RunningCompletes
    <3>4. boards[h] = "live"
      BY <1>1, <3>3 DEF IInv, FleetOK, F!TypeOK, F!Open, F!Blank, F!NoJob
    <3>5. Busy(h) /\ StartedExam(h) = agent[h].exam
      BY <3>1, <3>3 DEF Busy, StartedExam, Pending
    <3> QED
      BY <1>1, <3>3, <3>4, <3>5 DEF IInv, StartOK, Explains
  <2>2. ASSUME NEW g \in Hosts, Answered(g) \/ ReplyLost(g) PROVE agent[h].exam = live[h].job.exam
    BY <2>1, <2>2 DEF Answered, ReplyLost
  <2>3. ASSUME UNCHANGED fleetVars PROVE FALSE
    BY <2>3 DEF fleetVars
  <2>4. ASSUME NEW g \in Hosts,
               \/ SebComesUp(g) \/ Beat(g) \/ RequestLost(g) \/ Start(g) \/ Reap(g) \/ AgentRestarts(g)
               \/ \E installed \in BOOLEAN : StartFails(g, installed)
               \/ \E code \in Exits : SebEnds(g, code)
               \/ \E ok \in BOOLEAN, code \in Exits : Stop(g, ok, code)
        PROVE  FALSE
    <3>1. UNCHANGED fleetVars
      BY <2>4, Zenon
         DEF SebComesUp, Beat, RequestLost, Start, Reap, AgentRestarts, StartFails, SebEnds, Stop
    <3> QED
      BY <2>3, <3>1
  <2>5. ASSUME Command PROVE FALSE
    <3>1. ASSUME NEW hs, NEW kind, NEW e, F!Enqueue(hs, kind, e) PROVE FALSE
      BY <3>1, OthersDoNotSayRunning DEF F!Enqueue, F!Log
    <3>2. ASSUME NEW g \in Hosts, F!Forget(g) PROVE FALSE
      BY <3>2, OthersDoNotSayRunning DEF F!Forget, F!Log
    <3> QED
      BY <2>5, <3>1, <3>2 DEF Command
  <2>6. ASSUME Background PROVE FALSE
    BY <2>6, OthersDoNotSayRunning DEF Background, F!Tick, F!TimePasses, F!Log
  <2>7. ASSUME Save \/ ServerRestarts PROVE FALSE
    <3>1. news' = {} \/ news' = {F!Event(F!NoHost, "server started")}
      BY <2>7, Zenon DEF Save, F!TakeSnapshot, ServerRestarts, Restart
    <3>2. F!Event(h, "running") # F!Event(F!NoHost, "server started")
      BY OthersDoNotSayRunning
    <3> QED
      BY <3>1, <3>2
  <2>8. ASSUME UNCHANGED vars PROVE FALSE
    BY <2>3, <2>8 DEF vars
  <2> QED
    BY <1>1, <2>2, <2>4, <2>5, <2>6, <2>7, <2>8, Zenon DEF Next
<1> QED
  BY <1>1, SpecIInv, PTL DEF Spec, RunningNamesTheExam

=============================================================================
