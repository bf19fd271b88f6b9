------------------------------- MODULE Fleet -------------------------------
(***************************************************************************)
(* The server's fleet (server/src/backend/fleet.rs): the inventory of      *)
(* boards, the one job each board may have open, the list of exams and the *)
(* events they leave in the activity log.                                  *)
(*                                                                         *)
(* Every action is one method of `Fleet`, run under the mutex of `App`,    *)
(* so a method is one atomic step.  The agents and the instructor are the  *)
(* environment: any heartbeat and any command may arrive at any moment.    *)
(*                                                                         *)
(* The methods compare `now` with a stored instant; only the difference    *)
(* matters.  The module keeps the differences: how long a board has been   *)
(* silent, and for how long its job has waited in its present phase.  Both *)
(* stop growing one unit after the limit they are compared with.           *)
(***************************************************************************)
EXTENDS Naturals, Sequences, FiniteSets

CONSTANTS
  Hosts,         (* host names that agents may report                      *)
  Exams,         (* exam ids; an exam's name is identified with its id     *)
  Labels,        (* display names an instructor may give                   *)
  MaxBoards,     (* EXAM_MAX_BOARDS                                        *)
  MaxExams,      (* MAX_EXAMS                                              *)
  OfflineAfter,  (* OFFLINE_AFTER, in units of time                        *)
  PickupTTL,     (* PICKUP_TTL                                             *)
  StartTimeout,  (* START_TIMEOUT                                          *)
  StopTimeout,   (* STOP_TIMEOUT                                           *)
  JobIdBound     (* bound of the model: the last job id that is issued     *)

NoExam  == "no exam"
NoLabel == "no label"
NoHost  == "no host"

ASSUME NullsAssumption == NoExam \notin Exams /\ NoLabel \notin Labels /\ NoHost \notin Hosts
ASSUME LimitsAssumption ==
  /\ {MaxBoards, MaxExams, JobIdBound} \subseteq Nat
  /\ {OfflineAfter, PickupTTL, StartTimeout, StopTimeout} \subseteq Nat
ASSUME HostsAssumption == IsFiniteSet(Hosts)

VARIABLES
  boards,     (* "absent", "recorded" (known from disk) or "live" (heard)    *)
  label,      (* the name given to a board                                   *)
  live,       (* what was heard from a live board; Blank for the others      *)
  exams,      (* "unused" ids (they are random, so always fresh), "listed"   *)
              (* exams and "deleted" ones                                    *)
  nextJob,    (* next_job_id                                                 *)
  capWarned,  (* cap_warned: the board limit has been reported               *)
  dirty,      (* something that is persisted changed since the last snapshot *)
  news        (* the events that the last step appended to the log           *)

vars == <<boards, label, live, exams, nextJob, capWarned, dirty, news>>

-----------------------------------------------------------------------------
(* Data.                                                                     *)

Errors == {"none", "failed", "start timed out", "stop timed out", "exited"}

(* A job; kind "none" stands for the absence of one.  `age` counts from      *)
(* queued_at, and from picked_up_at once the job has been picked up.         *)
Job == [id: Nat, kind: {"none", "start", "stop"}, exam: Exams \cup {NoExam},
        picked: BOOLEAN, age: Nat]
NoJob == [id |-> 0, kind |-> "none", exam |-> NoExam, picked |-> FALSE, age |-> 0]

Live == [seen: Nat, running: BOOLEAN, exam: Exams \cup {NoExam}, error: Errors,
         noted: BOOLEAN, job: Job]
Blank == [seen |-> 0, running |-> FALSE, exam |-> NoExam, error |-> "none",
          noted |-> FALSE, job |-> NoJob]

(* The agent's report of a job it executed; id 0 stands for no report.       *)
Results  == [id: 0..JobIdBound, ok: BOOLEAN]
NoResult == [id |-> 0, ok |-> TRUE]

(* What a heartbeat says: only a running board names an exam, and the exit   *)
(* code is read only when the board is not running.                          *)
Heartbeats ==
  [running: {TRUE}, exam: Exams \cup {NoExam}, exit: {"none"}, result: Results]
    \cup
  [running: {FALSE}, exam: {NoExam}, exit: {"none", "zero", "nonzero"}, result: Results]

EventKinds ==
  {"new board", "limit", "back online", "failed", "running", "stopped", "ended",
   "offline", "expired", "timed out", "queued", "cancelled", "command",
   "renamed", "forgotten", "exam created", "exam deleted", "server started"}

Event(h, what) == [host |-> h, what |-> what]

Open(L)      == L.job.kind # "none"
Known        == {h \in Hosts : boards[h] # "absent"}
Listed       == {e \in Exams : exams[e] = "listed"}
IsOffline(L) == L.seen > OfflineAfter

(* The limit that the age of a job is compared with.                         *)
Deadline(j) == IF ~j.picked THEN PickupTTL
               ELSE IF j.kind = "start" THEN StartTimeout ELSE StopTimeout

(* Faulty variant: the log is not counted as persisted state.                *)
LogLeavingClean(events) == news' = events /\ dirty' = dirty

(* `log` appends an event and marks the state dirty.                         *)
Log(events) == /\ news' = events
               /\ dirty' = (dirty \/ events # {})

-----------------------------------------------------------------------------
(* from_snapshot and App::new: a server comes up from whatever was saved.    *)
(* No board is live, no job is open; the cap does not apply to saved boards. *)
Init ==
  /\ boards \in [Hosts -> {"absent", "recorded"}]
  /\ label = [h \in Hosts |-> NoLabel]
  /\ live = [h \in Hosts |-> Blank]
  /\ exams \in [Exams -> {"unused", "listed"}]
  /\ nextJob = 1
  /\ capWarned = FALSE
  /\ dirty = TRUE
  /\ news = {Event(NoHost, "server started")}

-----------------------------------------------------------------------------
(* heartbeat, the agent side.                                                *)

(* An explicit failure report for the job that is open.                      *)
FailedBy(L, hb) == Open(L) /\ hb.result.id = L.job.id /\ ~hb.result.ok
AfterResult(L, hb) ==
  IF FailedBy(L, hb) THEN [L EXCEPT !.error = "failed", !.job = NoJob] ELSE L

(* Completion is judged from the reported state.                             *)
FinishedBy(L, hb) ==
  \/ L.job.kind = "start" /\ hb.running
  \/ L.job.kind = "stop" /\ ~hb.running /\ L.job.picked

(* SEB ended and no job explains it.                                         *)
EndedBy(L, hb) == L.running /\ ~hb.running /\ ~Open(L)

(* A finished start leaves the exam's name, a finished stop clears it: a     *)
(* stop job carries no exam.                                                 *)
AfterCompletion(L, hb) ==
  IF FinishedBy(L, hb)
  THEN [L EXCEPT !.job = NoJob, !.error = "none", !.exam = L.job.exam]
  ELSE IF EndedBy(L, hb)
  THEN [L EXCEPT !.exam = NoExam, !.error = IF hb.exit = "nonzero" THEN "exited" ELSE @]
  ELSE L

(* A running board without a name gets the one of the exam id it reports.    *)
AfterNaming(L, hb) ==
  IF hb.running /\ L.exam = NoExam /\ hb.exam \in Listed
  THEN [L EXCEPT !.exam = hb.exam]
  ELSE L

(* A waiting job goes out with the reply.                                    *)
AfterDelivery(L) ==
  IF Open(L) /\ ~L.job.picked
  THEN [L EXCEPT !.job.picked = TRUE, !.job.age = 0]
  ELSE L

(* The whole handler, up to the delivery.                                    *)
Digest(L, hb) ==
  [AfterNaming(AfterCompletion(AfterResult(L, hb), hb), hb)
     EXCEPT !.seen = 0, !.noted = FALSE, !.running = hb.running]

HeartbeatEvents(h, hb) ==
  LET L == live[h]
      R == AfterResult(L, hb)
      back == boards[h] = "live" /\ (L.noted \/ IsOffline(L))
  IN  {Event(h, what) : what \in
         (IF boards[h] = "absent" THEN {"new board"} ELSE {})
           \cup (IF back THEN {"back online"} ELSE {})
           \cup (IF FailedBy(L, hb) THEN {"failed"} ELSE {})
           \cup (IF ~FinishedBy(R, hb) THEN {}
                 ELSE IF R.job.kind = "start" THEN {"running"} ELSE {"stopped"})
           \cup (IF ~FinishedBy(R, hb) /\ EndedBy(R, hb) THEN {"ended"} ELSE {})}

(* The job in the reply to this heartbeat, NoJob when there is none.         *)
Reply(h, hb) ==
  LET D == Digest(live[h], hb) IN IF D.job.picked THEN NoJob ELSE D.job

Admits(h) == boards[h] # "absent" \/ Cardinality(Known) < MaxBoards

Heartbeat(h, hb) ==
  /\ Admits(h)
  /\ boards' = [boards EXCEPT ![h] = "live"]
  /\ live' = [live EXCEPT ![h] = AfterDelivery(Digest(@, hb))]
  /\ Log(HeartbeatEvents(h, hb))
  /\ UNCHANGED <<label, exams, nextJob, capWarned>>

(* A new board at the cap is refused; the limit is reported once.            *)
RefuseBoard(h) ==
  /\ ~Admits(h)
  /\ capWarned' = TRUE
  /\ Log(IF capWarned THEN {} ELSE {Event(h, "limit")})
  /\ UNCHANGED <<boards, label, live, exams, nextJob>>

-----------------------------------------------------------------------------
(* tick: the background task notices silent boards and stale jobs.           *)

(* Faulty variant: a stop that was picked up has no timeout.                 *)
ExpiredUnlessStopping(L) ==
  Open(L) /\ L.job.age > Deadline(L.job) /\ ~(L.job.kind = "stop" /\ L.job.picked)

Expired(L) == Open(L) /\ L.job.age > Deadline(L.job)

(* Faulty variant: a job that timed out is offered to the board again.       *)
AfterTickRetrying(L) ==
  [L EXCEPT !.noted = @ \/ IsOffline(L),
            !.job = IF ~Expired(L) THEN @
                    ELSE IF @.picked THEN [@ EXCEPT !.picked = FALSE, !.age = 0]
                    ELSE NoJob]

AfterTick(L) ==
  [L EXCEPT !.noted = @ \/ IsOffline(L),
            !.job = IF Expired(L) THEN NoJob ELSE @,
            !.error = IF ~(Expired(L) /\ L.job.picked) THEN @
                      ELSE IF L.job.kind = "start" THEN "start timed out"
                      ELSE "stop timed out"]

TickEvents(h) ==
  LET L == live[h] IN
  {Event(h, what) : what \in
     (IF IsOffline(L) /\ ~L.noted THEN {"offline"} ELSE {})
       \cup (IF ~Expired(L) THEN {}
             ELSE IF L.job.picked THEN {"timed out"} ELSE {"expired"})}

Tick ==
  /\ live' = [h \in Hosts |-> IF boards[h] = "live" THEN AfterTick(live[h]) ELSE live[h]]
  /\ Log(UNION {TickEvents(h) : h \in {g \in Hosts : boards[g] = "live"}})
  /\ UNCHANGED <<boards, label, exams, nextJob, capWarned>>

(* Time is external: it passes for every board at once.                      *)
Older(age, limit) == IF age > limit THEN age ELSE age + 1

AgedJob(j) == IF j.kind = "none" THEN j ELSE [j EXCEPT !.age = Older(@, Deadline(j))]
Aged(L)    == [L EXCEPT !.seen = Older(@, OfflineAfter), !.job = AgedJob(@)]

TimePasses ==
  /\ live' = [h \in Hosts |-> IF boards[h] = "live" THEN Aged(live[h]) ELSE live[h]]
  /\ Log({})
  /\ UNCHANGED <<boards, label, exams, nextJob, capWarned>>

-----------------------------------------------------------------------------
(* enqueue, the instructor side.                                             *)

(* Faulty variant: a start is refused only while SEB runs.                   *)
RefusesOnlyByState(L, kind) ==
  \/ kind = "start" /\ L.running
  \/ kind = "stop" /\ (L.job.kind = "stop" \/ (~Open(L) /\ ~L.running /\ L.error = "none"))

(* Why a command does nothing on a board.                                    *)
Refuses(L, kind) ==
  \/ kind = "start" /\ (Open(L) \/ L.running)
  \/ kind = "stop" /\ L.job.kind = "stop"
  \/ kind = "stop" /\ ~Open(L) /\ ~L.running /\ L.error = "none"

(* Faulty variants: silence is not asked about; an unheard board is idle.    *)
SkipsDespiteSilence(h, kind) == boards[h] # "live" \/ Refuses(live[h], kind)
SkipsKnownOnly(h, kind) ==
  boards[h] = "absent" \/ IsOffline(live[h]) \/ Refuses(live[h], kind)

Skips(h, kind) == boards[h] # "live" \/ IsOffline(live[h]) \/ Refuses(live[h], kind)

(* A stop of a start that was never picked up only removes the start.        *)
Cancels(L, kind) == kind = "stop" /\ L.job.kind = "start" /\ ~L.job.picked

(* A request is a list of boards without repetition, in any order (the loop  *)
(* ignores a name it has seen); only its first MaxBoards entries are read.   *)
Requests == {hs \in UNION {[1..n -> Hosts] : n \in 1..Cardinality(Hosts)} :
               \A i, j \in DOMAIN hs : hs[i] = hs[j] => i = j}

Considered(hs) == {hs[i] : i \in {j \in DOMAIN hs : j <= MaxBoards}}
Skipped(hs, kind)   == {h \in Considered(hs) : Skips(h, kind)}
Cancelled(hs, kind) == {h \in Considered(hs) : ~Skips(h, kind) /\ Cancels(live[h], kind)}
Queued(hs, kind)    == {h \in Considered(hs) : ~Skips(h, kind) /\ ~Cancels(live[h], kind)}

(* Ids are handed out in the order of the list.                              *)
Position(hs, h) == CHOOSE i \in DOMAIN hs : hs[i] = h
(* Faulty variant: next_job_id is advanced after the loop.                   *)
IdForTheBatch(hs, kind, h) == nextJob

IdFor(hs, kind, h) ==
  nextJob + Cardinality({g \in Queued(hs, kind) : Position(hs, g) < Position(hs, h)})

NewJob(hs, kind, e, h) ==
  [id |-> IdFor(hs, kind, h), kind |-> kind, exam |-> e, picked |-> FALSE, age |-> 0]

(* Faulty variant: the error of the job before is kept.                      *)
OpenedKeepingError(L, job) == [L EXCEPT !.job = job]

Opened(L, job) == [L EXCEPT !.error = "none", !.job = job]

Enqueue(hs, kind, e) ==
  /\ IF kind = "start" THEN e \in Listed ELSE e = NoExam
  /\ Considered(hs) # {}
  /\ nextJob + Cardinality(Queued(hs, kind)) <= JobIdBound + 1
  /\ live' = [h \in Hosts |->
                IF h \in Cancelled(hs, kind) THEN [live[h] EXCEPT !.job = NoJob]
                ELSE IF h \in Queued(hs, kind)
                THEN Opened(live[h], NewJob(hs, kind, e, h))
                ELSE live[h]]
  /\ nextJob' = nextJob + Cardinality(Queued(hs, kind))
  /\ Log({Event(NoHost, "command")}
           \cup {Event(h, "cancelled") : h \in Cancelled(hs, kind)}
           \cup {Event(h, "queued") : h \in Queued(hs, kind)})
  /\ UNCHANGED <<boards, label, exams, capWarned>>

(* rename, forget and the list of exams.                                     *)
Rename(h, l) ==
  /\ boards[h] # "absent"
  /\ label[h] # l
  /\ label' = [label EXCEPT ![h] = l]
  /\ Log({Event(h, "renamed")})
  /\ UNCHANGED <<boards, live, exams, nextJob, capWarned>>

(* Faulty variants: the limit is not reported again; what was heard is kept. *)
ForgetKeepingWarning(h) ==
  /\ boards[h] # "absent"
  /\ boards' = [boards EXCEPT ![h] = "absent"]
  /\ label' = [label EXCEPT ![h] = NoLabel]
  /\ live' = [live EXCEPT ![h] = Blank]
  /\ Log({Event(h, "forgotten")})
  /\ UNCHANGED <<exams, nextJob, capWarned>>

ForgetKeepingLive(h) ==
  /\ boards[h] # "absent"
  /\ boards' = [boards EXCEPT ![h] = "absent"]
  /\ label' = [label EXCEPT ![h] = NoLabel]
  /\ capWarned' = FALSE
  /\ Log({Event(h, "forgotten")})
  /\ UNCHANGED <<live, exams, nextJob>>

Forget(h) ==
  /\ boards[h] # "absent"
  /\ boards' = [boards EXCEPT ![h] = "absent"]
  /\ label' = [label EXCEPT ![h] = NoLabel]
  /\ live' = [live EXCEPT ![h] = Blank]
  /\ capWarned' = FALSE
  /\ Log({Event(h, "forgotten")})
  /\ UNCHANGED <<exams, nextJob>>

CreateExam(e) ==
  /\ exams[e] = "unused"
  /\ Cardinality(Listed) < MaxExams
  /\ exams' = [exams EXCEPT ![e] = "listed"]
  /\ Log({Event(NoHost, "exam created")})
  /\ UNCHANGED <<boards, label, live, nextJob, capWarned>>

DeleteExam(e) ==
  /\ exams[e] = "listed"
  /\ exams' = [exams EXCEPT ![e] = "deleted"]
  /\ Log({Event(NoHost, "exam deleted")})
  /\ UNCHANGED <<boards, label, live, nextJob, capWarned>>

(* The critical section of App::save.                                        *)
TakeSnapshot ==
  /\ dirty' = FALSE
  /\ news' = {}
  /\ UNCHANGED <<boards, label, live, exams, nextJob, capWarned>>

-----------------------------------------------------------------------------
(* status_of, and what a board's page writes beside the badge.               *)

StatusOf(h) ==
  LET L == live[h] IN
  IF boards[h] # "live" \/ IsOffline(L) THEN "offline"
  ELSE IF Open(L) THEN (IF L.job.kind = "start" THEN "starting" ELSE "stopping")
  ELSE IF L.error # "none" THEN "error"
  ELSE IF L.running THEN "running" ELSE "idle"

(* The line is the status' detail; without one it is "Running <exam_name>".  *)
SaysRunning(h) ==
  StatusOf(h) \in {"offline", "running", "idle"} /\ live[h].exam # NoExam

-----------------------------------------------------------------------------
Next ==
  \/ \E h \in Hosts, hb \in Heartbeats : Heartbeat(h, hb)
  \/ \E h \in Hosts : RefuseBoard(h) \/ Forget(h)
  \/ \E h \in Hosts, l \in Labels \cup {NoLabel} : Rename(h, l)
  \/ \E hs \in Requests, e \in Exams : Enqueue(hs, "start", e)
  \/ \E hs \in Requests : Enqueue(hs, "stop", NoExam)
  \/ \E e \in Exams : CreateExam(e) \/ DeleteExam(e)
  \/ Tick \/ TimePasses \/ TakeSnapshot

(* The background task ticks every second for as long as the server runs,    *)
(* and time passes; nothing makes an agent or an instructor act.             *)
Fairness == WF_vars(Tick) /\ WF_vars(TimePasses)

Spec == Init /\ [][Next]_vars /\ Fairness

-----------------------------------------------------------------------------
(* Properties.                                                               *)

(* Every variable has its type, and a board that is not live has no trace of *)
(* an earlier life: the server forgets what it heard with the board.         *)
TypeOK ==
  /\ boards \in [Hosts -> {"absent", "recorded", "live"}]
  /\ label \in [Hosts -> Labels \cup {NoLabel}]
  /\ live \in [Hosts -> Live]
  /\ \A h \in Hosts : boards[h] # "live" => live[h] = Blank
  /\ exams \in [Exams -> {"unused", "listed", "deleted"}]
  /\ nextJob \in 1..JobIdBound + 1
  /\ capWarned \in BOOLEAN
  /\ dirty \in BOOLEAN
  /\ news \subseteq [host: Hosts \cup {NoHost}, what: EventKinds]

(* Two boards never hold jobs with one id, and no open job has an id that    *)
(* is still to be issued: an agent's report names exactly one job.           *)
JobIdsUnique ==
  /\ \A h \in Hosts : Open(live[h]) => live[h].job.id \in 1..nextJob - 1
  /\ \A g, h \in Hosts :
       Open(live[g]) /\ Open(live[h]) /\ live[g].job.id = live[h].job.id => g = h

(* An open job and an error never coexist, whatever ended the jobs before:   *)
(* status_of ranks the job first, so an error kept beside a job would come   *)
(* back once the job is done.                                                *)
NoErrorBesideJob == \A h \in Hosts : Open(live[h]) => live[h].error = "none"

(* What the log may say when a job ends, given the phase it ends in.         *)
Outcomes(j) ==
  IF j.picked THEN {"failed", "timed out", "forgotten"}
                     \cup (IF j.kind = "start" THEN {"running", "queued"} ELSE {"stopped"})
  ELSE {"failed", "expired", "forgotten"}
         \cup (IF j.kind = "start" THEN {"running", "cancelled"} ELSE {})

Ends(h) == Open(live[h]) /\ live[h]'.job.id # live[h].job.id

(* The log accounts for every job: a job ends in exactly the steps that      *)
(* append an outcome for its board, an outcome its phase allows.  Only a     *)
(* stop replaces a job, and only a start that was picked up.                 *)
JobsEndOnTheRecord ==
  [][\A h \in Hosts :
       Open(live[h]) =>
         (Ends(h) <=> \E ev \in news' : ev.host = h /\ ev.what \in Outcomes(live[h].job))]_vars

(* The limit is reported once per full fleet: while the warning is on        *)
(* record the fleet is full, so a cap reached anew is reported anew.         *)
WarnedMeansFull == capWarned => Cardinality(Known) >= MaxBoards

(* What snapshot() returns, apart from the times a board was last seen.      *)
Persisted == <<Known, label, exams, nextJob>>

(* A step that changes what a snapshot holds, the log included, leaves the   *)
(* state dirty, so the saver cannot miss it.                                 *)
ChangesAreDirty == [][Persisted' # Persisted \/ news' # {} => dirty']_vars

(* The abstract life of a job that this server implements.                   *)
Phase(i) ==
  IF i >= nextJob THEN "unissued"
  ELSE IF \E h \in Hosts : Open(live[h]) /\ live[h].job.id = i /\ ~live[h].job.picked
  THEN "waiting"
  ELSE IF \E h \in Hosts : Open(live[h]) /\ live[h].job.id = i
  THEN "delivered"
  ELSE "closed"

Holds(i) == {h \in Hosts : Open(live[h]) /\ live[h].job.id = i}

Jobs == INSTANCE JobLifecycle
          WITH Ids <- 1..JobIdBound,
               phase <- [i \in 1..JobIdBound |-> Phase(i)],
               holders <- [i \in 1..JobIdBound |-> Holds(i)]

(* Every job id is issued once, in order, goes to one board, is delivered at *)
(* most once and is never reopened, whatever the agents report.              *)
ImplementsLifecycle == Jobs!Spec

(* No job stays open for ever: the timeouts end what the board does not.     *)
JobsEventuallyEnd == Jobs!EveryJobEnds

-----------------------------------------------------------------------------
(* What the documents say and the code does not do.                          *)

(* "State is never ambiguous" (DESIGN.md): a board whose badge says Ready,   *)
(* that of the status idle, does not say Running beside it.                  *)
IdleSaysIdle == \A h \in Hosts : StatusOf(h) = "idle" => ~SaysRunning(h)

=============================================================================
