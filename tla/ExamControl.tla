---------------------------- MODULE ExamControl ----------------------------
(***************************************************************************)
(* The control loop of an exam: the server's fleet (Fleet.tla), the agent  *)
(* on each board (seb-agent/src/main.rs), the browser it starts and stops  *)
(* through start-seb.sh and stop-seb.sh, and the state file the server     *)
(* comes up from.  Requests and replies are lost, the agent and the server *)
(* restart, the browser ends by itself, commands arrive at any moment.     *)
(*                                                                         *)
(* The agent is one thread: it polls, executes the job of the reply, and   *)
(* polls again; waiting for the reply and waiting for a stopped browser    *)
(* block it.  A request that the agent gave up is processed by then or     *)
(* never: requests of one board do not overtake each other.                *)
(***************************************************************************)
EXTENDS Naturals, Sequences, FiniteSets

CONSTANTS
  Hosts, Exams, Labels, MaxBoards, MaxExams, OfflineAfter, PickupTTL,
  StartTimeout, StopTimeout, JobIdBound,   (* of Fleet                       *)
  KioskSurvives,  (* the browser runs in a unit of its own (GPU stack) and   *)
                  (* outlives the agent that started it                      *)
  EraBound        (* bound of the model: restarts of the server              *)

VARIABLES boards, label, live, exams, nextJob, capWarned, dirty, news

F == INSTANCE Fleet

ASSUME FleetAssumption ==
  /\ F!NoExam \notin Exams /\ F!NoLabel \notin Labels /\ F!NoHost \notin Hosts
  /\ {MaxBoards, MaxExams, JobIdBound} \subseteq Nat
  /\ {OfflineAfter, PickupTTL, StartTimeout, StopTimeout} \subseteq Nat
  /\ IsFiniteSet(Hosts)
ASSUME ControlAssumption ==
  /\ KioskSurvives \in BOOLEAN
  /\ EraBound \in Nat
  /\ Cardinality(Hosts) <= MaxBoards
(* A board is offline before a job of its own times out: 15 s, and 60, 90    *)
(* and 45 s (fleet.rs).                                                      *)
ASSUME PatienceAssumption ==
  OfflineAfter <= PickupTTL /\ OfflineAfter <= StartTimeout /\ OfflineAfter <= StopTimeout

VARIABLES
  agent,    (* each agent's local variables and where its thread is          *)
  request,  (* the heartbeat an agent waits for an answer to                 *)
  session,  (* the start script and browser on each board                    *)
  disk,     (* the last snapshot saved                                       *)
  era       (* which run of the server this is                               *)

fleetVars == <<boards, label, live, exams, nextJob, capWarned, dirty, news>>
boardVars == <<agent, request, session>>
vars      == <<fleetVars, boardVars, disk, era>>

-----------------------------------------------------------------------------
(* Data.                                                                     *)

Exits == {"none", "zero", "nonzero"}

(* `stamp` is a history variable: the run of the server that issued the job  *)
(* in `job` or the one reported in `result`.                                 *)
Agent == [pc: {"asleep", "polling", "working", "waiting"},
          child: BOOLEAN,                     (* seb is Some                 *)
          exam: Exams \cup {F!NoExam},        (* exam_id                     *)
          exit: Exits,                        (* last_exit                   *)
          result: F!Results,                  (* job_result                  *)
          job: F!Job,                         (* of the reply being executed *)
          file: Exams \cup {F!NoExam},        (* ~/exam.seb                  *)
          stamp: 0..EraBound]

NewAgent(file) == [pc |-> "asleep", child |-> FALSE, exam |-> F!NoExam, exit |-> "none",
                   result |-> F!NoResult, job |-> F!NoJob, file |-> file, stamp |-> 0]

(* "over" is a script that exited and has not been waited for.               *)
Session   == [phase: {"none", "starting", "up", "over"}, exam: Exams \cup {F!NoExam}, code: Exits]
NoSession == [phase |-> "none", exam |-> F!NoExam, code |-> "none"]
Over(code) == [phase |-> "over", exam |-> F!NoExam, code |-> code]

NoRequest == [running |-> FALSE, exam |-> F!NoExam, exit |-> "none", result |-> F!NoResult]

Snapshot == [known |-> F!Known, label |-> label, exams |-> exams, nextJob |-> nextJob]

Init ==
  /\ F!Init
  /\ exams = [e \in Exams |-> "listed"]
  /\ agent = [h \in Hosts |-> NewAgent(F!NoExam)]
  /\ request = [h \in Hosts |-> NoRequest]
  /\ session = [h \in Hosts |-> NoSession]
  /\ disk = Snapshot
  /\ era = 0

-----------------------------------------------------------------------------
(* The browser.  The script runs for as long as the browser does; nobody     *)
(* waits for a browser that outlived its agent.                              *)
Ended(h, code) == IF agent[h].child THEN Over(code) ELSE NoSession

(* The browser reads the exam file when it comes up.                         *)
SebComesUp(h) ==
  /\ session[h].phase = "starting"
  /\ session' = [session EXCEPT ![h].phase = "up", ![h].exam = agent[h].file]
  /\ UNCHANGED <<fleetVars, agent, request, disk, era>>

(* The student quits, it crashes, or it never came up.                       *)
SebEnds(h, code) ==
  /\ session[h].phase \in {"starting", "up"}
  /\ session' = [session EXCEPT ![h] = Ended(h, code)]
  /\ UNCHANGED <<fleetVars, agent, request, disk, era>>

-----------------------------------------------------------------------------
(* The agent's loop.                                                         *)

(* running(): whether the script is alive.                                   *)
Running(h) == agent[h].child /\ session[h].phase # "over"

(* What the next heartbeat says; the server reads the exit code only of a    *)
(* board that does not run.                                                  *)
Poll(h) ==
  IF Running(h)
  THEN [running |-> TRUE, exam |-> agent[h].exam, exit |-> "none", result |-> agent[h].result]
  ELSE [running |-> FALSE, exam |-> F!NoExam, result |-> agent[h].result,
        exit |-> IF agent[h].child THEN session[h].code ELSE agent[h].exit]

(* A script that exited is waited for.                                       *)
Reaped(h, a) ==
  IF Running(h) \/ ~agent[h].child THEN a
  ELSE [a EXCEPT !.child = FALSE, !.exit = session[h].code]
SessionReaped(h) == IF session[h].phase = "over" THEN NoSession ELSE session[h]

(* The result is taken out when it is sent, and never sent again.            *)
Beat(h) ==
  /\ agent[h].pc = "asleep"
  /\ agent' = [agent EXCEPT ![h] =
       [Reaped(h, @) EXCEPT !.pc = "polling", !.result = F!NoResult,
                            !.exam = IF Running(h) THEN agent[h].exam ELSE F!NoExam]]
  /\ request' = [request EXCEPT ![h] = Poll(h)]
  /\ session' = [session EXCEPT ![h] = SessionReaped(h)]
  /\ UNCHANGED <<fleetVars, disk, era>>

(* The server handles the request and the agent reads the reply, or not.     *)
Handled(h, arrives) ==
  /\ agent[h].pc = "polling"
  /\ F!Heartbeat(h, request[h])
  /\ LET job == IF arrives THEN F!Reply(h, request[h]) ELSE F!NoJob
     IN  agent' = [agent EXCEPT ![h].job = job, ![h].stamp = IF job = F!NoJob THEN 0 ELSE era,
                                ![h].pc = IF job = F!NoJob THEN "asleep" ELSE "working"]
  /\ request' = [request EXCEPT ![h] = NoRequest]
  /\ UNCHANGED <<session, disk, era>>

Answered(h)  == Handled(h, TRUE)
ReplyLost(h) == Handled(h, FALSE)

RequestLost(h) ==
  /\ agent[h].pc = "polling"
  /\ agent' = [agent EXCEPT ![h].pc = "asleep", ![h].stamp = 0]
  /\ request' = [request EXCEPT ![h] = NoRequest]
  /\ UNCHANGED <<fleetVars, session, disk, era>>

(* The job was executed and its outcome waits for the next heartbeat.        *)
Done(a, ok) == [a EXCEPT !.pc = "asleep", !.job = F!NoJob, !.result = [id |-> a.job.id, ok |-> ok]]

(* Faulty variant: an exam file that is there is not replaced.               *)
StartKeepingFile(h) ==
  /\ agent[h].pc = "working" /\ agent[h].job.kind = "start"
  /\ agent' = [agent EXCEPT ![h] =
       [Reaped(h, Done(@, TRUE)) EXCEPT !.child = TRUE, !.exam = agent[h].job.exam,
          !.file = IF @ = F!NoExam THEN agent[h].job.exam ELSE @]]
  /\ session' = [session EXCEPT ![h] =
       IF Running(h) THEN @ ELSE [NoSession EXCEPT !.phase = "starting"]]
  /\ UNCHANGED <<fleetVars, request, disk, era>>

(* A start installs the exam file, then runs the script unless it runs.      *)
Start(h) ==
  /\ agent[h].pc = "working" /\ agent[h].job.kind = "start"
  /\ agent' = [agent EXCEPT ![h] =
       [Reaped(h, Done(@, TRUE)) EXCEPT !.child = TRUE, !.exam = agent[h].job.exam,
                                        !.file = agent[h].job.exam]]
  /\ session' = [session EXCEPT ![h] =
       IF Running(h) THEN @ ELSE [NoSession EXCEPT !.phase = "starting"]]
  /\ UNCHANGED <<fleetVars, request, disk, era>>

(* It fails before the file is written, or the script cannot be run.         *)
StartFails(h, installed) ==
  /\ agent[h].pc = "working" /\ agent[h].job.kind = "start"
  /\ installed => ~Running(h)
  /\ agent' = [agent EXCEPT ![h] =
       IF installed THEN [Reaped(h, Done(@, FALSE)) EXCEPT !.file = agent[h].job.exam]
       ELSE Done(@, FALSE)]
  /\ session' = [session EXCEPT ![h] = IF installed THEN SessionReaped(h) ELSE @]
  /\ UNCHANGED <<fleetVars, request, disk, era>>

(* What the stop script does to the browser: one that is not up yet is not   *)
(* found, and a script that cannot be run does nothing.                      *)
Killed(h, ok, code) ==
  IF ok /\ session[h].phase = "up" THEN Ended(h, code) ELSE session[h]

(* Faulty variant: the agent does not wait for the script it stopped.        *)
StopLeaving(h, ok, code) ==
  /\ agent[h].pc = "working" /\ agent[h].job.kind = "stop"
  /\ agent' = [agent EXCEPT ![h] = [Done(@, ok) EXCEPT !.child = FALSE]]
  /\ session' = [session EXCEPT ![h] =
       IF Killed(h, ok, code).phase = "over" THEN NoSession ELSE Killed(h, ok, code)]
  /\ UNCHANGED <<fleetVars, request, disk, era>>

(* Faulty variant: it waits although it has run no script.                   *)
StopWaiting(h, ok, code) ==
  /\ agent[h].pc = "working" /\ agent[h].job.kind = "stop"
  /\ agent' = [agent EXCEPT ![h] = [Done(@, ok) EXCEPT !.pc = "waiting"]]
  /\ session' = [session EXCEPT ![h] = Killed(h, ok, code)]
  /\ UNCHANGED <<fleetVars, request, disk, era>>

(* A stop runs the script and waits for the start script it had run; the     *)
(* script's outcome is kept for the report.                                  *)
Stop(h, ok, code) ==
  /\ agent[h].pc = "working" /\ agent[h].job.kind = "stop"
  /\ agent' = [agent EXCEPT ![h] =
       IF @.child THEN [Done(@, ok) EXCEPT !.pc = "waiting"] ELSE Done(@, ok)]
  /\ session' = [session EXCEPT ![h] = Killed(h, ok, code)]
  /\ UNCHANGED <<fleetVars, request, disk, era>>

Reap(h) ==
  /\ agent[h].pc = "waiting" /\ session[h].phase = "over"
  /\ agent' = [agent EXCEPT ![h] = [Reaped(h, @) EXCEPT !.pc = "asleep"]]
  /\ session' = [session EXCEPT ![h] = NoSession]
  /\ UNCHANGED <<fleetVars, request, disk, era>>

(* The agent restarts at any point and has no child; a browser in the        *)
(* agent's own unit is killed with it.                                       *)
AgentRestarts(h) ==
  /\ agent' = [agent EXCEPT ![h] = NewAgent(@.file)]
  /\ request' = [request EXCEPT ![h] = NoRequest]
  /\ session' = [session EXCEPT ![h] =
       IF KioskSurvives /\ @.phase # "over" THEN @ ELSE NoSession]
  /\ UNCHANGED <<fleetVars, disk, era>>

-----------------------------------------------------------------------------
(* The server, beside the heartbeats.                                        *)

Command ==
  /\ \/ \E hs \in F!Requests, e \in Exams : F!Enqueue(hs, "start", e)
     \/ \E hs \in F!Requests : F!Enqueue(hs, "stop", F!NoExam)
     \/ \E h \in Hosts : F!Forget(h)
  /\ UNCHANGED <<boardVars, disk, era>>

Background ==
  /\ F!Tick \/ F!TimePasses
  /\ UNCHANGED <<boardVars, disk, era>>

(* App::save, whole (Store.tla has its steps).                               *)
Save ==
  /\ dirty
  /\ F!TakeSnapshot
  /\ disk' = Snapshot
  /\ UNCHANGED <<boardVars, era>>

(* What was not saved is lost, next_job_id included; all of it for a run of  *)
(* the server that cannot read the state file, which stays as it is.         *)
Nothing == [known |-> {}, label |-> [h \in Hosts |-> F!NoLabel],
            exams |-> [e \in Exams |-> "deleted"], nextJob |-> 1]

Restart(saved) ==
  /\ era < EraBound
  /\ era' = era + 1
  /\ boards' = [h \in Hosts |-> IF h \in saved.known THEN "recorded" ELSE "absent"]
  /\ live' = [h \in Hosts |-> F!Blank]
  /\ label' = saved.label
  /\ exams' = saved.exams
  /\ nextJob' = saved.nextJob
  /\ capWarned' = FALSE
  /\ dirty' = TRUE
  /\ news' = {F!Event(F!NoHost, "server started")}
  /\ UNCHANGED <<boardVars, disk>>

ServerRestarts == Restart(disk) \/ Restart(Nothing)

-----------------------------------------------------------------------------
Next ==
  \/ \E h \in Hosts :
       \/ SebComesUp(h) \/ Beat(h) \/ Answered(h) \/ ReplyLost(h) \/ RequestLost(h)
       \/ Start(h) \/ Reap(h) \/ AgentRestarts(h)
       \/ \E installed \in BOOLEAN : StartFails(h, installed)
       \/ \E code \in Exits : SebEnds(h, code)
       \/ \E ok \in BOOLEAN, code \in Exits : Stop(h, ok, code)
  \/ Command \/ Background \/ Save \/ ServerRestarts

Spec == Init /\ [][Next]_vars

-----------------------------------------------------------------------------
(* Properties.                                                               *)

(* Types, and that an agent holds a job exactly while it executes one and    *)
(* waits only for a script it has run.                                       *)
TypeOK ==
  /\ agent \in [Hosts -> Agent]
  /\ \A h \in Hosts : agent[h].pc = "working" <=> agent[h].job # F!NoJob
  /\ \A h \in Hosts : agent[h].pc = "waiting" => agent[h].child
  /\ request \in [Hosts -> F!Heartbeats]
  /\ session \in [Hosts -> Session]
  /\ era \in 0..EraBound

(* The exam that an agent reports is the one on the screen: a start never    *)
(* reaches a board whose browser is up, so it never renames the session or   *)
(* replaces the file of one.                                                 *)
ReportedExamIsShown ==
  \A h \in Hosts :
    agent[h].child /\ session[h].phase = "up" => agent[h].exam = session[h].exam

(* "Exam running: X" is logged when the board was started with X: a start    *)
(* is never completed by a session that an earlier start left behind.        *)
RunningNamesTheExam ==
  [][\A h \in Hosts :
       live' # live /\ F!Event(h, "running") \in news' => agent[h].exam = live[h].job.exam]_vars

(* A report that names the open job of its board is a report of that job,    *)
(* although ids are issued again after a crash has rolled next_job_id back.  *)
ReportsNameTheirJob ==
  \A h \in Hosts :
    LET reported == IF agent[h].pc = "polling" THEN request[h].result ELSE agent[h].result
    IN  F!Open(live[h]) /\ reported.id = live[h].job.id => agent[h].stamp = era

(* "idle: agent up, SEB not running" (exam-env.md).                          *)
IdleMeansDown ==
  \A h \in Hosts : F!StatusOf(h) = "idle" => session[h].phase \in {"none", "over"}

=============================================================================
