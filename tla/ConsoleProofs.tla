---------------------------- MODULE ConsoleProofs ----------------------------
(***************************************************************************)
(* Proofs about Console.tla, for any boards, exams and filters, any number *)
(* of requests under way and any time that a button stays armed.           *)
(***************************************************************************)
EXTENDS Console, LeastNumbers, FiniteSetTheorems, TLAPS

LEMMA BoundsAreNaturals ==
  /\ ConfirmTime \in Nat /\ ConfirmTime >= 1
  /\ SlotBound \in Nat /\ SlotBound >= 1
  /\ VersionBound \in Nat
  BY ConsoleAssumption

(* While a slot is vacant, a request finds one.                              *)
LEMMA SlotIsVacant ==
  ASSUME Vacant # {}, NEW what
  PROVE  Slot(what) \in Vacant
  <1>1. Vacant \in SUBSET (0..SlotBound) /\ Vacant \in SUBSET Nat
    BY BoundsAreNaturals DEF Vacant, Slots
  <1>2. \E i \in Vacant : \A j \in Vacant : i <= j
    BY <1>1, LeastOf
  <1>3. \E i \in Vacant : \A j \in Vacant : i >= j
    BY <1>1, GreatestOf, BoundsAreNaturals
  <1>4. \E i \in Vacant : \A j \in Vacant : IF what = "poll" THEN i <= j ELSE i >= j
    <2>1. CASE what = "poll"
      BY <2>1, <1>2
    <2>2. CASE what # "poll"
      BY <2>2, <1>3
    <2> QED
      BY <2>1, <2>2
  <1> QED
    BY <1>4 DEF Slot

-----------------------------------------------------------------------------
(* Types.                                                                    *)

LEMMA NoExamIsNone == NoExam \notin Exams
  BY ConsoleAssumption

LEMMA FirstIsListed ==
  ASSUME NEW list \in SUBSET Exams
  PROVE  /\ First(list) \in Exams \cup {NoExam}
         /\ First(list) \in list \/ (First(list) = NoExam /\ list = {})
  BY DEF First

LEMMA ShownTyped ==
  ASSUME NEW s \in Snapshot, NEW p
  PROVE  Shown(p, s) \in Snapshot /\ (p # "activity" => Shown(p, s) = s)
  BY DEF Shown, Snapshot

(* What a request of each shape has and may become.                          *)
LEMMA RequestsTyped ==
  /\ Free \in Requests
  /\ \A what \in Fetches, a \in Filters : Sent(what, a) \in Requests
  /\ \A cmd \in Commands, a \in Exams \cup {NoExam} : Sent(cmd, a) \in Requests
  BY DEF Requests, Free, Sent

LEMMA FetchTyped ==
  ASSUME NEW r \in Requests, r.what \in Fetches, r.stage \in {"sent", "answered"}
  PROVE  r.arg \in Filters /\ (r.stage = "answered" => r.snap \in Snapshot)
  BY DEF Requests, Free, Fetches, Commands

LEMMA CommandTyped ==
  ASSUME NEW r \in Requests, r.what \in Commands, r.stage = "sent"
  PROVE  r.arg \in Exams \cup {NoExam}
  BY DEF Requests, Free, Fetches, Commands

LEMMA BringsTyped ==
  ASSUME NEW r \in Requests, r.what \in Fetches, r.stage = "sent",
         NEW s \in Snapshot
  PROVE  Brings(r, s) \in Requests /\ Brings(r, s).what = r.what
  BY FetchTyped DEF Requests, Brings

LEMMA FailedTyped ==
  ASSUME NEW r \in Requests, r # Free
  PROVE  Failed(r) \in Requests /\ Failed(r).what = r.what
  BY DEF Requests, Failed

LEMMA DoneTyped ==
  ASSUME NEW r \in Requests, r.what \in Commands
  PROVE  Done(r) \in Requests /\ Done(r).what = r.what
  BY DEF Requests, Done

(* The stop button: an armed one has a timer that ends in time.              *)
Buttons == [armed: BOOLEAN, timers: SUBSET (1..ConfirmTime), since: 0..ConfirmTime]

TimerRuns ==
  button.armed => \E t \in button.timers : t + button.since <= ConfirmTime

Typed == TypeOK /\ TimerRuns

LEMMA FreshTyped == Fresh \in Buttons /\ ~Fresh.armed
  BY BoundsAreNaturals DEF Fresh, Buttons

LEMMA ArmTyped ==
  ASSUME TypeOK, Arm
  PROVE  button' \in Buttons /\ TimerRuns'
  <1>1. button \in Buttons
    BY DEF TypeOK, Buttons
  <1>2. ConfirmTime \in 1..ConfirmTime /\ 0 \in 0..ConfirmTime
    BY BoundsAreNaturals
  <1>3. button' = [armed |-> TRUE, timers |-> button.timers \cup {ConfirmTime}, since |-> 0]
    BY DEF Arm
  <1>4. button' \in Buttons
    BY <1>1, <1>2, <1>3 DEF Buttons
  <1>5. ConfirmTime \in button'.timers /\ ConfirmTime + button'.since <= ConfirmTime
    BY <1>3, BoundsAreNaturals
  <1> QED
    BY <1>4, <1>5 DEF TimerRuns

LEMMA DisarmTyped ==
  ASSUME TypeOK, button' = [button EXCEPT !.armed = FALSE, !.since = 0]
  PROVE  button' \in Buttons /\ TimerRuns'
  <1>1. button \in Buttons
    BY DEF TypeOK, Buttons
  <1>2. 0 \in 0..ConfirmTime
    BY BoundsAreNaturals
  <1> QED
    BY <1>1, <1>2 DEF Buttons, TimerRuns

(* The timer that an armed button counts on does not end in this unit of     *)
(* time, or the button is disarmed.                                          *)
LEMMA TimeTyped ==
  ASSUME Typed, ButtonTime
  PROVE  button' \in Buttons /\ TimerRuns'
  <1> DEFINE armed == button.armed /\ 1 \notin button.timers
             later == {t - 1 : t \in button.timers \ {1}}
             since == IF armed THEN button.since + 1 ELSE 0
  <1>1. button \in Buttons
    BY DEF Typed, TypeOK, Buttons
  <1>2. button' = [armed |-> armed, timers |-> later, since |-> since]
    BY DEF ButtonTime
  <1>3. /\ button.timers \subseteq 1..ConfirmTime /\ button.armed \in BOOLEAN
        /\ button.since \in 0..ConfirmTime
    BY <1>1 DEF Buttons
  <1>4. later \in SUBSET (1..ConfirmTime)
    <2> SUFFICES ASSUME NEW t \in button.timers, t # 1
                 PROVE  t - 1 \in 1..ConfirmTime
      OBVIOUS
    <2> QED
      BY <1>3, BoundsAreNaturals
  <1>5. ASSUME armed
        PROVE  /\ since \in 0..ConfirmTime
               /\ \E t \in later : t + since <= ConfirmTime
    <2>1. PICK t \in button.timers : t + button.since <= ConfirmTime
      BY <1>5 DEF Typed, TimerRuns
    <2>2. t # 1
      BY <1>5
    <2>3. t \in 2..ConfirmTime
      BY <2>2, <1>3, BoundsAreNaturals
    <2>4. t - 1 \in later
      BY <2>2
    <2>5. since = button.since + 1
      BY <1>5
    <2>6. since \in 0..ConfirmTime /\ (t - 1) + since <= ConfirmTime
      <3> HIDE DEF since
      <3> QED
        BY <2>1, <2>3, <2>5, <1>3, BoundsAreNaturals
    <2> QED
      BY <2>4, <2>6
  <1>6. since \in 0..ConfirmTime
    <2>1. CASE armed
      BY <2>1, <1>5
    <2>2. CASE ~armed
      BY <2>2, BoundsAreNaturals
    <2> QED
      BY <2>1, <2>2
  <1>7. armed \in BOOLEAN
    OBVIOUS
  <1> HIDE DEF armed, later, since
  <1>8. button' \in Buttons
    BY <1>2, <1>4, <1>6, <1>7 DEF Buttons
  <1> QED
    BY <1>2, <1>5, <1>8 DEF TimerRuns

(* A page that is opened.                                                    *)
LEMMA LoadTyped ==
  ASSUME TypeOK, NEW p \in Pages, Load(p), UNCHANGED <<server, session>>
  PROVE  Typed'
  <1>1. server \in Snapshot /\ server.exams \in SUBSET Exams
    BY DEF TypeOK, Snapshot
  <1>2. view' \in [snap: Snapshot, filter: Filters] /\ filter' \in Filters
    BY <1>1, ShownTyped, ConsoleAssumption DEF Load
  <1>3. request' \in [Slots -> Requests]
    BY RequestsTyped DEF Load
  <1>4. exam' \in Exams \cup {NoExam}
    BY <1>1, FirstIsListed DEF Load
  <1>5. button' = Fresh
    BY DEF Load
  <1>6. button' \in Buttons /\ TimerRuns'
    BY <1>5, FreshTyped DEF TimerRuns
  <1> QED
    BY <1>2, <1>3, <1>4, <1>6 DEF Typed, TypeOK, Load, Buttons

LEMMA InitTyped == Init => Typed
  <1> SUFFICES ASSUME Init PROVE Typed
    OBVIOUS
  <1>1. server \in Snapshot /\ server.exams \in SUBSET Exams
    BY BoundsAreNaturals DEF Init, Snapshot
  <1>2. view \in [snap: Snapshot, filter: Filters] /\ filter \in Filters
    BY <1>1, ShownTyped, ConsoleAssumption DEF Init
  <1>3. request \in [Slots -> Requests]
    BY RequestsTyped DEF Init
  <1>4. exam \in Exams \cup {NoExam}
    BY <1>1, FirstIsListed DEF Init
  <1>5. button = Fresh
    BY DEF Init
  <1>6. button \in Buttons /\ TimerRuns
    BY <1>5, FreshTyped DEF TimerRuns
  <1> QED
    BY <1>1, <1>2, <1>3, <1>4, <1>6 DEF Typed, TypeOK, Init, Buttons

(* An answer that is stored.                                                 *)
LEMMA ShowTyped ==
  ASSUME Typed, NEW i \in Slots, Is(i, "poll", "answered") \/ Is(i, "refresh", "answered"),
         Show(request[i])
  PROVE  /\ view' \in [snap: Snapshot, filter: Filters]
         /\ selected' \in SUBSET Hosts /\ exam' \in Exams \cup {NoExam}
         /\ button' \in Buttons /\ TimerRuns'
  <1>1. request[i] \in Requests
    BY DEF Typed, TypeOK
  <1>2. request[i].arg \in Filters /\ request[i].snap \in Snapshot
    BY <1>1, FetchTyped DEF Is, Fetches
  <1>3. request[i].snap.exams \in SUBSET Exams
    BY <1>2 DEF Snapshot
  <1>4. exam' \in Exams \cup {NoExam}
    BY <1>3, FirstIsListed DEF Show, Typed, TypeOK
  <1>5. button' = Fresh \/ button' = button
    BY DEF Show
  <1>6. button' \in Buttons /\ TimerRuns'
    BY <1>5, FreshTyped DEF TimerRuns, Typed, TypeOK, Buttons
  <1> QED
    BY <1>2, <1>4, <1>6 DEF Show, Typed, TypeOK

LEMMA SendTyped ==
  ASSUME TypeOK, NEW r \in Requests, Send(r)
  PROVE  request' \in [Slots -> Requests]
  BY DEF TypeOK, Send

LEMMA ReplaceTyped ==
  ASSUME TypeOK, NEW i \in Slots, NEW r \in Requests,
         request' = [request EXCEPT ![i] = r]
  PROVE  request' \in [Slots -> Requests]
  BY DEF TypeOK

(* What a command does to the server.                                        *)
LEMMA PerformTyped ==
  ASSUME TypeOK, NEW i \in Slots, Perform(i)
  PROVE  server' \in Snapshot
  <1> DEFINE cmd == request[i]
  <1>1. /\ server \in Snapshot /\ server.ver + 1 \in 0..VersionBound
        /\ server.boards \in SUBSET Hosts /\ server.exams \in SUBSET Exams
    BY BoundsAreNaturals DEF TypeOK, Snapshot, Perform
  <1>2. \A b \in SUBSET Hosts, e \in SUBSET Exams :
          [ver |-> server.ver + 1, boards |-> b, exams |-> e] \in Snapshot
    BY <1>1 DEF Snapshot
  <1>3. \A h : server.boards \ {h} \in SUBSET Hosts
    BY <1>1
  <1>4. /\ \A e : server.exams \ {e} \in SUBSET Exams
        /\ \A e \in Exams : server.exams \cup {e} \in SUBSET Exams
    BY <1>1
  <1>5. cmd.what \in Commands /\ Performs(cmd, server)
    BY DEF Perform
  <1>6. CASE cmd.what \in {"start", "stop", "rename"}
    <2>1. server' = [server EXCEPT !.ver = @ + 1]
      BY <1>5, <1>6 DEF Performs
    <2> QED
      BY <2>1, <1>1 DEF Snapshot
  <1>7. CASE cmd.what = "forget"
    <2>1. PICK h \in server.boards :
            server' = [server EXCEPT !.ver = @ + 1, !.boards = @ \ {h}]
      BY <1>5, <1>7 DEF Performs
    <2> QED
      BY <2>1, <1>1, <1>3 DEF Snapshot
  <1>8. CASE cmd.what = "create"
    <2>1. PICK e \in Exams \ server.exams :
            server' = [server EXCEPT !.ver = @ + 1, !.exams = @ \cup {e}]
      BY <1>5, <1>8 DEF Performs
    <2> QED
      BY <2>1, <1>1, <1>4 DEF Snapshot
  <1>9. CASE cmd.what = "delete"
    <2>1. server' = [server EXCEPT !.ver = @ + 1, !.exams = @ \ {cmd.arg}]
      BY <1>5, <1>9 DEF Performs
    <2> QED
      BY <2>1, <1>1, <1>4 DEF Snapshot
  <1> QED
    BY <1>5, <1>6, <1>7, <1>8, <1>9 DEF Commands

(* The rest of TypeOK follows from what a step changes.                      *)
LEMMA RequestsChange ==
  ASSUME Typed, request' \in [Slots -> Requests],
         UNCHANGED <<session, page, view, selected, exam>>,
         server' \in Snapshot, lost' \in BOOLEAN, busy' \in BOOLEAN,
         filter' \in Filters, button' \in Buttons, TimerRuns'
  PROVE  Typed'
  BY DEF Typed, TypeOK, Buttons

LEMMA ButtonKept ==
  ASSUME Typed, UNCHANGED button
  PROVE  button' \in Buttons /\ TimerRuns'
  BY DEF Typed, TypeOK, Buttons, TimerRuns

LEMMA NextTyped == Typed /\ [Next]_vars => Typed'
  <1> SUFFICES ASSUME Typed, [Next]_vars PROVE Typed'
    OBVIOUS
  <1> USE DEF Typed
  <1>1. ASSUME NEW p \in Pages, Open(p) PROVE Typed'
    BY <1>1, LoadTyped DEF Open
  <1>2. CASE ServerChanges
    <2>1. server' \in Snapshot
      <3>1. server \in Snapshot /\ server.ver + 1 \in 0..VersionBound
        BY <1>2, BoundsAreNaturals DEF TypeOK, Snapshot, ServerChanges
      <3>2. PICK b \in SUBSET Hosts, e \in SUBSET Exams :
              server' = [ver    |-> server.ver + 1,
                         boards |-> (server.boards \ b) \cup (b \ server.boards),
                         exams  |-> (server.exams \ e) \cup (e \ server.exams)]
        BY <1>2 DEF ServerChanges
      <3> QED
        BY <3>1, <3>2 DEF Snapshot
    <2> QED
      BY <2>1, <1>2, ButtonKept DEF TypeOK, ServerChanges, Buttons
  <1>3. CASE SessionChanges
    BY <1>3, ButtonKept DEF TypeOK, SessionChanges, Buttons
  <1>4. CASE PollTimer
    <2>1. Sent("poll", filter) \in Requests
      BY RequestsTyped DEF TypeOK, Fetches
    <2>2. request' \in [Slots -> Requests]
      BY <2>1, <1>4, SendTyped DEF PollTimer
    <2> QED
      BY <2>2, <1>4, ButtonKept, RequestsChange DEF TypeOK, PollTimer
  <1>5. ASSUME NEW i \in Slots, ServeFetch(i) PROVE Typed'
    <2>1. request[i] \in Requests /\ server \in Snapshot
      BY DEF TypeOK
    <2>2. Shown(page, server) \in Snapshot
      BY <2>1, ShownTyped
    <2>3. Brings(request[i], Shown(page, server)) \in Requests
      BY <2>1, <2>2, <1>5, BringsTyped DEF ServeFetch
    <2>4. Failed(request[i]) \in Requests
      BY <2>1, <1>5, FailedTyped DEF ServeFetch, Free
    <2>5. request' \in [Slots -> Requests]
      BY <2>3, <2>4, <1>5, ReplaceTyped DEF ServeFetch
    <2> QED
      BY <2>5, <1>5, ButtonKept, RequestsChange DEF TypeOK, ServeFetch
  <1>6. ASSUME NEW i \in Slots, Perform(i) PROVE Typed'
    <2>1. Done(request[i]) \in Requests
      BY <1>6, DoneTyped DEF TypeOK, Perform
    <2>2. request' \in [Slots -> Requests]
      BY <2>1, <1>6, ReplaceTyped DEF Perform
    <2> QED
      BY <2>2, <1>6, PerformTyped, ButtonKept, RequestsChange DEF TypeOK, Perform
  <1>7. ASSUME NEW i \in Slots, Lose(i) PROVE Typed'
    <2>1. Failed(request[i]) \in Requests
      BY <1>7, FailedTyped DEF TypeOK, Lose
    <2>2. request' \in [Slots -> Requests]
      BY <2>1, <1>7, ReplaceTyped DEF Lose
    <2> QED
      BY <2>2, <1>7, ButtonKept, RequestsChange DEF TypeOK, Lose
  <1>8. ASSUME NEW i \in Slots, PollEnds(i) PROVE Typed'
    <2>1. request' \in [Slots -> Requests]
      BY <1>8, ReplaceTyped, RequestsTyped DEF PollEnds
    <2>2. /\ view' \in [snap: Snapshot, filter: Filters]
          /\ selected' \in SUBSET Hosts /\ exam' \in Exams \cup {NoExam}
          /\ button' \in Buttons /\ TimerRuns'
      <3>1. CASE Is(i, "poll", "answered") /\ Show(request[i])
        BY <3>1, ShowTyped
      <3>2. CASE UNCHANGED <<view, selected, exam, button>>
        BY <3>2, ButtonKept DEF TypeOK
      <3> QED
        BY <3>1, <3>2, <1>8 DEF PollEnds
    <2> QED
      BY <2>1, <2>2, <1>8 DEF TypeOK, PollEnds, Buttons
  <1>9. ASSUME NEW i \in Slots, RefreshEnds(i) PROVE Typed'
    <2>1. request' \in [Slots -> Requests]
      BY <1>9, ReplaceTyped, RequestsTyped DEF RefreshEnds
    <2>2. /\ view' \in [snap: Snapshot, filter: Filters]
          /\ selected' \in SUBSET Hosts /\ exam' \in Exams \cup {NoExam}
          /\ button' \in Buttons /\ TimerRuns'
      <3>1. CASE Is(i, "refresh", "answered") /\ Show(request[i])
        BY <3>1, ShowTyped
      <3>2. CASE UNCHANGED <<view, selected, exam, button>>
        BY <3>2, ButtonKept DEF TypeOK
      <3> QED
        BY <3>1, <3>2, <1>9 DEF RefreshEnds
    <2> QED
      BY <2>1, <2>2, <1>9 DEF TypeOK, RefreshEnds, Buttons
  <1>10. ASSUME NEW i \in Slots, CommandEnds(i) PROVE Typed'
    <2>1. Sent("refresh", All) \in Requests /\ Free \in Requests
      BY RequestsTyped, ConsoleAssumption DEF Fetches
    <2>2. request' \in [Slots -> Requests]
      BY <2>1, <1>10, ReplaceTyped DEF CommandEnds
    <2> QED
      BY <2>2, <1>10, ButtonKept, RequestsChange DEF TypeOK, CommandEnds
  <1>11. ASSUME NEW i \in Slots, ForgetEnds(i) PROVE Typed'
    BY <1>11, <1>1 DEF ForgetEnds, Pages
  <1>12. ASSUME NEW f \in Filters, Choose(f) PROVE Typed'
    <2>1. Sent("refresh", f) \in Requests
      BY RequestsTyped DEF Fetches
    <2>2. request' \in [Slots -> Requests]
      BY <2>1, <1>12, SendTyped DEF Choose
    <2> QED
      BY <2>2, <1>12, ButtonKept, RequestsChange DEF TypeOK, Choose
  <1>13. ASSUME NEW boards \in SUBSET Hosts, Select(boards) PROVE Typed'
    <2>1. button' = Fresh \/ button' = button
      BY <1>13 DEF Select
    <2>2. button' \in Buttons /\ TimerRuns'
      BY <2>1, FreshTyped, ButtonKept DEF TimerRuns
    <2> QED
      BY <2>2, <1>13 DEF TypeOK, Select, Buttons
  <1>14. ASSUME NEW e \in Exams, PickExam(e) PROVE Typed'
    BY <1>14, ButtonKept DEF TypeOK, PickExam, Buttons
  <1>15. CASE Start
    <2>1. Sent("start", exam) \in Requests
      BY RequestsTyped DEF TypeOK, Commands
    <2>2. request' \in [Slots -> Requests]
      BY <2>1, <1>15, SendTyped DEF Start
    <2> QED
      BY <2>2, <1>15, ButtonKept, RequestsChange DEF TypeOK, Start
  <1>16. CASE Arm
    BY <1>16, ArmTyped DEF TypeOK, Arm, Buttons
  <1>17. CASE Confirm
    <2>1. Sent("stop", NoExam) \in Requests
      BY RequestsTyped DEF Commands
    <2>2. request' \in [Slots -> Requests]
      BY <2>1, <1>17, SendTyped DEF Confirm
    <2>3. button' \in Buttons /\ TimerRuns'
      BY <1>17, DisarmTyped DEF Confirm
    <2> QED
      BY <2>2, <2>3, <1>17, RequestsChange DEF TypeOK, Confirm
  <1>18. CASE Blur
    BY <1>18, DisarmTyped DEF TypeOK, Blur, Buttons
  <1>19. CASE ButtonTime
    BY <1>19, TimeTyped DEF TypeOK, ButtonTime, Buttons
  <1>20. ASSUME NEW cmd \in Commands, NEW e \in Exams \cup {NoExam}, Command(cmd, e)
         PROVE  Typed'
    <2>1. Sent(cmd, e) \in Requests
      BY RequestsTyped
    <2>2. request' \in [Slots -> Requests]
      BY <2>1, <1>20, SendTyped DEF Command
    <2> QED
      BY <2>2, <1>20, ButtonKept, RequestsChange DEF TypeOK, Command
  <1>21. CASE UNCHANGED vars
    BY <1>21, ButtonKept DEF TypeOK, vars, Buttons
  <1> QED
    BY <1>1, <1>2, <1>3, <1>4, <1>5, <1>6, <1>7, <1>8, <1>9, <1>10, <1>11,
       <1>12, <1>13, <1>14, <1>15, <1>16, <1>17, <1>18, <1>19, <1>20, <1>21
       DEF Next, Ends

(* Only fairness is left out.                                                *)
LEMMA SpecSteps == Spec => Init /\ [][Next]_vars
  BY PTL DEF Spec

LEMMA SpecTyped == Spec => []Typed
  BY InitTyped, NextTyped, SpecSteps, PTL

(* TypeOK holds in every reachable state: whatever the order of the answers, *)
(* a stored view is one that the server gave (ui.rs:403).                    *)
THEOREM TypeCorrect == Spec => []TypeOK
  <1>1. Typed => TypeOK
    BY DEF Typed
  <1> QED
    BY <1>1, SpecTyped, PTL

(* A stop button stays armed for less than its time (ui.rs:270), however     *)
(* many clicks, blurs and timers of earlier clicks there are: the timers of  *)
(* others only disarm it sooner.                                             *)
THEOREM ArmedStaysBrief == Spec => []ArmedIsBrief
  <1>1. Typed => ArmedIsBrief
    <2> SUFFICES ASSUME Typed, button.armed PROVE button.since < ConfirmTime
      BY DEF ArmedIsBrief
    <2>1. PICK t \in button.timers : t + button.since <= ConfirmTime
      BY DEF Typed, TimerRuns
    <2>2. t \in 1..ConfirmTime /\ button.since \in 0..ConfirmTime
      BY DEF Typed, TypeOK
    <2> QED
      BY <2>1, <2>2, BoundsAreNaturals
  <1> QED
    BY <1>1, SpecTyped, PTL

-----------------------------------------------------------------------------
(* What the fleet page acts on.                                              *)

Choices == Typed /\ ChoicesAreShown

LEMMA ChoicesOfALoad ==
  ASSUME Typed, NEW p \in Pages, Load(p)
  PROVE  ChoicesAreShown'
  <1> SUFFICES ASSUME page' = "fleet"
               PROVE  /\ selected' \subseteq view'.snap.boards
                      /\ \/ exam' \in view'.snap.exams
                         \/ exam' = NoExam /\ view'.snap.exams = {}
    BY DEF ChoicesAreShown
  <1>1. p = "fleet"
    BY DEF Load
  <1>2. server \in Snapshot /\ server.exams \in SUBSET Exams
    BY DEF Typed, TypeOK, Snapshot
  <1>3. view'.snap = server
    BY <1>1, <1>2, ShownTyped DEF Load
  <1>4. selected' = {} /\ exam' = First(server.exams)
    BY <1>1 DEF Load
  <1> QED
    BY <1>2, <1>3, <1>4, FirstIsListed

LEMMA ChoicesOfAnAnswer ==
  ASSUME Choices, NEW i \in Slots, Is(i, "poll", "answered") \/ Is(i, "refresh", "answered"),
         Show(request[i]), UNCHANGED page
  PROVE  ChoicesAreShown'
  <1> SUFFICES ASSUME page = "fleet"
               PROVE  /\ selected' \subseteq view'.snap.boards
                      /\ \/ exam' \in view'.snap.exams
                         \/ exam' = NoExam /\ view'.snap.exams = {}
    BY DEF ChoicesAreShown
  <1> DEFINE list == request[i].snap.exams
  <1>1. list \in SUBSET Exams
    <2>1. request[i] \in Requests
      BY DEF Choices, Typed, TypeOK
    <2>2. request[i].snap \in Snapshot
      BY <2>1, FetchTyped DEF Is, Fetches
    <2> QED
      BY <2>2 DEF Snapshot
  <1>2. /\ view'.snap = request[i].snap
        /\ selected' \subseteq request[i].snap.boards
        /\ exam' = IF exam \notin list THEN First(list) ELSE exam
    BY DEF Show, Selectable
  <1> HIDE DEF list
  <1>3. exam' \in list \/ (exam' = NoExam /\ list = {})
    BY <1>1, <1>2, FirstIsListed
  <1> QED
    BY <1>2, <1>3 DEF list

LEMMA ChoicesKept ==
  ASSUME Choices, UNCHANGED <<page, view, selected, exam>>
  PROVE  ChoicesAreShown'
  BY DEF Choices, ChoicesAreShown

LEMMA NextChoices == Choices /\ [Next]_vars => Choices'
  <1> SUFFICES ASSUME Choices, [Next]_vars PROVE ChoicesAreShown'
    BY NextTyped DEF Choices
  <1> USE DEF Choices
  <1>1. ASSUME NEW p \in Pages, Open(p) PROVE ChoicesAreShown'
    BY <1>1, ChoicesOfALoad DEF Open
  <1>2. ASSUME NEW i \in Slots, Ends(i) PROVE ChoicesAreShown'
    <2>1. CASE PollEnds(i)
      BY <2>1, ChoicesOfAnAnswer, ChoicesKept DEF PollEnds
    <2>2. CASE RefreshEnds(i)
      BY <2>2, ChoicesOfAnAnswer, ChoicesKept DEF RefreshEnds
    <2>3. CASE CommandEnds(i)
      BY <2>3, ChoicesKept DEF CommandEnds
    <2>4. CASE ForgetEnds(i)
      BY <2>4, <1>1 DEF ForgetEnds, Pages
    <2> QED
      BY <1>2, <2>1, <2>2, <2>3, <2>4 DEF Ends
  <1>3. ASSUME NEW boards \in SUBSET Hosts, Select(boards) PROVE ChoicesAreShown'
    BY <1>3 DEF Select, ChoicesAreShown
  <1>4. ASSUME NEW e \in Exams, PickExam(e) PROVE ChoicesAreShown'
    BY <1>4 DEF PickExam, ChoicesAreShown
  <1>5. ASSUME NEW i \in Slots, ServeFetch(i) \/ Perform(i) \/ Lose(i)
        PROVE  ChoicesAreShown'
    BY <1>5, ChoicesKept DEF ServeFetch, Perform, Lose
  <1>6. CASE \/ ServerChanges \/ SessionChanges \/ PollTimer
             \/ Start \/ Arm \/ Confirm \/ Blur \/ ButtonTime \/ UNCHANGED vars
    BY <1>6, ChoicesKept DEF ServerChanges, SessionChanges, PollTimer,
       Start, Arm, Confirm, Blur, ButtonTime, vars
  <1>7. ASSUME NEW f \in Filters, Choose(f) PROVE ChoicesAreShown'
    BY <1>7, ChoicesKept DEF Choose
  <1>8. ASSUME NEW cmd \in Commands, NEW e \in Exams \cup {NoExam}, Command(cmd, e)
        PROVE  ChoicesAreShown'
    BY <1>8, ChoicesKept DEF Command
  <1> QED
    BY <1>1, <1>2, <1>3, <1>4, <1>5, <1>6, <1>7, <1>8 DEF Next

(* The ticks and the picker of the fleet page name what the page shows       *)
(* (app/fleet.rs:44), whichever answer replaces the view and when.           *)
THEOREM ChoicesStayShown == Spec => []ChoicesAreShown
  <1>1. Init => Choices
    <2> SUFFICES ASSUME Init, page = "fleet"
                 PROVE  /\ selected \subseteq view.snap.boards
                        /\ exam \in view.snap.exams \/ (exam = NoExam /\ view.snap.exams = {})
      BY InitTyped DEF Choices, ChoicesAreShown
    <2>1. server \in Snapshot /\ server.exams \in SUBSET Exams
      BY InitTyped DEF Typed, TypeOK, Snapshot
    <2>2. view.snap = server /\ selected = {} /\ exam = First(server.exams)
      BY <2>1, ShownTyped DEF Init
    <2> QED
      BY <2>1, <2>2, FirstIsListed
  <1>2. Choices => ChoicesAreShown
    BY DEF Choices
  <1> QED
    BY <1>1, <1>2, NextChoices, SpecSteps, PTL

-----------------------------------------------------------------------------
(* Polls.                                                                    *)

PollSlots == {i \in Slots : request[i].what = "poll"}

(* What BusyMeansOnePoll counts, without counting.                           *)
OnePoll ==
  /\ busy => \E i \in Slots : PollSlots = {i}
  /\ ~busy => PollSlots = {}

Polling == Typed /\ OnePoll

LEMMA NoPollIsFree ==
  /\ Free.what # "poll"
  /\ \A what, a : Sent(what, a).what = what
  BY DEF Free, Sent

(* A step that touches no poll, or answers or fails one, leaves it under way.*)
LEMMA PollsKept ==
  ASSUME Polling, UNCHANGED busy, PollSlots' = PollSlots
  PROVE  OnePoll'
  BY DEF Polling, OnePoll

LEMMA ReplaceKeepsPolls ==
  ASSUME Polling, UNCHANGED busy, NEW i \in Slots, NEW r,
         request' = [request EXCEPT ![i] = r],
         r.what = request[i].what \/ (r.what # "poll" /\ request[i].what # "poll")
  PROVE  OnePoll'
  <1>1. \A j \in Slots : request'[j] = IF j = i THEN r ELSE request[j]
    BY DEF Polling, Typed, TypeOK
  <1>2. PollSlots' = PollSlots
    BY <1>1 DEF PollSlots
  <1> QED
    BY <1>2, PollsKept

(* A request that is no poll takes a slot that was vacant.                   *)
LEMMA SendKeepsPolls ==
  ASSUME Polling, UNCHANGED busy, NEW r, Send(r), r.what # "poll"
  PROVE  OnePoll'
  <1>1. Slot(r.what) \in Slots /\ request[Slot(r.what)] = Free
    BY SlotIsVacant DEF Send, Vacant
  <1> QED
    BY <1>1, ReplaceKeepsPolls, NoPollIsFree DEF Send

LEMMA NextPolling == Polling /\ [Next]_vars => Polling'
  <1> SUFFICES ASSUME Polling, [Next]_vars PROVE OnePoll'
    BY NextTyped DEF Polling
  <1>0. /\ request \in [Slots -> Requests]
        /\ \A i \in Slots : request[i] \in Requests
    BY DEF Polling, Typed, TypeOK
  <1>1. ASSUME NEW p \in Pages, Open(p) PROVE OnePoll'
    <2>1. busy' = FALSE /\ \A i \in Slots : request'[i] = Free
      BY <1>1 DEF Open, Load
    <2>2. PollSlots' = {}
      BY <2>1, NoPollIsFree DEF PollSlots
    <2> QED
      BY <2>1, <2>2 DEF OnePoll
  <1>2. CASE PollTimer
    <2> DEFINE r == Sent("poll", filter)
               i == Slot(r.what)
    <2>1. i \in Slots /\ r.what = "poll"
      BY <1>2, SlotIsVacant, NoPollIsFree DEF PollTimer, Send, Vacant
    <2>2. request' = [request EXCEPT ![i] = r] /\ busy' = TRUE /\ ~busy
      BY <1>2 DEF PollTimer, Send
    <2> HIDE DEF r, i
    <2>3. \A j \in Slots : request'[j] = IF j = i THEN r ELSE request[j]
      BY <1>0, <2>1, <2>2
    <2>4. \A j \in Slots : request[j].what # "poll"
      BY <2>2 DEF Polling, OnePoll, PollSlots
    <2>5. PollSlots' = {i}
      BY <2>1, <2>3, <2>4 DEF PollSlots
    <2> QED
      BY <2>1, <2>2, <2>5 DEF OnePoll
  <1>3. ASSUME NEW i \in Slots, ServeFetch(i) PROVE OnePoll'
    <2>1. \A s : Brings(request[i], s).what = request[i].what
      BY DEF Brings
    <2>2. Failed(request[i]).what = request[i].what
      BY DEF Failed
    <2> QED
      BY <2>1, <2>2, <1>3, ReplaceKeepsPolls DEF ServeFetch
  <1>4. ASSUME NEW i \in Slots, Perform(i) PROVE OnePoll'
    <2>1. Done(request[i]).what = request[i].what
      BY DEF Done
    <2> QED
      BY <2>1, <1>4, ReplaceKeepsPolls DEF Perform
  <1>5. ASSUME NEW i \in Slots, Lose(i) PROVE OnePoll'
    <2>1. Failed(request[i]).what = request[i].what
      BY DEF Failed
    <2> QED
      BY <2>1, <1>5, ReplaceKeepsPolls DEF Lose
  <1>6. ASSUME NEW i \in Slots, PollEnds(i) PROVE OnePoll'
    <2>1. request[i].what = "poll" /\ busy' = FALSE
      BY <1>6 DEF PollEnds, Is
    <2>2. PollSlots = {i}
      BY <2>1 DEF Polling, OnePoll, PollSlots
    <2>3. \A j \in Slots : request'[j] = IF j = i THEN Free ELSE request[j]
      BY <1>0, <1>6 DEF PollEnds
    <2>4. PollSlots' = {}
      BY <2>2, <2>3, NoPollIsFree DEF PollSlots
    <2> QED
      BY <2>1, <2>4 DEF OnePoll
  <1>7. ASSUME NEW i \in Slots, RefreshEnds(i) PROVE OnePoll'
    <2>1. request[i].what # "poll" /\ request' = [request EXCEPT ![i] = Free]
          /\ UNCHANGED busy
      BY <1>7 DEF RefreshEnds, Is
    <2> QED
      BY <2>1, ReplaceKeepsPolls, NoPollIsFree
  <1>8. ASSUME NEW i \in Slots, CommandEnds(i) PROVE OnePoll'
    <2>1. request[i].what # "poll" /\ UNCHANGED busy
      BY <1>8 DEF CommandEnds, Commands
    <2>2. \/ request' = [request EXCEPT ![i] = Sent("refresh", All)]
          \/ request' = [request EXCEPT ![i] = Free]
      BY <1>8 DEF CommandEnds
    <2> QED
      BY <2>1, <2>2, ReplaceKeepsPolls, NoPollIsFree
  <1>9. ASSUME NEW i \in Slots, ForgetEnds(i) PROVE OnePoll'
    BY <1>9, <1>1 DEF ForgetEnds, Pages
  <1>10. ASSUME NEW f \in Filters, Choose(f) PROVE OnePoll'
    BY <1>10, SendKeepsPolls, NoPollIsFree DEF Choose
  <1>11. CASE Start
    BY <1>11, SendKeepsPolls, NoPollIsFree DEF Start
  <1>12. CASE Confirm
    BY <1>12, SendKeepsPolls, NoPollIsFree DEF Confirm
  <1>13. ASSUME NEW cmd \in Commands, NEW e \in Exams \cup {NoExam}, Command(cmd, e)
         PROVE  OnePoll'
    <2>1. cmd # "poll"
      BY DEF Commands
    <2> QED
      BY <2>1, <1>13, SendKeepsPolls, NoPollIsFree DEF Command
  <1>14. ASSUME UNCHANGED <<request, busy>> PROVE OnePoll'
    BY <1>14, PollsKept DEF PollSlots
  <1>15. CASE ServerChanges \/ SessionChanges \/ Arm \/ Blur \/ ButtonTime \/ UNCHANGED vars
    BY <1>15, <1>14 DEF ServerChanges, SessionChanges, Arm, Blur, ButtonTime, vars
  <1>16. ASSUME NEW boards \in SUBSET Hosts, Select(boards) PROVE OnePoll'
    BY <1>16, <1>14 DEF Select
  <1>17. ASSUME NEW e \in Exams, PickExam(e) PROVE OnePoll'
    BY <1>17, <1>14 DEF PickExam
  <1> QED
    BY <1>1, <1>2, <1>3, <1>4, <1>5, <1>6, <1>7, <1>8, <1>9, <1>10, <1>11,
       <1>12, <1>13, <1>15, <1>16, <1>17 DEF Next, Ends

(* Polls never overlap, and `busy` is never left behind by one that ended,   *)
(* however many requests are under way (ui.rs:421).                          *)
THEOREM PollsDoNotOverlap == Spec => []BusyMeansOnePoll
  <1>1. Init => Polling
    <2> SUFFICES ASSUME Init PROVE OnePoll
      BY InitTyped DEF Polling
    <2>1. PollSlots = {}
      BY NoPollIsFree DEF Init, PollSlots
    <2> QED
      BY <2>1 DEF Init, OnePoll
  <1>2. Polling => BusyMeansOnePoll
    <2> SUFFICES ASSUME Polling
                 PROVE  Cardinality(PollSlots) = (IF busy THEN 1 ELSE 0)
      BY DEF BusyMeansOnePoll, PollSlots
    <2>1. CASE busy
      BY <2>1, FS_Singleton DEF Polling, OnePoll
    <2>2. CASE ~busy
      BY <2>2, FS_EmptySet DEF Polling, OnePoll
    <2> QED
      BY <2>1, <2>2 DEF Polling, Typed, TypeOK
  <1> QED
    BY <1>1, <1>2, NextPolling, SpecSteps, PTL

=============================================================================
