------------------------------- MODULE Console -------------------------------
(***************************************************************************)
(* A browser tab of the instructor console (server/src/app): the fleet,    *)
(* board and activity pages, which poll the server, and the exams page,    *)
(* which asks again only after its own commands.                           *)
(*                                                                         *)
(* The page keeps the last view it was given.  A view is fixed when the    *)
(* server answers and shown when the answer arrives; the poll, the refresh *)
(* that follows a command and the fetch that follows the choice of a       *)
(* filter are requests of their own, and their answers arrive in any order *)
(* or not at all.  Every request passes `guard` (backend/http.rs): without *)
(* an accepted session it is answered with an error.                       *)
(*                                                                         *)
(* The server is seen as what its views show, with the number of changes   *)
(* that led there; the fleet behind it is modelled in Fleet, the sessions  *)
(* in Auth.  The signals of a page and the effects that depend on them     *)
(* change in one step: effects run before the next browser event.          *)
(***************************************************************************)
EXTENDS Naturals, FiniteSets

CONSTANTS
  Hosts,         (* the boards                                               *)
  Exams,         (* the exams                                                *)
  Filters,       (* the filters of the activity page; All is one of them     *)
  All,
  ConfirmTime,   (* how long a confirm button stays armed, in units of time  *)
  SlotBound,     (* bound of the model: the requests under way at a time     *)
  VersionBound   (* bound of the model: the changes of the server            *)

NoExam == "no exam"
Pages  == {"fleet", "board", "activity", "exams"}
Slots  == 1..SlotBound

ASSUME ConsoleAssumption ==
  /\ All \in Filters /\ NoExam \notin Exams
  /\ {ConfirmTime, SlotBound} \subseteq Nat \ {0} /\ VersionBound \in Nat

VARIABLES
  server,    (* the boards and exams a view would show now, and its version  *)
  session,   (* the tab's cookie names a session that the server accepts     *)
  page,      (* the page that is open                                        *)
  view,      (* what it shows, and by which filter it was fetched            *)
  lost,      (* the pill says "Reconnecting"                                 *)
  busy,      (* a poll is under way                                          *)
  request,   (* the requests under way                                       *)
  filter,    (* the filter that is pressed                                   *)
  selected,  (* the boards that are ticked                                   *)
  exam,      (* the exam in the picker                                       *)
  button     (* the stop button: armed, its pending timers, and for how long *)
             (* it has been armed                                            *)

vars == <<server, session, page, view, lost, busy, request, filter, selected,
          exam, button>>

Snapshot == [ver: 0..VersionBound, boards: SUBSET Hosts, exams: SUBSET Exams]
Commands == {"start", "stop", "rename", "forget", "create", "delete"}
Fetches  == {"poll", "refresh"}

(* A request: what it asks with its argument (a fetch by a filter, a command *)
(* about an exam), and how far it is: an answered fetch brings a snapshot.   *)
Free == [what |-> "none", stage |-> "none"]
Sent(what, a)  == [what |-> what, stage |-> "sent", arg |-> a]
Brings(r, s)   == [what |-> r.what, stage |-> "answered", arg |-> r.arg, snap |-> s]
Done(r)        == [what |-> r.what, stage |-> "answered"]
Failed(r)      == [what |-> r.what, stage |-> "failed"]

Is(i, what, stage) == request[i].what = what /\ request[i].stage = stage
Idle(what)         == \A i \in Slots : request[i].what # what
(* Which slot a request takes makes no difference: polls take the lowest     *)
(* that is free, the others the highest.                                     *)
Vacant == {i \in Slots : request[i] = Free}
Slot(what) == CHOOSE i \in Vacant :
  \A j \in Vacant : IF what = "poll" THEN i <= j ELSE i >= j
Send(r) == Vacant # {} /\ request' = [request EXCEPT ![Slot(r.what)] = r]

(* What the fetch of a page returns of the server: get_activity only events. *)
Shown(p, s) == IF p = "activity" THEN [s EXCEPT !.boards = {}, !.exams = {}] ELSE s
First(list) == IF list = {} THEN NoExam ELSE CHOOSE e \in list : TRUE
Fresh       == [armed |-> FALSE, timers |-> {}, since |-> 0]
Polls       == page # "exams"
Selectable  == page = "fleet"

-----------------------------------------------------------------------------
(* Opening a page loads its view, when the session is accepted; a page left  *)
(* behind drops its interval and no longer hears its requests.  The page of  *)
(* an unknown board is a text without polls or buttons, and left out.        *)
Load(p) ==
  /\ p = "board" => server.boards # {}
  /\ page' = p
  /\ view' = [snap |-> Shown(p, server), filter |-> All]
  /\ lost' = FALSE /\ busy' = FALSE
  /\ request' = [i \in Slots |-> Free]
  /\ filter' = All
  /\ selected' = {}
  /\ exam' = IF p \in {"fleet", "board"} THEN First(server.exams) ELSE NoExam
  /\ button' = Fresh

Open(p) == session /\ Load(p) /\ UNCHANGED <<server, session>>

Init ==
  /\ server \in [ver: {0}, boards: SUBSET Hosts, exams: SUBSET Exams]
  /\ session = TRUE
  /\ page \in Pages /\ (page = "board" => server.boards # {})
  /\ view = [snap |-> Shown(page, server), filter |-> All]
  /\ lost = FALSE /\ busy = FALSE
  /\ request = [i \in Slots |-> Free]
  /\ filter = All
  /\ selected = {}
  /\ exam = IF page \in {"fleet", "board"} THEN First(server.exams) ELSE NoExam
  /\ button = Fresh

-----------------------------------------------------------------------------
(* The server.                                                               *)

(* A board checks in or is forgotten, an exam comes or goes, or a job moves  *)
(* on: each change turns at most one thing.                                  *)
ServerChanges ==
  /\ server.ver < VersionBound
  /\ \E b \in SUBSET Hosts, e \in SUBSET Exams :
       /\ Cardinality(b) + Cardinality(e) <= 1
       /\ server' = [ver    |-> server.ver + 1,
                     boards |-> (server.boards \ b) \cup (b \ server.boards),
                     exams  |-> (server.exams \ e) \cup (e \ server.exams)]
  /\ UNCHANGED <<session, page, view, lost, busy, request, filter, selected, exam, button>>

(* The session expires, is signed out in another tab or lost in a restart;   *)
(* signing in again in another tab renews the cookie of this one.            *)
SessionChanges ==
  /\ session' = ~session
  /\ UNCHANGED <<server, page, view, lost, busy, request, filter, selected, exam, button>>

(* guard lets a request through, and get_fleet, get_board, get_activity or   *)
(* list_exams reads the fleet.                                               *)
ServeFetch(i) ==
  /\ request[i].what \in Fetches /\ request[i].stage = "sent"
  /\ request' = [request EXCEPT ![i] = IF session THEN Brings(@, Shown(page, server)) ELSE Failed(@)]
  /\ UNCHANGED <<server, session, page, view, lost, busy, filter, selected, exam, button>>

(* What each command does to what a view shows.  The board page's commands   *)
(* are about one host; the other hosts come into play as ServerChanges.      *)
Performs(cmd, s) ==
  CASE cmd.what = "start"  -> cmd.arg \in s.exams /\ server' = [s EXCEPT !.ver = @ + 1]
    [] cmd.what = "stop"   -> server' = [s EXCEPT !.ver = @ + 1]
    [] cmd.what = "rename" -> s.boards # {} /\ server' = [s EXCEPT !.ver = @ + 1]
    [] cmd.what = "forget" -> \E h \in s.boards :
                                server' = [s EXCEPT !.ver = @ + 1, !.boards = @ \ {h}]
    [] cmd.what = "create" -> \E e \in Exams \ s.exams :
                                server' = [s EXCEPT !.ver = @ + 1, !.exams = @ \cup {e}]
    [] cmd.what = "delete" -> /\ cmd.arg \in s.exams
                              /\ server' = [s EXCEPT !.ver = @ + 1, !.exams = @ \ {cmd.arg}]

Perform(i) ==
  /\ request[i].what \in Commands /\ request[i].stage = "sent"
  /\ session /\ server.ver < VersionBound
  /\ Performs(request[i], server)
  /\ request' = [request EXCEPT ![i] = Done(@)]
  /\ UNCHANGED <<session, page, view, lost, busy, filter, selected, exam, button>>

(* A command is refused, or any request or its answer is lost on the way: a  *)
(* command may have been performed and still fail for the page.              *)
Lose(i) ==
  /\ request[i] # Free /\ request[i].stage # "failed"
  /\ request' = [request EXCEPT ![i] = Failed(@)]
  /\ UNCHANGED <<server, session, page, view, lost, busy, filter, selected, exam, button>>

-----------------------------------------------------------------------------
(* poll_every and the fetches beside it.                                     *)

(* Faulty variant: the interval does not wait for the poll before.           *)
PollTimerImpatient ==
  /\ Polls
  /\ Send(Sent("poll", filter))
  /\ busy' = TRUE
  /\ UNCHANGED <<server, session, page, view, lost, filter, selected, exam, button>>

(* The interval fires; a poll takes the filter that is pressed now.          *)
PollTimer ==
  /\ Polls /\ ~busy
  /\ Send(Sent("poll", filter))
  /\ busy' = TRUE
  /\ UNCHANGED <<server, session, page, view, lost, filter, selected, exam, button>>

(* Faulty variant: the effects of the fleet page are missing.                *)
ShowOnly(r) ==
  /\ view' = [snap |-> r.snap, filter |-> r.arg]
  /\ UNCHANGED <<selected, exam, button>>

(* An answer is stored.  On the fleet page the effects drop the ticks of     *)
(* boards that are gone and move the picker to an exam that exists; without  *)
(* ticks the bar with the stop button is taken down.                         *)
Show(r) ==
  /\ view' = [snap |-> r.snap, filter |-> r.arg]
  /\ selected' = selected \cap r.snap.boards
  /\ exam' = IF Selectable /\ exam \notin r.snap.exams THEN First(r.snap.exams) ELSE exam
  /\ button' = IF Selectable /\ selected' = {} THEN Fresh ELSE button

(* Faulty variant: an error leaves the poll marked as under way.             *)
PollEndsStuck(i) ==
  /\ \/ /\ Is(i, "poll", "answered")
        /\ Show(request[i]) /\ lost' = FALSE /\ busy' = FALSE
     \/ /\ Is(i, "poll", "failed")
        /\ lost' = TRUE /\ busy' = busy /\ UNCHANGED <<view, selected, exam, button>>
  /\ request' = [request EXCEPT ![i] = Free]
  /\ UNCHANGED <<server, session, page, filter>>

(* Faulty variant: the pill is set by an error and never cleared.            *)
PollEndsLost(i) ==
  /\ \/ Is(i, "poll", "answered") /\ Show(request[i]) /\ lost' = lost
     \/ Is(i, "poll", "failed") /\ lost' = TRUE /\ UNCHANGED <<view, selected, exam, button>>
  /\ busy' = FALSE
  /\ request' = [request EXCEPT ![i] = Free]
  /\ UNCHANGED <<server, session, page, filter>>

PollEnds(i) ==
  /\ \/ Is(i, "poll", "answered") /\ Show(request[i]) /\ lost' = FALSE
     \/ Is(i, "poll", "failed") /\ lost' = TRUE /\ UNCHANGED <<view, selected, exam, button>>
  /\ busy' = FALSE
  /\ request' = [request EXCEPT ![i] = Free]
  /\ UNCHANGED <<server, session, page, filter>>

(* A fetch beside the polls is shown if it succeeds and forgotten if not.    *)
RefreshEnds(i) ==
  /\ \/ Is(i, "refresh", "answered") /\ Show(request[i])
     \/ Is(i, "refresh", "failed") /\ UNCHANGED <<view, selected, exam, button>>
  /\ request' = [request EXCEPT ![i] = Free]
  /\ UNCHANGED <<server, session, page, lost, busy, filter>>

(* The activity page: `choose` presses a filter and fetches its list.        *)
Choose(f) ==
  /\ page = "activity"
  /\ filter' = f
  /\ Send(Sent("refresh", f))
  /\ UNCHANGED <<server, session, page, view, lost, busy, selected, exam, button>>

-----------------------------------------------------------------------------
(* Commands.                                                                 *)

(* A click on a card toggles its tick; "Select all online" and "Clear"       *)
(* replace them all.  A set of ticks is one of boards that are shown.        *)
Select(boards) ==
  /\ Selectable /\ boards \subseteq view.snap.boards /\ boards # selected
  /\ selected' = boards
  /\ button' = IF selected' = {} THEN Fresh ELSE button
  /\ UNCHANGED <<server, session, page, view, lost, busy, request, filter, exam>>

PickExam(e) ==
  /\ page \in {"fleet", "board"} /\ e \in view.snap.exams
  /\ exam' = e
  /\ UNCHANGED <<server, session, page, view, lost, busy, request, filter, selected, button>>

(* The buttons wait for the answer of their own command; the model lets the  *)
(* instructor wait for any.                                                  *)
Pending == \E cmd \in Commands : ~Idle(cmd)

(* The bar of the fleet page is there while boards are ticked; the board     *)
(* page offers a start while there are exams.                                *)
Start ==
  /\ ~Pending
  /\ \/ page = "fleet" /\ selected # {} /\ exam # NoExam
     \/ page = "board" /\ view.snap.exams # {}
  /\ Send(Sent("start", exam))
  /\ UNCHANGED <<server, session, page, view, lost, busy, filter, selected, exam, button>>

HasButton == page = "board" \/ (Selectable /\ selected # {})

(* Faulty variant: no timer disarms the button.                              *)
ArmForever ==
  /\ HasButton /\ ~Pending /\ ~button.armed
  /\ button' = [button EXCEPT !.armed = TRUE, !.since = 0]
  /\ UNCHANGED <<server, session, page, view, lost, busy, request, filter, selected, exam>>

(* The first click arms the stop button and sets a timer, beside those that  *)
(* earlier clicks have left.                                                 *)
Arm ==
  /\ HasButton /\ ~Pending /\ ~button.armed
  /\ button' = [armed |-> TRUE, timers |-> button.timers \cup {ConfirmTime}, since |-> 0]
  /\ UNCHANGED <<server, session, page, view, lost, busy, request, filter, selected, exam>>

(* The second click sends the stop.                                          *)
Confirm ==
  /\ HasButton /\ ~Pending /\ button.armed
  /\ button' = [button EXCEPT !.armed = FALSE, !.since = 0]
  /\ Send(Sent("stop", NoExam))
  /\ UNCHANGED <<server, session, page, view, lost, busy, filter, selected, exam>>

Blur ==
  /\ button.armed
  /\ button' = [button EXCEPT !.armed = FALSE, !.since = 0]
  /\ UNCHANGED <<server, session, page, view, lost, busy, request, filter, selected, exam>>

(* A unit of time passes; a timer that ends disarms the button, whichever    *)
(* click has set it.                                                         *)
ButtonTime ==
  /\ button.armed \/ button.timers # {}
  /\ LET armed == button.armed /\ 1 \notin button.timers IN
     button' = [armed  |-> armed,
                timers |-> {t - 1 : t \in button.timers \ {1}},
                since  |-> IF armed THEN button.since + 1 ELSE 0]
  /\ UNCHANGED <<server, session, page, view, lost, busy, request, filter, selected, exam>>

(* The other commands: rename and forget on the board page, create and       *)
(* delete on the exams page.                                                 *)
Command(cmd, e) ==
  /\ ~Pending
  /\ \/ page = "board" /\ cmd \in {"rename", "forget"} /\ e = NoExam
     \/ page = "exams" /\ cmd = "create" /\ e = NoExam
     \/ page = "exams" /\ cmd = "delete" /\ e \in view.snap.exams
  /\ Send(Sent(cmd, e))
  /\ UNCHANGED <<server, session, page, view, lost, busy, filter, selected, exam, button>>

(* Start and stop are followed by a refresh whatever the answer; create and  *)
(* delete if they succeeded; rename by none.                                 *)
Refreshes(i) ==
  \/ request[i].what \in {"start", "stop"}
  \/ request[i].what \in {"create", "delete"} /\ request[i].stage = "answered"

CommandEnds(i) ==
  /\ request[i].what \in Commands /\ request[i].stage # "sent"
  /\ ~(Is(i, "forget", "answered"))
  /\ request' = [request EXCEPT ![i] =
       IF Refreshes(i) THEN Sent("refresh", All) ELSE Free]
  /\ UNCHANGED <<server, session, page, view, lost, busy, filter, selected, exam, button>>

(* A board that was forgotten leads back to the fleet page.                  *)
ForgetEnds(i) == Is(i, "forget", "answered") /\ Open("fleet")

Ends(i) == PollEnds(i) \/ RefreshEnds(i) \/ CommandEnds(i) \/ ForgetEnds(i)

Next ==
  \/ \E p \in Pages : Open(p)
  \/ ServerChanges \/ SessionChanges
  \/ PollTimer
  \/ \E i \in Slots : ServeFetch(i) \/ Perform(i) \/ Lose(i) \/ Ends(i)
  \/ \E f \in Filters : Choose(f)
  \/ \E boards \in SUBSET Hosts : Select(boards)
  \/ \E e \in Exams : PickExam(e)
  \/ Start \/ Arm \/ Confirm \/ Blur \/ ButtonTime
  \/ \E cmd \in Commands, e \in Exams \cup {NoExam} : Command(cmd, e)

(* The interval goes on firing, every request ends in an answer or an error, *)
(* and the network does not fail every poll.                                 *)
Spec == /\ Init /\ [][Next]_vars
        /\ SF_vars(PollTimer)
        /\ \A i \in Slots :
             /\ WF_vars(ServeFetch(i) \/ Perform(i) \/ Lose(i))
             /\ WF_vars(Ends(i))
        /\ SF_vars(\E i \in Slots : ServeFetch(i) /\ request[i].what = "poll")
        /\ SF_vars(\E i \in Slots : PollEnds(i) /\ request[i].stage = "answered")

-----------------------------------------------------------------------------
(* Properties.                                                               *)

Requests == {Free}
  \cup [what: Fetches, stage: {"sent"}, arg: Filters]
  \cup [what: Fetches, stage: {"answered"}, arg: Filters, snap: Snapshot]
  \cup [what: Commands, stage: {"sent"}, arg: Exams \cup {NoExam}]
  \cup [what: Commands, stage: {"answered"}]
  \cup [what: Fetches \cup Commands, stage: {"failed"}]

(* Types: a request has the shape of its stage, an answer brings what the    *)
(* page asked for, and a button is armed no longer than its timers run.      *)
TypeOK ==
  /\ server \in Snapshot /\ session \in BOOLEAN /\ page \in Pages
  /\ view \in [snap: Snapshot, filter: Filters]
  /\ lost \in BOOLEAN /\ busy \in BOOLEAN
  /\ request \in [Slots -> Requests]
  /\ filter \in Filters /\ selected \subseteq Hosts /\ exam \in Exams \cup {NoExam}
  /\ button \in [armed: BOOLEAN, timers: SUBSET (1..ConfirmTime), since: 0..ConfirmTime]

(* Polls do not overlap (ui.rs:421): one is under way exactly when `busy`    *)
(* says so, whatever became of those before, and none on a page left behind. *)
BusyMeansOnePoll ==
  Cardinality({i \in Slots : request[i].what = "poll"}) = (IF busy THEN 1 ELSE 0)

(* The fleet page never acts on what it does not show (app/fleet.rs:44-58):  *)
(* the ticked boards and the picked exam are in the view, although the view  *)
(* is replaced by answers and the ticks are set by clicks.                   *)
ChoicesAreShown ==
  page = "fleet" =>
    /\ selected \subseteq view.snap.boards
    /\ exam \in view.snap.exams \/ (exam = NoExam /\ view.snap.exams = {})

(* A stop is sent within the time of the click that armed it (ui.rs:270):    *)
(* an armed button never outlasts it.                                        *)
ArmedIsBrief == button.armed => button.since < ConfirmTime

(* The answer of a poll and that of the refresh after a command may cross,   *)
(* and the older view replace the newer (ui.rs:427, app/fleet.rs:76-80).     *)
(* Yet a page that polls catches up: once nothing changes and the session stays, *)
(* it shows the server as it is and by the filter that is pressed, whatever  *)
(* order the answers came in and however many were lost.                     *)
CatchesUp ==
  \A f \in Filters :
    <>[](session /\ Polls /\ filter = f)
      => <>[](view.snap = Shown(page, server) /\ view.filter = f)

(* The pill of a page that polls ends up telling whether the server answers  *)
(* (ui.rs:400): lost once the session is gone for good, and time and again   *)
(* not lost while it stays.                                                  *)
PillTellsTheTruth ==
  /\ <>[](~session /\ Polls) => <>[]lost
  /\ <>[](session /\ Polls) => []<>~lost

=============================================================================
