# Exam console: specifications

TLA+ models of the exam console in `exam-env/`: a server that keeps a fleet of
exam boards, the agent on each board that starts and stops Safe Exam Browser
(SEB), and what connects them. TLC checks the models on small instances; TLAPS
proves each safety property that the runs show to hold, for every value of the
constants.

## The system

| Component | State | Operations | Modules |
| --- | --- | --- | --- |
| fleet (`server/src/backend/fleet.rs`) | boards, each with what was last heard and one job at most; exams; activity log; `next_job_id`, `cap_warned`, `dirty` | heartbeat, tick, enqueue, rename, forget, create/delete exam, snapshot | `Fleet`, `JobLifecycle` |
| agent (`seb-agent/`) | child process, exam id, last exit code, job result | poll, install exam, start, stop, wait | `ExamControl` |
| browser and scripts (`start-seb.sh`, `stop-seb.sh`, `platform/orangepi-gpu`) | start script, SEB, exam file | come up, end, be killed | `ExamControl` |
| persistence (`store.rs`, `mod.rs`, `main.rs`) | dirty flag, saves under way, `state.json`, its temporary file | save, background save, save at shutdown, load | `Store`, `DurableState` |
| login (`auth.rs`, `http.rs`) | failure windows, sessions, logins under way | login, logout, validity | `Auth` |
| Config Key gate (`http.rs`, `fleet.rs`) | exams with their salts in memory and on disk, public URL; the file each browser runs and the page it was shown | create and delete exam, start, download, gate, verify, save, restart | `Gate` |
| console pages and server functions (`app/`) | view, requests under way, `busy`, `lost`, filter, ticks, pickers, confirm button | open, poll, refresh, choose, select, command | `Console`; status line in `Fleet` |
| settings and `.seb` files (`proto/`) | none | permitted domains, settings, Config Key, container | `ExamSettings` (operators) |
| simulated agents (`sim-agent/`) | as the agent | as the agent | not modelled |

All methods of `Fleet` run under one mutex (`App::fleet`), so a method is one
atomic step. Concurrency is elsewhere: agents, instructors and the background
task (`tick` each second, a save each other second when dirty) act in any
order; requests and replies get lost; agents, server and browser end at any
moment; a save runs outside the lock on a thread of its own.

What is hard, and what makes each component correct:

- *Fleet.* A job may be ended by a report, by the reported state, by a timeout,
  by another command or by forgetting the board. Whatever the order, a job id
  names one job, is delivered once at most, is never reopened, ends once in the
  log, and does end. Errors of one job do not outlive the next. The dirty flag
  misses nothing.
- *Agent against server.* The agent takes its result out before it knows that
  the request arrives; the server marks a job picked up before the reply
  arrives; a crash of the server rolls `next_job_id` back. What the console
  says must still be true of the board.
- *Persistence.* `state.json` is a whole snapshot at every instant, a clean
  flag means saved, each change is saved in the end.
- *Login.* The clock is read before the locks are taken, so the limiter gets
  its failures out of order. Still no window may admit more guesses than its
  limit, a refusal must have a cause, a lockout must lapse however often
  somebody tries in between, and only a full table ends a session early.
- *Gate.* A browser runs a file that was made some time ago: since then exams
  were created and deleted, the server died and came back with what it had
  saved, maybe under another public URL. The access code must be shown to the
  browsers that run this exam's file, to no others, and a browser that passes
  must not stop passing without a cause.
- *Console.* Answers of polls and of refreshes cross, fail or get lost, while
  the server changes and the session ends. The page may show an old view, but
  not for good, and it must not command what it does not show.

## Modules

`Fleet.tla` models `fleet.rs`. Its environment is open: any heartbeat an agent
could send, from any host, and any command at any time. The handler `heartbeat`
is `Heartbeat(h, hb)`, a composition of one operator for each part of the
handler in its order (`AfterResult`, `AfterCompletion`, `AfterNaming`,
`AfterDelivery`) plus `RefuseBoard`; `tick` is `Tick`; `enqueue` is `Enqueue`,
over a list of boards, with the ids of one bulk command handed out in the order
of the list. Instants become ages (of the last heartbeat, and of the job since
it was queued or picked up); an age stops one unit after the limit it is
compared with, since the code only asks whether it is greater. `news` holds the
log entries of the last step. An exam's name is identified with its id (names
may repeat in the code; then the log cannot tell them apart either).

`JobLifecycle.tla` is what the fleet promises about jobs: unissued, waiting,
delivered, closed; issued in order; open on one board; one board has one job.
`Fleet` implements it (`ImplementsLifecycle`), `phase` and `holders` being read
off the boards.

`ExamControl.tla` composes an `INSTANCE` of `Fleet` with the agents, the
browsers and a saved snapshot. An agent is `asleep` (in the sleep of its loop),
`polling` (blocked on the reply), `working` (it has a job in hand) or `waiting`
(blocked in `c.wait()`). `Answered`, `ReplyLost` and `RequestLost` are the three
fates of a request; a request the agent has given up on is handled by then or
never. `Killed` is what `stop-seb.sh` does: a browser that is not up yet is not
found. `ServerRestarts` loads the last snapshot, so jobs and heartbeats are
forgotten and job ids roll back; or `Nothing`, when the state file could not be
read, which stays on the disk. The history variable `stamp` tells which run
of the server issued the job that an agent executes or reports.
`KioskSurvives` distinguishes the two images: on the GNOME image SEB runs below
the agent's own unit and dies with it; on the GPU stack it runs in the unit
`seb-kiosk`.

`Store.tla` models `App::save`, `spawn_background`, the end of `main` and
`Store`. A state is a number, a file two blocks, and names are apart from files,
so that a file can be truncated or renamed while another writer has it open.
Operations fail, the process is killed, the power fails (what was not synced is
lost, and the directory is as it last reached the disk). `Load` is `Store::load`
with its three outcomes: the file is missing or parses; it is corrupt and moved
aside; or it cannot be read, or not be moved, and then it stays where it is while
the server comes up empty. `DurableState.tla` is the promise: one stored state,
replaced in one step by a newer one; a server that comes up starts from it
(`Restart`), or at the price of a failed operation from nothing, and then what is
stored is untouched until a save replaces it (`Unread`).

`Auth.tla` models a login in its three steps: the handler reads the clock
(`Submit`), `Auth::login` takes the limiter's lock (`Refuse`, `Fail`, `Admit`)
and, after it has dropped that, the lock of the sessions (`OpenSession`); the
logins of other browsers come in between. Instants are differences from the
present (ages of failures, waits of requests, what is left of a session), so
that time can pass without bound in finitely many states; beyond `Horizon` ages
are alike. `guesses` is a history variable: the wrong passwords that were really
tested, against which the limiter's queues are judged. An age beyond `Window` is
kept until `Pruned` drops it, from the front of a queue only, as `prune` does.

`Console.tla` is one browser tab. A view is fixed when the server answers
(`ServeFetch`) and stored when the answer arrives (`PollEnds`, `RefreshEnds`),
and the signals that depend on it change in the same step, as Leptos runs
effects before the next browser event (`Show`). A poll holds `busy` from
`PollTimer` until it ends. A command passes `guard` and changes the server
(`Perform`), or is refused or lost (`Lose`, which may also lose the answer of a
command that was performed); start and stop are followed by a refresh, create
and delete if they succeeded. The server is what its views show and a version
that counts changes: `Fleet` and `Auth` have the rest. The confirm button keeps
the timers of all its armings, since none is cancelled.

`ExamSettings.tla` has the pure parts of `proto/`: which domain a typed line or
a URL stands for, which domains a spec allows (`effective_domains`), the
settings of a file, their canonical form (`write_dict`, `write_value`) and the
Config Key. Host names are sequences of labels; SHA-256 and the encryption are
taken to be injective, so a hash is what is hashed. The sort of a dictionary is
`InKeyOrder`: each entry goes where the number of smaller keys says, and an entry
that is left out has no rank.

`Gate.tla` puts them to work: the list of exams in memory and on disk, the
server's restarts, the files that browsers run, and the handlers `gate`,
`gate_verify`, `download_seb` and `download_seb_locked`. A handler looks at the
list once, under the lock, and answers from that, so a request is one step
(`VisitWithKey`, `VisitPlain`, `Verify`); what follows is a log entry only. The
browser (external) opens allowed hosts only and keeps its settings, and the
dictionaries in them, in an order of its own. Ids are distinct: `create_exam`
draws 32 random bits and does not look for a collision. Salts on disk are well
formed or missing. A restart reads the last save or, when it fails to, no exams
(`Read`); the save stays on the disk until the next one.

`MCFleet`, `MCExamControl`, `MCStore`, `MCAuth`, `MCConsole`, `MCGate` instantiate
these for TLC. Operators called "faulty variant" are not part of a model: they are
plausible mistakes, and each property is known to fail when one of them takes its
original's place. The theorems about a module are in the module named after it,
with `Proofs`; `LeastNumbers.tla` has what several of them need of natural numbers.

## Runs

| Run | Instance | Shows |
| --- | --- | --- |
| `fleet_board` | 1 board, 2 exams, 3 job ids, OFFLINE < STOP < PICKUP < START as in the code (1, 2, 3, 4) | no error beside a job; every job ends once on the record and ends at all; implements `JobLifecycle` |
| `fleet_bulk` | 2 boards, 1 exam, 2 ids, every limit 0 | ids unique in and across bulk commands; every persisted change sets `dirty` |
| `fleet_cap` | 3 boards, cap 2, saved fleets of 0 to 3 boards | the limit warning is true while it stands |
| `control` | 1 board, 2 exams, 3 ids, 1 restart of the server (from its last save or empty), browser dies with the agent | the reported exam is the one shown; "Exam running: X" names X; a report is of the job it names; "idle" means no browser |
| `store` | saves do not overlap, 3 changes, 2 failed operations, in saves or in starts, kills and power losses without bound but for the number of states | a clean flag means saved; implements `DurableState`; every change is stored in the end |
| `auth` | 2 browsers, 2 client keys, limits of 1 and 2 failures, windows of 3 and 2 units, sessions of 2, table of 2, waits of at most 1, restarts | guesses per window are bounded; a refusal has a cause; a lockout lapses; a session ends early only when it makes room |
| `console` | 1 board, 1 exam, 2 filters, 2 requests under way, 1 change of the server, a button armed for 2 units | polls do not overlap; ticks and picker name what is shown; an armed button is brief; the page catches up; the pill tells the truth in the end |
| `gate` | 2 ids, 3 salts, 1 browser that is a board and a laptop in turn, 2 public URLs or none, forms with every kind of line, a state directory with an exam from before salts | the code goes to browsers with the exam's own file; a Config Key names one exam; exactly the up-to-date browsers pass; a browser stops passing only for a cause; the rules are exact |
| `fleet_idle_says_idle` (violated) | 1 board | badge "Ready", that of the status idle, beside "Running X" |
| `control_kiosk` (violated) | as `control`, browser survives | a restarted agent reports idle with the exam on the screen |
| `store_unread` (violated) | as `store`, 1 failed operation | a start that cannot read `state.json` comes up empty although a whole state is stored |
| `store_shutdown` (violated) | the save at shutdown beside a background save, as in `main.rs` | `state.json` half-written |

Why the bounds are enough. Boards interact only through job ids, the cap and
the log, so two boards show what bulk commands can do, and three a cap of two
with one board above it; one board is enough where a property speaks of one.
Three ids allow a start, the stop that replaces it and a third job after both;
with a restart, an id is issued twice. In `fleet_bulk` two ids are one bulk
command on both boards, or two commands of which one leaves a board out. Two
exams tell a right name from a wrong one. Only the order of the time limits matters: `fleet_board` has all four
distinct and in the code's order; elsewhere they are all 0, and then a board
goes silent and its jobs expire in the same unit, in either order. (`control`
was also run with OFFLINE_AFTER below, and equal to, the others: no change.)
Symmetry is used over hosts, in runs without liveness.

In `auth` two browsers are enough for every crossing of the two locks, since a
login holds one lock at a time; a third token lets a full table drop a session
that is in use; the windows keep the order of the real ones. With limits of 1
and 2, one key can be locked out while everybody is not, and the other way
round. In `console` two requests are a poll and a refresh, or a poll and a
command, which is all that can cross for one page; one change of the server
tells an old view from a new one. In `gate` an exam from before salts, deleted,
created again under another id and lost in a restart takes three salts; machines
share nothing but the server, so that one stands for all.

`ExamControl` assumes that requests of one board are not
reordered: an idle heartbeat processed after a later start was delivered would
break `IdleMeansDown` and `ReportsNameTheirJob`.

Fairness. `Fleet`: `tick` runs each second for as long as the server does
(`spawn_background`), and time passes; nothing is assumed of agents or
instructors. `Store`: the background task saves a dirty state, and a save under
way goes on; failures are bounded by `FailBound`, that is, the disk is not
broken for ever. `Exit`, `Boot` and the crashes are not fair. `ExamControl` has
safety properties only: the student decides when a browser ends, so that an
agent blocked in a stop is ever heard again cannot be promised. `Auth`: time
passes, and a login that is under way is answered (a handler that runs is not
suspended for ever; a lock is held for a moment). `Console`: the interval goes
on firing while its page is open (strong, since it is skipped while a poll is
under way), each request ends in an answer or an error (a browser gives up
sometime), and the network does not fail every poll for ever; nothing is assumed
of the instructor or of refreshes, and `CatchesUp` and `PillTellsTheTruth` say
what holds once the session stays or is gone. `Gate` has safety properties only:
a browser comes to the gate when its user does.

## What the violated runs mean

Each is a statement of the repository's documents that the code does not keep;
`PROJECT.json` quotes the lines. Two of them can cost the saved state. One is the
save at shutdown: `main` calls `app.save(true)` while a background save may be under
way, and both write `state.json.tmp`. One truncates the file the other is about
to rename; if the second save then fails, or the process is killed, `state.json`
stays empty or mixed, and the next start moves it aside and begins with an
empty fleet. `store` shows that nothing else is wrong with saving: with
`Overlap = FALSE`, the two saves one after the other, all its properties hold.

The other is a start that cannot read `state.json` for any reason but that it is
missing (`store.rs:29`). It is neither an empty state nor a corrupt one, which are
the two cases that the comment of `load` names: the server comes up empty, leaves the
file, and its first save, seconds later, renames an almost empty state over the boards,
exams and salts that were never read. That much is what `ImplementsDurable` allows
and no more: until that save a further start may still find them, and it takes a
failed operation. A corrupt file whose renaming fails (`store.rs:35`, the result is
dropped) is replaced in the same way.

On the GPU stack, `control_kiosk` shows a board whose exam can no longer be
stopped from the console: it is idle for the server, and a stop of an idle board
is refused.

## Proofs

`FleetProofs.tla` proves, for any number of hosts, exams, labels and job ids and
any limits (the assumptions are those at the head of `Fleet.tla`: the null
values are not members, limits are naturals, the set of hosts is finite):

| Theorem | States |
| --- | --- |
| `TypeCorrect` | `Spec => []TypeOK` |
| `JobIdsStayUnique` | `Spec => []JobIdsUnique` |
| `NoErrorStaysBesideAJob` | `Spec => []NoErrorBesideJob` |
| `WarningStaysTrue` | `Spec => []WarnedMeansFull` |
| `PersistedChangesAreDirty` | `Spec => ChangesAreDirty` |
| `JobsAreAccountedFor` | `Spec => JobsEndOnTheRecord` |
| `FleetImplementsLifecycle` | `Spec => ImplementsLifecycle` |

The argument. `TypeOK` is inductive by itself; each operator on a board's record
has a typing lemma. For jobs, a heartbeat, a tick and the passing of time are all
cases of one relation, `Continues`: the open job stays, keeps its id and may
become picked up, or it is gone. So those steps can be treated together, and
only `Enqueue` opens jobs. The inductive invariant `JobsInv` adds to
`JobIdsUnique` and `NoErrorBesideJob` what ties an id to one phase; that the ids
of one bulk command are pairwise distinct is a counting lemma (`IdsOfACommand`):
the position of a board among the queued ones of the list determines its id, and
`NoIdIsSkipped` is its converse. The refinement then maps each step of the fleet
to one step of `JobLifecycle` or a stutter. `JobsAreAccountedFor` is an equivalence:
a heartbeat or a tick logs an outcome exactly when it takes the job away
(`HeartbeatEnds`, `TickEnds`), and a command that replaces a job gives the new one
an id that no open job has.

`StoreProofs.tla` proves, for any number of changes and of failed operations,
from `StoreAssumption`:

| Theorem | States |
| --- | --- |
| `TypeCorrect` | `Spec => []TypeOK`, saves that overlap included |
| `CleanIsSaved` | `~Overlap` gives `Spec => []CleanMeansSaved` |
| `FileIsWhole` | `~Overlap` gives `Spec => []FileWhole` |
| `StoreIsDurable` | `~Overlap` gives `Spec => ImplementsDurable` |

The last three assume that saves do not overlap; `store_shutdown` shows that
`FileWhole` is false without that. `TypeOK` needs that a run being stopped
leaves room for the restart (`RoomToBoot`; the bound on states is the model's).
`StoreIsDurable` does not say that every restart begins with what is stored, which
`store_unread` refutes; it says that one that does not has had a failed operation and
left the stored state in place. `CleanMeansSaved` says nothing of the moments at which a save is under way, so
it is not inductive. The invariant `OneSaver` follows the bytes: the temporary
file is neither `state.json` nor what a power loss brings back (`FilesApart`),
it has what the save under way has written so far (`TemporaryFile`), what is
stored is whole and synced, and under a clean flag the snapshot under way is the
last state (`CleanMeansTaken`). Create, write and sync are one case
(`WritingKeeps`): only the temporary file changes. The rename then stores the
snapshot (`RenameStores`), and a start leaves a stored state in place and begins with
it or has failed (`RestartReads`, `Loaded`), which are the steps of `DurableState`
that matter.

`ConsoleProofs.tla` proves, for any boards, exams and filters, any number of
requests under way and any time that a button stays armed, from
`ConsoleAssumption`:

| Theorem | States |
| --- | --- |
| `TypeCorrect` | `Spec => []TypeOK` |
| `ArmedStaysBrief` | `Spec => []ArmedIsBrief` |
| `ChoicesStayShown` | `Spec => []ChoicesAreShown` |
| `PollsDoNotOverlap` | `Spec => []BusyMeansOnePoll` |

`TypeOK` bounds the time for which a button has been armed, and is inductive only
with `TimerRuns`: an armed button has a timer that ends in time, and if another
timer disarms it earlier, it no longer counts. `ArmedIsBrief` follows. For polls the
invariant `OnePoll` names the slot in place of counting; that a new request finds a
free slot, so that `busy` is never set without a poll, needs a least and a greatest
free slot (`LeastNumbers.tla`).

`AuthProofs.tla` proves, for any number of browsers, keys and tokens and any
limits and windows, from `LimitsAssumption` (a login waits less than the windows
and than a session lasts) and `NamesAssumption`:

| Theorem | States |
| --- | --- |
| `TypeCorrect` | `Spec => []TypeOK`, with the bounds of queues and table |
| `GuessesStayBounded` | `Spec => []GuessesBounded` |
| `RefusalsHaveACause` | `Spec => RefusedForCause` |
| `SessionsEndForCause` | `Spec => SessionEndsForCause` |

The limiter's queues are not sorted, since the clock is read before the lock is
taken. The invariant says by how much: a failure is at most `MaxWait` older than
one recorded before it (`Queue`). So what a prune leaves behind the first failure
it keeps is within two waits of the window, which is `RefusalsHaveACause`. And every
guess within the window still has a place of its own in its queue (`Recorded`, an
injection), because a prune by a clock that is behind drops less, never more
(`RecordedAfterPrune`); as a queue is no longer than its limit, neither is the
record.

`ExamControlProofs.tla` proves, for any number of boards, exams, jobs and restarts,
from the assumptions about `Fleet`, `ControlAssumption` (the cap has room for every
board) and `PatienceAssumption` (a board is offline before any job times out: 15 s
against 45, 60 and 90 s in `fleet.rs`):

| Theorem | States |
| --- | --- |
| `TypeCorrect` | `Spec => []TypeOK` |
| `FleetStaysSound` | `TypeOK`, `JobIdsUnique` and `NoErrorBesideJob` of the fleet hold among agents and restarts of the server |
| `ReportedIsShown` | `Spec => []ReportedExamIsShown` |
| `ReportsNameTheirOwnJob` | `Spec => []ReportsNameTheirJob` |
| `IdleIsDown` | `~KioskSurvives` gives `Spec => []IdleMeansDown` |
| `RunningIsTheExam` | `Spec => RunningNamesTheExam` |

`IdleIsDown` needs its hypothesis: `control_kiosk` is the counterexample without it.
A restart of the server is no step of `Fleet`, so that its invariant is carried over
step by step: every other step is one of `Fleet` or leaves it alone
(`NextIsAFleetStep`), and `FleetProofs`, instantiated, has the rest. The heart of
the invariant is `Explains`. A browser that runs, or is about to, while the server
has not yet heard of it, is explained by an open job or by silence; and the job is
younger than the silence, so it cannot time out before the board is called offline
(here `PatienceAssumption` is used). A start that is still open is the one that the
agent executes, which gives `RunningIsTheExam`. For the reports, `ReportOK` says that
a board heard from in this run of the server holds no result of an earlier run: its
first heartbeat has taken the result along.

`SettingsProofs.tla` is about the pure functions of `proto/`, for lists and specs of
any length, over well-formed addresses:

| Theorem | States |
| --- | --- |
| `KeyOfSettings` | the Config Key of an exam is the tuple of its settings in the order of the keys, without `originatorVersion` |
| `KeptAreExact`, `EffectiveDomainsExact` | `effective_domains` covers the start page and every listed domain, invents none, and keeps none that another covers |
| `LinesAreListed` | `parse_domain_list` has the domains of its lines and each once |

The provers know nothing of `SortSeq` and `SelectSeq`, so sorting and filtering are
written as ranks (`Arranged`), whose result is known as soon as somebody exhibits the
order (`ArrangedBy`). What a fold computes is an induction over the list, which the
library's theorems cannot give here; it is proved by the least list position at which
the claim would fail (`LeastNumbers`): `FoldsExist` and `FoldSteps` say that the
recursive function behind `FoldLeft` is defined and goes from entry to entry, and
`StepsCompute` carries `Exact` or `Listed` along.

`GateProofs.tla` proves, for any number of exams and machines, forms and public URLs,
from `GateAssumption`:

| Theorem | States |
| --- | --- |
| `TypeCorrect` | `Spec => []TypeOK` |
| `CodeStaysWithItsExam` | `Spec => []CodeGoesToItsExam` |
| `KeysAreTheirs` | `Spec => []KeysNameTheirExam` |
| `UpToDateIsWhatPasses` | `Spec => []UpToDatePasses` |
| `ListedRulesAreExact` | `Spec => []RulesAreExact` |
| `PassIsKept` | `Spec => PassIsLostForCause` |
| `SameKeyOnBothSides` | a browser with an order of its own computes the server's Config Key |

`GateAssumption` says: ids are finitely many; addresses are well formed; no form
starts at the gate of its own exam, since the id is drawn after the form was typed;
an old state directory has exams that were accepted, without salts, and salts enough
can be drawn for them. The invariant, which TLC also confirmed on the instance of
`gate`, follows the salts. A salt is drawn once, for one exam with one spec, and no
list, in memory or on disk, knows it as anything else, now or after a restart
(`Owned`, `Of`); an exam without a salt on disk may get another at each start, which
is why the disk has the salt in memory or none. A file was made with a salt that its
exam owns (`Made`). So a file whose key is a listed exam's has its salt, and hence
its id and its spec. An answer of the gate that shows a code or redirects is to a
machine with that exam's file (`Fits`).

Only model-checked: liveness (`JobsEventuallyEnd`, `ChangesAreStored`,
`LockoutLapses`, `CatchesUp`, `PillTellsTheTruth`), which is out of the prover's
reach. Every other property of the passing runs is a theorem.

## Not modelled

- Layout and wording of the console, the status filter and the order of the
  cards, the result panel, the drafts in forms. XML and JSON text, gzip,
  hashing and encryption of `.seb` files, which unit tests and fixtures cover.
- In `http.rs`: routing, cookies, headers, the Origin check, the `machines`
  listing. `/exam.seb` keeps one file in memory that nothing in the repository
  asks for any more; `exam.rs` is declared by no module.
- `sim-agent`: a development tool. What it sends is among the heartbeats of the
  open environment of `Fleet`.
- A `gate_verify` that is sent the URL of another exam: the clients of `Gate` post
  the URL of their own page (under any name of the server, before or after a
  restart), so the comparison of http.rs:268-272 is modelled but decides nothing
  that the key does not.
- What a command answers about boards beyond the cap: `enqueue` reads the first
  `max_boards` names of its request (`Considered`) and is silent about the rest.
- Statistics of a board, build and deployment scripts, temperature samples,
  last-seen stamps, the length limit of the log. Replies are never duplicated
  (the agent posts without retry).

## Plan

1. A refinement from `Console` to a page that shows the server with a delay, and
   its proof.
2. The simulated agents as a second environment, with reports that are kept until
   a reply arrives.
3. The statistics of a board, whose history is bounded.
