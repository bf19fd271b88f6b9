---------------------------- MODULE JobLifecycle ----------------------------
(***************************************************************************)
(* What the server promises about jobs, whatever boards, instructors and   *)
(* the network do.  A job id is issued once, to one board; the job waits,  *)
(* is delivered at most once and is closed for good.  It says nothing of   *)
(* how a job ends: Fleet.tla does.                                         *)
(***************************************************************************)
EXTENDS Naturals, FiniteSets

CONSTANTS
  Hosts,
  Ids     (* job ids, a set of numbers                                       *)

VARIABLES
  phase,    (* of each job id                                                *)
  holders   (* the boards on which the job of an id is open                  *)

Phases == {"unissued", "waiting", "delivered", "closed"}

IsOpen(i) == phase[i] \in {"waiting", "delivered"}

Init ==
  /\ phase = [i \in Ids |-> "unissued"]
  /\ holders = [i \in Ids |-> {}]

(* The life of a job; it never goes back.                                    *)
Moves == {<<"unissued", "waiting">>, <<"waiting", "delivered">>,
          <<"waiting", "closed">>, <<"delivered", "closed">>}

(* An open job is open on one board, and a board has one job open.           *)
OneBoardPerJob ==
  /\ \A i \in Ids : IF IsOpen(i) THEN \E h \in Hosts : holders[i] = {h} ELSE holders[i] = {}
  /\ \A i, j \in Ids : holders[i] \cap holders[j] # {} => i = j

Delivers(i) == phase[i] = "waiting" /\ phase'[i] = "delivered"

(* One request may issue or close several jobs; one heartbeat delivers one.  *)
Step ==
  /\ \A i \in Ids : phase'[i] # phase[i] => <<phase[i], phase'[i]>> \in Moves
  /\ \A i \in Ids : IsOpen(i) /\ IsOpen(i)' => holders'[i] = holders[i]
  /\ \A i, j \in Ids : Delivers(i) /\ Delivers(j) => i = j
  /\ \A i, j \in Ids : i < j /\ phase'[i] = "unissued" => phase'[j] = "unissued"
  /\ OneBoardPerJob'

Spec == Init /\ [][Step]_<<phase, holders>>

(* A job that was issued is closed in the end.                               *)
EveryJobEnds == \A i \in Ids : IsOpen(i) ~> phase[i] = "closed"

=============================================================================
