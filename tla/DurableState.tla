---------------------------- MODULE DurableState ----------------------------
(***************************************************************************)
(* What the server promises about its state: a stored state is a whole     *)
(* state that the memory once held, it is replaced only by a newer one, in *)
(* one step, and a server that comes up starts from the stored state.  If  *)
(* that could not be read it starts empty, and what is stored stays until  *)
(* a save replaces it.  A power loss may bring back the state stored       *)
(* before, for as long as the directory has not reached the disk.          *)
(*                                                                         *)
(* States are numbered in the order in which the memory went through them; *)
(* 0 is the empty state.                                                   *)
(***************************************************************************)
EXTENDS Naturals

VARIABLES
  memory,    (* the state in memory                                          *)
  base,      (* the state that this run of the server started from           *)
  stored,    (* the state a server would come up with                        *)
  fallback,  (* the state it would come up with after a power loss           *)
  faults     (* operations of the disk that failed so far                    *)

Init == memory = 1 /\ base = 0 /\ stored = 0 /\ fallback = 0 /\ faults = 0

Change  == memory' = memory + 1 /\ UNCHANGED <<base, stored, fallback, faults>>
Persist == stored' \in stored + 1..memory /\ UNCHANGED <<memory, base, fallback, faults>>
Settle  == fallback' = stored /\ UNCHANGED <<memory, base, stored, faults>>
Fault   == faults' = faults + 1 /\ UNCHANGED <<memory, base, stored, fallback>>

(* The restart after a power loss finds what had reached the disk.           *)
ComesUp ==
  /\ memory' = memory + 1
  /\ stored' \in {stored, fallback}
  /\ fallback' \in {fallback, stored'}

Restart == ComesUp /\ base' = stored' /\ faults' = faults
Unread  == ComesUp /\ base' = 0 /\ faults' = faults + 1

Next == Change \/ Persist \/ Settle \/ Fault \/ Restart \/ Unread

Spec == Init /\ [][Next]_<<memory, base, stored, fallback, faults>>

=============================================================================
