------------------------------- MODULE Store -------------------------------
(***************************************************************************)
(* Persistence: App::save and the background task (server/src/backend/     *)
(* mod.rs), the save at shutdown (server/src/main.rs), and Store           *)
(* (store.rs), which writes a temporary file, syncs it and renames it over *)
(* state.json.  The process is killed or the power fails at any moment,    *)
(* and any file operation may fail, the read at a start too: the server    *)
(* then comes up empty and leaves the file where it is.                    *)
(*                                                                         *)
(* A state is its number: every change of what is persisted gives a new    *)
(* one.  A file has two blocks, written one after the other.  Names and    *)
(* files are apart, because a name can be moved or a file truncated under  *)
(* a writer that has it open.                                              *)
(***************************************************************************)
EXTENDS Naturals, FiniteSets

CONSTANTS
  Overlap,     (* the save at shutdown may run beside a background save: it  *)
               (* does in the code; FALSE shows what holds when it does not  *)
  StateBound,  (* bound of the model: changes and restarts                   *)
  FailBound    (* bound of the model: failed file operations                 *)

ASSUME StoreAssumption ==
  Overlap \in BOOLEAN /\ StateBound \in Nat \ {0} /\ FailBound \in Nat

Savers == {"background", "shutdown"}
Blocks == {1, 2}
Files  == 1..5   (* two names, the name on disk and two open files           *)
NoFile == 0

VARIABLES
  phase,   (* of the process: "serving", "stopping" or "off"                 *)
  state,   (* the state in memory                                            *)
  base,    (* the state this run was loaded with                             *)
  dirty,   (* Fleet::dirty                                                   *)
  saver,   (* each save: where it is, its snapshot and its open file         *)
  data,    (* each file: its blocks and whether they have been synced        *)
  path,    (* the file named state.json                                      *)
  tmp,     (* the file named state.json.tmp                                  *)
  onDisk,  (* the file named state.json if the power fails now               *)
  failures (* file operations that failed so far                             *)

memoryVars == <<phase, state, base, dirty>>
diskVars   == <<data, path, tmp, onDisk, failures>>
vars       == <<memoryVars, saver, diskVars>>

-----------------------------------------------------------------------------
States == 0..StateBound + 1

Idle  == [at |-> "idle", snap |-> 0, file |-> NoFile]
Steps == {"idle", "creating", "writing 1", "writing 2", "syncing", "renaming", "failed"}

Empty == [text |-> [b \in Blocks |-> 0], synced |-> FALSE]

(* A file that can be read parses when both blocks are of one state;         *)
(* otherwise it is corrupt.                                                  *)
Whole(f)   == \A b \in Blocks : data[f].text[b] = data[f].text[1] /\ data[f].text[b] # 0
Content(f) == IF f # NoFile /\ Whole(f) THEN data[f].text[1] ELSE 0

Init ==
  /\ phase = "serving" /\ state = 1 /\ base = 0 /\ dirty = TRUE
  /\ saver = [s \in Savers |-> Idle]
  /\ data = [f \in Files |-> Empty]
  /\ path = NoFile /\ tmp = NoFile /\ onDisk = NoFile /\ failures = 0

-----------------------------------------------------------------------------
(* Any method of Fleet that changes what is persisted.                       *)
Change ==
  /\ phase # "off" /\ state < StateBound
  /\ state' = state + 1 /\ dirty' = TRUE
  /\ UNCHANGED <<phase, base, saver, diskVars>>

(* App::save takes a snapshot under the lock.                                *)
Take(s) ==
  /\ saver[s].at = "idle"
  /\ Overlap \/ \A r \in Savers : saver[r].at = "idle"
  /\ dirty' = FALSE
  /\ saver' = [saver EXCEPT ![s] = [Idle EXCEPT !.at = "creating", !.snap = state]]
  /\ UNCHANGED <<state, base, diskVars>>

(* The background task saves when dirty, and every minute in any case.       *)
Save(force) ==
  /\ phase # "off"
  /\ dirty \/ force
  /\ Take("background")
  /\ UNCHANGED phase

(* A signal ends the serving; main saves once more and returns.              *)
Shutdown ==
  /\ phase = "serving" /\ state < StateBound
  /\ phase' = "stopping"
  /\ Take("shutdown")

-----------------------------------------------------------------------------
(* Store::save.                                                              *)
At(s, step)  == saver[s].at = step
Go(s, step)  == saver' = [saver EXCEPT ![s].at = step]
InUse        == {path, tmp, onDisk} \cup {saver[s].file : s \in Savers}
NewFile      == CHOOSE f \in Files : f \notin InUse

(* File::create truncates the file that has the name, or makes a new one.    *)
Create(s) ==
  /\ At(s, "creating")
  /\ LET f == IF tmp = NoFile THEN NewFile ELSE tmp
     IN  /\ tmp' = f
         /\ data' = [data EXCEPT ![f] = Empty]
         /\ saver' = [saver EXCEPT ![s].at = "writing 1", ![s].file = f]
  /\ UNCHANGED <<memoryVars, path, onDisk, failures>>

Write(s, b) ==
  /\ At(s, IF b = 1 THEN "writing 1" ELSE "writing 2")
  /\ data' = [data EXCEPT ![saver[s].file].text[b] = saver[s].snap,
                          ![saver[s].file].synced = FALSE]
  /\ Go(s, IF b = 1 THEN "writing 2" ELSE "syncing")
  /\ UNCHANGED <<memoryVars, path, tmp, onDisk, failures>>

(* Faulty variant: nothing is synced.                                        *)
SyncNothing(s) ==
  /\ At(s, "syncing")
  /\ saver' = [saver EXCEPT ![s].at = "renaming", ![s].file = NoFile]
  /\ UNCHANGED <<memoryVars, diskVars>>

Sync(s) ==
  /\ At(s, "syncing")
  /\ data' = [data EXCEPT ![saver[s].file].synced = TRUE]
  /\ saver' = [saver EXCEPT ![s].at = "renaming", ![s].file = NoFile]
  /\ UNCHANGED <<memoryVars, path, tmp, onDisk, failures>>

(* Whatever has the temporary name becomes state.json.                       *)
Rename(s) ==
  /\ At(s, "renaming") /\ tmp # NoFile
  /\ path' = tmp /\ tmp' = NoFile
  /\ saver' = [saver EXCEPT ![s] = Idle]
  /\ UNCHANGED <<memoryVars, data, onDisk, failures>>

(* Faulty variant: the file stays open.                                      *)
FailOpen(s) ==
  /\ saver[s].at \notin {"idle", "failed"}
  /\ failures < FailBound
  /\ failures' = failures + 1
  /\ saver' = [saver EXCEPT ![s].at = "failed"]
  /\ UNCHANGED <<memoryVars, data, path, tmp, onDisk>>

(* Any of these steps may fail; a rename does when the name is gone.         *)
Fail(s) ==
  /\ saver[s].at \notin {"idle", "failed"}
  /\ failures < FailBound \/ (At(s, "renaming") /\ tmp = NoFile)
  /\ failures' = IF failures < FailBound THEN failures + 1 ELSE failures
  /\ saver' = [saver EXCEPT ![s] = [Idle EXCEPT !.at = "failed"]]
  /\ UNCHANGED <<memoryVars, data, path, tmp, onDisk>>

(* Faulty variants: a failed save is forgotten; it ends the task.            *)
GiveUpClean(s) ==
  /\ At(s, "failed")
  /\ saver' = [saver EXCEPT ![s] = Idle]
  /\ UNCHANGED <<memoryVars, diskVars>>

GiveUpForGood(s) ==
  /\ At(s, "failed")
  /\ dirty' = TRUE
  /\ UNCHANGED <<phase, state, base, saver, diskVars>>

(* The state is marked dirty again, under the lock.                          *)
GiveUp(s) ==
  /\ At(s, "failed")
  /\ dirty' = TRUE
  /\ saver' = [saver EXCEPT ![s] = Idle]
  /\ UNCHANGED <<phase, state, base, diskVars>>

-----------------------------------------------------------------------------
(* The process ends when main has saved and no save is left running.         *)
Exit ==
  /\ phase = "stopping" /\ \A s \in Savers : At(s, "idle")
  /\ phase' = "off"
  /\ UNCHANGED <<state, base, dirty, saver, diskVars>>

(* App::new over Store::load, where state.json is a file of some content;    *)
(* "Server started" is the first change.  A server that cannot make its      *)
(* directory does not come up; it is started again.                          *)
Load(file, content) ==
  /\ phase' = "serving" /\ saver' = [s \in Savers |-> Idle]
  /\ state' = state + 1 /\ dirty' = TRUE
  /\ \/ /\ file = NoFile \/ content # 0            (* missing, or it parses   *)
        /\ base' = content /\ path' = file /\ failures' = failures
     \/ /\ file # NoFile /\ content = 0            (* corrupt: moved aside    *)
        /\ base' = 0 /\ path' = NoFile /\ failures' = failures
     \/ /\ file # NoFile /\ failures < FailBound   (* not read, or not moved  *)
        /\ base' = 0 /\ path' = file /\ failures' = failures + 1

Boot ==
  /\ phase = "off"
  /\ Load(path, Content(path))
  /\ UNCHANGED <<data, tmp, onDisk>>

(* The process is killed, and started again.                                 *)
Killed ==
  /\ phase # "off" /\ state < StateBound
  /\ Load(path, Content(path))
  /\ UNCHANGED <<data, tmp, onDisk>>

(* The power fails: what was not synced is gone, and the directory is as it  *)
(* was last on the disk.                                                     *)
Survivor(f) == IF data[f].synced THEN data[f] ELSE Empty
Survives(f) == IF f # NoFile /\ data[f].synced THEN Content(f) ELSE 0

PowerLoss ==
  /\ phase # "off" /\ state < StateBound
  /\ data' = [f \in Files |-> Survivor(f)]
  /\ Load(onDisk, Survives(onDisk))
  /\ tmp' = NoFile /\ onDisk' = onDisk

(* The system writes the directory when it likes to.                         *)
Flush ==
  /\ onDisk # path
  /\ onDisk' = path
  /\ UNCHANGED <<memoryVars, saver, data, path, tmp, failures>>

-----------------------------------------------------------------------------
Works(s) ==
  \/ Create(s) \/ Write(s, 1) \/ Write(s, 2) \/ Sync(s) \/ Rename(s)
  \/ Fail(s) \/ GiveUp(s)

Next ==
  \/ Change \/ Shutdown \/ Exit \/ Boot \/ Killed \/ PowerLoss \/ Flush
  \/ \E force \in BOOLEAN : Save(force)
  \/ \E s \in Savers : Works(s)

(* The background task goes on for as long as the server runs, and a save    *)
(* goes on once it is under way.  The bound on failures says that the disk   *)
(* is not broken for ever.                                                   *)
Fairness == WF_vars(Save(FALSE)) /\ \A s \in Savers : WF_vars(Works(s))

Spec == Init /\ [][Next]_vars /\ Fairness

-----------------------------------------------------------------------------
(* Properties.                                                               *)

(* Types; a file is open exactly while it is written.                        *)
TypeOK ==
  /\ phase \in {"serving", "stopping", "off"}
  /\ {state, base} \subseteq States
  /\ dirty \in BOOLEAN
  /\ saver \in [Savers -> [at: Steps, snap: States, file: Files \cup {NoFile}]]
  /\ \A s \in Savers :
       saver[s].file # NoFile <=> saver[s].at \in {"writing 1", "writing 2", "syncing"}
  /\ data \in [Files -> [text: [Blocks -> States], synced: BOOLEAN]]
  /\ {path, tmp, onDisk} \subseteq Files \cup {NoFile}
  /\ failures \in 0..FailBound

(* A clean flag is the truth: unless a save is under way, state.json holds   *)
(* what the memory holds, so App::save may return without writing.           *)
CleanMeansSaved ==
  ~dirty /\ phase # "off" /\ (\A s \in Savers : At(s, "idle")) => Content(path) = state

(* state.json is at no moment half-written: a process killed now would not   *)
(* move it aside and come up empty.                                          *)
FileWhole == path # NoFile => Whole(path)

Durable == INSTANCE DurableState
             WITH memory <- state, stored <- Content(path), fallback <- Content(onDisk),
                  faults <- failures

(* The stored state is replaced atomically, never by an older or a mixed     *)
(* one.  A server that restarts, after a power loss too, begins with it, or  *)
(* at the price of a failed operation empty, with what is stored untouched   *)
(* until the next save.                                                      *)
ImplementsDurable == Durable!Spec

(* What the comments of Snapshot (fleet.rs) and Store::load say: everything  *)
(* survives a restart; only a missing or a corrupt file is an empty state.   *)
StartsWithSaved == [][Boot \/ Killed => base' = Content(path)]_vars

(* Every change is stored in the end, however often saving fails on the way, *)
(* unless the server is shut down first.  A state that a crash wipes out     *)
(* counts as stored when that of a later run is.                             *)
ChangesAreStored == \A v \in States : state = v ~> Content(path) >= v \/ phase = "off"

=============================================================================
