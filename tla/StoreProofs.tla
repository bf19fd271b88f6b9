---------------------------- MODULE StoreProofs ----------------------------
(***************************************************************************)
(* Proofs about Store.tla, for any number of changes and failures.         *)
(*                                                                         *)
(* Types hold with and without overlapping saves.  The rest is proved for  *)
(* saves that do not overlap, from an invariant that says where the bytes  *)
(* of the snapshot under way are: in the temporary file, which is then     *)
(* neither state.json nor what a power loss brings back.                   *)
(***************************************************************************)
EXTENDS Store, TLAPS

LEMMA BoundsAreNaturals == StateBound \in Nat \ {0} /\ FailBound \in Nat
  BY StoreAssumption

(* At most three files are in use when a save makes a new one.               *)
LEMMA NewFileIsNew ==
  ASSUME TypeOK, NEW s \in Savers, At(s, "creating"), tmp = NoFile
  PROVE  NewFile \in Files /\ NewFile \notin InUse
  <1>1. PICK r \in Savers : \A q \in Savers : q = s \/ q = r
    BY DEF Savers
  <1>2. saver[s].file = NoFile
    BY DEF TypeOK, At
  <1>3. InUse \subseteq {NoFile, path, onDisk, saver[r].file}
    BY <1>1, <1>2 DEF InUse
  <1>4. \E f \in Files : f \notin {NoFile, path, onDisk, saver[r].file}
    BY DEF Files, NoFile
  <1>5. \E f \in Files : f \notin InUse
    BY <1>3, <1>4
  <1> QED
    BY <1>5 DEF NewFile

(* The types of a save and of a file.                                        *)
Saves == [at: Steps, snap: States, file: Files \cup {NoFile}]
Texts == [text: [Blocks -> States], synced: BOOLEAN]

OpenWhileWritten(save) ==
  save.file # NoFile <=> save.at \in {"writing 1", "writing 2", "syncing"}

Stopped == [Idle EXCEPT !.at = "failed"]

LEMMA NumbersTyped == 0 \in States /\ 1 \in States /\ \A v \in States : v \in Nat
  BY BoundsAreNaturals DEF States

LEMMA RecordsTyped ==
  /\ Idle \in Saves /\ OpenWhileWritten(Idle)
  /\ Stopped \in Saves /\ OpenWhileWritten(Stopped)
  /\ Empty \in Texts
  <1>1. Idle \in Saves /\ OpenWhileWritten(Idle)
    BY NumbersTyped DEF Idle, Saves, Steps, OpenWhileWritten
  <1>2. Stopped \in Saves /\ OpenWhileWritten(Stopped)
    BY NumbersTyped DEF Idle, Stopped, Saves, Steps, OpenWhileWritten
  <1>3. Empty \in Texts
    BY NumbersTyped DEF Empty, Texts
  <1> QED
    BY <1>1, <1>2, <1>3

TypeParts ==
  /\ phase \in {"serving", "stopping", "off"}
  /\ state \in States /\ base \in States
  /\ dirty \in BOOLEAN
  /\ saver \in [Savers -> Saves] /\ \A s \in Savers : OpenWhileWritten(saver[s])
  /\ data \in [Files -> Texts]
  /\ path \in Files \cup {NoFile}
  /\ tmp \in Files \cup {NoFile}
  /\ onDisk \in Files \cup {NoFile}
  /\ failures \in 0..FailBound

LEMMA TypeInParts == (TypeOK <=> TypeParts) /\ (TypeOK' <=> TypeParts')
  BY DEF TypeOK, TypeParts, Saves, Texts, OpenWhileWritten

(* There is room for the restart that ends a run that was stopped.           *)
RoomToBoot == phase # "serving" => state <= StateBound

Typed == TypeOK /\ RoomToBoot

LEMMA InitTyped == Init => Typed
  <1> SUFFICES ASSUME Init PROVE Typed
    OBVIOUS
  <1>1. data \in [Files -> Texts]
    BY RecordsTyped DEF Init
  <1>2. saver \in [Savers -> Saves] /\ \A s \in Savers : OpenWhileWritten(saver[s])
    BY RecordsTyped DEF Init
  <1>3. failures \in 0..FailBound
    BY BoundsAreNaturals DEF Init
  <1>4. TypeOK
    BY <1>1, <1>2, <1>3, TypeInParts, NumbersTyped DEF TypeParts, Init
  <1> QED
    BY <1>4 DEF Init, Typed, RoomToBoot

(* A step of a save leaves the other save as it is.                          *)
LEMMA SaverTyped ==
  ASSUME TypeOK, NEW s \in Savers, NEW new \in Saves, OpenWhileWritten(new),
         saver' = [saver EXCEPT ![s] = new]
  PROVE  saver' \in [Savers -> Saves] /\ \A r \in Savers : OpenWhileWritten(saver'[r])
  BY TypeInParts DEF TypeParts

LEMMA TakeTyped ==
  ASSUME TypeOK, NEW s \in Savers, Take(s), phase' \in {"serving", "stopping", "off"}
  PROVE  TypeOK'
  <1> DEFINE new == [Idle EXCEPT !.at = "creating", !.snap = state]
  <1>1. state \in States
    BY TypeInParts DEF TypeParts
  <1>2. new \in Saves /\ OpenWhileWritten(new)
    BY <1>1 DEF Idle, Saves, Steps, OpenWhileWritten
  <1>3. saver' = [saver EXCEPT ![s] = new]
    BY DEF Take
  <1> HIDE DEF new
  <1>4. saver' \in [Savers -> Saves] /\ \A r \in Savers : OpenWhileWritten(saver'[r])
    BY <1>2, <1>3, SaverTyped
  <1>5. dirty' = FALSE /\ UNCHANGED <<state, base, data, path, tmp, onDisk, failures>>
    BY DEF Take, diskVars
  <1> QED
    BY <1>4, <1>5, TypeInParts DEF TypeParts

LEMMA CreateTyped ==
  ASSUME TypeOK, NEW s \in Savers, Create(s)
  PROVE  TypeOK'
  <1> DEFINE f   == IF tmp = NoFile THEN NewFile ELSE tmp
             new == [saver[s] EXCEPT !.at = "writing 1", !.file = f]
  <1>1. f \in Files /\ f # NoFile
    <2>1. f \in Files
      BY NewFileIsNew, TypeInParts DEF TypeParts, Create
    <2>2. NoFile \notin Files
      BY DEF NoFile, Files
    <2> QED
      BY <2>1, <2>2
  <1>2. data' = [data EXCEPT ![f] = Empty] /\ tmp' = f
        /\ UNCHANGED <<phase, state, base, dirty, path, onDisk, failures>>
    BY DEF Create, memoryVars
  <1>3. saver[s] \in Saves
    BY TypeInParts DEF TypeParts
  <1>4. saver' = [saver EXCEPT ![s] = new]
    BY TypeInParts DEF TypeParts, Create
  <1> HIDE DEF f
  <1>5. data' \in [Files -> Texts]
    BY <1>1, <1>2, RecordsTyped, TypeInParts DEF TypeParts
  <1>6. new \in Saves /\ OpenWhileWritten(new)
    BY <1>1, <1>3 DEF Saves, Steps, OpenWhileWritten
  <1> HIDE DEF new
  <1>7. saver' \in [Savers -> Saves] /\ \A r \in Savers : OpenWhileWritten(saver'[r])
    BY <1>4, <1>6, SaverTyped
  <1> QED
    BY <1>1, <1>2, <1>5, <1>7, TypeInParts DEF TypeParts

LEMMA WriteTyped ==
  ASSUME TypeOK, NEW s \in Savers, NEW b \in Blocks, Write(s, b)
  PROVE  TypeOK'
  <1> DEFINE new == [saver[s] EXCEPT !.at = IF b = 1 THEN "writing 2" ELSE "syncing"]
  <1>1. saver[s] \in Saves /\ saver[s].file # NoFile
    BY TypeInParts DEF TypeParts, Write, At, OpenWhileWritten
  <1>2. data' \in [Files -> Texts]
    BY <1>1, TypeInParts, ZenonT(40) DEF TypeParts, Write, Texts, Saves
  <1>3. new \in Saves /\ OpenWhileWritten(new)
    BY <1>1 DEF Saves, Steps, OpenWhileWritten
  <1>4. saver' = [saver EXCEPT ![s] = new]
    BY TypeInParts DEF TypeParts, Write, Go
  <1> HIDE DEF new
  <1>5. saver' \in [Savers -> Saves] /\ \A r \in Savers : OpenWhileWritten(saver'[r])
    BY <1>3, <1>4, SaverTyped
  <1>6. UNCHANGED <<phase, state, base, dirty, path, tmp, onDisk, failures>>
    BY DEF Write, memoryVars
  <1> QED
    BY <1>2, <1>5, <1>6, TypeInParts DEF TypeParts

LEMMA SyncTyped ==
  ASSUME TypeOK, NEW s \in Savers, Sync(s)
  PROVE  TypeOK'
  <1> DEFINE new == [saver[s] EXCEPT !.at = "renaming", !.file = NoFile]
  <1>1. saver[s] \in Saves
    BY TypeInParts DEF TypeParts
  <1>2. data' \in [Files -> Texts]
    BY TypeInParts DEF TypeParts, Sync, Texts
  <1>3. new \in Saves /\ OpenWhileWritten(new)
    BY <1>1 DEF Saves, Steps, OpenWhileWritten
  <1>4. saver' = [saver EXCEPT ![s] = new]
    BY TypeInParts DEF TypeParts, Sync
  <1> HIDE DEF new
  <1>5. saver' \in [Savers -> Saves] /\ \A r \in Savers : OpenWhileWritten(saver'[r])
    BY <1>3, <1>4, SaverTyped
  <1>6. UNCHANGED <<phase, state, base, dirty, path, tmp, onDisk, failures>>
    BY DEF Sync, memoryVars
  <1> QED
    BY <1>2, <1>5, <1>6, TypeInParts DEF TypeParts

(* A save that ends, well or not.                                            *)
LEMMA EndTyped ==
  ASSUME TypeOK, NEW s \in Savers, Rename(s) \/ Fail(s) \/ GiveUp(s)
  PROVE  TypeOK'
  <1>1. CASE Rename(s)
    <2>1. saver' \in [Savers -> Saves] /\ \A r \in Savers : OpenWhileWritten(saver'[r])
      BY <1>1, RecordsTyped, SaverTyped DEF Rename
    <2>2. /\ path' = tmp /\ tmp' = NoFile
          /\ UNCHANGED <<phase, state, base, dirty, data, onDisk, failures>>
      BY <1>1 DEF Rename, memoryVars
    <2> QED
      BY <2>1, <2>2, TypeInParts DEF TypeParts
  <1>2. CASE Fail(s)
    <2>1. saver' \in [Savers -> Saves] /\ \A r \in Savers : OpenWhileWritten(saver'[r])
      BY <1>2, RecordsTyped, SaverTyped DEF Fail, Stopped
    <2>2. failures' = (IF failures < FailBound THEN failures + 1 ELSE failures)
          /\ UNCHANGED <<phase, state, base, dirty, data, path, tmp, onDisk>>
      BY <1>2 DEF Fail, memoryVars
    <2>3. failures \in 0..FailBound
      BY TypeInParts DEF TypeParts
    <2>4. failures' \in 0..FailBound
      BY <2>2, <2>3, BoundsAreNaturals
    <2> QED
      BY <2>1, <2>2, <2>4, TypeInParts DEF TypeParts
  <1>3. CASE GiveUp(s)
    <2>1. saver' \in [Savers -> Saves] /\ \A r \in Savers : OpenWhileWritten(saver'[r])
      BY <1>3, RecordsTyped, SaverTyped DEF GiveUp
    <2>2. dirty' = TRUE /\ UNCHANGED <<phase, state, base, data, path, tmp, onDisk, failures>>
      BY <1>3 DEF GiveUp, diskVars
    <2> QED
      BY <2>1, <2>2, TypeInParts DEF TypeParts
  <1> QED
    BY <1>1, <1>2, <1>3

LEMMA ContentTyped == TypeOK => \A f \in Files \cup {NoFile} : Content(f) \in States
  <1>1. ASSUME TypeOK, NEW f \in Files PROVE data[f].text[1] \in States
    BY <1>1, TypeInParts DEF TypeParts, Texts, Blocks
  <1> QED
    BY <1>1, NumbersTyped DEF Content

(* A server that starts has no save under way.                               *)
LEMMA RestartTyped ==
  ASSUME TypeOK, RoomToBoot, Boot \/ Killed \/ PowerLoss
  PROVE  TypeOK' /\ phase' = "serving"
  <1>1. state' \in States /\ phase' = "serving" /\ dirty' = TRUE
    <2>1. state' = state + 1 /\ phase' = "serving" /\ dirty' = TRUE
      BY DEF Boot, Killed, PowerLoss, Load
    <2>2. state < StateBound \/ state <= StateBound
      BY DEF RoomToBoot, Boot, Killed, PowerLoss
    <2>3. state \in 0..StateBound + 1
      BY TypeInParts DEF TypeParts, States
    <2> QED
      BY <2>1, <2>2, <2>3, BoundsAreNaturals DEF States
  <1>2. saver' \in [Savers -> Saves] /\ \A r \in Savers : OpenWhileWritten(saver'[r])
    <2>1. saver' = [s \in Savers |-> Idle]
      BY DEF Boot, Killed, PowerLoss, Load
    <2> QED
      BY <2>1, RecordsTyped
  <1>3. data' \in [Files -> Texts]
    <2>1. data' = data \/ data' = [f \in Files |-> Survivor(f)]
      BY DEF Boot, Killed, PowerLoss
    <2> QED
      BY <2>1, RecordsTyped, TypeInParts DEF TypeParts, Survivor
  <1>4. base' \in States
    <2>1. base' \in {0, Content(path), Content(onDisk)}
      BY DEF Boot, Killed, PowerLoss, Load, Survives
    <2> QED
      BY <2>1, ContentTyped, NumbersTyped, TypeInParts DEF TypeParts
  <1>5. path' \in Files \cup {NoFile} /\ tmp' \in Files \cup {NoFile}
        /\ onDisk' \in Files \cup {NoFile}
    <2>1. /\ path' \in {path, onDisk, NoFile}
          /\ tmp' \in {tmp, NoFile}
          /\ onDisk' = onDisk
      BY DEF Boot, Killed, PowerLoss, Load
    <2> QED
      BY <2>1, TypeInParts DEF TypeParts
  <1>6. failures' \in 0..FailBound
    <2>1. failures' = failures \/ (failures < FailBound /\ failures' = failures + 1)
      BY DEF Boot, Killed, PowerLoss, Load
    <2>2. failures \in 0..FailBound
      BY TypeInParts DEF TypeParts
    <2> QED
      BY <2>1, <2>2, BoundsAreNaturals
  <1> QED
    BY <1>1, <1>2, <1>3, <1>4, <1>5, <1>6, TypeInParts DEF TypeParts

LEMMA StepTyped ==
  ASSUME Typed, [Next]_vars
  PROVE  Typed'
  <1> USE DEF Typed
  <1>1. CASE Change
    <2>1. /\ state < StateBound /\ state' = state + 1 /\ dirty' = TRUE
          /\ UNCHANGED <<phase, base, saver, data, path, tmp, onDisk, failures>>
      BY <1>1 DEF Change, diskVars
    <2>2. state \in 0..StateBound + 1
      BY TypeInParts DEF TypeParts, States
    <2>3. state' \in States /\ state' <= StateBound
      BY <2>1, <2>2, BoundsAreNaturals DEF States
    <2> QED
      BY <2>1, <2>3, TypeInParts DEF TypeParts, RoomToBoot
  <1>2. CASE Shutdown
    <2>1. TypeOK'
      BY <1>2, TakeTyped DEF Shutdown, Savers
    <2>2. state < StateBound /\ state' = state /\ state \in 0..StateBound + 1
      BY <1>2 DEF Shutdown, Take, TypeOK, States
    <2>3. state' <= StateBound
      BY <2>2, BoundsAreNaturals
    <2> QED
      BY <2>1, <2>3 DEF RoomToBoot
  <1>3. CASE Exit
    <2>1. phase' = "off"
          /\ UNCHANGED <<state, base, dirty, saver, data, path, tmp, onDisk, failures>>
      BY <1>3 DEF Exit, diskVars
    <2> QED
      BY <1>3, <2>1, TypeInParts DEF TypeParts, Exit, RoomToBoot
  <1>4. CASE Boot \/ Killed \/ PowerLoss
    BY <1>4, RestartTyped DEF RoomToBoot
  <1>5. CASE Flush
    <2>1. onDisk' = path
          /\ UNCHANGED <<phase, state, base, dirty, saver, data, path, tmp, failures>>
      BY <1>5 DEF Flush, memoryVars
    <2> QED
      BY <2>1, TypeInParts DEF TypeParts, RoomToBoot
  <1>6. ASSUME NEW force \in BOOLEAN, Save(force)
        PROVE  Typed'
    <2>1. TypeOK'
      BY <1>6, TakeTyped DEF Save, Savers, TypeOK
    <2> QED
      BY <1>6, <2>1 DEF Save, Take, RoomToBoot
  <1>7. ASSUME NEW s \in Savers, Works(s)
        PROVE  Typed'
    <2>1. TypeOK'
      BY <1>7, CreateTyped, WriteTyped, SyncTyped, EndTyped DEF Works, Blocks
    <2>2. phase' = phase /\ state' = state
      BY <1>7 DEF Works, Create, Write, Sync, Rename, Fail, GiveUp, memoryVars
    <2> QED
      BY <2>1, <2>2 DEF RoomToBoot
  <1>8. CASE UNCHANGED vars
    BY <1>8 DEF vars, memoryVars, diskVars, TypeOK, RoomToBoot
  <1> QED
    BY <1>1, <1>2, <1>3, <1>4, <1>5, <1>6, <1>7, <1>8 DEF Next

LEMMA AlwaysTyped == Spec => []Typed
  <1> QED
    BY InitTyped, StepTyped, PTL DEF Spec

(* Types hold for any number of changes and failures, saves that overlap     *)
(* included; a saver has a file open exactly while it writes it              *)
(* (Store::save, store.rs).                                                  *)
THEOREM TypeCorrect == Spec => []TypeOK
  <1>1. Typed => TypeOK
    BY DEF Typed
  <1> QED
    BY <1>1, AlwaysTyped, PTL

-----------------------------------------------------------------------------
(* Saves that do not overlap.                                                *)

Busy(s)       == saver[s].at \notin {"idle", "failed"}
Holds(f, v)   == \A b \in Blocks : data[f].text[b] = v

OneAtATime ==
  \A s, r \in Savers : saver[s].at # "idle" /\ saver[r].at # "idle" => s = r

(* The temporary file is not one that a restart could read.                  *)
FilesApart == tmp # NoFile => tmp # path /\ tmp # onDisk

(* It is the file that the save writes, and has what was written so far.     *)
TemporaryFile ==
  \A s \in Savers :
    /\ saver[s].file # NoFile => saver[s].file = tmp
    /\ saver[s].at = "writing 2" => data[tmp].text[1] = saver[s].snap
    /\ saver[s].at \in {"syncing", "renaming"} => tmp # NoFile /\ Holds(tmp, saver[s].snap)
    /\ saver[s].at = "renaming" => data[tmp].synced

(* What is stored is whole, and on the disk.                                 *)
StoredFile(f) == f # NoFile => data[f].synced /\ Whole(f)

(* What is stored is no newer than the snapshot, nor that than the memory.   *)
InOrder ==
  /\ 1 <= state /\ Content(path) <= state /\ Content(onDisk) <= state
  /\ \A s \in Savers : Busy(s) =>
       1 <= saver[s].snap /\ Content(path) <= saver[s].snap /\ saver[s].snap <= state

(* A clean flag says that the save under way has the last state.             *)
CleanMeansTaken ==
  ~dirty /\ phase # "off" => \A s \in Savers : Busy(s) => saver[s].snap = state

OneSaver ==
  /\ OneAtATime /\ FilesApart /\ TemporaryFile
  /\ StoredFile(path) /\ StoredFile(onDisk)
  /\ InOrder /\ CleanMeansTaken /\ CleanMeansSaved

(* What was said of the stored files holds on while they are not written.    *)
LEMMA ContentKept ==
  /\ path' = path /\ (path # NoFile => data'[path] = data[path])
       => Content(path)' = Content(path) /\ (StoredFile(path) => StoredFile(path)')
  /\ onDisk' = onDisk /\ (onDisk # NoFile => data'[onDisk] = data[onDisk])
       => Content(onDisk)' = Content(onDisk) /\ (StoredFile(onDisk) => StoredFile(onDisk)')
  <1>1. ASSUME path' = path, path # NoFile => data'[path] = data[path]
        PROVE  Content(path)' = Content(path) /\ (StoredFile(path) => StoredFile(path)')
    BY <1>1 DEF Content, Whole, StoredFile
  <1>2. ASSUME onDisk' = onDisk, onDisk # NoFile => data'[onDisk] = data[onDisk]
        PROVE  Content(onDisk)' = Content(onDisk) /\ (StoredFile(onDisk) => StoredFile(onDisk)')
    BY <1>2 DEF Content, Whole, StoredFile
  <1> QED
    BY <1>1, <1>2

LEMMA DiskKept ==
  ASSUME UNCHANGED <<data, path, tmp, onDisk>>
  PROVE  /\ Content(path)' = Content(path) /\ Content(onDisk)' = Content(onDisk)
         /\ StoredFile(path) => StoredFile(path)'
         /\ StoredFile(onDisk) => StoredFile(onDisk)'
         /\ FilesApart => FilesApart'
  BY DEF Content, Whole, StoredFile, FilesApart

LEMMA OneSaverInit == Init => OneSaver
  <1> SUFFICES ASSUME Init PROVE OneSaver
    OBVIOUS
  <1>1. \A s \in Savers : saver[s].at = "idle" /\ saver[s].file = NoFile
    BY DEF Init, Idle
  <1>2. Content(path) = 0 /\ Content(onDisk) = 0
    BY DEF Init, Content
  <1>3. OneAtATime /\ TemporaryFile
    BY <1>1 DEF OneAtATime, TemporaryFile
  <1>4. InOrder
    BY <1>1, <1>2 DEF InOrder, Busy, Init
  <1> QED
    BY <1>3, <1>4 DEF Init, OneSaver, FilesApart, StoredFile, CleanMeansTaken, CleanMeansSaved

(* Memory steps.                                                             *)
LEMMA ChangeKeeps == ASSUME TypeOK, OneSaver, Change PROVE OneSaver'
  <1>1. /\ state' = state + 1 /\ dirty' = TRUE
        /\ UNCHANGED <<phase, base, saver, data, path, tmp, onDisk>>
    BY DEF Change, diskVars
  <1>2. state \in Nat /\ Content(path) \in Nat /\ Content(onDisk) \in Nat
        /\ \A s \in Savers : saver[s].snap \in Nat
    BY TypeInParts, ContentTyped, NumbersTyped DEF TypeParts, Saves
  <1>3. InOrder'
    BY <1>1, <1>2, DiskKept DEF OneSaver, InOrder, Busy
  <1>4. OneAtATime' /\ TemporaryFile'
    BY <1>1 DEF OneSaver, OneAtATime, TemporaryFile, Holds
  <1> QED
    BY <1>1, <1>3, <1>4, DiskKept DEF OneSaver, CleanMeansTaken, CleanMeansSaved

LEMMA TakeKeeps ==
  ASSUME TypeOK, OneSaver, NEW s \in Savers, Take(s), ~Overlap
  PROVE  OneSaver'
  <1> DEFINE new == [Idle EXCEPT !.at = "creating", !.snap = state]
  <1>1. /\ \A r \in Savers : saver[r].at = "idle"
        /\ saver' = [saver EXCEPT ![s] = new]
        /\ dirty' = FALSE /\ UNCHANGED <<state, base, data, path, tmp, onDisk>>
    BY DEF Take, diskVars
  <1>2. new.at = "creating" /\ new.snap = state /\ new.file = NoFile
    BY DEF Idle
  <1> HIDE DEF new
  <1>3. /\ saver'[s].at = "creating" /\ saver'[s].snap = state /\ saver'[s].file = NoFile
        /\ \A r \in Savers : r # s => saver'[r].at = "idle" /\ saver'[r].file = NoFile
    BY <1>1, <1>2, TypeInParts DEF TypeParts, OpenWhileWritten
  <1>4. OneAtATime' /\ TemporaryFile'
    BY <1>3 DEF OneAtATime, TemporaryFile
  <1>5. InOrder'
    <2>1. state \in Nat
      BY TypeInParts, NumbersTyped DEF TypeParts
    <2> QED
      BY <1>1, <1>3, <2>1, DiskKept DEF OneSaver, InOrder, Busy
  <1>6. CleanMeansTaken' /\ CleanMeansSaved'
    BY <1>1, <1>3 DEF CleanMeansTaken, CleanMeansSaved, Busy, At
  <1> QED
    BY <1>1, <1>4, <1>5, <1>6, DiskKept DEF OneSaver

LEMMA ExitKeeps == ASSUME TypeOK, OneSaver, Exit PROVE OneSaver'
  <1>1. phase' = "off" /\ UNCHANGED <<state, base, dirty, saver, data, path, tmp, onDisk>>
    BY DEF Exit, diskVars
  <1>2. OneAtATime' /\ TemporaryFile' /\ InOrder'
    BY <1>1, DiskKept DEF OneSaver, OneAtATime, TemporaryFile, Holds, InOrder, Busy
  <1> QED
    BY <1>1, <1>2, DiskKept DEF OneSaver, CleanMeansTaken, CleanMeansSaved

(* A save that fails leaves the file that it was writing, and the flag is    *)
(* set before the other one can start.                                       *)
LEMMA FailKeeps ==
  ASSUME TypeOK, OneSaver, NEW s \in Savers, Fail(s) \/ GiveUp(s)
  PROVE  OneSaver'
  <1>1. /\ UNCHANGED <<phase, state, base, data, path, tmp, onDisk>>
        /\ saver[s].at # "idle"
        /\ \A r \in Savers : r # s => saver'[r] = saver[r]
        /\ saver'[s].file = NoFile
        /\ \/ saver'[s].at = "failed" /\ dirty' = dirty
           \/ saver'[s].at = "idle" /\ dirty' = TRUE
    <2>1. CASE Fail(s)
      BY <2>1, TypeInParts DEF TypeParts, Fail, memoryVars, Idle
    <2>2. CASE GiveUp(s)
      BY <2>2, TypeInParts DEF TypeParts, GiveUp, diskVars, Idle, At
    <2> QED
      BY <2>1, <2>2
  <1>2. OneAtATime'
    BY <1>1 DEF OneSaver, OneAtATime
  <1>3. TemporaryFile'
    <2>1. data' = data /\ tmp' = tmp /\ TemporaryFile
      BY <1>1 DEF OneSaver
    <2>2. saver'[s].file = NoFile /\ saver'[s].at \in {"failed", "idle"}
      BY <1>1
    <2>3. \A r \in Savers : r # s => saver'[r] = saver[r]
      BY <1>1
    <2> SUFFICES ASSUME NEW r \in Savers
                 PROVE  /\ saver'[r].file # NoFile => saver'[r].file = tmp'
                        /\ saver'[r].at = "writing 2" => data'[tmp'].text[1] = saver'[r].snap
                        /\ saver'[r].at \in {"syncing", "renaming"} =>
                             tmp' # NoFile /\ \A b \in Blocks : data'[tmp'].text[b] = saver'[r].snap
                        /\ saver'[r].at = "renaming" => data'[tmp'].synced
      BY DEF TemporaryFile, Holds
    <2> HIDE <1>1
    <2>4. CASE r = s
      BY <2>2, <2>4
    <2>5. CASE r # s
      <3>1. saver'[r] = saver[r]
        BY <2>3, <2>5
      <3> QED
        BY <2>1, <3>1, ZenonT(40) DEF TemporaryFile, Holds
    <2> QED
      BY <2>4, <2>5
  <1>4. InOrder'
    BY <1>1, DiskKept DEF OneSaver, InOrder, Busy
  <1>5. CleanMeansTaken' /\ CleanMeansSaved'
    BY <1>1 DEF OneSaver, CleanMeansTaken, CleanMeansSaved, Busy, At
  <1> QED
    BY <1>1, <1>2, <1>3, <1>4, <1>5, DiskKept DEF OneSaver

-----------------------------------------------------------------------------
(* The file is written while no restart could read it.                       *)
LEMMA WritingKeeps ==
  ASSUME TypeOK, OneSaver, NEW s \in Savers, saver[s].at # "idle", Busy(s),
         UNCHANGED <<phase, state, dirty, path, onDisk>>,
         tmp' # NoFile, tmp' # path, tmp' # onDisk,
         \A f \in Files : f # tmp' => data'[f] = data[f],
         \A r \in Savers : r # s => saver'[r] = saver[r],
         saver'[s].snap = saver[s].snap, Busy(s)',
         saver'[s].file # NoFile => saver'[s].file = tmp',
         saver'[s].at = "writing 2" => data'[tmp'].text[1] = saver[s].snap,
         saver'[s].at \in {"syncing", "renaming"} =>
           \A b \in Blocks : data'[tmp'].text[b] = saver[s].snap,
         saver'[s].at = "renaming" => data'[tmp'].synced
  PROVE  OneSaver'
  <1>1. /\ path # NoFile => data'[path] = data[path]
        /\ onDisk # NoFile => data'[onDisk] = data[onDisk]
    BY TypeInParts DEF TypeParts
  <1>2. /\ Content(path)' = Content(path) /\ Content(onDisk)' = Content(onDisk)
        /\ StoredFile(path)' /\ StoredFile(onDisk)'
    <2>1. path' = path /\ onDisk' = onDisk /\ StoredFile(path) /\ StoredFile(onDisk)
      BY DEF OneSaver
    <2> QED
      BY <1>1, <2>1, ContentKept
  <1>3. \A r \in Savers : r # s => saver[r].at = "idle" /\ saver[r].file = NoFile
    BY TypeInParts DEF TypeParts, OpenWhileWritten, OneSaver, OneAtATime
  <1>4. OneAtATime'
    BY <1>3 DEF OneAtATime
  <1>5. TemporaryFile'
    BY <1>3 DEF TemporaryFile, Holds
  <1>6. InOrder'
    BY <1>2, <1>3 DEF OneSaver, InOrder, Busy
  <1>7. CleanMeansTaken' /\ CleanMeansSaved'
    BY <1>3 DEF OneSaver, CleanMeansTaken, CleanMeansSaved, Busy, At
  <1> QED
    BY <1>2, <1>4, <1>5, <1>6, <1>7 DEF OneSaver, FilesApart

LEMMA CreateKeeps ==
  ASSUME TypeOK, OneSaver, NEW s \in Savers, Create(s)
  PROVE  OneSaver'
  <1> DEFINE f == IF tmp = NoFile THEN NewFile ELSE tmp
  <1>1. f \in Files /\ f # NoFile /\ f # path /\ f # onDisk
    <2>1. CASE tmp = NoFile
      <3>1. NewFile \in Files /\ NewFile \notin InUse
        BY <2>1, NewFileIsNew DEF Create
      <3>2. NoFile \notin Files
        BY DEF NoFile, Files
      <3> QED
        BY <2>1, <3>1, <3>2 DEF InUse
    <2>2. CASE tmp # NoFile
      BY <2>2, TypeInParts DEF TypeParts, OneSaver, FilesApart
    <2> QED
      BY <2>1, <2>2
  <1>2. /\ At(s, "creating")
        /\ data' = [data EXCEPT ![f] = Empty] /\ tmp' = f
        /\ saver' = [saver EXCEPT ![s].at = "writing 1", ![s].file = f]
        /\ UNCHANGED <<phase, state, dirty, path, onDisk>>
    BY DEF Create, memoryVars
  <1> HIDE DEF f
  <1>3. \A g \in Files : g # tmp' => data'[g] = data[g]
    BY <1>1, <1>2, TypeInParts DEF TypeParts
  <1>4. /\ \A r \in Savers : r # s => saver'[r] = saver[r]
        /\ saver'[s].snap = saver[s].snap /\ saver'[s].at = "writing 1"
        /\ saver'[s].file = tmp'
    BY <1>2, TypeInParts DEF TypeParts, Saves
  <1> QED
    BY <1>1, <1>2, <1>3, <1>4, WritingKeeps DEF At, Busy

LEMMA WriteKeeps ==
  ASSUME TypeOK, OneSaver, NEW s \in Savers, NEW b \in Blocks, Write(s, b)
  PROVE  OneSaver'
  <1> DEFINE next == IF b = 1 THEN "writing 2" ELSE "syncing"
  <1>1. /\ saver[s].file = tmp /\ tmp \in Files /\ tmp # NoFile
        /\ saver[s].at \in {"writing 1", "writing 2"}
        /\ b = 1 \/ data[tmp].text[1] = saver[s].snap
    BY TypeInParts DEF TypeParts, OpenWhileWritten, Write, At, OneSaver, TemporaryFile
  <1>2. /\ data' = [data EXCEPT ![tmp].text[b] = saver[s].snap, ![tmp].synced = FALSE]
        /\ saver' = [saver EXCEPT ![s].at = next]
        /\ UNCHANGED <<phase, state, dirty, path, tmp, onDisk>>
    BY <1>1 DEF Write, Go, memoryVars
  <1>3. \A g \in Files : g # tmp => data'[g] = data[g]
    BY <1>1, <1>2, TypeInParts DEF TypeParts
  <1>4. data[tmp] \in Texts
    BY <1>1, TypeInParts DEF TypeParts
  <1>5. \A c \in Blocks : data'[tmp].text[c] = IF c = b THEN saver[s].snap ELSE data[tmp].text[c]
    <2>1. data'[tmp] = [[data[tmp] EXCEPT !.text[b] = saver[s].snap] EXCEPT !.synced = FALSE]
      BY <1>1, <1>2, TypeInParts DEF TypeParts
    <2>2. data'[tmp].text = [data[tmp].text EXCEPT ![b] = saver[s].snap]
      BY <2>1, <1>4 DEF Texts
    <2> QED
      BY <2>2, <1>4 DEF Texts
  <1>6. /\ \A r \in Savers : r # s => saver'[r] = saver[r]
        /\ saver'[s].snap = saver[s].snap /\ saver'[s].at = next
        /\ saver'[s].file = tmp
    BY <1>1, <1>2, TypeInParts, ZenonT(40) DEF TypeParts, Saves
  <1>7. /\ saver'[s].at = "writing 2" => data'[tmp].text[1] = saver[s].snap
        /\ saver'[s].at = "syncing" => \A c \in Blocks : data'[tmp].text[c] = saver[s].snap
    BY <1>1, <1>5, <1>6 DEF Blocks
  <1>8. tmp # path /\ tmp # onDisk
    BY <1>1 DEF OneSaver, FilesApart
  <1>9. saver[s].at # "idle" /\ Busy(s) /\ Busy(s)' /\ saver'[s].at # "renaming"
    BY <1>1, <1>6 DEF Busy
  <1>10. /\ tmp' = tmp /\ tmp' # NoFile /\ tmp' # path /\ tmp' # onDisk
         /\ \A g \in Files : g # tmp' => data'[g] = data[g]
    BY <1>1, <1>2, <1>3, <1>8
  <1>11. /\ saver'[s].at = "writing 2" => data'[tmp'].text[1] = saver[s].snap
         /\ saver'[s].at \in {"syncing", "renaming"} =>
              \A c \in Blocks : data'[tmp'].text[c] = saver[s].snap
    BY <1>7, <1>9, <1>10
  <1> HIDE <1>1, <1>3, <1>5, <1>7
  <1> QED
    BY <1>2, <1>6, <1>9, <1>10, <1>11, WritingKeeps

LEMMA SyncKeeps ==
  ASSUME TypeOK, OneSaver, NEW s \in Savers, Sync(s)
  PROVE  OneSaver'
  <1>1. /\ saver[s].file = tmp /\ tmp \in Files /\ tmp # NoFile
        /\ saver[s].at = "syncing" /\ \A c \in Blocks : data[tmp].text[c] = saver[s].snap
    BY TypeInParts DEF TypeParts, OpenWhileWritten, Sync, At, OneSaver, TemporaryFile, Holds
  <1>2. /\ data' = [data EXCEPT ![tmp].synced = TRUE]
        /\ saver' = [saver EXCEPT ![s].at = "renaming", ![s].file = NoFile]
        /\ UNCHANGED <<phase, state, dirty, path, tmp, onDisk>>
    BY <1>1 DEF Sync, memoryVars
  <1>3. /\ \A g \in Files : g # tmp => data'[g] = data[g]
        /\ data'[tmp].text = data[tmp].text /\ data'[tmp].synced
    BY <1>1, <1>2, TypeInParts DEF TypeParts, Texts
  <1>4. /\ \A r \in Savers : r # s => saver'[r] = saver[r]
        /\ saver'[s].snap = saver[s].snap /\ saver'[s].at = "renaming"
        /\ saver'[s].file = NoFile
    BY <1>2, TypeInParts DEF TypeParts, Saves
  <1>5. tmp # path /\ tmp # onDisk
    BY <1>1 DEF OneSaver, FilesApart
  <1>6. \A c \in Blocks : data'[tmp'].text[c] = saver[s].snap
    BY <1>1, <1>2, <1>3
  <1>7. saver[s].at # "idle" /\ Busy(s) /\ Busy(s)'
    BY <1>1, <1>4 DEF Busy
  <1>8. /\ tmp' # NoFile /\ tmp' # path /\ tmp' # onDisk
        /\ \A g \in Files : g # tmp' => data'[g] = data[g]
        /\ data'[tmp'].synced
    BY <1>1, <1>2, <1>3, <1>5
  <1>9. saver'[s].at # "writing 2"
    BY <1>4
  <1> HIDE <1>1, <1>3, <1>5
  <1> QED
    BY <1>2, <1>4, <1>6, <1>7, <1>8, <1>9, WritingKeeps

-----------------------------------------------------------------------------
(* What a rename puts in place of state.json is the snapshot, whole.         *)
LEMMA RenameStores ==
  ASSUME TypeOK, OneSaver, NEW s \in Savers, Rename(s)
  PROVE  /\ Content(path)' = saver[s].snap /\ StoredFile(path)'
         /\ Content(onDisk)' = Content(onDisk) /\ StoredFile(onDisk)'
  <1>1. /\ path' = tmp /\ tmp # NoFile /\ data' = data /\ onDisk' = onDisk
        /\ saver[s].at = "renaming"
    BY DEF Rename, At
  <1>2. /\ \A b \in Blocks : data[tmp].text[b] = saver[s].snap
        /\ data[tmp].synced /\ 1 <= saver[s].snap
    BY <1>1 DEF OneSaver, TemporaryFile, Holds, InOrder, Busy
  <1>3. saver[s].snap # 0 /\ data[tmp].text[1] = saver[s].snap
    BY <1>2 DEF Blocks
  <1>4. Content(path)' = saver[s].snap /\ StoredFile(path)'
    BY <1>1, <1>2, <1>3 DEF Content, Whole, StoredFile
  <1> QED
    BY <1>1, <1>4 DEF OneSaver, Content, Whole, StoredFile

LEMMA RenameKeeps ==
  ASSUME TypeOK, OneSaver, NEW s \in Savers, Rename(s)
  PROVE  OneSaver'
  <1>1. /\ tmp' = NoFile /\ UNCHANGED <<phase, state, dirty, data, onDisk>>
        /\ saver[s].at = "renaming"
        /\ saver' = [saver EXCEPT ![s] = Idle]
    BY DEF Rename, At, memoryVars
  <1>2. \A r \in Savers : saver'[r].at = "idle" /\ saver'[r].file = NoFile
    BY <1>1, TypeInParts DEF TypeParts, OpenWhileWritten, OneSaver, OneAtATime, Idle
  <1>3. saver[s].snap <= state /\ (~dirty /\ phase # "off" => saver[s].snap = state)
    BY <1>1 DEF OneSaver, InOrder, CleanMeansTaken, Busy
  <1>4. OneAtATime' /\ FilesApart' /\ TemporaryFile' /\ CleanMeansTaken'
    BY <1>1, <1>2 DEF OneAtATime, FilesApart, TemporaryFile, CleanMeansTaken, Busy
  <1>5. InOrder'
    BY <1>1, <1>2, <1>3, RenameStores DEF OneSaver, InOrder, Busy
  <1>6. CleanMeansSaved'
    BY <1>1, <1>3, RenameStores DEF CleanMeansSaved
  <1> QED
    BY <1>4, <1>5, <1>6, RenameStores DEF OneSaver

(* A start leaves the stored state in place, and either begins with it or    *)
(* has failed once more; what is moved aside is no state.                    *)
Loaded(content) ==
  \/ base' = content /\ failures' = failures
  \/ base' = 0 /\ failures' = failures + 1

LEMMA LoadReads ==
  ASSUME NEW file, NEW content, Load(file, content)
  PROVE  /\ Loaded(content)
         /\ path' = file \/ (path' = NoFile /\ content = 0)
  BY DEF Load, Loaded

LEMMA BootReads ==
  ASSUME TypeOK, OneSaver, Boot \/ Killed
  PROVE  /\ Content(path)' = Content(path) /\ StoredFile(path)'
         /\ Content(onDisk)' = Content(onDisk) /\ StoredFile(onDisk)'
         /\ Loaded(Content(path))
         /\ tmp' = tmp /\ onDisk' = onDisk /\ path' \in {path, NoFile}
  <1>1. /\ UNCHANGED <<data, tmp, onDisk>> /\ Load(path, Content(path))
    BY DEF Boot, Killed
  <1>2. Loaded(Content(path)) /\ (path' = path \/ (path' = NoFile /\ Content(path) = 0))
    BY <1>1, LoadReads
  <1>3. Content(path)' = Content(path) /\ StoredFile(path)'
    BY <1>1, <1>2 DEF OneSaver, Content, Whole, StoredFile
  <1>4. Content(onDisk)' = Content(onDisk) /\ StoredFile(onDisk)'
    BY <1>1 DEF OneSaver, Content, Whole, StoredFile
  <1> QED
    BY <1>1, <1>2, <1>3, <1>4

LEMMA PowerLossReads ==
  ASSUME TypeOK, OneSaver, PowerLoss
  PROVE  /\ Content(path)' = Content(onDisk) /\ StoredFile(path)'
         /\ Content(onDisk)' = Content(onDisk) /\ StoredFile(onDisk)'
         /\ Loaded(Content(onDisk))
         /\ tmp' = NoFile
  <1>1. /\ data' = [f \in Files |-> Survivor(f)] /\ tmp' = NoFile /\ onDisk' = onDisk
        /\ Load(onDisk, Survives(onDisk))
    BY DEF PowerLoss
  <1>2. Survives(onDisk) = Content(onDisk)
    BY DEF OneSaver, StoredFile, Content, Survives
  <1>3. /\ Loaded(Content(onDisk))
        /\ path' = onDisk \/ (path' = NoFile /\ Content(onDisk) = 0)
    BY <1>1, <1>2, LoadReads
  <1>4. onDisk # NoFile => data'[onDisk] = data[onDisk]
    BY <1>1, TypeInParts DEF TypeParts, OneSaver, StoredFile, Survivor
  <1>5. Content(onDisk)' = Content(onDisk) /\ StoredFile(onDisk)'
    BY <1>1, <1>4 DEF OneSaver, Content, Whole, StoredFile
  <1>6. Content(path)' = Content(onDisk) /\ StoredFile(path)'
    BY <1>1, <1>3, <1>4 DEF OneSaver, Content, Whole, StoredFile
  <1> QED
    BY <1>1, <1>3, <1>5, <1>6

(* A server that starts finds what was stored, or what was on the disk.      *)
LEMMA RestartReads ==
  ASSUME TypeOK, OneSaver, Boot \/ Killed \/ PowerLoss
  PROVE  /\ Content(path)' \in {Content(path), Content(onDisk)} /\ StoredFile(path)'
         /\ Content(onDisk)' = Content(onDisk) /\ StoredFile(onDisk)'
         /\ Loaded(Content(path)')
         /\ FilesApart'
  <1>1. CASE Boot \/ Killed
    <2>1. FilesApart'
      BY <1>1, BootReads DEF OneSaver, FilesApart
    <2> QED
      BY <1>1, <2>1, BootReads
  <1>2. CASE PowerLoss
    BY <1>2, PowerLossReads DEF FilesApart
  <1> QED
    BY <1>1, <1>2

LEMMA RestartKeeps ==
  ASSUME TypeOK, OneSaver, Boot \/ Killed \/ PowerLoss
  PROVE  OneSaver'
  <1>1. saver' = [s \in Savers |-> Idle] /\ dirty' = TRUE /\ state' = state + 1
    BY DEF Boot, Killed, PowerLoss, Load
  <1>2. \A s \in Savers : saver'[s].at = "idle" /\ saver'[s].file = NoFile
    BY <1>1 DEF Idle
  <1>3. OneAtATime' /\ TemporaryFile' /\ CleanMeansTaken' /\ CleanMeansSaved'
    BY <1>1, <1>2 DEF OneAtATime, TemporaryFile, CleanMeansTaken, CleanMeansSaved
  <1>4. state \in Nat /\ Content(path) \in Nat /\ Content(onDisk) \in Nat
    BY TypeInParts, ContentTyped, NumbersTyped DEF TypeParts
  <1>5. /\ 1 <= state /\ Content(path) <= state /\ Content(onDisk) <= state
        /\ Content(path)' \in {Content(path), Content(onDisk)}
        /\ Content(onDisk)' = Content(onDisk)
    BY RestartReads DEF OneSaver, InOrder
  <1>6. InOrder'
    BY <1>1, <1>2, <1>4, <1>5 DEF InOrder, Busy
  <1> QED
    BY <1>3, <1>6, RestartReads DEF OneSaver

LEMMA FlushKeeps == ASSUME TypeOK, OneSaver, Flush PROVE OneSaver'
  <1>1. onDisk' = path /\ UNCHANGED <<phase, state, dirty, saver, data, path, tmp>>
    BY DEF Flush, memoryVars
  <1>2. /\ Content(path)' = Content(path) /\ Content(onDisk)' = Content(path)
        /\ StoredFile(path)' /\ StoredFile(onDisk)' /\ FilesApart'
    BY <1>1 DEF OneSaver, Content, Whole, StoredFile, FilesApart
  <1>3. OneAtATime' /\ TemporaryFile' /\ InOrder'
    BY <1>1, <1>2 DEF OneSaver, OneAtATime, TemporaryFile, Holds, InOrder, Busy
  <1>4. CleanMeansTaken' /\ CleanMeansSaved'
    BY <1>1, <1>2 DEF OneSaver, CleanMeansTaken, CleanMeansSaved, Busy, At
  <1> QED
    BY <1>2, <1>3, <1>4 DEF OneSaver

-----------------------------------------------------------------------------
LEMMA StepKeeps ==
  ASSUME TypeOK, OneSaver, [Next]_vars, ~Overlap
  PROVE  OneSaver'
  <1>1. CASE Change
    BY <1>1, ChangeKeeps
  <1>2. CASE Shutdown
    BY <1>2, TakeKeeps DEF Shutdown, Savers
  <1>3. CASE Exit
    BY <1>3, ExitKeeps
  <1>4. CASE Boot \/ Killed \/ PowerLoss
    BY <1>4, RestartKeeps
  <1>5. CASE Flush
    BY <1>5, FlushKeeps
  <1>6. ASSUME NEW force \in BOOLEAN, Save(force)
        PROVE  OneSaver'
    BY <1>6, TakeKeeps DEF Save, Savers
  <1>7. ASSUME NEW s \in Savers, Works(s)
        PROVE  OneSaver'
    BY <1>7, CreateKeeps, WriteKeeps, SyncKeeps, RenameKeeps, FailKeeps DEF Works, Blocks
  <1>8. CASE UNCHANGED vars
    <2>1. UNCHANGED <<phase, state, base, dirty, saver, data, path, tmp, onDisk>>
      BY <1>8 DEF vars, memoryVars, diskVars
    <2>2. OneAtATime' /\ TemporaryFile' /\ InOrder'
      BY <2>1, DiskKept DEF OneSaver, OneAtATime, TemporaryFile, Holds, InOrder, Busy
    <2> QED
      BY <2>1, <2>2, DiskKept DEF OneSaver, CleanMeansTaken, CleanMeansSaved, Busy, At
  <1> QED
    BY <1>1, <1>2, <1>3, <1>4, <1>5, <1>6, <1>7, <1>8 DEF Next

LEMMA AlwaysOneSaver == ASSUME ~Overlap PROVE Spec => []OneSaver
  <1>1. TypeOK /\ OneSaver /\ [Next]_vars => OneSaver'
    BY StepKeeps
  <1> QED
    BY <1>1, OneSaverInit, TypeCorrect, PTL DEF Spec

(* If saves do not overlap, a clean flag is the truth: when no save is under *)
(* way state.json has what the memory has (App::save, backend/mod.rs).       *)
THEOREM CleanIsSaved == ASSUME ~Overlap PROVE Spec => []CleanMeansSaved
  <1>1. OneSaver => CleanMeansSaved
    BY DEF OneSaver
  <1> QED
    BY <1>1, AlwaysOneSaver, PTL

(* If saves do not overlap, state.json is at no moment half-written: it is   *)
(* the save at shutdown beside a background save that can make it so         *)
(* (Store::save, store.rs; main.rs).                                         *)
THEOREM FileIsWhole == ASSUME ~Overlap PROVE Spec => []FileWhole
  <1>1. OneSaver => FileWhole
    BY DEF OneSaver, FileWhole, StoredFile
  <1> QED
    BY <1>1, AlwaysOneSaver, PTL

-----------------------------------------------------------------------------
(* Each step of Store is one of DurableState, or leaves what that has alone. *)
LEMMA StepImplements ==
  ASSUME TypeOK, OneSaver, [Next]_vars
  PROVE  Durable!Next \/ UNCHANGED <<state, base, Content(path), Content(onDisk), failures>>
  <1>1. CASE Change
    <2>1. state' = state + 1 /\ UNCHANGED <<base, data, path, tmp, onDisk, failures>>
      BY <1>1 DEF Change, diskVars
    <2> QED
      BY <2>1, DiskKept DEF Durable!Next, Durable!Change
  <1>2. CASE Shutdown \/ Exit \/ \E force \in BOOLEAN : Save(force)
    <2>1. UNCHANGED <<state, base, data, path, tmp, onDisk, failures>>
      BY <1>2 DEF Shutdown, Exit, Save, Take, diskVars
    <2> QED
      BY <2>1, DiskKept
  <1>3. CASE Boot \/ Killed \/ PowerLoss
    <2>1. state' = state + 1
      BY <1>3 DEF Boot, Killed, PowerLoss, Load
    <2>2. Durable!ComesUp
      BY <1>3, <2>1, RestartReads DEF Durable!ComesUp
    <2>3. Durable!Restart \/ Durable!Unread
      BY <1>3, <2>2, RestartReads DEF Durable!Restart, Durable!Unread, Loaded
    <2> QED
      BY <2>3 DEF Durable!Next
  <1>4. CASE Flush
    <2>1. onDisk' = path /\ UNCHANGED <<state, base, data, path, failures>>
      BY <1>4 DEF Flush, memoryVars
    <2>2. Content(path)' = Content(path) /\ Content(onDisk)' = Content(path)
      BY <2>1 DEF Content, Whole
    <2> QED
      BY <2>1, <2>2 DEF Durable!Next, Durable!Settle
  <1>5. ASSUME NEW s \in Savers, Rename(s)
        PROVE  Durable!Next \/ UNCHANGED <<state, base, Content(path), Content(onDisk), failures>>
    <2>1. UNCHANGED <<state, base, failures>> /\ saver[s].at = "renaming"
      BY <1>5 DEF Rename, memoryVars, At
    <2>2. Content(path)' = saver[s].snap /\ Content(onDisk)' = Content(onDisk)
      BY <1>5, RenameStores
    <2>3. Content(path) <= saver[s].snap /\ saver[s].snap <= state
      BY <2>1 DEF OneSaver, InOrder, Busy
    <2>4. state \in Nat /\ Content(path) \in Nat /\ saver[s].snap \in Nat
      BY TypeInParts, ContentTyped, NumbersTyped DEF TypeParts, Saves
    <2>5. Content(path)' = Content(path) \/ Content(path)' \in Content(path) + 1..state
      BY <2>2, <2>3, <2>4
    <2> QED
      BY <2>1, <2>2, <2>5 DEF Durable!Next, Durable!Persist
  <1>6. ASSUME NEW s \in Savers, Create(s) \/ Write(s, 1) \/ Write(s, 2) \/ Sync(s)
        PROVE  UNCHANGED <<state, base, Content(path), Content(onDisk), failures>>
    <2>1. /\ UNCHANGED <<state, base, path, onDisk, failures>>
          /\ \E f \in Files : /\ f # path /\ f # onDisk
                              /\ \A g \in Files : g # f => data'[g] = data[g]
      <3>1. CASE Create(s)
        <4> DEFINE f == IF tmp = NoFile THEN NewFile ELSE tmp
        <4>1. f \in Files /\ f # path /\ f # onDisk
          BY <3>1, NewFileIsNew, TypeInParts
             DEF TypeParts, Create, InUse, OneSaver, FilesApart
        <4>2. data' = [data EXCEPT ![f] = Empty] /\ UNCHANGED <<state, base, path, onDisk, failures>>
          BY <3>1 DEF Create, memoryVars
        <4> HIDE DEF f
        <4> QED
          BY <4>1, <4>2, TypeInParts DEF TypeParts
      <3>2. ASSUME NEW b \in Blocks, Write(s, b)
            PROVE  /\ UNCHANGED <<state, base, path, onDisk, failures>>
                   /\ \E f \in Files : /\ f # path /\ f # onDisk
                                       /\ \A g \in Files : g # f => data'[g] = data[g]
        <4>1. saver[s].file = tmp /\ tmp \in Files /\ tmp # path /\ tmp # onDisk
          BY <3>2, TypeInParts
             DEF TypeParts, OpenWhileWritten, Write, At, OneSaver, TemporaryFile, FilesApart
        <4> QED
          BY <3>2, <4>1, TypeInParts DEF TypeParts, Write, memoryVars
      <3>3. CASE Sync(s)
        <4>1. saver[s].file = tmp /\ tmp \in Files /\ tmp # path /\ tmp # onDisk
          BY <3>3, TypeInParts
             DEF TypeParts, OpenWhileWritten, Sync, At, OneSaver, TemporaryFile, FilesApart
        <4> QED
          BY <3>3, <4>1, TypeInParts DEF TypeParts, Sync, memoryVars
      <3> QED
        BY <1>6, <3>1, <3>2, <3>3 DEF Blocks
    <2>2. /\ path # NoFile => data'[path] = data[path]
          /\ onDisk # NoFile => data'[onDisk] = data[onDisk]
      BY <2>1, TypeInParts DEF TypeParts
    <2> QED
      BY <2>1, <2>2 DEF Content, Whole
  <1>7. ASSUME NEW s \in Savers, Fail(s) \/ GiveUp(s)
        PROVE  Durable!Next \/ UNCHANGED <<state, base, Content(path), Content(onDisk), failures>>
    <2>1. /\ UNCHANGED <<state, base, data, path, tmp, onDisk>>
          /\ failures' = failures + 1 \/ failures' = failures
      BY <1>7 DEF Fail, GiveUp, memoryVars, diskVars
    <2>2. UNCHANGED <<Content(path), Content(onDisk)>>
      BY <2>1, DiskKept
    <2> QED
      BY <2>1, <2>2 DEF Durable!Next, Durable!Fault
  <1>8. CASE UNCHANGED vars
    BY <1>8, DiskKept DEF vars, memoryVars, diskVars
  <1> QED
    BY <1>1, <1>2, <1>3, <1>4, <1>5, <1>6, <1>7, <1>8 DEF Next, Works

(* If saves do not overlap, the steps of a save and the restarts are those   *)
(* of DurableState: state.json is replaced in one step, by a newer state     *)
(* that the memory held, and a restart begins with a stored one, or if it    *)
(* could not be read (Store::load, store.rs) with nothing, and leaves what   *)
(* is stored in place.                                                       *)
THEOREM StoreIsDurable == ASSUME ~Overlap PROVE Spec => ImplementsDurable
  <1>1. Init => Durable!Init
    BY DEF Init, Durable!Init, Content
  <1>2. TypeOK /\ OneSaver /\ [Next]_vars
          => [Durable!Next]_<<state, base, Content(path), Content(onDisk), failures>>
    BY StepImplements
  <1> QED
    BY <1>1, <1>2, TypeCorrect, AlwaysOneSaver, PTL DEF Spec, ImplementsDurable, Durable!Spec

=============================================================================
