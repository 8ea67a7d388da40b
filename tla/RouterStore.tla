---------------------------- MODULE RouterStore -----------------------------
(***************************************************************************)
(* The chat router of a backend: the bindings in memory, the coalescing    *)
(* save loop, the atomic write of the state file with its retries, the     *)
(* final save of Close, and what a kill or a power loss leaves for the     *)
(* next start.  A saved file is represented by the place, in the log of    *)
(* all the maps the router has held, of the map it contains; 0 is no file. *)
(***************************************************************************)
EXTENDS Naturals, Sequences, FiniteSets, FiniteSetsExt

CONSTANTS ChatKeys, Values, None,
          MaxOps,        \* bound on the changes of the map
          MaxFaults,     \* bound on failing calls of the file system
          MaxCrashes     \* bound on crashes

SaveMaxRetries == 3

Maps == [ChatKeys -> Values \cup {None}]
EmptyMap == [c \in ChatKeys |-> None]
ASSUME NoneAssumption == None \notin Values

VARIABLES
  bindings,   \* the map in memory
  log,        \* history: every map the router has held, less what a crash undid
  life,       \* the process: "migrate", "load", "up", "closing", "final", "closed", "failed"
  saveCh,     \* the one-place channel that signals the loop
  saver,      \* the save loop: "idle", "saving", "exited"
  write,      \* the atomic write under way: its step, the map written, the attempt
  tmp, file,  \* the temporary and the state file: the map in it and the state of its data
  entries,    \* the files that a power loss may leave under the path
  gaveUp,     \* history: the save of the newest map was given up
  closeAt,    \* history: the length of log when Close was called
  faults, crashes

storeVars == <<bindings, log, life, saveCh, saver, write, tmp, file, entries,
               gaveUp, closeAt, faults, crashes>>

NoFile == [ver |-> 0, data |-> "synced"]
NoWrite == [pc |-> "none", ver |-> 0, try |-> 0]

(* Without a file the router starts with the first map, the empty one.     *)
Version(f) == IF f.ver = 0 THEN 1 ELSE f.ver

StoreInit ==
  /\ bindings = EmptyMap /\ log = <<EmptyMap>> /\ life = "migrate"
  /\ saveCh = 0 /\ saver = "idle" /\ write = NoWrite
  /\ tmp = NoFile /\ file = NoFile /\ entries = {NoFile}
  /\ gaveUp = FALSE /\ closeAt = 0 /\ faults = 0 /\ crashes = 0

-----------------------------------------------------------------------------
(* The changes of the map.  The handler is closed before the router, but a *)
(* goroutine it does not wait for may change the map while Close waits for *)
(* the loop.                                                               *)

(* Fault: the signal is dropped when the loop is busy.                     *)
saveAsyncUnbuffered == saveCh' = IF saver = "idle" THEN 1 ELSE saveCh

(* saveAsync: a signal that is already waiting is enough.                  *)
saveAsync == saveCh' = 1

Put(b) ==
  /\ life \in {"up", "closing"} /\ Len(log) <= MaxOps
  /\ bindings' = b /\ log' = Append(log, b)
  /\ saveAsync
  /\ gaveUp' = FALSE
  /\ UNCHANGED <<life, saver, write, tmp, file, entries, closeAt, faults, crashes>>

Bind(c, v) == Put([bindings EXCEPT ![c] = v])
Unbind(c) == Put([bindings EXCEPT ![c] = None])

(* The Set accessors: nothing for an absent or an unchanged binding.       *)
mutate(c, v) == bindings[c] \notin {None, v} /\ Put([bindings EXCEPT ![c] = v])

-----------------------------------------------------------------------------
(* The save loop and the save.  saveMu is never contended: Close waits for *)
(* the end of the loop before its own save.                                *)

TakeSignal ==
  /\ life \in {"up", "closing"} /\ saver = "idle" /\ saveCh = 1
  /\ saveCh' = 0 /\ saver' = "saving"
  /\ write' = [pc |-> "snapshot", ver |-> 0, try |-> 1]
  /\ UNCHANGED <<bindings, log, life, tmp, file, entries, gaveUp, closeAt, faults, crashes>>

Snapshot ==
  /\ write.pc = "snapshot"
  /\ write' = [write EXCEPT !.pc = "open", !.ver = Len(log)]
  /\ UNCHANGED <<bindings, log, life, saveCh, saver, tmp, file, entries, gaveUp,
                 closeAt, faults, crashes>>

(* After a write the loop waits for the next signal, Close returns, and a  *)
(* start goes on to load.                                                  *)
WriteEnds(given) ==
  /\ write' = NoWrite
  /\ gaveUp' = (gaveUp \/ given)
  /\ saver' = IF saver = "saving" THEN "idle" ELSE saver
  /\ life' = CASE life = "final" -> "closed" [] life = "migrate" -> "load" [] OTHER -> life

(* The steps of the atomic write up to the rename: the file that step p    *)
(* leaves under the temporary name, and the step after it.                 *)
TmpStep(p, data, next) ==
  /\ write.pc = p
  /\ tmp' = [ver |-> write.ver, data |-> data]
  /\ write' = [write EXCEPT !.pc = next]
  /\ UNCHANGED <<bindings, log, life, saveCh, saver, file, entries, gaveUp, closeAt,
                 faults, crashes>>

OpenTmp == TmpStep("open", "torn", "write")

(* Fault: the data is not forced out before the rename.                    *)
WriteTmpUnsynced == TmpStep("write", "cached", "rename")

WriteTmp == TmpStep("write", "cached", "sync")
SyncTmp == TmpStep("sync", "synced", "rename")

Rename ==
  /\ write.pc = "rename"
  /\ file' = tmp /\ entries' = entries \cup {tmp} /\ tmp' = NoFile
  /\ write' = [write EXCEPT !.pc = "dirsync"]
  /\ UNCHANGED <<bindings, log, life, saveCh, saver, gaveUp, closeAt, faults, crashes>>

(* The directory is fsynced; when that fails the write still succeeds.     *)
DirSync ==
  /\ write.pc = "dirsync"
  /\ \/ entries' = {file} /\ faults' = faults
     \/ faults < MaxFaults /\ entries' = entries /\ faults' = faults + 1
  /\ WriteEnds(FALSE)
  /\ UNCHANGED <<bindings, log, saveCh, tmp, file, closeAt, crashes>>

(* Fault: the clean-up removes the state file instead of the temporary one. *)
WriteFailsRemovingFile ==
  /\ write.pc \in {"open", "write", "sync", "rename"} /\ faults < MaxFaults
  /\ faults' = faults + 1
  /\ file' = NoFile /\ entries' = entries \cup {NoFile}
  /\ write' = [write EXCEPT !.pc = "open", !.try = @ + 1]
  /\ UNCHANGED <<bindings, log, life, saveCh, saver, tmp, gaveUp, closeAt, crashes>>

(* A step up to the rename fails: the temporary file is removed.  A save   *)
(* tries three times in all, the migration once.                           *)
WriteFails ==
  /\ write.pc \in {"open", "write", "sync", "rename"} /\ faults < MaxFaults
  /\ faults' = faults + 1 /\ tmp' = NoFile
  /\ \/ /\ write.try < SaveMaxRetries /\ life # "migrate"
        /\ write' = [write EXCEPT !.pc = "open", !.try = @ + 1]
        /\ UNCHANGED <<gaveUp, saver, life>>
     \/ /\ write.try = SaveMaxRetries \/ life = "migrate"
        /\ WriteEnds(TRUE)
  /\ UNCHANGED <<bindings, log, saveCh, file, entries, closeAt, crashes>>

-----------------------------------------------------------------------------
(* Close.                                                                  *)

CloseRouter ==
  /\ life = "up"
  /\ life' = "closing" /\ closeAt' = Len(log)
  /\ UNCHANGED <<bindings, log, saveCh, saver, write, tmp, file, entries, gaveUp, faults, crashes>>

(* With a signal and the stop both ready the loop may take either.         *)
LoopStops ==
  /\ life = "closing" /\ saver = "idle"
  /\ saver' = "exited"
  /\ UNCHANGED <<bindings, log, life, saveCh, write, tmp, file, entries, gaveUp,
                 closeAt, faults, crashes>>

FinalSave ==
  /\ life = "closing" /\ saver = "exited"
  /\ life' = "final"
  /\ write' = [pc |-> "snapshot", ver |-> 0, try |-> 1]
  /\ UNCHANGED <<bindings, log, saveCh, saver, tmp, file, entries, gaveUp, closeAt, faults, crashes>>

-----------------------------------------------------------------------------
(* Crashes and the next start.                                             *)

(* The next process finds the file f.                                      *)
Restart(f) ==
  /\ life' = "migrate" /\ bindings' = EmptyMap
  /\ log' = SubSeq(log, 1, Version(f))
  /\ saveCh' = 0 /\ saver' = "idle" /\ write' = NoWrite
  /\ gaveUp' = FALSE /\ closeAt' = 0

(* A kill leaves the files as the system calls left them.                  *)
Kill ==
  /\ life # "failed" /\ crashes < MaxCrashes
  /\ crashes' = crashes + 1
  /\ Restart(file)
  /\ UNCHANGED <<tmp, file, entries, faults>>

(* A power loss leaves any of the files renamed since the directory was    *)
(* last fsynced, and tears what was not fsynced itself.                    *)
Lost(f) == [f EXCEPT !.data = IF @ = "cached" THEN "torn" ELSE @]

PowerLoss ==
  /\ life # "failed" /\ crashes < MaxCrashes
  /\ crashes' = crashes + 1
  /\ \E f \in entries : file' = Lost(f) /\ entries' = {Lost(f)} /\ Restart(f)
  /\ tmp' = Lost(tmp) /\ faults' = faults

(* The service manager starts the process again after an orderly end.      *)
StartAgain ==
  /\ life = "closed"
  /\ Restart(file)
  /\ UNCHANGED <<tmp, file, entries, faults, crashes>>

(* MigrateLegacyBindings: the old shared file, if there is one, is written *)
(* to the new path when nothing is there; its map is one more change.      *)
Import(ok) ==
  /\ ok /\ Len(log) <= MaxOps
  /\ \E b \in Maps \ {EmptyMap} : log' = Append(log, b)
  /\ write' = [pc |-> "open", ver |-> Len(log) + 1, try |-> 1]
  /\ life' = life

Migrate ==
  /\ life = "migrate" /\ write.pc = "none"
  /\ \/ life' = "load" /\ UNCHANGED <<log, write>>
     \/ Import(file.ver = 0)
  /\ UNCHANGED <<bindings, saveCh, saver, tmp, file, entries, gaveUp, closeAt, faults, crashes>>

(* New: RemoveStaleTmp, then load.  A file that does not parse is a hard   *)
(* error; a migration that failed leaves no trace.                         *)
Load ==
  /\ life = "load"
  /\ tmp' = NoFile
  /\ IF file.data = "torn"
     THEN life' = "failed" /\ UNCHANGED <<bindings, log, gaveUp>>
     ELSE /\ life' = "up" /\ gaveUp' = FALSE
          /\ bindings' = log[Version(file)] /\ log' = SubSeq(log, 1, Version(file))
  /\ UNCHANGED <<saveCh, saver, write, file, entries, closeAt, faults, crashes>>

-----------------------------------------------------------------------------
WriteStep == \/ Snapshot \/ OpenTmp \/ WriteTmp \/ SyncTmp \/ Rename \/ DirSync \/ WriteFails

StoreNext ==
  \/ \E c \in ChatKeys, v \in Values : Bind(c, v) \/ mutate(c, v)
  \/ \E c \in ChatKeys : Unbind(c)
  \/ TakeSignal \/ WriteStep
  \/ CloseRouter \/ LoopStops \/ FinalSave
  \/ Kill \/ PowerLoss \/ StartAgain \/ Migrate \/ Load

StoreSpec == StoreInit /\ [][StoreNext]_storeVars

-----------------------------------------------------------------------------

(* A start never fails on the router's own file: no crash, at whatever     *)
(* step of the write, leaves a truncated state file.                       *)
NeverTorn == file.data # "torn" /\ life # "failed"

(* The coalescing loses no change: when the loop waits, no signal is left  *)
(* and no save was given up, the state file holds the newest map.          *)
NoLostSignal ==
  life = "up" /\ saver = "idle" /\ saveCh = 0 /\ ~gaveUp => Version(file) = Len(log)

(* Close persists every change made before it was called, also the one     *)
(* whose signal the loop did not take before it saw the stop.              *)
CloseSaves ==
  life = "closed" /\ ~gaveUp => Version(file) >= closeAt

(* No change is lost while the disk works.                                 *)
NoChangeLost == NoLostSignal /\ CloseSaves

(* The router implements the durable map: what survives any crash is the   *)
(* oldest map a power loss may leave.                                      *)
Durable == INSTANCE DurableMap WITH saved <- Min({Version(f) : f \in entries})
ImplementsDurableMap == Durable!AbstractSpec
=============================================================================
