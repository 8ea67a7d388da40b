----------------------------- MODULE RouterProofs -----------------------------
(*************************************************************************)
(* Proofs about the way between a chat and its backend: the chat         *)
(* router with its file, the routes of layer 1, and the receive loop     *)
(* of a backend with the event streams it dials.                         *)
(*************************************************************************)
EXTENDS RouterStore, Layer1Router, Reconnect, SequenceTheorems, WellFoundedInduction, TLAPS

-----------------------------------------------------------------------------
(*************************************************************************)
(* RouterStore, for any map, any number of changes, failing calls and    *)
(* crashes: no crash tears the file, no change is lost while the disk    *)
(* works, and the router implements the durable map.                     *)
(*************************************************************************)

FileState == [ver: Nat, data: {"torn", "cached", "synced"}]
Steps == {"none", "snapshot", "open", "write", "sync", "rename", "dirsync"}
WriteState == [pc: Steps, ver: Nat, try: Nat]
Phases == {"migrate", "load", "up", "closing", "final", "closed", "failed"}

StoreTypes ==
  /\ bindings \in Maps
  /\ log \in Seq(Maps) /\ Len(log) >= 1
  /\ life \in Phases
  /\ saveCh \in {0, 1}
  /\ saver \in {"idle", "saving", "exited"}
  /\ write \in WriteState
  /\ tmp \in FileState /\ file \in FileState
  /\ gaveUp \in BOOLEAN
  /\ closeAt \in Nat

(* Whatever a power loss may leave is whole, and no newer than the file.   *)
FilesWhole ==
  /\ file \in entries
  /\ \A f \in entries : /\ f \in FileState /\ f.data = "synced"
                        /\ f.ver <= Len(log) /\ Version(f) <= Version(file)

(* The map being written is no older than the file, and what is renamed    *)
(* was forced out before.                                                  *)
WriteForward ==
  /\ write.pc \notin {"none", "snapshot"} =>
       1 <= write.ver /\ write.ver <= Len(log) /\ Version(file) <= write.ver
  /\ write.pc = "rename" => tmp = [ver |-> write.ver, data |-> "synced"]
  /\ write.pc = "dirsync" => file.ver = write.ver

(* Who writes when: the migration, the loop, or Close after the loop.      *)
OneWriter ==
  /\ life \in {"migrate", "load"} => saver = "idle" /\ saveCh = 0
  /\ life \in {"load", "closed"} => write.pc = "none"
  /\ life \in {"up", "closing"} => (saver = "saving" <=> write.pc # "none")
  /\ life = "up" => saver # "exited"
  /\ life = "final" => saver = "exited"
  /\ saver = "saving" => life \in {"up", "closing"}
  /\ life # "failed"

(* A signal is waiting, or the save under way or the file has the newest   *)
(* map; Close's own save has everything that Close found.                  *)
ChangesKept ==
  /\ life \in {"up", "closing"} /\ saveCh = 0 /\ ~gaveUp =>
       IF saver = "saving" THEN write.pc = "snapshot" \/ write.ver = Len(log)
                           ELSE Version(file) = Len(log)
  /\ life \in {"closing", "final"} => closeAt <= Len(log)
  /\ life = "final" => write.pc = "snapshot" \/ write.ver >= closeAt
  /\ CloseSaves

StoreInv == StoreTypes /\ FilesWhole /\ WriteForward /\ OneWriter /\ ChangesKept

-----------------------------------------------------------------------------
(* The least of a set of numbers, and prefixes of the log.                 *)

(* The least number of a set is the one below all others.                  *)
LEMMA MinIs ==
  ASSUME NEW S \in SUBSET Nat, NEW m \in S, \A x \in S : m <= x
  PROVE  Min(S) = m
<1>1. Min(S) \in S /\ \A x \in S : Min(S) <= x
  BY DEF Min
<1>2. /\ Min(S) \in Nat /\ m \in Nat
      /\ Min(S) <= m /\ m <= Min(S)
  BY <1>1
<1> QED
  BY <1>2

(* A set of numbers that is not empty has a least one.                     *)
LEMMA MinExists ==
  ASSUME NEW S \in SUBSET Nat, S # {}
  PROVE  Min(S) \in S /\ \A x \in S : Min(S) <= x
<1> DEFINE R == OpToRel(<, Nat)
<1>1. IsWellFoundedOn(R, Nat)
  BY NatLessThanWellFounded
<1>2. \A x, y \in Nat : x < y => <<x, y>> \in R
  BY DEF OpToRel
<1> HIDE DEF R
<1>3. PICK m \in S : \A x \in S : ~ (<<x, m>> \in R)
  BY <1>1, WFMin
<1>4. ASSUME NEW x \in S PROVE m <= x
  <2>1. x \in Nat /\ m \in Nat /\ ~ (x < m)
    BY <1>2, <1>3
  <2> QED
    BY <2>1
<1> QED
  BY <1>4, MinIs

(* A prefix of the log.                                                    *)
LEMMA Prefix ==
  ASSUME NEW s \in Seq(Maps), NEW k \in 1 .. Len(s)
  PROVE  SubSeq(s, 1, k) \in Seq(Maps) /\ Len(SubSeq(s, 1, k)) = k
OBVIOUS

-----------------------------------------------------------------------------
(* The invariant, step by step.                                            *)

(* A restart forgets what the file does not have.                          *)
LEMMA Restarted ==
  ASSUME StoreTypes, FilesWhole, NEW f \in entries, Restart(f)
  PROVE  /\ Version(f) \in 1 .. Len(log) /\ Len(log') = Version(f) /\ log' \in Seq(Maps)
         /\ life' = "migrate" /\ bindings' = EmptyMap /\ bindings' \in Maps
         /\ saveCh' = 0 /\ saver' = "idle" /\ write' = NoWrite /\ gaveUp' = FALSE
         /\ closeAt' = 0
<1>1. Version(f) \in 1 .. Len(log)
  BY DEF FilesWhole, FileState, Version, StoreTypes
<1> QED
  BY <1>1, Prefix DEF Restart, StoreTypes, Maps, EmptyMap

(* The types: the write ...                                                *)
LEMMA WriteTyped ==
  ASSUME StoreTypes, [StoreNext]_storeVars
  PROVE  write' \in WriteState
<1>0. write \in WriteState /\ NoWrite \in WriteState /\ Len(log) + 1 \in Nat /\ Len(log) \in Nat
  BY DEF StoreTypes, NoWrite, WriteState, Steps
<1>1. /\ [pc |-> "snapshot", ver |-> 0, try |-> 1] \in WriteState
      /\ \A n \in Nat : [pc |-> "open", ver |-> n, try |-> 1] \in WriteState
  BY DEF WriteState, Steps
<1>2. \A pc \in Steps : [write EXCEPT !.pc = pc] \in WriteState
  BY <1>0 DEF WriteState
<1>3. \A n \in Nat : [write EXCEPT !.pc = "open", !.ver = n] \in WriteState
  BY <1>0 DEF WriteState, Steps
<1>4. [write EXCEPT !.pc = "open", !.try = @ + 1] \in WriteState
  <2>1. write.try + 1 \in Nat
    BY <1>0 DEF WriteState
  <2> QED
    BY <1>0, <2>1 DEF WriteState, Steps
<1>5. CASE OpenTmp \/ WriteTmp \/ SyncTmp \/ Rename
  BY <1>2, <1>5 DEF OpenTmp, WriteTmp, SyncTmp, TmpStep, Rename, Steps
<1>6. CASE Snapshot
  BY <1>0, <1>3, <1>6 DEF Snapshot
<1>7. CASE DirSync \/ WriteFails
  BY <1>0, <1>4, <1>7 DEF DirSync, WriteFails, WriteEnds
<1>8. CASE Migrate \/ Kill \/ PowerLoss \/ StartAgain
  BY <1>0, <1>1, <1>8 DEF Migrate, Import, Kill, PowerLoss, StartAgain, Restart
<1>9. CASE TakeSignal \/ FinalSave
  BY <1>1, <1>9 DEF TakeSignal, FinalSave
<1>10. CASE write' = write
  BY <1>0, <1>10
<1> QED
  BY <1>5, <1>6, <1>7, <1>8, <1>9, <1>10 DEF StoreNext, WriteStep, Bind, Unbind, mutate, Put,
     CloseRouter, LoopStops, Load, storeVars

(* ... the files ...                                                       *)
LEMMA FilesTyped ==
  ASSUME StoreTypes, FilesWhole, [StoreNext]_storeVars
  PROVE  tmp' \in FileState /\ file' \in FileState
<1>0. tmp \in FileState /\ file \in FileState /\ NoFile \in FileState /\ write.ver \in Nat
  BY DEF StoreTypes, NoFile, FileState, WriteState
<1>1. \A data \in {"torn", "cached", "synced"} : [ver |-> write.ver, data |-> data] \in FileState
  BY <1>0 DEF FileState
<1>2. \A f \in FileState : Lost(f) \in FileState
  BY DEF Lost, FileState
<1>3. CASE OpenTmp \/ WriteTmp \/ SyncTmp
  BY <1>0, <1>1, <1>3 DEF OpenTmp, WriteTmp, SyncTmp, TmpStep
<1>4. CASE PowerLoss
  BY <1>0, <1>2, <1>4 DEF PowerLoss, FilesWhole
<1>5. CASE tmp' \in {tmp, NoFile} /\ file' \in {file, tmp}
  BY <1>0, <1>5
<1> QED
  BY <1>3, <1>4, <1>5 DEF StoreNext, WriteStep, Bind, Unbind, mutate, Put, TakeSignal,
     Snapshot, Rename, DirSync, WriteFails, CloseRouter, LoopStops, FinalSave, Kill, StartAgain,
     Migrate, Load, storeVars

(* ... the map and the log ...                                             *)
LEMMA MapsTyped ==
  ASSUME StoreTypes, FilesWhole, [StoreNext]_storeVars
  PROVE  bindings' \in Maps /\ log' \in Seq(Maps) /\ Len(log') >= 1
<1>0. bindings \in Maps /\ log \in Seq(Maps) /\ Len(log) >= 1 /\ file \in entries
      /\ Version(file) \in 1 .. Len(log)
  BY DEF StoreTypes, FilesWhole, FileState, Version
<1>1. \A b \in Maps : Append(log, b) \in Seq(Maps) /\ Len(Append(log, b)) >= 1
  BY <1>0
<1>2. ASSUME NEW c \in ChatKeys, NEW v \in Values \cup {None}, Put([bindings EXCEPT ![c] = v])
      PROVE  bindings' \in Maps /\ log' \in Seq(Maps) /\ Len(log') >= 1
  <2>1. [bindings EXCEPT ![c] = v] \in Maps
    BY <1>0 DEF Maps
  <2> QED
    BY <1>1, <1>2, <2>1 DEF Put
<1>3. CASE Migrate
  BY <1>0, <1>1, <1>3 DEF Migrate, Import
<1>4. CASE Load
  <2>1. log[Version(file)] \in Maps
    BY <1>0
  <2>2. SubSeq(log, 1, Version(file)) \in Seq(Maps) /\ Len(SubSeq(log, 1, Version(file))) >= 1
    BY <1>0, Prefix
  <2>3. /\ bindings' \in {bindings, log[Version(file)]}
        /\ log' \in {log, SubSeq(log, 1, Version(file))}
    BY <1>4 DEF Load
  <2> QED
    BY <1>0, <2>1, <2>2, <2>3
<1>5. ASSUME NEW f \in entries, Restart(f)
      PROVE  bindings' \in Maps /\ log' \in Seq(Maps) /\ Len(log') >= 1
  <2>1. Version(f) \in 1 .. Len(log) /\ Len(log') = Version(f) /\ log' \in Seq(Maps) /\ bindings' \in Maps
    BY <1>5, Restarted
  <2> QED
    BY <1>0, <2>1
<1>6. CASE Kill \/ StartAgain \/ PowerLoss
  BY <1>0, <1>5, <1>6 DEF Kill, StartAgain, PowerLoss
<1>7. CASE UNCHANGED <<bindings, log>>
  BY <1>0, <1>7
<1> QED
  BY <1>2, <1>3, <1>4, <1>6, <1>7 DEF StoreNext, WriteStep, Bind, Unbind, mutate, TakeSignal,
     Snapshot, OpenTmp, WriteTmp, SyncTmp, TmpStep, Rename, DirSync, WriteFails, CloseRouter,
     LoopStops, FinalSave, storeVars

(* ... and the control.                                                    *)
LEMMA ControlTyped ==
  ASSUME StoreTypes, [StoreNext]_storeVars
  PROVE  /\ life' \in Phases /\ saveCh' \in {0, 1} /\ saver' \in {"idle", "saving", "exited"}
         /\ gaveUp' \in BOOLEAN /\ closeAt' \in Nat
<1> USE DEF Phases
<1>0. /\ life \in Phases /\ saveCh \in {0, 1} /\ saver \in {"idle", "saving", "exited"}
      /\ gaveUp \in BOOLEAN /\ closeAt \in Nat /\ Len(log) \in Nat
  BY DEF StoreTypes
<1>1. CASE DirSync \/ WriteFails
  BY <1>0, <1>1 DEF DirSync, WriteFails, WriteEnds
<1>2. ASSUME NEW f, Restart(f)
      PROVE  life' = "migrate" /\ saveCh' = 0 /\ saver' = "idle" /\ gaveUp' = FALSE /\ closeAt' = 0
  BY <1>2 DEF Restart
<1>7. CASE Kill \/ StartAgain \/ PowerLoss
  <2>1. PICK f : Restart(f)
    BY <1>7 DEF Kill, StartAgain, PowerLoss
  <2>2. life' = "migrate" /\ saveCh' = 0 /\ saver' = "idle" /\ gaveUp' = FALSE /\ closeAt' = 0
    BY <1>2, <2>1
  <2> QED
    BY <2>2
<1>3. CASE Migrate \/ Load
  BY <1>0, <1>3 DEF Migrate, Import, Load
<1>4. CASE TakeSignal \/ CloseRouter \/ LoopStops \/ FinalSave
  BY <1>0, <1>4 DEF TakeSignal, CloseRouter, LoopStops, FinalSave
<1>5. ASSUME NEW b, Put(b) PROVE gaveUp' = FALSE /\ saveCh' = 1 /\ UNCHANGED <<life, saver, closeAt>>
  BY <1>5 DEF Put, saveAsync
<1>6. CASE UNCHANGED <<life, saveCh, saver, gaveUp, closeAt>>
  BY <1>0, <1>6
<1> QED
  BY <1>0, <1>1, <1>3, <1>4, <1>5, <1>6, <1>7 DEF StoreNext, WriteStep, Bind, Unbind, mutate,
     Snapshot, OpenTmp, WriteTmp, SyncTmp, TmpStep, Rename, storeVars

(* The files whole, one by one.                                            *)
LEMMA FilesApart ==
  ASSUME StoreTypes, FilesWhole
  PROVE  /\ file \in entries /\ Len(log) \in Nat /\ Len(log) >= 1
         /\ \A f \in entries : f \in FileState
         /\ \A f \in entries : f.data = "synced"
         /\ \A f \in entries : f.ver \in Nat /\ f.ver <= Len(log)
         /\ \A f \in entries : Version(f) \in 1 .. Len(log)
         /\ \A f \in entries : Version(f) <= Version(file)
BY DEF StoreTypes, FilesWhole, FileState, Version

(* A longer log leaves the files whole, and so does a prefix that has all  *)
(* the map of the file.                                                    *)
LEMMA FilesInLog ==
  ASSUME StoreTypes, FilesWhole, UNCHANGED <<file, entries>>, Len(log') \in Nat,
         Version(file) <= Len(log')
  PROVE  FilesWhole'
<1>1. /\ file' \in entries' /\ entries' = entries
      /\ \A f \in entries : f \in FileState /\ f.data = "synced"
      /\ Version(file)' = Version(file)
  BY FilesApart DEF Version
<1>2. ASSUME NEW f \in entries PROVE f.ver <= Len(log')
  <2>1. f.ver \in Nat /\ f.ver <= Version(f) /\ Version(f) <= Version(file) /\ Version(f) \in Nat
        /\ Version(file) \in Nat
    BY FilesApart DEF Version
  <2> QED
    BY <2>1
<1> QED
  BY <1>1, <1>2, FilesApart DEF FilesWhole, Version

(* Every step keeps the files whole.                                      *)
LEMMA FilesKept ==
  ASSUME StoreInv, [StoreNext]_storeVars
  PROVE  FilesWhole'
<1>0. StoreTypes /\ FilesWhole /\ WriteForward /\ OneWriter
  BY DEF StoreInv
<1>t. Len(log') \in Nat /\ Len(log) \in Nat /\ Version(file) \in 1 .. Len(log)
  BY <1>0, MapsTyped, FilesApart
<1>1. ASSUME UNCHANGED <<file, entries>>, Len(log) <= Len(log')
      PROVE  FilesWhole'
  BY <1>0, <1>t, <1>1, FilesInLog
<1>2. ASSUME NEW b, Put(b) PROVE FilesWhole'
  <2>1. Len(log') = Len(log) + 1
    BY <1>0, <1>2 DEF Put, StoreTypes
  <2> QED
    BY <1>t, <1>1, <1>2, <2>1 DEF Put
<1>3. ASSUME UNCHANGED <<log, file, entries>> PROVE FilesWhole'
  BY <1>t, <1>1, <1>3
<1>4. CASE Rename
  <2>1. /\ file' = tmp /\ entries' = entries \cup {tmp} /\ log' = log
        /\ tmp = [ver |-> write.ver, data |-> "synced"] /\ tmp \in FileState
        /\ 1 <= write.ver /\ write.ver <= Len(log) /\ Version(file) <= write.ver
        /\ write.ver \in Nat
    BY <1>0, <1>4 DEF Rename, WriteForward, StoreTypes, WriteState
  <2>2. Version(tmp) = write.ver /\ tmp.ver <= Len(log) /\ tmp.data = "synced"
    BY <2>1 DEF Version
  <2>3. ASSUME NEW f \in entries PROVE Version(f) <= Version(tmp)
    <3>1. Version(f) \in Nat /\ Version(file) \in Nat /\ Version(f) <= Version(file)
      BY <1>0, FilesApart
    <3> QED
      BY <2>1, <2>2, <3>1
  <2>4. Version(file)' = Version(tmp) /\ Version(tmp) <= Version(tmp)
    BY <2>1, <2>2 DEF Version
  <2> QED
    BY <1>0, <2>1, <2>2, <2>3, <2>4, FilesApart DEF FilesWhole, Version
<1>5. CASE DirSync
  <2>1. CASE entries' = entries
    BY <1>3, <1>5, <2>1 DEF DirSync
  <2>2. CASE entries' = {file}
    BY <1>0, <1>5, <2>2, FilesApart DEF DirSync, FilesWhole, Version
  <2> QED
    BY <1>5, <2>1, <2>2 DEF DirSync
<1>6. CASE Kill \/ StartAgain
  <2>1. Restart(file) /\ UNCHANGED <<file, entries>> /\ file \in entries
    BY <1>0, <1>6 DEF Kill, StartAgain, FilesWhole
  <2>2. Len(log') = Version(file)
    BY <1>0, <2>1, Restarted
  <2> QED
    BY <1>0, <1>t, <2>1, <2>2, FilesInLog
<1>7. CASE PowerLoss
  <2>1. PICK f \in entries : file' = Lost(f) /\ entries' = {Lost(f)} /\ Restart(f)
    BY <1>7 DEF PowerLoss
  <2>2. f \in FileState /\ f.data = "synced" /\ f.ver \in Nat
    BY <1>0, FilesApart
  <2>3. Lost(f) = f
    BY <2>2 DEF Lost, FileState
  <2>4. Len(log') = Version(f)
    BY <1>0, <2>1, Restarted
  <2>5. f.ver <= Len(log') /\ Version(f) <= Version(f)
    BY <2>2, <2>4 DEF Version
  <2> QED
    BY <2>1, <2>2, <2>3, <2>5 DEF FilesWhole, Version
<1>8. CASE Migrate
  <2>1. Len(log') >= Len(log) /\ UNCHANGED <<file, entries>>
    BY <1>0, <1>t, <1>8 DEF Migrate, Import, StoreTypes
  <2> QED
    BY <1>t, <1>1, <2>1
<1>9. CASE Load
  <2>1. Len(log') \in {Len(log), Version(file)} /\ UNCHANGED <<file, entries>>
    BY <1>0, <1>t, <1>9, Prefix DEF Load, StoreTypes
  <2> QED
    BY <1>0, <1>t, <2>1, FilesInLog
<1> QED
  BY <1>2, <1>3, <1>4, <1>5, <1>6, <1>7, <1>8, <1>9 DEF StoreNext, WriteStep, Bind, Unbind,
     mutate, TakeSignal, Snapshot, OpenTmp, WriteTmp, SyncTmp, TmpStep, WriteFails,
     CloseRouter, LoopStops, FinalSave, storeVars

(* Every step keeps the writes going forward.                              *)
LEMMA WriteKept ==
  ASSUME StoreInv, [StoreNext]_storeVars
  PROVE  WriteForward'
<1>0. StoreTypes /\ FilesWhole /\ WriteForward /\ OneWriter
  BY DEF StoreInv
<1>t. /\ Len(log') \in Nat /\ Len(log) \in Nat /\ Len(log) >= 1
      /\ Version(file) \in 1 .. Len(log) /\ write \in WriteState /\ write.ver \in Nat
  BY <1>0, MapsTyped, FilesApart DEF StoreTypes, WriteState
<1>1. ASSUME write'.pc \in {"none", "snapshot"} PROVE WriteForward'
  BY <1>1 DEF WriteForward
<1>2. ASSUME UNCHANGED <<write, tmp, file>>, Len(log) <= Len(log') PROVE WriteForward'
  BY <1>0, <1>t, <1>2 DEF WriteForward, Version
<1>3. ASSUME NEW b, Put(b) PROVE WriteForward'
  <2>1. Len(log') = Len(log) + 1
    BY <1>0, <1>3 DEF Put, StoreTypes
  <2> QED
    BY <1>t, <1>2, <1>3, <2>1 DEF Put
<1>4. CASE Snapshot
  <2>1. /\ write'.pc = "open" /\ write'.ver = Len(log) /\ UNCHANGED <<file, log>>
    BY <1>t, <1>4 DEF Snapshot, WriteState
  <2> QED
    BY <1>t, <2>1 DEF WriteForward, Version
<1>5. CASE OpenTmp \/ WriteTmp \/ SyncTmp
  <2>1. /\ write.pc \in {"open", "write", "sync"} /\ write'.pc \in {"write", "sync", "rename"}
        /\ write'.ver = write.ver /\ UNCHANGED <<file, log>>
        /\ write'.pc = "rename" => tmp' = [ver |-> write.ver, data |-> "synced"]
    BY <1>t, <1>5 DEF OpenTmp, WriteTmp, SyncTmp, TmpStep, WriteState
  <2> QED
    BY <1>0, <2>1 DEF WriteForward, Version
<1>6. CASE Rename
  <2>1. /\ write.pc = "rename" /\ write'.pc = "dirsync" /\ write'.ver = write.ver
        /\ file' = tmp /\ log' = log
    BY <1>t, <1>6 DEF Rename, WriteState
  <2>2. tmp.ver = write.ver /\ 1 <= write.ver /\ write.ver <= Len(log)
    BY <1>0, <2>1 DEF WriteForward
  <2>3. Version(file)' = write.ver
    BY <1>t, <2>1, <2>2 DEF Version
  <2> QED
    BY <1>t, <2>1, <2>2, <2>3 DEF WriteForward
<1>7. CASE DirSync
  BY <1>1, <1>7 DEF DirSync, WriteEnds, NoWrite
<1>8. CASE WriteFails
  <2>1. CASE WriteEnds(TRUE)
    BY <1>1, <2>1 DEF WriteEnds, NoWrite
  <2>2. CASE write' = [write EXCEPT !.pc = "open", !.try = @ + 1]
    <3>1. /\ write.pc \notin {"none", "snapshot"} /\ write'.pc = "open" /\ write'.ver = write.ver
          /\ UNCHANGED <<file, log>>
      BY <1>t, <1>8, <2>2 DEF WriteFails, WriteState
    <3> QED
      BY <1>0, <3>1 DEF WriteForward, Version
  <2> QED
    BY <1>8, <2>1, <2>2 DEF WriteFails
<1>9. CASE TakeSignal \/ FinalSave
  BY <1>1, <1>9 DEF TakeSignal, FinalSave
<1>10. CASE Kill \/ StartAgain \/ PowerLoss
  BY <1>1, <1>10 DEF Kill, StartAgain, PowerLoss, Restart, NoWrite
<1>11. CASE Migrate
  <2>1. CASE UNCHANGED <<log, write>>
    BY <1>t, <1>2, <1>11, <2>1 DEF Migrate
  <2>2. CASE Import(file.ver = 0)
    <3>1. /\ write'.pc = "open" /\ write'.ver = Len(log) + 1 /\ file' = file
          /\ Len(log') = Len(log) + 1
      BY <1>0, <1>11, <2>2 DEF Migrate, Import, StoreTypes
    <3> QED
      BY <1>t, <3>1 DEF WriteForward, Version
  <2> QED
    BY <1>11, <2>1, <2>2 DEF Migrate
<1>12. CASE Load
  BY <1>0, <1>1, <1>12 DEF Load, OneWriter
<1>13. CASE CloseRouter \/ LoopStops \/ UNCHANGED storeVars
  BY <1>t, <1>2, <1>13 DEF CloseRouter, LoopStops, storeVars
<1> QED
  BY <1>3, <1>4, <1>5, <1>6, <1>7, <1>8, <1>9, <1>10, <1>11, <1>12, <1>13
     DEF StoreNext, WriteStep, Bind, Unbind, mutate

(* Every step leaves one writer at most.                                   *)
LEMMA WriterKept ==
  ASSUME StoreInv, [StoreNext]_storeVars
  PROVE  OneWriter'
<1>0. StoreTypes /\ FilesWhole /\ OneWriter /\ write \in WriteState
  BY DEF StoreInv, StoreTypes
<1> USE DEF OneWriter
<1>1. CASE TakeSignal
  BY <1>0, <1>1 DEF TakeSignal
<1>2. CASE Snapshot \/ OpenTmp \/ WriteTmp \/ SyncTmp \/ Rename
  <2>1. /\ write.pc # "none" /\ write'.pc # "none" /\ UNCHANGED <<life, saver, saveCh>>
    BY <1>0, <1>2 DEF Snapshot, OpenTmp, WriteTmp, SyncTmp, TmpStep, Rename, WriteState
  <2> QED
    BY <1>0, <2>1
<1>3. ASSUME NEW given \in BOOLEAN, WriteEnds(given), write.pc # "none", saveCh' = saveCh
      PROVE  OneWriter'
  <2>1. write'.pc = "none"
    BY <1>3 DEF WriteEnds, NoWrite
  <2> QED
    BY <1>0, <1>3, <2>1 DEF WriteEnds, StoreTypes, Phases
<1>4. CASE DirSync
  BY <1>3, <1>4 DEF DirSync
<1>5. CASE WriteFails
  <2>1. CASE WriteEnds(TRUE)
    BY <1>3, <1>5, <2>1 DEF WriteFails
  <2>2. CASE write' = [write EXCEPT !.pc = "open", !.try = @ + 1]
             /\ UNCHANGED <<gaveUp, saver, life>>
    <3>1. write.pc # "none" /\ write'.pc # "none" /\ saveCh' = saveCh
      BY <1>0, <1>5, <2>2 DEF WriteFails, WriteState
    <3> QED
      BY <1>0, <2>2, <3>1
  <2> QED
    BY <1>5, <2>1, <2>2 DEF WriteFails
<1>6. CASE CloseRouter \/ LoopStops \/ FinalSave
  BY <1>0, <1>6 DEF CloseRouter, LoopStops, FinalSave, StoreTypes
<1>7. ASSUME NEW f, Restart(f) PROVE OneWriter'
  BY <1>7 DEF Restart, NoWrite
<1>8. CASE Migrate
  BY <1>0, <1>8 DEF Migrate, Import
<1>9. CASE Load
  BY <1>0, <1>9, FilesApart DEF Load
<1>10. ASSUME NEW b, Put(b) PROVE OneWriter'
  BY <1>0, <1>10 DEF Put, saveAsync
<1>11. CASE UNCHANGED storeVars
  BY <1>0, <1>11 DEF storeVars
<1> HIDE DEF OneWriter
<1>12. CASE Kill \/ StartAgain \/ PowerLoss
  BY <1>7, <1>12 DEF Kill, StartAgain, PowerLoss
<1> QED
  BY <1>1, <1>2, <1>4, <1>5, <1>6, <1>8, <1>9, <1>10, <1>11, <1>12
     DEF StoreNext, WriteStep, Bind, Unbind, mutate

(* Every step keeps the changes.                                           *)
LEMMA ChangesAreKept ==
  ASSUME StoreInv, [StoreNext]_storeVars
  PROVE  ChangesKept'
<1>0. /\ StoreTypes /\ FilesWhole /\ WriteForward /\ OneWriter /\ ChangesKept
      /\ write \in WriteState /\ write.ver \in Nat /\ closeAt \in Nat
      /\ Len(log) \in Nat /\ Len(log) >= 1 /\ Version(file) \in Nat
  BY FilesApart DEF StoreInv, StoreTypes, WriteState
<1> USE DEF ChangesKept, CloseSaves
<1>1. CASE TakeSignal
  BY <1>0, <1>1 DEF TakeSignal, Version
<1>2. CASE Snapshot
  <2>1. /\ write.pc = "snapshot" /\ write'.ver = Len(log) /\ write'.pc = "open"
        /\ UNCHANGED <<log, life, saveCh, saver, file, gaveUp, closeAt>>
    BY <1>0, <1>2 DEF Snapshot, WriteState
  <2> QED
    BY <1>0, <2>1 DEF Version, OneWriter
<1>3. CASE OpenTmp \/ WriteTmp \/ SyncTmp
  <2>1. /\ write.pc \notin {"none", "snapshot"} /\ write'.ver = write.ver
        /\ UNCHANGED <<log, life, saveCh, saver, file, gaveUp, closeAt>>
    BY <1>0, <1>3 DEF OpenTmp, WriteTmp, SyncTmp, TmpStep, WriteState
  <2> QED
    BY <1>0, <2>1 DEF Version, OneWriter
<1>4. CASE Rename
  <2>1. /\ write.pc \notin {"none", "snapshot"} /\ write'.ver = write.ver
        /\ UNCHANGED <<log, life, saveCh, saver, gaveUp, closeAt>>
    BY <1>0, <1>4 DEF Rename, WriteState
  <2>2. life \in {"up", "closing"} => saver = "saving"
    BY <1>0, <2>1 DEF OneWriter
  <2>3. life # "closed"
    BY <1>0, <2>1 DEF OneWriter
  <2> QED
    BY <1>0, <2>1, <2>2, <2>3
<1>5. CASE DirSync
  <2>0. write.pc = "dirsync" /\ UNCHANGED <<log, saveCh, file, closeAt>> /\ WriteEnds(FALSE)
    BY <1>5 DEF DirSync
  <2>1. file.ver = write.ver /\ Version(file) = write.ver
    BY <1>0, <2>0 DEF WriteForward, Version
  <2>2. Version(file)' = write.ver
    BY <2>0, <2>1 DEF Version
  <2>3. /\ saver' # "saving" /\ gaveUp' = gaveUp
        /\ life' \in {"up", "closing"} => life = life' /\ saver = "saving"
        /\ life' # "final" /\ (life' = "closing" => life = "closing")
        /\ life' = "closed" => life = "final"
    BY <1>0, <2>0, <2>1 DEF WriteEnds, OneWriter, StoreTypes, Phases
  <2> QED
    BY <1>0, <2>0, <2>1, <2>2, <2>3
<1>6. CASE WriteFails
  <2>1. CASE WriteEnds(TRUE)
    <3>1. /\ gaveUp' /\ UNCHANGED <<log, saveCh, file, closeAt>>
          /\ life' # "final" /\ (life' = "closing" => life = "closing")
      BY <1>0, <1>6, <2>1 DEF WriteFails, WriteEnds, StoreTypes, Phases
    <3> QED
      BY <1>0, <3>1
  <2>2. CASE write' = [write EXCEPT !.pc = "open", !.try = @ + 1]
             /\ UNCHANGED <<gaveUp, saver, life>>
    <3>1. /\ write.pc \notin {"none", "snapshot"} /\ write'.ver = write.ver
          /\ UNCHANGED <<log, saveCh, file, closeAt>>
      BY <1>0, <1>6, <2>2 DEF WriteFails, WriteState
    <3> QED
      BY <1>0, <2>2, <3>1 DEF Version
  <2> QED
    BY <1>6, <2>1, <2>2 DEF WriteFails
<1>7. CASE CloseRouter
  BY <1>0, <1>7 DEF CloseRouter, Version
<1>8. CASE LoopStops
  BY <1>0, <1>8 DEF LoopStops, Version
<1>9. CASE FinalSave
  BY <1>0, <1>9 DEF FinalSave, Version
<1>10. ASSUME NEW f, Restart(f) PROVE ChangesKept'
  BY <1>10 DEF Restart
<1>11. CASE Migrate
  BY <1>0, <1>11 DEF Migrate, Import
<1>12. CASE Load
  <2>1. file.data = "synced" /\ Version(file) \in 1 .. Len(log) /\ life = "load"
    BY <1>0, <1>12, FilesApart DEF Load
  <2>2. /\ life' = "up" /\ log' = SubSeq(log, 1, Version(file)) /\ UNCHANGED <<file, saver>>
    BY <1>12, <2>1 DEF Load
  <2>3. Len(log') = Version(file) /\ Version(file)' = Version(file) /\ saver = "idle"
    BY <1>0, <2>1, <2>2, Prefix DEF StoreTypes, Version, OneWriter
  <2> QED
    BY <2>2, <2>3
<1>13. ASSUME NEW b, Put(b) PROVE ChangesKept'
  <2>1. /\ life \in {"up", "closing"} /\ saveCh' = 1 /\ UNCHANGED <<life, closeAt>>
        /\ Len(log') = Len(log) + 1
    BY <1>0, <1>13 DEF Put, saveAsync, StoreTypes
  <2> QED
    BY <1>0, <2>1
<1>14. CASE UNCHANGED storeVars
  BY <1>0, <1>14 DEF storeVars, Version
<1> HIDE DEF ChangesKept, CloseSaves
<1>15. CASE Kill \/ StartAgain \/ PowerLoss
  BY <1>10, <1>15 DEF Kill, StartAgain, PowerLoss
<1> QED
  BY <1>1, <1>2, <1>3, <1>4, <1>5, <1>6, <1>7, <1>8, <1>9, <1>11, <1>12, <1>13, <1>14, <1>15
     DEF StoreNext, WriteStep, Bind, Unbind, mutate

-----------------------------------------------------------------------------
(* The theorems.                                                           *)

(* The invariant holds at the start.                                       *)
LEMMA StoreInvInit == StoreInit => StoreInv
<1> SUFFICES ASSUME StoreInit PROVE StoreInv
  OBVIOUS
<1> USE DEF StoreInit, NoFile, NoWrite
<1>1. EmptyMap \in Maps
  BY DEF EmptyMap, Maps
<1>0. log \in Seq(Maps) /\ Len(log) >= 1
  BY <1>1
<1>2. StoreTypes
  BY <1>0, <1>1 DEF StoreTypes, WriteState, FileState, Steps, Phases
<1>3. FilesWhole
  BY DEF FilesWhole, FileState, Version
<1>4. WriteForward /\ OneWriter /\ ChangesKept
  BY DEF WriteForward, OneWriter, ChangesKept, CloseSaves
<1> QED
  BY <1>2, <1>3, <1>4 DEF StoreInv

(* Every step keeps the invariant.                                         *)
LEMMA StoreInvNext == StoreInv /\ [StoreNext]_storeVars => StoreInv'
<1> SUFFICES ASSUME StoreInv, [StoreNext]_storeVars PROVE StoreInv'
  OBVIOUS
<1>1. StoreTypes /\ FilesWhole
  BY DEF StoreInv
<1>2. StoreTypes'
  BY <1>1, WriteTyped, FilesTyped, MapsTyped, ControlTyped DEF StoreTypes
<1> QED
  BY <1>2, FilesKept, WriteKept, WriterKept, ChangesAreKept DEF StoreInv

(* A start never finds the state file truncated (atomicwrite.go).          *)
THEOREM NeverTornCorrect == StoreSpec => []NeverTorn
<1>1. StoreInv => NeverTorn
  BY FilesApart DEF StoreInv, OneWriter, NeverTorn
<1> QED
  BY <1>1, StoreInvInit, StoreInvNext, PTL DEF StoreSpec

(* The coalescing and Close lose no change while the disk works            *)
(* (router.go).                                                            *)
THEOREM NoChangeLostCorrect == StoreSpec => []NoChangeLost
<1>1. StoreInv => NoChangeLost
  BY DEF StoreInv, ChangesKept, NoChangeLost, NoLostSignal, CloseSaves
<1> QED
  BY <1>1, StoreInvInit, StoreInvNext, PTL DEF StoreSpec

-----------------------------------------------------------------------------
(* The refinement.                                                         *)

(* The abstract saved: the oldest map that a power loss may leave.         *)
SavedVersion == Min({Version(f) : f \in entries})

(* It is no newer than the file, nor than any map that may be left.        *)
LEMMA SavedFacts ==
  ASSUME StoreTypes, FilesWhole
  PROVE  /\ SavedVersion \in 1 .. Version(file) /\ Version(file) \in 1 .. Len(log)
         /\ \A f \in entries : Version(f) \in SavedVersion .. Len(log)
<1> DEFINE S == {Version(f) : f \in entries}
<1>1. S \in SUBSET Nat /\ S # {} /\ \A n \in S : n \in 1 .. Len(log)
  BY FilesApart
<1>2. SavedVersion \in S /\ \A n \in S : SavedVersion <= n
  BY <1>1, MinExists DEF SavedVersion
<1> QED
  BY <1>1, <1>2, FilesApart

(* One file, as after a power loss or the fsync of the directory.          *)
LEMMA SavedOne ==
  ASSUME StoreTypes, FilesWhole, NEW f \in entries, entries' = {f}
  PROVE  SavedVersion' = Version(f)
<1>1. {Version(g) : g \in {f}} = {Version(f)} /\ Version(f) \in Nat
  BY FilesApart
<1>2. Min({Version(f)}) = Version(f)
  BY <1>1, MinIs
<1> QED
  BY <1>1, <1>2 DEF SavedVersion, Version

(* Every step is a change, a save or a crash of the durable map, or none of them. *)
LEMMA Implements ==
  ASSUME StoreInv, [StoreNext]_storeVars
  PROVE  Durable!AbstractNext \/ (log' = log /\ SavedVersion' = SavedVersion)
<1> DEFINE Goal == Durable!AbstractNext \/ (log' = log /\ SavedVersion' = SavedVersion)
<1> SUFFICES Goal
  OBVIOUS
<1>0. StoreTypes /\ FilesWhole /\ WriteForward /\ Len(log) \in Nat
  BY FilesApart DEF StoreInv
<1>s. /\ SavedVersion \in 1 .. Version(file) /\ Version(file) \in 1 .. Len(log)
      /\ \A f \in entries : Version(f) \in SavedVersion .. Len(log)
  BY <1>0, SavedFacts
<1>u. entries' = entries => SavedVersion' = SavedVersion
  BY DEF SavedVersion, Version
<1>1. ASSUME NEW b \in Maps, log' = Append(log, b), entries' = entries PROVE Goal
  BY <1>1, <1>u DEF Durable!AbstractNext, Durable!Change, SavedVersion
<1>2. ASSUME log' = log, SavedVersion' \in SavedVersion .. Len(log) PROVE Goal
  BY <1>2 DEF Durable!AbstractNext, Durable!Save, SavedVersion
<1>3. ASSUME NEW k \in SavedVersion .. Len(log), log' = SubSeq(log, 1, k),
             SavedVersion' \in SavedVersion .. k
      PROVE  Goal
  BY <1>3 DEF Durable!AbstractNext, Durable!Forget, SavedVersion
<1>4. CASE UNCHANGED <<log, entries>>
  BY <1>4, <1>u
<1> HIDE DEF Goal
<1>5. ASSUME NEW c \in ChatKeys, NEW v \in Values \cup {None}, Put([bindings EXCEPT ![c] = v])
      PROVE  Goal
  <2>1. [bindings EXCEPT ![c] = v] \in Maps
    BY <1>0 DEF StoreTypes, Maps
  <2> QED
    BY <1>1, <1>5, <2>1 DEF Put
<1>6. CASE Rename
  <2>1. /\ entries' = entries \cup {tmp} /\ log' = log /\ tmp.ver = write.ver /\ 1 <= write.ver
        /\ Version(file) <= write.ver /\ write.ver \in Nat
    BY <1>0, <1>6 DEF Rename, WriteForward, StoreTypes, WriteState
  <2>2. Version(tmp) = write.ver
    BY <2>1 DEF Version
  <2> DEFINE S == {Version(f) : f \in entries}
             T == {Version(f) : f \in entries \cup {tmp}}
  <2>3. T = S \cup {Version(tmp)}
    OBVIOUS
  <2>4. SavedVersion \in S /\ \A n \in S : SavedVersion <= n
    <3>1. S \in SUBSET Nat /\ S # {}
      BY <1>0, FilesApart
    <3> QED
      BY <3>1, MinExists DEF SavedVersion
  <2>5. T \in SUBSET Nat /\ SavedVersion \in T
    BY <1>0, <2>1, <2>2, <2>3, <2>4, FilesApart
  <2>6. \A n \in T : SavedVersion <= n
    BY <1>s, <2>1, <2>2, <2>3, <2>4
  <2>7. Min(T) = SavedVersion
    BY <2>5, <2>6, MinIs
  <2>8. SavedVersion' = Min(T)
    BY <2>1 DEF SavedVersion, Version
  <2> QED
    BY <2>1, <2>7, <2>8 DEF Goal
<1>7. CASE DirSync
  <2>1. CASE entries' = entries
    BY <1>4, <1>7, <2>1 DEF DirSync
  <2>2. CASE entries' = {file}
    <3>1. SavedVersion' = Version(file)
      BY <1>0, <2>2, SavedOne DEF FilesWhole
    <3> QED
      BY <1>2, <1>7, <1>s, <3>1 DEF DirSync
  <2> QED
    BY <1>7, <2>1, <2>2 DEF DirSync
<1>8. CASE Kill \/ StartAgain
  <2>1. log' = SubSeq(log, 1, Version(file)) /\ entries' = entries
    BY <1>8 DEF Kill, StartAgain, Restart
  <2> QED
    BY <1>3, <1>s, <1>u, <2>1
<1>9. CASE PowerLoss
  <2>1. PICK f \in entries : entries' = {Lost(f)} /\ Restart(f)
    BY <1>9 DEF PowerLoss
  <2>2. Lost(f) = f
    BY <1>0, FilesApart DEF Lost, FileState
  <2>3. SavedVersion' = Version(f) /\ log' = SubSeq(log, 1, Version(f))
    BY <1>0, <2>1, <2>2, SavedOne DEF Restart
  <2> QED
    BY <1>3, <1>s, <2>3
<1>10. CASE Migrate
  <2>1. CASE UNCHANGED <<log, write>>
    BY <1>4, <1>10, <2>1 DEF Migrate
  <2>2. CASE Import(file.ver = 0)
    BY <1>1, <1>10, <2>2 DEF Migrate, Import
  <2> QED
    BY <1>10, <2>1, <2>2 DEF Migrate
<1>11. CASE Load
  <2>1. file.data = "synced"
    BY <1>0, FilesApart
  <2>2. log' = SubSeq(log, 1, Version(file)) /\ entries' = entries
    BY <1>11, <2>1 DEF Load
  <2> QED
    BY <1>3, <1>s, <1>u, <2>2
<1> QED
  BY <1>4, <1>5, <1>6, <1>7, <1>8, <1>9, <1>10, <1>11 DEF StoreNext, WriteStep, Bind, Unbind,
     mutate, TakeSignal, Snapshot, OpenTmp, WriteTmp, SyncTmp, TmpStep, WriteFails,
     CloseRouter, LoopStops, FinalSave, storeVars

(* The router implements the durable map: in memory it is changed, on disk *)
(* a prefix of its history is safe, and a crash forgets only what was not. *)
THEOREM ImplementsDurableMapCorrect == StoreSpec => ImplementsDurableMap
<1>1. StoreInit => Durable!AbstractInit
  BY DEF StoreInit, Durable!AbstractInit, Version, NoFile, Min
<1>2. StoreInv /\ [StoreNext]_storeVars
        => [Durable!AbstractNext]_<<log, Min({Version(f) : f \in entries})>>
  BY Implements DEF SavedVersion
<1> QED
  BY <1>1, <1>2, StoreInvInit, StoreInvNext, PTL
     DEF StoreSpec, ImplementsDurableMap, Durable!AbstractSpec

-----------------------------------------------------------------------------
(*************************************************************************)
(* Layer1Router, for any chats, savers, window and clock: a route in use *)
(* stays. The sweeper looks at the last access, so the proof is that the *)
(* access a route records is never older than the last use of the chat.  *)
(*************************************************************************)

Saved == [backend: Backends, updated: Nat]
Table == [Chats -> Route \cup {NoRoute}]

RouteTypes ==
  /\ routes \in Table
  /\ disk \in [Chats -> Saved \cup {NoRoute}]
  /\ saving \in [Savers -> [pc: {"none", "copy", "write"}, copy: Table]]
  /\ clock \in Nat /\ restarts \in Nat
  /\ used \in [Chats -> Nat \cup {Never}]

(* No use is in the future, and a route records the last one.              *)
AccessKept ==
  \A c \in Chats : used[c] # Never =>
    /\ used[c] <= clock
    /\ routes[c] # NoRoute => used[c] <= routes[c].access

RouteInv == RouteTypes /\ AccessKept

(* What a chat is bound to, as it is written to the file and read back.    *)
LEMMA PersistedTypes ==
  ASSUME NEW t \in Table
  PROVE  Persisted(t) \in [Chats -> Saved \cup {NoRoute}]
<1>1. ASSUME NEW c \in Chats, t[c] # NoRoute
      PROVE  [backend |-> t[c].backend, updated |-> t[c].updated] \in Saved
  BY <1>1 DEF Table, Route, Saved
<1> QED
  BY <1>1 DEF Persisted

(* The table after each of the changes.                                    *)
LEMMA RouteTypesKept ==
  ASSUME RouteTypes, [RouteNext]_routeVars
  PROVE  RouteTypes'
<1> USE DEF RouteTypes
<1>1. ASSUME NEW w \in Savers, NEW c \in Chats, NEW b \in Backends, Set(w, c, b)
      PROVE  RouteTypes'
  <2>1. [backend |-> b, updated |-> clock, access |-> clock] \in Route
    BY DEF Route
  <2>2. routes' \in Table
    BY <1>1, <2>1 DEF Set, Table
  <2>3. saving' \in [Savers -> [pc: {"none", "copy", "write"}, copy: Table]]
    BY <1>1 DEF Set
  <2> QED
    BY <1>1, <2>2, <2>3 DEF Set
<1>2. ASSUME NEW w \in Savers, Prune(w) PROVE RouteTypes'
  <2>1. routes' \in Table
    BY <1>2 DEF Prune, Table
  <2>2. saving' \in [Savers -> [pc: {"none", "copy", "write"}, copy: Table]]
    BY <1>2 DEF Prune
  <2> QED
    BY <1>2, <2>1, <2>2 DEF Prune
<1>3. ASSUME NEW w \in Savers, Copy(w) PROVE RouteTypes'
  BY <1>3 DEF Copy
<1>4. ASSUME NEW w \in Savers, Persist(w) PROVE RouteTypes'
  <2>1. saving' \in [Savers -> [pc: {"none", "copy", "write"}, copy: Table]]
    BY <1>4 DEF Persist, Resting, NoRoutes, Table
  <2>2. disk' \in [Chats -> Saved \cup {NoRoute}]
    BY <1>4, PersistedTypes DEF Persist
  <2> QED
    BY <1>4, <2>1, <2>2 DEF Persist
<1>5. ASSUME NEW c \in Chats, Refresh(c) PROVE RouteTypes'
  <2>1. [routes[c] EXCEPT !.access = clock] \in Route
    BY <1>5 DEF Refresh, Table, Route
  <2>2. routes' \in Table
    BY <1>5, <2>1 DEF Refresh, Table
  <2> QED
    BY <1>5, <2>2 DEF Refresh
<1>6. CASE Reload
  <2>1. ASSUME NEW c \in Chats, disk[c] # NoRoute
        PROVE  [backend |-> disk[c].backend, updated |-> disk[c].updated,
                access |-> disk[c].updated] \in Route
    BY <2>1 DEF Saved, Route
  <2>2. routes' \in Table
    BY <1>6, <2>1 DEF Reload, Table
  <2>3. saving' \in [Savers -> [pc: {"none", "copy", "write"}, copy: Table]]
    BY <1>6 DEF Reload, Resting, NoRoutes, Table
  <2> QED
    BY <1>6, <2>2, <2>3 DEF Reload
<1>7. CASE ClockStep \/ UNCHANGED routeVars
  BY <1>7 DEF ClockStep, routeVars
<1> QED
  BY <1>1, <1>2, <1>3, <1>4, <1>5, <1>6, <1>7 DEF RouteNext

(* A use and the access it records are the same moment; a restart forgets  *)
(* both the uses and the accesses.                                         *)
LEMMA AccessIsKept ==
  ASSUME RouteTypes, AccessKept, [RouteNext]_routeVars
  PROVE  AccessKept'
<1> USE DEF RouteTypes, AccessKept, Never, Table
<1>1. ASSUME NEW w \in Savers, NEW c \in Chats, NEW b \in Backends, Set(w, c, b)
      PROVE  AccessKept'
  BY <1>1 DEF Set
<1>2. ASSUME NEW w \in Savers, Prune(w) PROVE AccessKept'
  BY <1>2 DEF Prune
<1>3. ASSUME NEW c \in Chats, Refresh(c) PROVE AccessKept'
  <2>1. routes'[c].access = clock /\ used'[c] = clock
    BY <1>3 DEF Refresh, Route
  <2> QED
    BY <1>3, <2>1 DEF Refresh
<1>4. CASE Reload
  BY <1>4 DEF Reload
<1>5. CASE ClockStep
  BY <1>5 DEF ClockStep
<1>6. CASE UNCHANGED <<routes, clock, used>>
  BY <1>6
<1> HIDE DEF RouteTypes, AccessKept
<1> QED
  BY <1>1, <1>2, <1>3, <1>4, <1>5, <1>6 DEF RouteNext, Copy, Persist, routeVars

(* The invariant holds at the start.                                      *)
LEMMA RouteInvInit == RouteInit => RouteInv
BY DEF RouteInit, RouteInv, RouteTypes, AccessKept, NoRoutes, Resting, Saved, Table

(* A route that was used within the window is not stale.                   *)
LEMMA UsedIsNotStale ==
  ASSUME RouteInv, NEW c \in Chats, routes[c] # NoRoute, used[c] # Never,
         clock <= used[c] + TTL
  PROVE  ~Stale(c)
<1>1. /\ used[c] \in Nat /\ clock \in Nat /\ routes[c].access \in Nat
      /\ used[c] <= routes[c].access
  BY DEF RouteInv, RouteTypes, AccessKept, Table, Route, Never
<1>2. TTL \in Nat
  BY RouteAssumption
<1> QED
  BY <1>1, <1>2 DEF Stale

(* No step but a restart takes the route of a chat that was used within    *)
(* the window.                                                             *)
LEMMA ActiveRouteStep ==
  ASSUME RouteInv, [RouteNext]_routeVars, NEW c \in Chats,
         routes[c] # NoRoute, used[c] # Never, clock <= used[c] + TTL, restarts' = restarts
  PROVE  routes'[c] # NoRoute
<1> USE DEF RouteInv, RouteTypes, Table
<1>1. ASSUME NEW w \in Savers, NEW d \in Chats, NEW b \in Backends, Set(w, d, b)
      PROVE  routes'[c] # NoRoute
  <2>1. [backend |-> b, updated |-> clock, access |-> clock] \in Route
    BY DEF Route
  <2> QED
    BY <1>1, <2>1, RouteAssumption DEF Set
<1>2. ASSUME NEW w \in Savers, Prune(w) PROVE routes'[c] # NoRoute
  BY <1>2, UsedIsNotStale DEF Prune
<1>3. ASSUME NEW d \in Chats, Refresh(d) PROVE routes'[c] # NoRoute
  <2>1. routes[d] # NoRoute => [routes[d] EXCEPT !.access = clock] \in Route
    BY DEF Route
  <2> QED
    BY <1>3, <2>1, RouteAssumption DEF Refresh
<1>4. CASE UNCHANGED routes
  BY <1>4
<1>5. ~Reload
  BY DEF Reload
<1> QED
  BY <1>1, <1>2, <1>3, <1>4, <1>5 DEF RouteNext, Copy, Persist, ClockStep, routeVars

(* Resolve, Touch and Prune (routing.go): a chat that uses its route keeps *)
(* it for the whole window.                                                *)
THEOREM ActiveRouteStaysCorrect == RouteSpec => ActiveRouteStays
<1>1. RouteInv /\ [RouteNext]_routeVars => RouteInv'
  BY RouteTypesKept, AccessIsKept DEF RouteInv
<1>2. RouteInv /\ [RouteNext]_routeVars
        => [\A c \in Chats :
              /\ routes[c] # NoRoute /\ used[c] # Never /\ clock <= used[c] + TTL
              /\ restarts' = restarts
              => routes'[c] # NoRoute]_routeVars
  BY ActiveRouteStep
<1> QED
  BY <1>1, <1>2, RouteInvInit, PTL DEF RouteSpec, ActiveRouteStays

-----------------------------------------------------------------------------
(*************************************************************************)
(* Reconnect, for any number of streams, any buffer and any give-up      *)
(* threshold.                                                            *)
(*************************************************************************)

\* failures follows the calls of Connect: one ahead while an attempt is under
\* way, equal to them everywhere else in the loop.
CountsAgree ==
    /\ at # "done" => failures < MaxReconnectFailures /\ outcome = "running"
    /\ at \in {"wait", "dial"} => failures = tries + 1
    /\ at \in {"recv", "handle", "count", "check", "store"} => failures = tries
    /\ outcome = "gaveUp" => at = "done" /\ tries = MaxReconnectFailures - 1

\* During a reconnect the old client is closed.
OldClosed == at \in {"count", "wait", "dial"} => closed[client]

\* s counts on from n.
Consecutive(s, n) == \A i \in 1 .. Len(s) : s[i] = n + i

\* What was received, what waits in the channel and what the reader holds are
\* the frames of the stream in their order.
InOrder(c) ==
    /\ Consecutive(got[c], 0)
    /\ Consecutive(eventCh[c], Len(got[c]))
    /\ reader[c] = "reading" => frames[c] = Len(got[c]) + Len(eventCh[c])
    /\ reader[c] = "pushing" => frames[c] = Len(got[c]) + Len(eventCh[c]) + 1

StreamsInOrder == \A c \in Clients : InOrder(c)

RecInv ==
    /\ RecTypeOK
    /\ CountsAgree
    /\ OldClosed
    /\ NoLeakedStream
    /\ StreamsInOrder

-----------------------------------------------------------------------------
\* The frames of a stream before and after a push, and before and after a take.
LEMMA PushSum == \A g, e \in Nat : g + e + 1 = g + (e + 1)
OBVIOUS

LEMMA TakeSum == \A g, e \in Nat : (g + 1) + (e - 1) = g + e
OBVIOUS

\* Appending the next number (PushFrame, and TakeEvent's history).
LEMMA ConsecutiveAppend ==
    ASSUME NEW s \in Seq(Nat), NEW n \in Nat, Consecutive(s, n),
           NEW k \in Nat, k = n + Len(s) + 1
    PROVE  /\ Append(s, k) \in Seq(Nat)
           /\ Consecutive(Append(s, k), n)
           /\ Len(Append(s, k)) = Len(s) + 1
<1> DEFINE t == Append(s, k)
<1>1. Len(s) \in Nat
  BY LenProperties
<1>3. /\ t \in Seq(Nat)
      /\ Len(t) = Len(s) + 1
      /\ \A i \in 1 .. Len(s) : t[i] = s[i]
      /\ t[Len(s) + 1] = k
  BY AppendProperties
<1> HIDE DEF t
<1>4. ASSUME NEW i \in 1 .. Len(t) PROVE t[i] = n + i
  <2>1. CASE i \in 1 .. Len(s)
    BY <1>3, <2>1 DEF Consecutive
  <2>2. CASE i = Len(s) + 1
    BY <1>1, <1>3, <2>2
  <2> QED
    BY <1>1, <1>3, <2>1, <2>2
<1>5. t \in Seq(Nat) /\ Consecutive(t, n) /\ Len(t) = Len(s) + 1
  BY <1>3, <1>4 DEF Consecutive
<1> QED
  BY <1>5 DEF t

\* Taking the first number (TakeEvent on the channel).
LEMMA ConsecutiveTail ==
    ASSUME NEW s \in Seq(Nat), NEW n \in Nat, Consecutive(s, n), s # <<>>
    PROVE  /\ Head(s) = n + 1
           /\ Tail(s) \in Seq(Nat)
           /\ Consecutive(Tail(s), n + 1)
           /\ Len(Tail(s)) = Len(s) - 1
           /\ Len(s) \in Nat
<1>1. Len(s) \in Nat \ {0}
  BY EmptySeq
<1>2. Head(s) = s[1]
  OBVIOUS
<1>3. Head(s) = n + 1
  BY <1>1, <1>2 DEF Consecutive
<1> DEFINE t == Tail(s)
<1>4. /\ t \in Seq(Nat)
      /\ Len(t) = Len(s) - 1
      /\ \A i \in 1 .. Len(t) : t[i] = s[i + 1]
  BY HeadTailProperties
<1> HIDE DEF t
<1>5. ASSUME NEW i \in 1 .. Len(t) PROVE t[i] = (n + 1) + i
  <2>1. i + 1 \in 1 .. Len(s) /\ i \in Nat
    BY <1>1, <1>4
  <2>2. s[i + 1] = n + (i + 1)
    BY <2>1 DEF Consecutive
  <2> QED
    BY <1>4, <2>1, <2>2
<1>6. Consecutive(t, n + 1)
  BY <1>5 DEF Consecutive
<1> QED
  BY <1>1, <1>3, <1>4, <1>6 DEF t

\* An action that leaves the streams' data alone keeps their order: true of
\* every step of the loop but the receive and the dial, and of every Close.
LEMMA DataUnchanged ==
    ASSUME StreamsInOrder, UNCHANGED <<reader, eventCh, frames, got>>
    PROVE  StreamsInOrder'
BY DEF StreamsInOrder, InOrder

\* The initial state: one open stream, nothing counted (RunWithClient).
LEMMA InitHolds == Init => RecInv
<1> SUFFICES ASSUME Init PROVE RecInv
  OBVIOUS
<1>1. RecTypeOK
  <2>1. closed \in [Clients -> BOOLEAN]
    BY Zenon DEF Init
  <2>2. backoff \in BaseBackoff .. MaxBackoff
    BY ReconnectAssumption DEF Init
  <2>3. eventCh \in [Clients -> Seq(Nat)] /\ got \in [Clients -> Seq(Nat)]
    BY EmptySeq DEF Init
  <2>4. /\ failures \in 0 .. MaxReconnectFailures
        /\ tries \in 0 .. MaxReconnectFailures
        /\ frames \in [Clients -> Nat]
    BY ReconnectAssumption DEF Init
  <2>5. reader \in [Clients -> {"reading", "pushing", "gone"}]
    BY DEF Init
  <2> QED
    BY <2>1, <2>2, <2>3, <2>4, <2>5 DEF Init, RecTypeOK, LoopState
<1>2. CountsAgree /\ OldClosed
  BY ReconnectAssumption DEF Init, CountsAgree, OldClosed
<1>3. NoLeakedStream
  BY Zenon DEF Init, NoLeakedStream
<1>4. StreamsInOrder
  <2> SUFFICES ASSUME NEW c \in Clients PROVE InOrder(c)
    BY DEF StreamsInOrder
  <2>1. got[c] = <<>> /\ eventCh[c] = <<>> /\ frames[c] = 0 /\ reader[c] # "pushing"
    BY DEF Init
  <2>2. Len(got[c]) = 0 /\ Len(eventCh[c]) = 0
    BY <2>1
  <2> QED
    BY <2>1, <2>2 DEF InOrder, Consecutive
<1> QED
  BY <1>1, <1>2, <1>3, <1>4 DEF RecInv

\* The context and the shutdown goroutine: a Close from outside the loop.
LEMMA OutsideKeeps ==
    ASSUME RecInv, Cancel \/ ShutStep
    PROVE  RecInv'
<1> USE DEF RecInv
<1>1. RecTypeOK'
  BY DEF Cancel, ShutStep, ShutLoad, ShutClose, ShutStop, Close, RecTypeOK,
         loopVars, shutVars, ctxVars, streamVars
<1>2. CountsAgree'
  BY DEF Cancel, ShutStep, ShutLoad, ShutClose, ShutStop, CountsAgree,
         loopVars, shutVars, ctxVars, streamVars
<1>3. OldClosed' /\ NoLeakedStream'
  BY DEF Cancel, ShutStep, ShutLoad, ShutClose, ShutStop, Close, RecTypeOK,
         OldClosed, NoLeakedStream, loopVars, shutVars, ctxVars, streamVars
<1>4. StreamsInOrder'
  BY DataUnchanged DEF Cancel, ShutStep, ShutLoad, ShutClose, ShutStop,
         loopVars, shutVars, ctxVars, streamVars
<1> QED
  BY <1>1, <1>2, <1>3, <1>4

\* The types through a step of a reader.
LEMMA ReaderTypes ==
    ASSUME RecTypeOK, NEW c \in Clients, ReaderStep(c)
    PROVE  RecTypeOK'
<1> USE DEF RecTypeOK
<1>1. CASE ReadFrame(c)
  BY SMTT(30), <1>1 DEF ReadFrame, loopVars, shutVars, ctxVars
<1>2. CASE PushFrame(c)
  <2>1. Append(eventCh[c], frames[c]) \in Seq(Nat)
    BY AppendProperties
  <2> QED
    BY <1>2, <2>1 DEF PushFrame, loopVars, shutVars, ctxVars
<1>3. CASE PushAbandoned(c)
  BY <1>3 DEF PushAbandoned, loopVars, shutVars, ctxVars
<1>4. CASE PushStalls(c)
  BY <1>4 DEF PushStalls, Close, loopVars, shutVars, ctxVars
<1>5. CASE ScanEnds(c)
  BY <1>5 DEF ScanEnds, Close, loopVars, shutVars, ctxVars
<1> QED
  BY <1>1, <1>2, <1>3, <1>4, <1>5 DEF ReaderStep, PushStep, StreamEnds, ReaderEnds

\* A reader's step: it counts a frame, hands it over, or closes the client.
LEMMA ReaderKeeps ==
    ASSUME RecInv, NEW c \in Clients, ReaderStep(c)
    PROVE  RecInv'
<1> USE DEF RecInv
<1> USE DEF ReaderStep, PushStep, StreamEnds, ReaderEnds
<1>1. RecTypeOK'
  BY ReaderTypes
<1>2. CountsAgree'
  BY DEF ReadFrame, PushFrame, PushAbandoned, PushStalls, ScanEnds,
         CountsAgree, loopVars
<1>3. OldClosed' /\ NoLeakedStream'
  BY ZenonT(30) DEF ReadFrame, PushFrame, PushAbandoned, PushStalls, ScanEnds, Close,
         RecTypeOK, OldClosed, NoLeakedStream, loopVars
<1>4. StreamsInOrder'
  <2> SUFFICES ASSUME NEW d \in Clients PROVE InOrder(d)'
    BY DEF StreamsInOrder
  <2>0. InOrder(d)
    BY DEF StreamsInOrder
  <2>1. CASE ReadFrame(c)
    BY <2>0, <2>1 DEF ReadFrame, InOrder, RecTypeOK
  <2>2. CASE PushFrame(c)
    <3>1. d # c => InOrder(d)'
      BY <2>0, <2>2 DEF PushFrame, InOrder, RecTypeOK
    <3>2. CASE d = c
      <4>0. eventCh'[c] = Append(eventCh[c], frames[c])
        BY <2>2 DEF PushFrame, RecTypeOK
      <4>1. reader'[c] = "reading" /\ got'[c] = got[c] /\ frames'[c] = frames[c]
        BY <2>2 DEF PushFrame, RecTypeOK
      <4>2. eventCh[c] \in Seq(Nat) /\ frames[c] \in Nat /\ got[c] \in Seq(Nat)
        BY DEF RecTypeOK
      <4>3. frames[c] = Len(got[c]) + Len(eventCh[c]) + 1
        BY <2>0, <2>2, <3>2 DEF InOrder, PushFrame
      <4>4. Len(got[c]) \in Nat /\ Len(eventCh[c]) \in Nat
        BY <4>2, LenProperties
      <4>5. /\ Consecutive(eventCh'[c], Len(got[c]))
            /\ Len(eventCh'[c]) = Len(eventCh[c]) + 1
        <5>1. Consecutive(eventCh[c], Len(got[c]))
          BY <2>0, <3>2 DEF InOrder
        <5> HIDE DEF RecInv, ReaderStep
        <5>2. /\ Consecutive(Append(eventCh[c], frames[c]), Len(got[c]))
              /\ Len(Append(eventCh[c], frames[c])) = Len(eventCh[c]) + 1
          BY <5>1, <4>2, <4>3, <4>4, ConsecutiveAppend, Zenon
        <5> QED
          BY <5>2, <4>0, Zenon
      <4>6. frames'[c] = Len(got'[c]) + Len(eventCh'[c])
        <5> HIDE DEF RecInv, ReaderStep
        <5>1. Len(eventCh'[c]) = Len(eventCh[c]) + 1
          BY <4>5, Zenon
        <5>2. frames[c] = Len(got[c]) + (Len(eventCh[c]) + 1)
          BY <4>3, <4>4, PushSum, Zenon
        <5> QED
          BY <4>1, <5>1, <5>2, Zenon
      <4> QED
        BY <2>0, <3>2, <4>1, <4>5, <4>6 DEF InOrder
    <3> QED
      BY <3>1, <3>2
  <2>3. CASE PushAbandoned(c) \/ PushStalls(c) \/ ScanEnds(c)
    BY <2>0, <2>3 DEF PushAbandoned, PushStalls, ScanEnds, InOrder, RecTypeOK
  <2> QED
    BY <2>1, <2>2, <2>3
<1> QED
  BY <1>1, <1>2, <1>3, <1>4

\* A received event is the next of its stream and clears the counts.
LEMMA RecvOkKeeps ==
    ASSUME RecInv, RecvOk
    PROVE  RecInv'
<1> USE DEF RecInv
<1> USE DEF RecvOk, TakeEvent, Goto
<1>0. /\ eventCh[client] \in Seq(Nat) /\ got[client] \in Seq(Nat)
      /\ eventCh[client] # <<>> /\ client \in Clients
  BY DEF RecTypeOK
<1>1. RecTypeOK'
  <2>1. got'[client] \in Seq(Nat) /\ eventCh'[client] \in Seq(Nat)
    BY SMTT(30), <1>0 DEF RecTypeOK
  <2> QED
    BY SMTT(30), <2>1, ReconnectAssumption DEF RecTypeOK, LoopState, shutVars, ctxVars
<1>2. CountsAgree'
  BY ReconnectAssumption DEF CountsAgree
<1>3. OldClosed' /\ NoLeakedStream'
  BY DEF OldClosed, NoLeakedStream
<1>4. StreamsInOrder'
  <2> SUFFICES ASSUME NEW d \in Clients PROVE InOrder(d)'
    BY DEF StreamsInOrder
  <2>0. InOrder(d)
    BY DEF StreamsInOrder
  <2>1. d # client => InOrder(d)'
    BY <2>0 DEF InOrder, RecTypeOK
  <2>2. CASE d = client
    <3>1. /\ got'[d] = Append(got[d], Head(eventCh[d]))
          /\ eventCh'[d] = Tail(eventCh[d])
          /\ reader'[d] = reader[d] /\ frames'[d] = frames[d]
      BY <2>2 DEF RecTypeOK
    <3>2. Len(got[d]) \in Nat /\ frames[d] \in Nat
      BY <1>0, <2>2, LenProperties DEF RecTypeOK
    <3>3. /\ Head(eventCh[d]) = Len(got[d]) + 1
          /\ Consecutive(eventCh'[d], Len(got[d]) + 1)
          /\ Len(eventCh'[d]) = Len(eventCh[d]) - 1
          /\ Len(eventCh[d]) \in Nat
      BY <1>0, <2>0, <2>2, <3>1, <3>2, ConsecutiveTail DEF InOrder
    <3>4. Head(eventCh[d]) = 0 + Len(got[d]) + 1
      BY <3>2, <3>3
    <3>5. Consecutive(got'[d], 0) /\ Len(got'[d]) = Len(got[d]) + 1
      BY <1>0, <2>0, <2>2, <3>1, <3>4, ConsecutiveAppend DEF InOrder
    <3>6. Len(got'[d]) + Len(eventCh'[d]) = Len(got[d]) + Len(eventCh[d])
      <4> HIDE DEF RecInv, RecvOk
      <4>1. (Len(got[d]) + 1) + (Len(eventCh[d]) - 1) = Len(got[d]) + Len(eventCh[d])
        BY <3>2, <3>3, TakeSum, Zenon
      <4> QED
        BY <3>3, <3>5, <4>1, Zenon
    <3> QED
      BY <2>0, <3>1, <3>3, <3>5, <3>6 DEF InOrder
  <2> QED
    BY <2>1, <2>2
<1> QED
  BY <1>1, <1>2, <1>3, <1>4

\* A dial that succeeds replaces a closed client by an empty open one.
LEMMA DialOkKeeps ==
    ASSUME RecInv, NEW c \in Clients, DialOk(c)
    PROVE  RecInv'
<1> USE DEF RecInv
<1> USE DEF DialOk, FreshClient, Goto, CountTry
<1>1. RecTypeOK'
  BY ReconnectAssumption DEF RecTypeOK, LoopState, shutVars, ctxVars
<1>2. CountsAgree'
  BY ReconnectAssumption DEF CountsAgree, RecTypeOK
<1>3. OldClosed' /\ NoLeakedStream'
  BY DEF OldClosed, NoLeakedStream, RecTypeOK
<1>4. StreamsInOrder'
  <2> SUFFICES ASSUME NEW d \in Clients PROVE InOrder(d)'
    BY DEF StreamsInOrder
  <2>1. d # c => InOrder(d)'
    BY DEF StreamsInOrder, InOrder, RecTypeOK
  <2>2. CASE d = c
    <3>1. /\ got'[d] = <<>> /\ eventCh'[d] = <<>>
          /\ frames'[d] = 0 /\ reader'[d] = "reading"
      BY <2>2 DEF RecTypeOK
    <3>2. Len(got'[d]) = 0 /\ Len(eventCh'[d]) = 0
      BY <3>1
    <3>3. Consecutive(got'[d], 0) /\ Consecutive(eventCh'[d], Len(got'[d]))
      BY <3>2 DEF Consecutive
    <3>4. frames'[d] = Len(got'[d]) + Len(eventCh'[d]) /\ reader'[d] # "pushing"
      <4> HIDE DEF RecInv, DialOk
      <4>1. 0 = 0 + 0 /\ "reading" # "pushing"
        OBVIOUS
      <4> QED
        BY <3>1, <3>2, <4>1, Zenon
    <3> QED
      BY <3>3, <3>4 DEF InOrder
  <2> QED
    BY <2>1, <2>2
<1> QED
  BY <1>1, <1>2, <1>3, <1>4

\* The other steps of the loop leave the streams' data alone.
LEMMA LoopKeeps ==
    ASSUME RecInv,
           \/ RecvFails \/ HandleEvent \/ CountFailure \/ WaitStep
           \/ DialFails \/ CheckShutdown \/ StoreCurrent
    PROVE  RecInv'
<1> USE DEF RecInv
<1> USE DEF RecvFails, HandleEvent, CountFailure, WaitStep, WaitCancelled,
            WaitOver, DialFails, CheckShutdown, StoreCurrent, Return, Goto
<1>1. RecTypeOK' /\ CountsAgree'
  <2> USE ReconnectAssumption
  <2> USE DEF RecTypeOK, CountsAgree, LoopState, shutVars, ctxVars, streamVars
  <2>1. CASE RecvFails
    BY <2>1
  <2>2. CASE HandleEvent \/ StoreCurrent
    BY SMTT(30), <2>2
  <2>3. CASE WaitStep
    BY <2>3
  <2>4. CASE CountFailure
    BY <2>4
  <2>5. CASE DialFails
    BY <2>5 DEF CountTry
  <2>6. CASE CheckShutdown
    BY <2>6 DEF Close
  <2> QED
    BY <2>1, <2>2, <2>3, <2>4, <2>5, <2>6
<1>2. OldClosed' /\ NoLeakedStream'
  BY DEF OldClosed, NoLeakedStream, RecTypeOK, Close, streamVars
<1>3. StreamsInOrder'
  BY DataUnchanged DEF streamVars
<1> QED
  BY <1>1, <1>2, <1>3

\* The inductive invariant of the receive loop: types, the count of failures,
\* the ownership of the open stream and the order of its events.
THEOREM RecInvariant == RecSpec => []RecInv
<1>1. Init => RecInv
  BY InitHolds
<1>2. RecInv /\ [Next]_recVars => RecInv'
  <2> SUFFICES ASSUME RecInv, [Next]_recVars PROVE RecInv'
    OBVIOUS
  <2>1. CASE Cancel \/ ShutStep
    BY <2>1, OutsideKeeps
  <2>2. CASE \E c \in Clients : ReaderStep(c)
    BY <2>2, ReaderKeeps
  <2>3. CASE RecvOk
    BY <2>3, RecvOkKeeps
  <2>4. CASE \E c \in Clients : DialOk(c)
    BY <2>4, DialOkKeeps
  <2>5. CASE \/ RecvFails \/ HandleEvent \/ CountFailure \/ WaitStep
             \/ DialFails \/ CheckShutdown \/ StoreCurrent
    BY <2>5, LoopKeeps
  <2>6. CASE UNCHANGED recVars
    BY <2>6 DEF recVars, loopVars, shutVars, ctxVars, streamVars, RecInv,
                RecTypeOK, CountsAgree, OldClosed, NoLeakedStream,
                StreamsInOrder, InOrder
  <2> QED
    BY <2>1, <2>2, <2>3, <2>4, <2>5, <2>6 DEF Next, LoopStep, Receive, Dial
<1> QED
  BY <1>1, <1>2, PTL DEF RecSpec

\* Types and ranges of the loop's state: the delay never leaves its bounds.
THEOREM RecTypeCorrect == RecSpec => []RecTypeOK
<1>1. RecInv => RecTypeOK
  BY DEF RecInv
<1> QED
  BY <1>1, RecInvariant, PTL

\* What the loop receives of a stream is a prefix of what the stream carried.
THEOREM ReceivesInOrder == RecSpec => []ReceivedPrefix
<1>1. RecInv => ReceivedPrefix
  <2> SUFFICES ASSUME RecInv, NEW c \in Clients, NEW i \in 1 .. Len(got[c])
               PROVE  got[c][i] = i
    BY DEF ReceivedPrefix
  <2>1. got[c][i] = 0 + i
    BY DEF RecInv, StreamsInOrder, InOrder, Consecutive
  <2> QED
    BY <2>1
<1> QED
  BY <1>1, RecInvariant, PTL

\* Only the loop's own client may be open, and none after the return.
THEOREM StreamsAreOwned == RecSpec => []NoLeakedStream
<1>1. RecInv => NoLeakedStream
  BY DEF RecInv
<1> QED
  BY <1>1, RecInvariant, PTL

\* The loop gives up exactly when the attempts without an event are used up.
THEOREM GivesUpOnlyWhenEarned == RecSpec => []GiveUpEarned
<1>1. RecInv => GiveUpEarned
  BY DEF RecInv, CountsAgree, GiveUpEarned
<1> QED
  BY <1>1, RecInvariant, PTL
=============================================================================
