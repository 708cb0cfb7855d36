--------------------------- MODULE StateFilesProofs ---------------------------
(***************************************************************************)
(* Proofs about StateFiles, for any number of changes, failures, attempts  *)
(* and crashes: its safety properties.  They rest on FilesInv, and what is *)
(* said of the final flush on FlushInv.                                    *)
(***************************************************************************)
EXTENDS StateFiles, TLAPS

USE StateFilesAssumption DEF StateFilesAssumption

(* The parts of TypeOK.  Zenon handles Boolean-valued variables, SMT the numbers. *)
TypeSwitches == shutdown \in BOOLEAN /\ flushing \in BOOLEAN
TypeFiles ==
  /\ file \in [Files -> Snapshots \cup {None, Partial}]
  /\ tmp \in [Files -> Snapshots \cup {None, Partial}]
  /\ last \in [Files -> Snapshots \cup {None}]
  /\ lastError \in [Files -> Errors \cup {NoError}]
TypeSave ==
  /\ writer \in {"down", "top", "build", "compare", "rebuild", "open", "write",
                 "replace", "commit", "exited"}
  /\ target \in Files /\ due \in SUBSET Files
  /\ payload \in Snapshots /\ content \in Snapshots /\ attempts \in 0..(MaxAttempts - 1)
TypeCounts ==
  now \in Snapshots /\ stopAt \in Snapshots /\ faults \in 0..FaultBound /\ crashes \in 0..CrashBound

LEMMA Parts == TypeOK <=> TypeSwitches /\ TypeFiles /\ TypeSave /\ TypeCounts
BY Zenon DEF TypeOK, TypeSwitches, TypeFiles, TypeSave, TypeCounts

LEMMA Numbers ==
  /\ Latest \in Nat /\ Latest >= 1 /\ None \notin Snapshots /\ Partial \notin Snapshots
  /\ None # Partial /\ 1 \in Snapshots /\ NoError \notin Errors
  /\ \A s \in Snapshots : s \in Nat /\ s >= 1 /\ s <= Latest
BY DEF Latest, Snapshots, None, Partial, NoError, Errors

LEMMA FilesInit == Init => FilesInv /\ FlushInv
<1> SUFFICES ASSUME Init PROVE FilesInv /\ FlushInv
  OBVIOUS
<1>1. TypeSwitches
  BY Zenon DEF Init, TypeSwitches
<1>2. TypeFiles /\ TypeSave /\ TypeCounts
  BY Numbers DEF Init, Fresh, Files, TypeFiles, TypeSave, TypeCounts
<1>3. NowInv /\ SaveInv /\ ReadersSeeWholeFiles /\ CacheIsOnDisk
  BY Numbers DEF Init, Fresh, NowInv, SaveInv, Saving, Writing, ReadersSeeWholeFiles, CacheIsOnDisk,
     None
<1>4. FlushInv
  BY DEF Init, FlushInv, Flushed
<1> QED BY <1>1, <1>2, <1>3, <1>4, Parts DEF FilesInv

-----------------------------------------------------------------------------
(* The helpers *)

(* One file is saved at a time, and never one that is not due. *)
LEMMA FirstIsDue ==
  ASSUME NEW files \in SUBSET Files, files # {}
  PROVE  First(files) \in files
BY DEF First, Files

(* A save returns to the next file, to the loop or out of the thread. *)
LEMMA ReturnLeads ==
  ASSUME TypeSave, Return
  PROVE  /\ writer' \in {"build", "top", "exited"} /\ TypeSave'
         /\ UNCHANGED <<payload, content>>
BY FirstIsDue DEF Return, StartSave, TypeSave

LEMMA SwitchesPreserved == ASSUME FilesInv, Next PROVE TypeSwitches'
<1>0. TypeSwitches
  BY Parts DEF FilesInv
<1>1. CASE ChangeData \/ RequestStop \/ Crash \/ Restart
  BY <1>0, <1>1, Zenon DEF ChangeData, RequestStop, Crash, Restart, save, TypeSwitches
<1>2. CASE FinalFlush \/ \E files \in (SUBSET Files) \ {{}} : Pass(files)
  BY <1>0, <1>2, Zenon DEF FinalFlush, Pass, world, TypeSwitches
<1>3. CASE SaveStep
  BY <1>0, <1>3, Zenon DEF SaveStep, Build, Compare, Rebuild, OpenTmp, WriteTmp, Replace, Commit,
     Fail, Return, world, save, TypeSwitches
<1> QED BY <1>1, <1>2, <1>3 DEF Next

LEMMA SavePreserved == ASSUME FilesInv, Next PROVE TypeSave'
<1>0. TypeSave /\ now \in Snapshots
  BY Parts DEF FilesInv, TypeCounts
<1>1. CASE ChangeData \/ RequestStop \/ Crash \/ Restart
  BY <1>0, <1>1 DEF ChangeData, RequestStop, Crash, Restart, save, TypeSave
<1>2. CASE FinalFlush \/ \E files \in (SUBSET Files) \ {{}} : Pass(files)
  <2>1. ASSUME NEW files \in SUBSET Files, files # {}, StartSave(files) PROVE TypeSave'
    <3>1. First(files) \in files
      BY <2>1, FirstIsDue
    <3> QED BY <1>0, <2>1, <3>1 DEF StartSave, TypeSave
  <2>2. CASE FinalFlush
    BY <2>1, <2>2 DEF FinalFlush, Files
  <2>3. ASSUME NEW files \in (SUBSET Files) \ {{}}, Pass(files) PROVE TypeSave'
    <3>1. files \in SUBSET Files /\ files # {}
      OBVIOUS
    <3>2. StartSave(files)
      BY <2>3 DEF Pass
    <3> QED BY <2>1, <3>1, <3>2
  <2> QED BY <1>2, <2>2, <2>3
<1>3. CASE Build \/ Compare \/ Rebuild \/ Commit
  BY <1>0, <1>3, ReturnLeads DEF Build, Compare, Rebuild, Commit, save, TypeSave
<1>4. CASE OpenTmp \/ WriteTmp
  BY <1>0, <1>4, ReturnLeads DEF OpenTmp, WriteTmp, Fail, save, TypeSave
<1>5. CASE Replace
  BY <1>0, <1>5, ReturnLeads DEF Replace, LastAttempt, Fail, save, TypeSave
<1> QED BY <1>1, <1>2, <1>3, <1>4, <1>5 DEF Next, SaveStep

LEMMA FilesPreserved == ASSUME FilesInv, Next PROVE TypeFiles'
<1>0. TypeFiles /\ TypeSave
  BY Parts DEF FilesInv
<1>1. CASE ChangeData \/ RequestStop \/ Crash \/ Restart
  BY <1>0, <1>1 DEF ChangeData, RequestStop, Crash, Restart, disk, cache, Fresh, TypeFiles
<1>2. CASE FinalFlush \/ \E files \in (SUBSET Files) \ {{}} : Pass(files)
  BY <1>0, <1>2 DEF FinalFlush, Pass, disk, cache, TypeFiles
<1>3. CASE Build \/ Compare \/ Rebuild \/ Commit
  BY <1>0, <1>3 DEF Build, Compare, Rebuild, Commit, Reported, disk, cache, TypeFiles, TypeSave
<1>4. CASE OpenTmp \/ WriteTmp
  BY <1>0, <1>4 DEF OpenTmp, WriteTmp, TmpIs, Fail, Reported, Errors, cache, TypeFiles, TypeSave
<1>5. CASE Replace
  BY <1>0, <1>5 DEF Replace, TmpIs, Fail, Reported, Errors, disk, cache, TypeFiles, TypeSave
<1> QED BY <1>1, <1>2, <1>3, <1>4, <1>5 DEF Next, SaveStep

(* Every restart was preceded by a crash, which brought a change of its own. *)
LEMMA CountsPreserved == ASSUME FilesInv, Next PROVE TypeCounts' /\ NowInv'
<1>0. TypeCounts /\ TypeSave /\ NowInv
  BY Parts DEF FilesInv
<1>1. CASE ChangeData \/ RequestStop \/ Crash \/ Restart
  BY <1>0, <1>1 DEF ChangeData, RequestStop, Crash, Restart, TypeCounts, TypeSave, NowInv, Snapshots,
     Latest
<1>2. CASE FinalFlush \/ \E files \in (SUBSET Files) \ {{}} : Pass(files)
  BY <1>0, <1>2 DEF FinalFlush, Pass, StartSave, world, TypeCounts, NowInv
<1>3. CASE SaveStep
  <2>1. writer # "down" /\ writer' # "down" /\ UNCHANGED world /\ faults' \in 0..FaultBound
    BY <1>0, <1>3, ReturnLeads DEF SaveStep, Build, Compare, Rebuild, OpenTmp, WriteTmp, Replace,
       Commit, Fail, TypeCounts
  <2> QED BY <1>0, <2>1 DEF world, TypeCounts, NowInv
<1> QED BY <1>1, <1>2, <1>3 DEF Next

-----------------------------------------------------------------------------
(* What a save carries, and what the files and the cache hold *)

LEMMA SaveInvPreserved == ASSUME FilesInv, Next PROVE SaveInv'
<1>0. TypeFiles /\ TypeSave /\ TypeCounts /\ NowInv /\ SaveInv
  BY Parts DEF FilesInv
<1>1. CASE ChangeData \/ RequestStop
  BY <1>0, <1>1, Numbers DEF ChangeData, RequestStop, disk, cache, save, TypeFiles, TypeSave, TypeCounts,
     SaveInv, Saving, Writing, Snapshots, None
<1>2. CASE Crash \/ Restart
  BY <1>0, <1>2, Numbers DEF Crash, Restart, Fresh, disk, cache, save, TypeCounts, TypeFiles,
     SaveInv, Saving, Writing, None, Snapshots
<1>3. CASE FinalFlush \/ \E files \in (SUBSET Files) \ {{}} : Pass(files)
  BY <1>0, <1>3 DEF FinalFlush, Pass, StartSave, cache, world, SaveInv, Saving, Writing
<1>4. CASE Build \/ Compare
  BY <1>0, <1>4, ReturnLeads, Numbers DEF Build, Compare, save, cache, world, SaveInv, Saving, Writing,
     TypeSave, TypeCounts
<1>5. CASE Rebuild
  BY <1>0, <1>5, Numbers DEF Rebuild, cache, world, SaveInv, Saving, Writing, TypeSave, TypeCounts
<1>6. CASE OpenTmp \/ WriteTmp
  BY <1>0, <1>6, ReturnLeads DEF OpenTmp, WriteTmp, TmpIs, Fail, save, cache, world, SaveInv, Saving,
     Writing, TypeFiles, TypeSave
<1>7. CASE Replace
  BY <1>0, <1>7, ReturnLeads DEF Replace, TmpIs, Fail, save, disk, cache, world, SaveInv, Saving,
     Writing, TypeFiles, TypeSave
<1>8. CASE Commit
  BY <1>0, <1>8, ReturnLeads DEF Commit, world, SaveInv, Saving, Writing, TypeFiles, TypeSave
<1> QED BY <1>1, <1>2, <1>3, <1>4, <1>5, <1>6, <1>7, <1>8 DEF Next, SaveStep

(* Only the rename changes a file, and only the last step of a save the cache. *)
LEMMA DiskPreserved == ASSUME FilesInv, Next PROVE ReadersSeeWholeFiles' /\ CacheIsOnDisk'
<1>0. TypeFiles /\ TypeSave /\ SaveInv /\ ReadersSeeWholeFiles /\ CacheIsOnDisk
  BY Parts DEF FilesInv
<1>1. CASE ChangeData \/ RequestStop \/ Crash \/ Restart
  BY <1>0, <1>1 DEF ChangeData, RequestStop, Crash, Restart, Fresh, disk, cache,
     ReadersSeeWholeFiles, CacheIsOnDisk
<1>2. CASE FinalFlush \/ \E files \in (SUBSET Files) \ {{}} : Pass(files)
  BY <1>0, <1>2 DEF FinalFlush, Pass, disk, cache, ReadersSeeWholeFiles, CacheIsOnDisk
<1>3. CASE Build \/ Compare \/ Rebuild \/ OpenTmp \/ WriteTmp
  BY <1>0, <1>3 DEF Build, Compare, Rebuild, OpenTmp, WriteTmp, Fail, disk, cache,
     ReadersSeeWholeFiles, CacheIsOnDisk
<1>4. CASE Replace
  <2>1. CASE UNCHANGED <<file, last>>
    BY <1>0, <2>1 DEF ReadersSeeWholeFiles, CacheIsOnDisk
  <2>2. CASE file' = [file EXCEPT ![target] = tmp[target]] /\ UNCHANGED last
    BY <1>0, <1>4, <2>2, Numbers DEF Replace, SaveInv, Writing, TypeFiles, TypeSave,
       ReadersSeeWholeFiles, CacheIsOnDisk
  <2> QED BY <1>4, <2>1, <2>2 DEF Replace, Fail, disk, cache
<1>5. CASE Commit
  BY <1>0, <1>5 DEF Commit, disk, SaveInv, Writing, TypeFiles, TypeSave, ReadersSeeWholeFiles,
     CacheIsOnDisk
<1> QED BY <1>1, <1>2, <1>3, <1>4, <1>5 DEF Next, SaveStep

LEMMA FilesStep == FilesInv /\ [Next]_vars => FilesInv'
<1>1. ASSUME FilesInv, Next PROVE FilesInv'
  <2>1. TypeOK'
    BY <1>1, Parts, SwitchesPreserved, FilesPreserved, SavePreserved, CountsPreserved
       DEF TypeOK, TypeSwitches, TypeFiles, TypeSave, TypeCounts
  <2> QED BY <1>1, <2>1, CountsPreserved, SaveInvPreserved, DiskPreserved DEF FilesInv
<1>2. ASSUME FilesInv, UNCHANGED vars PROVE FilesInv'
  BY <1>2 DEF vars, disk, cache, save, world, FilesInv, TypeOK, NowInv, SaveInv, Saving, Writing,
     ReadersSeeWholeFiles, CacheIsOnDisk
<1> QED BY <1>1, <1>2

(* Data, save under way, files and cache together: what follows rests on it
   (metrics_store.cpp, atomic_file.cpp). *)
THEOREM FilesInductive == Spec => []FilesInv
BY FilesInit, FilesStep, PTL DEF Spec

(* A reader never meets a file with a part of its content (atomic_file.cpp:62-105). *)
THEOREM FilesAlwaysWhole == Spec => []ReadersSeeWholeFiles
<1>1. FilesInv => ReadersSeeWholeFiles
  BY DEF FilesInv
<1> QED BY <1>1, FilesInductive, PTL

(* Every variable keeps its type: the attempts end at kMaxAttempts (atomic_file.cpp:33-58). *)
THEOREM FilesTypeCorrect == Spec => []TypeOK
<1>1. FilesInv => TypeOK
  BY DEF FilesInv
<1> QED BY <1>1, FilesInductive, PTL

(* A cached payload is one that the file contains or has outlived, whatever failed and
   however often the process ended (metrics_store.cpp:128-157). *)
THEOREM CacheTrustworthy == Spec => []CacheIsOnDisk
<1>1. FilesInv => CacheIsOnDisk
  BY DEF FilesInv
<1> QED BY <1>1, FilesInductive, PTL

-----------------------------------------------------------------------------
(* The final flush, whether or not the data return to what they were *)

(* Skipped or written, a save of the final flush that reports no error leaves a payload
   remembered that says what its own, built after the shutdown, says. *)
LEMMA SavedIsSaid ==
  ASSUME FilesInv, flushing, stopAt <= payload, Saving,
         NEW p, p = payload \/ (p = last[target] /\ Unchanged(target))
  PROVE  SaidSinceStop(p)
<1>1. payload \in stopAt..now
  BY Parts, Numbers DEF FilesInv, TypeSave, TypeCounts, SaveInv
<1>2. p # None /\ Value(p) = Value(payload)
  BY Parts, Numbers DEF FilesInv, TypeSave, Unchanged
<1> QED BY <1>1, <1>2 DEF SaidSinceStop

(* The end of a save, in whatever way, if what is remembered of its file was said since the
   shutdown, or its error is outstanding *)
Ending ==
  /\ Return /\ writer \in {"compare", "open", "write", "replace", "commit"}
  /\ UNCHANGED <<shutdown, stopAt, now>>
  /\ \A f \in Files \ {target} : lastError'[f] = lastError[f] /\ last'[f] = last[f]
  /\ flushing /\ lastError'[target] = NoError => SaidSinceStop(last'[target])

LEMMA EndingKeeps == ASSUME FilesInv, FlushInv, Ending PROVE FlushInv'
<1>0. TypeSave /\ FlushInv
  BY Parts DEF FilesInv
<1>1. CASE ~flushing
  <2>1. writer' \in {"build", "top"} /\ ~flushing'
    BY <1>0, <1>1 DEF Ending, Return, StartSave
  <2> QED BY <1>0, <2>1 DEF FlushInv, Flushed, Ending, Saving
<1>2. CASE flushing
  <2>1. /\ flushing' /\ writer' \in {"build", "exited"} /\ target' \notin due'
        /\ (writer' = "exited" => due' = {})
    BY <1>0, <1>2, FirstIsDue DEF Ending, Return, StartSave, FlushInv, TypeSave
  <2>2. Flushed' \subseteq Flushed \cup {target}
    <3>1. CASE due = {}
      BY <1>0, <1>2, <3>1 DEF Flushed, Ending, Return
    <3>2. CASE due # {}
      BY <1>0, <1>2, <3>2, FirstIsDue DEF Flushed, Ending, Return, StartSave, TypeSave
    <3> QED BY <3>1, <3>2
  <2>3. \A f \in Flushed' : lastError'[f] = NoError => SaidSinceStop(last'[f])
    BY <1>0, <1>2, <2>2 DEF Ending, FlushInv, Flushed
  <2>4. \A f \in Flushed' : lastError'[f] = NoError => SaidSinceStop(last[f])'
    BY <2>3 DEF Ending, SaidSinceStop
  <2> QED BY <1>0, <1>2, <2>1, <2>4 DEF FlushInv, Saving, Ending
<1> QED BY <1>1, <1>2

(* While neither the data nor the cache change, what was said stays said. *)
LEMMA SaidStays ==
  ASSUME UNCHANGED <<now, stopAt, last>>
  PROVE  \A f \in Files : SaidSinceStop(last[f])' <=> SaidSinceStop(last[f])
BY DEF SaidSinceStop

LEMMA FlushPreserved == ASSUME FilesInv, FlushInv, Next PROVE FlushInv'
<1>0. TypeFiles /\ TypeSave /\ TypeCounts /\ NowInv
  BY Parts DEF FilesInv
<1>1. CASE ChangeData
  <2>1. ASSUME NEW p, SaidSinceStop(p) PROVE SaidSinceStop(p)'
    BY <1>0, <1>1, <2>1, Numbers DEF ChangeData, TypeCounts, SaidSinceStop
  <2>2. UNCHANGED <<cache, save, writer, shutdown, stopAt>>
    BY <1>1 DEF ChangeData
  <2>3. \A f \in Files : SaidSinceStop(last[f]) => SaidSinceStop(last[f])'
    BY <2>1, <2>2 DEF cache, SaidSinceStop
  <2> QED BY <2>2, <2>3 DEF cache, save, FlushInv, Flushed, Saving
<1>2. CASE RequestStop \/ Crash \/ Restart
  <2>1. ~flushing' /\ writer' # "exited"
    BY <1>0, <1>2 DEF RequestStop, Crash, Restart, save, FlushInv
  <2> QED BY <2>1 DEF FlushInv, Flushed
<1>3. CASE \E files \in (SUBSET Files) \ {{}} : Pass(files)
  <2>1. ~flushing' /\ writer' # "exited"
    BY <1>3 DEF Pass, StartSave, FlushInv
  <2> QED BY <2>1 DEF FlushInv, Flushed
<1>4. CASE FinalFlush
  <2>1. /\ target' = "metrics" /\ due' = {"health"} /\ flushing' /\ writer' = "build"
        /\ shutdown'
    BY <1>4 DEF FinalFlush, StartSave, First, Files, world
  <2> QED BY <2>1 DEF FlushInv, Flushed, Files, Saving
<1>5. CASE Build
  BY <1>0, <1>5, SaidStays DEF Build, disk, cache, world, NowInv, FlushInv, Flushed, Saving
<1>6. CASE Rebuild
  BY <1>6, SaidStays DEF Rebuild, disk, cache, world, FlushInv, Flushed, Saving
<1>7. CASE Compare
  <2>1. CASE Unchanged(target)
    <3>1. flushing => SaidSinceStop(last[target])
      BY <1>7, <2>1, SavedIsSaid DEF Compare, FlushInv, Saving
    <3>2. Ending
      BY <1>7, <2>1, <3>1 DEF Compare, Ending, disk, cache, world
    <3> QED BY <3>2, EndingKeeps
  <2>2. CASE ~Unchanged(target)
    BY <1>7, <2>2, SaidStays DEF Compare, disk, cache, save, world, FlushInv, Flushed, Saving
  <2> QED BY <2>1, <2>2
<1>8. CASE Commit
  <2>1. flushing => SaidSinceStop(payload)
    BY <1>8, SavedIsSaid DEF Commit, FlushInv, Saving
  <2>2. Ending
    BY <1>0, <1>8, <2>1 DEF Commit, Reported, Ending, world, TypeFiles, TypeSave
  <2> QED BY <2>2, EndingKeeps
<1>9. CASE OpenTmp \/ WriteTmp \/ Replace
  <2>1. CASE \E e \in Errors : Fail(e) /\ UNCHANGED <<file, world>>
    <3>1. PICK e \in Errors : Fail(e) /\ UNCHANGED <<file, world>>
      BY <2>1
    <3>2. Return /\ UNCHANGED <<shutdown, stopAt, now, last>>
      BY <3>1 DEF Fail, world
    <3>3. writer \in {"open", "write", "replace"}
      BY <1>9 DEF OpenTmp, WriteTmp, Replace
    <3>4. lastError' = [lastError EXCEPT ![target] = e] /\ e # NoError
      BY <3>1, Numbers DEF Fail, Reported
    <3>5. Ending
      BY <1>0, <3>2, <3>3, <3>4 DEF Ending, TypeFiles, TypeSave
    <3> QED BY <3>5, EndingKeeps
  <2>2. CASE /\ UNCHANGED <<cache, target, due, flushing, payload, world>>
             /\ writer' \in {"write", "replace", "commit"}
             /\ \A f \in Files \ {target} : file'[f] = file[f]
    BY <1>0, <1>9, <2>2, SaidStays DEF OpenTmp, WriteTmp, Replace, cache, world, FlushInv, Flushed, Saving
  <2>3. (\E e \in Errors : Fail(e) /\ UNCHANGED <<file, world>>)
        \/ /\ UNCHANGED <<cache, target, due, flushing, payload, world>>
           /\ writer' \in {"write", "replace", "commit"}
           /\ \A f \in Files \ {target} : file'[f] = file[f]
    <3>1. CASE OpenTmp \/ WriteTmp
      BY <3>1 DEF OpenTmp, WriteTmp, Errors, save
    <3>2. CASE Replace
      BY <1>0, <3>2 DEF Replace, Errors, disk, save, TypeFiles
    <3> QED BY <1>9, <3>1, <3>2
  <2> QED BY <2>1, <2>2, <2>3
<1> QED BY <1>1, <1>2, <1>3, <1>4, <1>5, <1>6, <1>7, <1>8, <1>9 DEF Next, SaveStep

(* A writer that has ended without an error outstanding has told of the shutdown in both
   files: each is as new as a payload that says what the data said at some time since the
   request, whether or not they had said it before (supervisor.cpp:1043-1045). *)
THEOREM FlushTells == Spec => []FlushTellsOfShutdown
<1>1. FilesInv /\ FlushInv /\ [Next]_vars => FlushInv'
  <2>1. ASSUME FilesInv, FlushInv, UNCHANGED vars PROVE FlushInv'
    BY <2>1, SaidStays DEF vars, disk, cache, save, world, FlushInv, Flushed, Saving
  <2> QED BY <2>1, FlushPreserved
<1>2. FilesInv /\ FlushInv => FlushTellsOfShutdown
  BY DEF FilesInv, CacheIsOnDisk, FlushInv, Flushed, SaidSinceStop, FlushTellsOfShutdown
<1> QED BY <1>1, <1>2, FilesInit, FilesInductive, PTL DEF Spec

-----------------------------------------------------------------------------
(* What readers may rely on *)

(* The order of data, payload, content and file survives every step. *)
LEMMA OrderPreserved == ASSUME FilesInv, OrderInv, Next PROVE OrderInv'
<1>0. TypeFiles /\ TypeSave /\ TypeCounts /\ SaveInv
  BY Parts DEF FilesInv
<1>1. CASE ChangeData \/ RequestStop \/ Crash \/ Restart
  BY <1>0, <1>1, Numbers
     DEF ChangeData, RequestStop, Crash, Restart, disk, save, OrderInv, Saving, Writing, TypeFiles,
         TypeSave, TypeCounts, None, Partial, Snapshots
<1>2. CASE FinalFlush \/ \E files \in (SUBSET Files) \ {{}} : Pass(files)
  BY <1>2 DEF FinalFlush, Pass, StartSave, disk, world, OrderInv, Saving, Writing
<1>3. CASE Build \/ Rebuild
  BY <1>0, <1>3, Numbers
     DEF Build, Rebuild, disk, world, OrderInv, Saving, Writing, TypeSave, TypeCounts
<1>4. CASE Compare \/ Commit
  BY <1>4, ReturnLeads, <1>0 DEF Compare, Commit, disk, save, world, OrderInv, Saving, Writing
<1>5. CASE OpenTmp \/ WriteTmp
  <2>1. UNCHANGED <<file, now, payload, content>>
        /\ \/ Return
           \/ UNCHANGED target /\ writer \in {"open", "write"} /\ writer' \in {"write", "replace"}
    BY <1>0, <1>5, ReturnLeads DEF OpenTmp, WriteTmp, Fail, save, world
  <2> QED BY <1>0, <2>1, ReturnLeads DEF OrderInv, Saving, Writing
<1>6. CASE Replace
  <2>1. CASE /\ UNCHANGED <<file, now, payload, content>>
             /\ Return \/ (UNCHANGED <<writer, target>> /\ writer = "replace")
    BY <1>0, <2>1, ReturnLeads DEF OrderInv, Saving, Writing
  <2>2. CASE /\ file' = [file EXCEPT ![target] = tmp[target]] /\ writer = "replace"
             /\ writer' = "commit" /\ UNCHANGED <<save, world>>
    <3>1. tmp[target] = content /\ content <= now
      BY <1>0, <2>2 DEF SaveInv, OrderInv, Writing
    <3> QED BY <1>0, <2>2, <3>1 DEF save, world, OrderInv, Saving, Writing, TypeFiles, TypeSave
  <2> QED BY <1>0, <1>6, <2>1, <2>2, ReturnLeads DEF Replace, Fail, disk, save, world
<1> QED BY <1>1, <1>2, <1>3, <1>4, <1>5, <1>6 DEF Next, SaveStep

(* So it is inductive beside FilesInv, and holds at the start. *)
LEMMA OrderStep == FilesInv /\ OrderInv /\ [Next]_vars => OrderInv'
<1>1. ASSUME OrderInv, UNCHANGED vars PROVE OrderInv'
  BY <1>1 DEF vars, disk, save, world, OrderInv, Saving, Writing
<1> QED BY <1>1, OrderPreserved

LEMMA OrderInit == Init => OrderInv
BY DEF Init, Fresh, OrderInv, Saving, Writing, None

(* The rename is the only step that a reader can see, and it puts in place a content that is
   complete, no older than what it replaces and no newer than the data. *)
LEMMA OnlyRenameShows ==
  ASSUME FilesInv, OrderInv, Next
  PROVE  [Shown!FilesNext]_(Shown!fileVars)
<1>0. TypeFiles /\ TypeSave /\ TypeCounts /\ SaveInv
  BY Parts DEF FilesInv
<1> USE DEF Shown!FilesNext, Shown!fileVars
<1>1. CASE ChangeData \/ Restart
  BY <1>1 DEF ChangeData, Restart, disk, Shown!Change
<1>2. CASE RequestStop \/ Crash \/ FinalFlush \/ \E files \in (SUBSET Files) \ {{}} : Pass(files)
  BY <1>2 DEF RequestStop, Crash, FinalFlush, Pass, disk, world
<1>3. CASE Build \/ Rebuild \/ Compare \/ Commit \/ OpenTmp \/ WriteTmp
  BY <1>3 DEF Build, Rebuild, Compare, Commit, OpenTmp, WriteTmp, disk, world
<1>4. CASE Replace
  <2>1. CASE UNCHANGED file
    BY <1>4, <2>1 DEF Replace, world
  <2>2. CASE file' = [file EXCEPT ![target] = tmp[target]] /\ writer = "replace" /\ UNCHANGED now
    <3>1. tmp[target] = content /\ content \in 1..now /\ content >= file[target]
      <4>1. tmp[target] = content /\ payload <= content /\ content <= now /\ file[target] <= payload
        BY <1>0, <2>2 DEF SaveInv, OrderInv, Saving, Writing
      <4>2. content \in Nat /\ content >= 1 /\ payload \in Nat /\ now \in Nat /\ file[target] \in Nat
        BY <1>0, Numbers DEF TypeSave, TypeCounts, TypeFiles, None, Partial
      <4> QED BY <4>1, <4>2
    <3>2. Shown!Publish(target)
      BY <2>2, <3>1 DEF Shown!Publish
    <3> QED BY <1>0, <3>2 DEF TypeSave
  <2> QED BY <1>4, <2>1, <2>2 DEF Replace, disk, world
<1> QED BY <1>1, <1>2, <1>3, <1>4 DEF Next, SaveStep

(* A reader sees whole files that never go back in time, through failures, crashes and
   restarts (metrics_store.cpp:119-157, atomic_file.cpp:62-105). *)
THEOREM StateFilesAreSnapshots == Spec => ImplementsSnapshotFiles
<1>1. Init => Shown!FilesInit
  BY DEF Init, Fresh, None, Shown!FilesInit
<1>2. FilesInv /\ OrderInv /\ [Next]_vars => [Shown!FilesNext]_(Shown!fileVars)
  <2>1. ASSUME UNCHANGED vars PROVE UNCHANGED Shown!fileVars
    BY <2>1 DEF vars, disk, world, Shown!fileVars
  <2> QED BY <2>1, OnlyRenameShows
<1> QED BY <1>1, <1>2, OrderInit, OrderStep, FilesInductive, PTL
        DEF Spec, ImplementsSnapshotFiles, Shown!FilesSpec

(* Data that never return to what they were have another value in every snapshot. *)
LEMMA ValueTells ==
  ASSUME Period > Latest, NEW s \in Snapshots
  PROVE  Value(s) = s
BY Numbers DEF Value, Snapshots, Latest

(* docs/metrics.md:7 is right for data that never return to what they were: the file whose
   write is skipped says what the payload says.  A run shows that it is wrong for others. *)
THEOREM SkipsAreSound == ASSUME Period > Latest PROVE Spec => []SkipMeansSame
<1>1. FilesInv /\ OrderInv => SkipMeansSame
  <2>1. ASSUME FilesInv, OrderInv, writer = "compare", Unchanged(target)
        PROVE  Value(file[target]) = Value(payload)
    <3>1. TypeFiles /\ TypeSave /\ CacheIsOnDisk
      BY <2>1, Parts DEF FilesInv
    <3>2. last[target] \in Snapshots /\ Value(last[target]) = Value(payload)
      BY <2>1, <3>1 DEF Unchanged, TypeFiles, TypeSave
    <3>3. last[target] = payload
      BY <3>1, <3>2, ValueTells DEF TypeSave
    <3>4. file[target] \in Snapshots /\ payload <= file[target] /\ file[target] <= payload
      BY <2>1, <3>1, <3>3 DEF CacheIsOnDisk, OrderInv, Saving, TypeSave, Unchanged
    <3>5. file[target] = payload
      BY <3>1, <3>4, Numbers DEF TypeSave
    <3> QED BY <3>5
  <2> QED BY <2>1 DEF SkipMeansSame
<1> QED BY <1>1, OrderInit, OrderStep, FilesInductive, PTL DEF Spec
=============================================================================
