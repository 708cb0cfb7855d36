------------------------------ MODULE StateFiles ------------------------------
(***************************************************************************)
(* metrics.json and health.json: the writer thread of the Supervisor       *)
(* (src/app/supervisor.cpp), the save operations of MetricsStore           *)
(* (src/metrics/metrics_store.cpp) and atomic_file::write                  *)
(* (src/common/atomic_file.cpp), beside the threads that change what is    *)
(* saved, a shutdown request, a crash of the process and its restart.      *)
(*                                                                         *)
(* `now' counts the changes of the saved data.  A snapshot is the count at *)
(* which it was built; what it says, the part compared to skip a write, is *)
(* Value(snapshot).  Period > ChangeBound gives data that never return to  *)
(* an earlier value; a small Period gives a state that does.               *)
(*                                                                         *)
(* A crash is the end of the process, not of the machine: what was written *)
(* stays.  A rename replaces the file or leaves it as it was.              *)
(***************************************************************************)
EXTENDS Naturals

CONSTANTS
  Period,            \* how many changes bring the data back to what they were
  MaxAttempts,       \* kMaxAttempts
  ChangeBound,       \* changes of the data
  FaultBound,        \* failing file operations
  CrashBound         \* crashes

ASSUME StateFilesAssumption ==
  /\ Period \in Nat \ {0} /\ MaxAttempts \in Nat \ {0}
  /\ ChangeBound \in Nat /\ FaultBound \in Nat /\ CrashBound \in Nat

Files == {"metrics", "health"}
Latest == ChangeBound + CrashBound + 1
Snapshots == 1..Latest
None == 0                      \* no file, or no cached payload
Partial == Latest + 1          \* a file with a part of its content
Value(snapshot) == snapshot % Period

VARIABLES
  now,               \* the data, by the number of their changes
  file, tmp,         \* the contents of the target and of its .tmp file
  last,              \* last_metrics_payload_, last_health_payload_
  lastError,         \* metrics_last_error, health_last_error
  writer,            \* where the metrics thread is; "down": no process
  target,            \* the file it is saving
  due,               \* the files to save after it in this pass or in the final flush
  flushing,          \* the final flush has begun
  payload, content,  \* the snapshots of this save
  attempts,          \* MoveFileExW calls of this save that failed
  shutdown,          \* shutdown_requested_
  stopAt,            \* history: the data when shutdown was requested
  faults, crashes    \* failed operations and crashes so far

disk    == <<file, tmp>>
cache   == <<last, lastError>>
save    == <<target, due, flushing, payload, content, attempts>>
world   == <<now, shutdown, stopAt, crashes>>
vars    == <<disk, cache, save, writer, faults, world>>

NoError == "none"
Errors == {"directory", "open", "write", "replace"}

TypeOK ==
  /\ now \in Snapshots /\ stopAt \in Snapshots /\ shutdown \in BOOLEAN
  /\ file \in [Files -> Snapshots \cup {None, Partial}]
  /\ tmp \in [Files -> Snapshots \cup {None, Partial}]
  /\ last \in [Files -> Snapshots \cup {None}]
  /\ lastError \in [Files -> Errors \cup {NoError}]
  /\ writer \in {"down", "top", "build", "compare", "rebuild", "open", "write",
                 "replace", "commit", "exited"}
  /\ target \in Files /\ due \in SUBSET Files /\ flushing \in BOOLEAN
  /\ payload \in Snapshots /\ content \in Snapshots /\ attempts \in 0..(MaxAttempts - 1)
  /\ faults \in 0..FaultBound /\ crashes \in 0..CrashBound

Fresh(x) == [f \in Files |-> x]

Init ==
  /\ now = 1 /\ file = Fresh(None) /\ tmp = Fresh(None)
  /\ last = Fresh(None) /\ lastError = Fresh(NoError)
  /\ writer = "top" /\ target = "metrics" /\ due = {} /\ flushing = FALSE
  /\ payload = 1 /\ content = 1 /\ attempts = 0
  /\ shutdown = FALSE /\ stopAt = 1 /\ faults = 0 /\ crashes = 0

-----------------------------------------------------------------------------
(* The other threads, and the process *)

(* set_state(), the other setters and the counters *)
ChangeData ==
  /\ writer # "down" /\ now <= ChangeBound + crashes /\ now' = now + 1
  /\ UNCHANGED <<disk, cache, save, writer, faults, shutdown, stopAt, crashes>>

RequestStop ==
  /\ writer # "down" /\ ~shutdown /\ shutdown' = TRUE /\ stopAt' = now
  /\ UNCHANGED <<disk, cache, save, writer, faults, now, crashes>>

(* The process ends at any point and loses its memory; both files stay as they are. *)
Crash ==
  /\ writer \notin {"down", "exited"} /\ crashes < CrashBound /\ crashes' = crashes + 1
  /\ writer' = "down" /\ last' = Fresh(None) /\ lastError' = Fresh(NoError)
  /\ due' = {} /\ flushing' = FALSE /\ attempts' = 0
  /\ UNCHANGED <<disk, target, payload, content, faults, now, shutdown, stopAt>>

Restart ==
  /\ writer = "down" /\ writer' = "top" /\ now' = now + 1
  /\ shutdown' = FALSE /\ stopAt' = now'
  /\ UNCHANGED <<disk, cache, save, faults, crashes>>

-----------------------------------------------------------------------------
(* metrics_writer_thread_func(): metrics.json comes first *)

First(files) == IF "metrics" \in files THEN "metrics" ELSE "health"

StartSave(files) ==
  /\ target' = First(files) /\ due' = files \ {First(files)}
  /\ attempts' = 0 /\ writer' = "build" /\ UNCHANGED <<payload, content>>

(* One pass of the loop: the timers of `files' have expired. *)
Pass(files) ==
  /\ writer = "top" /\ ~shutdown /\ StartSave(files)
  /\ UNCHANGED <<flushing, disk, cache, faults, world>>

SlipNoFlush ==
  /\ writer = "top" /\ shutdown /\ writer' = "exited"
  /\ UNCHANGED <<save, disk, cache, faults, world>>
FinalFlush ==
  /\ writer = "top" /\ shutdown /\ StartSave(Files) /\ flushing' = TRUE
  /\ UNCHANGED <<disk, cache, faults, world>>

(* The save returns, and the thread goes on to the next file, to its loop or out. *)
Return ==
  /\ IF due # {} THEN StartSave(due)
     ELSE /\ writer' = (IF flushing THEN "exited" ELSE "top") /\ attempts' = 0
          /\ UNCHANGED <<target, due, payload, content>>
  /\ UNCHANGED flushing

Reported(f, e) == lastError' = [lastError EXCEPT ![f] = e]

(* An operation fails: the save returns its error, the cached payload stays. *)
SlipCacheAnyway(e) ==
  /\ faults < FaultBound /\ faults' = faults + 1
  /\ Reported(target, e) /\ last' = [last EXCEPT ![target] = payload] /\ Return
SlipNotReported(e) ==
  /\ faults < FaultBound /\ faults' = faults + 1
  /\ UNCHANGED cache /\ Return
Fail(e) ==
  /\ faults < FaultBound /\ faults' = faults + 1
  /\ Reported(target, e) /\ UNCHANGED last /\ Return

-----------------------------------------------------------------------------
(* save_metrics() and save_health() *)

Build ==
  /\ writer = "build" /\ payload' = now /\ writer' = "compare"
  /\ UNCHANGED <<target, due, flushing, content, attempts, disk, cache, faults, world>>

Unchanged(f) == last[f] # None /\ Value(last[f]) = Value(payload)

Compare ==
  /\ writer = "compare"
  /\ IF Unchanged(target) THEN Return
     ELSE writer' = "rebuild" /\ UNCHANGED save
  /\ UNCHANGED <<disk, cache, faults, world>>

Rebuild ==
  /\ writer = "rebuild" /\ content' = now /\ writer' = "open"
  /\ UNCHANGED <<target, due, flushing, payload, attempts, disk, cache, faults, world>>

Commit ==
  /\ writer = "commit" /\ last' = [last EXCEPT ![target] = payload]
  /\ Reported(target, NoError) /\ Return /\ UNCHANGED <<disk, faults, world>>

-----------------------------------------------------------------------------
(* atomic_file::write() *)

TmpIs(c) == tmp' = [tmp EXCEPT ![target] = c]

(* Creating the directory may throw, which removes .tmp; a .tmp that cannot be opened is
   left alone. *)
OpenTmp ==
  /\ writer = "open"
  /\ \/ TmpIs(Partial) /\ writer' = "write" /\ UNCHANGED <<cache, save, faults>>
     \/ Fail("open") /\ UNCHANGED tmp
     \/ Fail("directory") /\ TmpIs(None)
  /\ UNCHANGED <<file, world>>

SlipUncheckedWrite ==
  /\ writer = "write"
  /\ \/ TmpIs(content)
     \/ UNCHANGED tmp
  /\ writer' = "replace" /\ UNCHANGED <<cache, save, faults, file, world>>
WriteTmp ==
  /\ writer = "write"
  /\ \/ TmpIs(content) /\ writer' = "replace" /\ UNCHANGED <<cache, save, faults>>
     \/ Fail("write") /\ TmpIs(None)
  /\ UNCHANGED <<file, world>>

(* replace_file(): a reader that has the file open makes MoveFileExW fail for a moment *)
SlipTooManyAttempts == attempts = MaxAttempts
LastAttempt == attempts + 1 = MaxAttempts

Replace ==
  /\ writer = "replace"
  /\ \/ /\ file' = [file EXCEPT ![target] = tmp[target]] /\ TmpIs(None)
        /\ writer' = "commit" /\ UNCHANGED <<cache, save, faults>>
     \/ /\ ~LastAttempt /\ faults < FaultBound /\ faults' = faults + 1
        /\ attempts' = attempts + 1
        /\ UNCHANGED <<disk, cache, writer, target, due, flushing, payload, content>>
     \/ Fail("replace") /\ TmpIs(None) /\ UNCHANGED file
  /\ UNCHANGED world

-----------------------------------------------------------------------------
SaveStep == Build \/ Compare \/ Rebuild \/ OpenTmp \/ WriteTmp \/ Replace \/ Commit

Next ==
  \/ ChangeData \/ RequestStop \/ Crash \/ Restart
  \/ FinalFlush \/ SaveStep
  \/ \E files \in (SUBSET Files) \ {{}} : Pass(files)

Spec == Init /\ [][Next]_vars

(* The thread runs, and its timers expire again and again.  Nothing is assumed of the
   operating system: what it refuses is bounded by FaultBound. *)
Fairness ==
  /\ WF_vars(SaveStep) /\ WF_vars(FinalFlush)
  /\ \A f \in Files :
       SF_vars(\E files \in SUBSET Files : f \in files /\ Pass(files))

FairSpec == Spec /\ Fairness

-----------------------------------------------------------------------------
(* Whoever reads metrics.json or health.json finds a whole one, whatever failed and wherever
   the process ended (atomic_file.cpp:62-105). *)
ReadersSeeWholeFiles == \A f \in Files : file[f] # Partial

(* The payload that makes the next save a no-op is one that a file written since contains:
   a failed write is never cached, a crash forgets the cache (metrics_store.cpp:131-136). *)
CacheIsOnDisk ==
  \A f \in Files : last[f] # None =>
    file[f] \in Snapshots /\ last[f] <= file[f]

(* The inductive invariants behind the theorems of StateFilesProofs *)

Saving == writer \in {"compare", "rebuild", "open", "write", "replace", "commit"}
Writing == writer \in {"open", "write", "replace", "commit"}

(* The data change only as often as the bounds allow, in this process and those before. *)
NowInv ==
  /\ now <= ChangeBound + crashes + (IF writer = "down" THEN 0 ELSE 1)
  /\ stopAt <= now

(* What one save carries from step to step is no newer than the data, its content no older
   than its payload, and what it replaces the file with is that content. *)
SaveInv ==
  /\ \A f \in Files : last[f] <= now
  /\ Saving => payload <= now
  /\ Writing =>
       payload <= content /\ (last[target] # None => last[target] <= content)
  /\ writer = "replace" => tmp[target] = content
  /\ writer = "commit" => file[target] = content

FilesInv == TypeOK /\ NowInv /\ SaveInv /\ ReadersSeeWholeFiles /\ CacheIsOnDisk

(* No file is newer than the data, and the file being saved is no newer than what is about
   to replace it: the data only move on, and nobody else writes. *)
OrderInv ==
  /\ \A f \in Files : file[f] <= now
  /\ Saving /\ writer # "commit" => file[target] <= payload
  /\ Writing => content <= now

(* The files that the final flush has already dealt with *)
Flushed == IF ~flushing THEN {} ELSE Files \ (due \cup IF writer = "exited" THEN {} ELSE {target})

(* What payload p says, the data have said since shutdown was requested. *)
SaidSinceStop(p) == p # None /\ \E s \in stopAt..now : Value(p) = Value(s)

(* The payload remembered for each file already flushed was said since the shutdown, unless
   the file's error is outstanding; that of the save under way was built after it. *)
FlushInv ==
  /\ flushing => shutdown
  /\ writer = "exited" => flushing /\ due = {}
  /\ flushing => writer \notin {"top", "down"} /\ target \notin due
  /\ flushing /\ Saving => stopAt <= payload
  /\ \A f \in Flushed : lastError[f] = NoError => SaidSinceStop(last[f])

(* When the thread has returned and no failure is outstanding, each file is as new as a
   payload that says what the data said at some time since shutdown was requested: a save
   under way by then does not stand in for the final flush (supervisor.cpp:1043-1045).  Data
   that never return to what they were cannot have said so earlier: both files are then as
   new as the request.  Data that do may leave an old file in place, and rightly so. *)
FlushTellsOfShutdown ==
  writer = "exited" =>
    \A f \in Files : lastError[f] = NoError =>
      file[f] \in Snapshots /\ last[f] <= file[f] /\ SaidSinceStop(last[f])

(* What was saved last is seen again after every failure: while the process goes on, each
   file comes to hold the data, or the data change once more. *)
FilesCatchUp ==
  \A f \in Files : \A k \in Snapshots :
    now = k ~> (file[f] = k \/ now # k \/ writer \in {"down", "exited"})

(* docs/metrics.md:7: a write is skipped if the payload is identical to that of the previous
   write.  The payload compared is not the one written: it is built once more. *)
SkipMeansSame ==
  writer = "compare" /\ Unchanged(target) => Value(file[target]) = Value(payload)

-----------------------------------------------------------------------------
(* What a reader sees of a file is what the last rename left. *)
Shown == INSTANCE SnapshotFiles WITH shown <- file

(* Readers are shown whole files that never go back in time, whatever fails in the writer
   and however often the program crashes and starts again (metrics_store.cpp:119-157,
   atomic_file.cpp:62-105). *)
ImplementsSnapshotFiles == Shown!FilesSpec
=============================================================================
