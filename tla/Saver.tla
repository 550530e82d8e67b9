------------------------------- MODULE Saver -------------------------------
(***************************************************************************)
(* The debounced saver of the application state (persist.rs): one slot for *)
(* the newest state, a worker thread that takes it once its deadline has   *)
(* passed and writes it outside the lock, callers of flush that wait until *)
(* the generation they saw is written, and the file that save_atomic       *)
(* replaces.  The process may end at any point, by itself or with the      *)
(* machine, and the next boot loads what the file holds.                   *)
(*                                                                         *)
(* A state is its number in the history of the application: generation g   *)
(* of this run is state base + g.  An action is one region under the slot  *)
(* lock, or one step of save_atomic.  The passing of time is reduced to    *)
(* whether the deadline of the pending state has passed.                   *)
(***************************************************************************)
EXTENDS Integers

CONSTANTS
    Flushers,      \* threads that may call flush
    MaxSchedules,  \* bound: schedules in one run of the program
    MaxCrashes     \* bound: times the process ends

ASSUME SaverConstants == MaxSchedules \in Nat /\ MaxCrashes \in Nat

VARIABLES
    \* --- SaverSlot
    pending,      \* a state waits in the slot
    ripe,         \* its deadline has passed
    scheduled,    \* generations issued
    written,      \* generation the worker wrote last
    flushTarget,  \* generation some caller of flush asked for
    closed,       \* Drop is under way
    workerDead,
    \* --- the worker thread
    workerPc,     \* "run", "wait", "doze", "write", "sync", "rename", "ack",
                  \* "gone", "panicked"
    taken,        \* generation it took from the slot
    \* --- callers of flush
    caller,       \* "idle", "asleep" on the condvar, "woken"
    target,       \* generation each one waits for
    acked,        \* history: highest generation a flush reported as written
    failed,       \* history: highest generation whose save failed
    \* --- the files and the run
    disk,         \* the state file
    tmp,          \* the temporary file beside it
    base,         \* state this run started from
    crashes

slotVars   == <<pending, ripe, scheduled, written, flushTarget, closed>>
workerVars == <<workerPc, taken, workerDead>>
callVars   == <<caller, target, acked>>
fileVars   == <<disk, tmp>>
runVars    == <<base, crashes>>
vars == <<slotVars, workerVars, callVars, fileVars, failed, runVars>>

Torn   == -1
File   == [state : Nat \cup {Torn}, durable : BOOLEAN]
NoFile == [state |-> Torn, durable |-> TRUE]

Larger(a, b) == IF a < b THEN b ELSE a

TypeOK ==
    /\ pending \in BOOLEAN /\ ripe \in BOOLEAN
    /\ scheduled \in Nat
    /\ written \in 0..scheduled /\ flushTarget \in 0..scheduled
    /\ closed \in BOOLEAN /\ workerDead \in BOOLEAN
    /\ workerPc \in {"run", "wait", "doze", "write", "sync", "rename", "ack",
                     "gone", "panicked"}
    /\ taken \in 0..scheduled
    /\ caller \in [Flushers -> {"idle", "asleep", "woken"}]
    /\ target \in [Flushers -> 0..scheduled]
    /\ acked \in 0..scheduled /\ failed \in 0..scheduled
    /\ disk \in File /\ tmp \in File
    /\ base \in Nat /\ crashes \in 0..MaxCrashes

Init ==
    /\ pending = FALSE /\ ripe = FALSE /\ scheduled = 0 /\ written = 0
    /\ flushTarget = 0 /\ closed = FALSE
    /\ workerPc = "run" /\ taken = 0 /\ workerDead = FALSE
    /\ caller = [f \in Flushers |-> "idle"]
    /\ target = [f \in Flushers |-> 0]
    /\ acked = 0 /\ failed = 0
    /\ disk = [state |-> 0, durable |-> TRUE] /\ tmp = NoFile
    /\ base = 0 /\ crashes = 0

-----------------------------------------------------------------------------
\* cond.notify_all(): the worker and the callers of flush share one condvar.
WokenWorker == IF workerPc \in {"wait", "doze"} THEN "run" ELSE workerPc
WokenCallers == [f \in Flushers |-> IF caller[f] = "asleep" THEN "woken" ELSE caller[f]]
Notify == workerPc' = WokenWorker /\ caller' = WokenCallers

(* The producers: publish_state, under the Dispatcher lock                  *)

\* schedule: replace the pending state; the deadline is fixed when the slot
\* was empty.  (With a dead worker schedule drops the state and says so.)
Schedule ==
    /\ ~closed /\ ~workerDead
    /\ scheduled < MaxSchedules
    /\ ripe' = (pending /\ ripe)
    /\ scheduled' = scheduled + 1
    /\ pending' = TRUE
    /\ Notify
    /\ UNCHANGED <<written, flushTarget, closed, taken, workerDead, target, acked,
                   fileVars, failed, runVars>>

\* debounce has gone by since the slot was filled.
Ripen ==
    /\ pending /\ ~ripe
    /\ ripe' = TRUE
    /\ UNCHANGED <<pending, scheduled, written, flushTarget, closed, workerVars,
                   callVars, fileVars, failed, runVars>>

-----------------------------------------------------------------------------
(* Callers of flush: the exit path of main.rs                               *)

\* flush with nothing to wait for.  (With a dead worker it says so and
\* returns; nothing changes.)
FlushNothing(f) ==
    /\ caller[f] = "idle" /\ ~closed /\ ~workerDead
    /\ written >= scheduled
    /\ acked' = Larger(acked, scheduled)
    /\ UNCHANGED <<slotVars, workerVars, caller, target, fileVars, failed, runVars>>

\* flush asks for the generation scheduled last and goes to sleep.
Flush(f) ==
    /\ caller[f] = "idle" /\ ~closed /\ ~workerDead
    /\ written < scheduled
    /\ target' = [target EXCEPT ![f] = scheduled]
    /\ flushTarget' = Larger(flushTarget, scheduled)
    /\ workerPc' = WokenWorker
    /\ caller' = [WokenCallers EXCEPT ![f] = "asleep"]
    /\ UNCHANGED <<pending, ripe, scheduled, written, closed, taken, workerDead, acked,
                   fileVars, failed, runVars>>

\* A woken caller looks at the slot: done, given up, or asleep again.
FlushWakes(f) ==
    /\ caller[f] = "woken"
    /\ \/ /\ written >= target[f]
          /\ acked' = Larger(acked, target[f])
          /\ caller' = [caller EXCEPT ![f] = "idle"]
       \/ /\ written < target[f] /\ workerDead
          /\ caller' = [caller EXCEPT ![f] = "idle"]
          /\ UNCHANGED acked
       \/ /\ written < target[f] /\ ~workerDead
          /\ caller' = [caller EXCEPT ![f] = "asleep"]
          /\ UNCHANGED acked
    /\ UNCHANGED <<slotVars, workerVars, target, fileVars, failed, runVars>>

\* Drop: nobody else holds the saver any more.
Close ==
    /\ ~closed
    /\ \A f \in Flushers : caller[f] = "idle"
    /\ closed' = TRUE
    /\ Notify
    /\ UNCHANGED <<pending, ripe, scheduled, written, flushTarget, taken, workerDead,
                   target, acked, fileVars, failed, runVars>>

-----------------------------------------------------------------------------
(* The worker thread                                                        *)

Due == pending /\ (written < flushTarget \/ closed \/ ripe)

WorkerTake ==
    /\ workerPc = "run" /\ Due
    /\ taken' = scheduled
    /\ pending' = FALSE /\ ripe' = FALSE
    /\ workerPc' = "write"
    /\ UNCHANGED <<scheduled, written, flushTarget, closed, workerDead, callVars,
                   fileVars, failed, runVars>>

WorkerSleep ==
    /\ workerPc = "run" /\ ~Due /\ ~closed
    /\ workerPc' = IF pending THEN "doze" ELSE "wait"
    /\ UNCHANGED <<slotVars, taken, workerDead, callVars, fileVars, failed, runVars>>

\* Mutant: a closed saver returns before it looks at the slot.
WorkerReturnEarly ==
    /\ workerPc = "run" /\ closed
    /\ workerPc' = "gone"
    /\ workerDead' = TRUE
    /\ caller' = WokenCallers
    /\ UNCHANGED <<slotVars, taken, target, acked, fileVars, failed, runVars>>

\* The thread returns; WorkerDeadGuard says so.
WorkerReturn ==
    /\ workerPc = "run" /\ ~Due /\ closed
    /\ workerPc' = "gone"
    /\ workerDead' = TRUE
    /\ caller' = WokenCallers
    /\ UNCHANGED <<slotVars, taken, target, acked, fileVars, failed, runVars>>

\* wait_timeout runs out at the deadline.
WorkerTimeout ==
    /\ workerPc = "doze" /\ ripe
    /\ workerPc' = "run"
    /\ UNCHANGED <<slotVars, taken, workerDead, callVars, fileVars, failed, runVars>>

\* A condvar may wake its waiters for no reason.
Spurious ==
    /\ Notify
    /\ UNCHANGED <<slotVars, taken, workerDead, target, acked, fileVars, failed,
                   runVars>>

\* save_atomic: write the temporary file,
SaveWrite ==
    /\ workerPc = "write"
    /\ tmp' = [state |-> base + taken, durable |-> FALSE]
    /\ workerPc' = "sync"
    /\ UNCHANGED <<slotVars, taken, workerDead, callVars, disk, failed, runVars>>

\* force it to the disk,
SaveSync ==
    /\ workerPc = "sync"
    /\ tmp' = [tmp EXCEPT !.durable = TRUE]
    /\ workerPc' = "rename"
    /\ UNCHANGED <<slotVars, taken, workerDead, callVars, disk, failed, runVars>>

\* put it in the place of the state file.
SaveRename ==
    /\ workerPc = "rename"
    /\ disk' = tmp /\ tmp' = NoFile
    /\ workerPc' = "ack"
    /\ UNCHANGED <<slotVars, taken, workerDead, callVars, failed, runVars>>

\* Mutant: the error of a write is ignored and the file renamed all the same.
SaveErrorIgnored ==
    /\ workerPc \in {"write", "sync"}
    /\ tmp' = NoFile
    /\ workerPc' = "rename"
    /\ UNCHANGED <<slotVars, taken, workerDead, callVars, disk, failed, runVars>>

\* Any of them fails; write_state prints the error and carries on.
SaveFails ==
    /\ workerPc \in {"write", "sync", "rename"}
    /\ tmp' \in {tmp, NoFile}
    /\ workerPc' = "ack"
    /\ failed' = taken
    /\ UNCHANGED <<slotVars, taken, workerDead, callVars, disk, runVars>>

\* Mutant: acknowledges what was scheduled while it wrote.
WorkerAckAll ==
    /\ workerPc = "ack"
    /\ written' = scheduled
    /\ workerPc' = "run"
    /\ caller' = WokenCallers
    /\ UNCHANGED <<pending, ripe, scheduled, flushTarget, closed, taken, workerDead,
                   target, acked, fileVars, failed, runVars>>

WorkerAck ==
    /\ workerPc = "ack"
    /\ written' = taken
    /\ workerPc' = "run"
    /\ caller' = WokenCallers
    /\ UNCHANGED <<pending, ripe, scheduled, flushTarget, closed, taken, workerDead,
                   target, acked, fileVars, failed, runVars>>

\* Mutant: no WorkerDeadGuard.
PanicUnguarded ==
    /\ workerPc \in {"write", "sync", "rename"}
    /\ workerPc' = "panicked"
    /\ UNCHANGED <<slotVars, taken, workerDead, callVars, fileVars, failed, runVars>>

\* save_atomic panics and WorkerDeadGuard runs while the thread unwinds.
WorkerPanic ==
    /\ workerPc \in {"write", "sync", "rename"}
    /\ workerPc' = "panicked"
    /\ workerDead' = TRUE
    /\ caller' = WokenCallers
    /\ UNCHANGED <<slotVars, taken, target, acked, fileVars, failed, runVars>>

Worker ==
    \/ WorkerTake \/ WorkerSleep \/ WorkerReturn \/ WorkerTimeout
    \/ SaveWrite \/ SaveSync \/ SaveRename \/ WorkerAck

-----------------------------------------------------------------------------
(* The end of the process and the next boot                                 *)

\* What is left of a file: all of it when only the process died, perhaps
\* nothing when the machine went down before the contents were forced out.
AfterPowerLoss(file) == IF file.durable THEN file ELSE NoFile

\* The process ends; the next boot sweeps the temporary file, loads the state
\* file (a torn one is set aside and the program starts afresh) and spawns a
\* new saver.
Boot(file) ==
    /\ crashes < MaxCrashes
    /\ crashes' = crashes + 1
    /\ disk' = file /\ tmp' = NoFile
    /\ base' = IF file.state = Torn THEN 0 ELSE file.state
    /\ pending' = FALSE /\ ripe' = FALSE /\ scheduled' = 0 /\ written' = 0
    /\ flushTarget' = 0 /\ closed' = FALSE
    /\ workerPc' = "run" /\ taken' = 0 /\ workerDead' = FALSE
    /\ caller' = [f \in Flushers |-> "idle"]
    /\ target' = [f \in Flushers |-> 0]
    /\ acked' = 0 /\ failed' = 0

Crash     == Boot(disk)
PowerLoss == Boot(AfterPowerLoss(disk))

Next ==
    \/ Schedule \/ Ripen \/ Close
    \/ \E f \in Flushers : FlushNothing(f) \/ Flush(f) \/ FlushWakes(f)
    \/ Worker \/ Spurious \/ SaveFails \/ WorkerPanic
    \/ Crash \/ PowerLoss

Spec == Init /\ [][Next]_vars

Fairness ==
    /\ WF_vars(Worker)
    /\ WF_vars(Ripen)
    /\ \A f \in Flushers : WF_vars(FlushWakes(f))

FairSpec == Spec /\ Fairness

-----------------------------------------------------------------------------
(* The abstract saver this one implements.                                  *)
DS == INSTANCE DurableState WITH latest <- base + scheduled, saved <- disk.state

\* Every step updates, saves or crashes as DurableState allows: the file goes
\* only forward, to a state that existed, and is always whole (persist.rs
\* save_atomic: temporary file, sync, rename).
ImplementsDurableState == DS!Spec

\* Whatever ends the process or the machine, the state file is a whole state
\* (the comment before sync_all in save_atomic).
DiskIsWhole == disk.state # Torn /\ disk.durable

\* A flush that reported success left everything scheduled before it in a
\* save that finished; it is on the disk unless that save failed (the
\* generation is fixed when the worker takes the state, worker_loop).
FlushedUnlessFailed == base + acked <= disk.state \/ acked <= failed

\* flush, as its comment has it: on return everything scheduled before the
\* call is on the disk.
FlushedIsOnDisk == base + acked <= disk.state

\* Nobody waits for a worker that sleeps, and what a caller of flush waits for
\* is in the slot, in the hands of the worker, or written (the shared condvar
\* of schedule, flush and worker_loop).
FlushIsServed ==
    \A f \in Flushers : caller[f] # "idle" /\ written < target[f] =>
        \/ workerDead /\ caller[f] = "woken"
        \/ ~workerDead /\ workerPc = "run" /\ pending
        \/ ~workerDead /\ workerPc \in {"write", "sync", "rename", "ack"}
              /\ (pending \/ taken >= target[f])

\* A saver that was closed in order leaves nothing in its slot (Drop joins the
\* worker, which writes the pending state first).
NothingLeftBehind == workerPc = "gone" => ~pending /\ written = scheduled

\* The worker writes before the deadline only for a flush that still waits or
\* has gone unanswered, or to close: one flush does not end the debouncing
\* (the comment on SaverSlot.flush_target).
EarlyOnlyWhenAsked ==
    [][workerPc = "run" /\ workerPc' = "write" =>
         ripe \/ closed \/ \E f \in Flushers : caller[f] # "idle" /\ written < target[f]]_vars

\* Every scheduled state is taken by the worker, unless the worker died, and
\* flush returns, also when the worker dies under it (schedule, flush,
\* WorkerDeadGuard).
FlushReturns ==
    /\ pending ~> ~pending \/ workerDead
    /\ \A f \in Flushers : caller[f] # "idle" ~> caller[f] = "idle"
=============================================================================
