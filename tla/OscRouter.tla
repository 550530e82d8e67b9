------------------------------ MODULE OscRouter ------------------------------
(***************************************************************************)
(* The way of terminal events (OSC) to the model: the reader threads merge *)
(* them into one pending batch, a worker collects for a window, takes the  *)
(* batch and applies it under the Dispatcher lock, and the exit path of    *)
(* the program takes and applies what is pending itself before it has the  *)
(* state saved.                                                            *)
(*                                                                         *)
(* Events of one field of one session are numbered in the order the reader *)
(* found them, and the last one wins; 0 is no event.  Two fields stand for *)
(* the rest: "cwd", which a tab keeps when its shell ends, and "status",   *)
(* which is reset then.  Whose status a workspace shows when several tabs  *)
(* have one is a matter of the model, not of the router.                   *)
(*                                                                         *)
(* The parts of the specification are named after the router, so that one  *)
(* proof module can extend this module and AgentChannel.                   *)
(***************************************************************************)
EXTENDS Naturals

CONSTANTS
    Shells,     \* sessions of terminal tabs
    MaxEvents   \* bound: the events of each session, per field

Fields == {"cwd", "status"}

ASSUME OscRouterConstants == MaxEvents \in [Shells -> [Fields -> Nat]]

VARIABLES
    \* --- the sessions, under the Dispatcher lock
    life,      \* "none", "starting" (a command waits for it), "live", "ended"
    model,     \* the number of the event a tab shows, per session and field
    \* --- RouterState
    batch,     \* the pending batch
    closed,
    \* --- the worker
    workerPc,  \* "look", "sleep", "window", "apply", "done"
    hand,      \* the batch it took
    \* --- the exit path: router.flush_now, then saver.flush
    exitPc,    \* "running", "apply", "save", "saved"
    exitHand,  \* the batch flush_now took
    saved,     \* what the saver wrote
    \* --- history
    pushed,    \* the last event of each field and session
    due,       \* what had been pushed when the exit path began
    crossed    \* the worker and the exit path had a batch in hand each, at one time

lifeVars   == <<life, model>>
workerVars == <<workerPc, hand>>
exitVars   == <<exitPc, exitHand, saved, due, crossed>>
routerVars == <<lifeVars, batch, closed, workerVars, exitVars, pushed>>

Deltas  == [Shells -> [Fields -> Nat]]
Nothing == [s \in Shells |-> [f \in Fields |-> 0]]

\* Nobody holds an event that was not pushed.
RouterTypeOK ==
    /\ life \in [Shells -> {"none", "starting", "live", "ended"}]
    /\ closed \in BOOLEAN /\ crossed \in BOOLEAN
    /\ workerPc \in {"look", "sleep", "window", "apply", "done"}
    /\ exitPc \in {"running", "apply", "save", "saved"}
    /\ \A d \in {model, batch, hand, exitHand, saved, pushed, due} :
         d \in Deltas /\ \A s \in Shells, f \in Fields : d[s][f] <= pushed[s][f]

RouterInit ==
    /\ life = [s \in Shells |-> "none"]
    /\ model = Nothing /\ batch = Nothing /\ closed = FALSE
    /\ workerPc = "look" /\ hand = Nothing
    /\ exitPc = "running" /\ exitHand = Nothing /\ saved = Nothing
    /\ pushed = Nothing /\ due = Nothing /\ crossed = FALSE

\* A command that spawns a shell keeps the Dispatcher lock.
LockFree == \A s \in Shells : life[s] # "starting"
-----------------------------------------------------------------------------
(* Sessions come and go, under the Dispatcher lock                         *)

SpawnBegins(s) ==
    /\ LockFree /\ life[s] = "none"
    /\ life' = [life EXCEPT ![s] = "starting"]
    /\ UNCHANGED <<model, batch, closed, workerVars, exitVars, pushed>>

\* The tab gets the session, or the command fails and no tab ever has it.
SpawnEnds(s) ==
    /\ life[s] = "starting"
    /\ life' \in {[life EXCEPT ![s] = l] : l \in {"live", "ended"}}
    /\ UNCHANGED <<model, batch, closed, workerVars, exitVars, pushed>>

\* SessionExited: the tab lets the session go and its status is taken back.
SessionEnds(s) ==
    /\ LockFree /\ life[s] = "live"
    /\ life' = [life EXCEPT ![s] = "ended"]
    /\ model' = [model EXCEPT ![s]["status"] = 0]
    /\ UNCHANGED <<batch, closed, workerVars, exitVars, pushed>>
-----------------------------------------------------------------------------
(* push, on the reader thread of session s                                 *)

\* Mutant: the worker is not notified.
PushSilently(s, f) ==
    /\ ~closed /\ life[s] # "none" /\ pushed[s][f] < MaxEvents[s][f]
    /\ pushed' = [pushed EXCEPT ![s][f] = @ + 1]
    /\ batch' = [batch EXCEPT ![s][f] = pushed[s][f] + 1]
    /\ UNCHANGED <<lifeVars, closed, workerVars, exitVars>>

Notified == IF workerPc = "sleep" THEN "look" ELSE workerPc

\* The event is merged over an earlier one of the same field.  A shell being
\* spawned may already print, and what an ended one printed is still read.
Push(s, f) ==
    /\ ~closed /\ life[s] # "none" /\ pushed[s][f] < MaxEvents[s][f]
    /\ pushed' = [pushed EXCEPT ![s][f] = @ + 1]
    /\ batch' = [batch EXCEPT ![s][f] = pushed[s][f] + 1]
    /\ workerPc' = Notified
    /\ UNCHANGED <<lifeVars, closed, hand, exitVars>>

\* An event without a place in the batch (a cwd that is not a file URI) wakes
\* the worker all the same.  A spurious wakeup is no different.
PushNothing ==
    /\ workerPc = "sleep" /\ workerPc' = "look"
    /\ UNCHANGED <<lifeVars, batch, closed, hand, exitVars, pushed>>
-----------------------------------------------------------------------------
(* worker_loop                                                             *)

WorkerSleep ==
    /\ workerPc = "look" /\ batch = Nothing /\ ~closed
    /\ workerPc' = "sleep"
    /\ UNCHANGED <<lifeVars, batch, closed, hand, exitVars, pushed>>

WorkerLeave ==
    /\ workerPc = "look" /\ batch = Nothing /\ closed
    /\ workerPc' = "done"
    /\ UNCHANGED <<lifeVars, batch, closed, hand, exitVars, pushed>>

WorkerCollect ==
    /\ workerPc = "look" /\ batch # Nothing
    /\ workerPc' = "window"
    /\ UNCHANGED <<lifeVars, batch, closed, hand, exitVars, pushed>>

\* The window is over.  flush_now may have left nothing.
WorkerTake ==
    /\ workerPc = "window"
    /\ workerPc' = "apply" /\ hand' = batch
    /\ batch' = Nothing
    /\ crossed' = (crossed \/ exitPc = "apply")
    /\ UNCHANGED <<lifeVars, closed, exitPc, exitHand, saved, due, pushed>>

\* apply_osc skips the sessions that no tab carries.
Apply(deltas) ==
    model' = [s \in Shells |-> [f \in Fields |->
                 IF life[s] = "live" /\ deltas[s][f] # 0 THEN deltas[s][f] ELSE model[s][f]]]

\* Mutant: what came meanwhile is cleared along with what was applied.
WorkerApplyAndClear ==
    /\ workerPc = "apply" /\ (hand = Nothing \/ LockFree)
    /\ Apply(hand)
    /\ workerPc' = "look" /\ hand' = Nothing
    /\ batch' = Nothing
    /\ UNCHANGED <<life, closed, exitVars, pushed>>

\* An empty batch does not even ask for the lock.
WorkerApply ==
    /\ workerPc = "apply" /\ (hand = Nothing \/ LockFree)
    /\ Apply(hand)
    /\ workerPc' = "look" /\ hand' = Nothing
    /\ UNCHANGED <<life, batch, closed, exitVars, pushed>>

Worker == WorkerSleep \/ WorkerLeave \/ WorkerCollect \/ WorkerTake \/ WorkerApply

\* Drop: nobody pushes or flushes any more, and the worker empties the batch.
Close ==
    /\ ~closed /\ exitPc \in {"running", "saved"}
    /\ closed' = TRUE /\ workerPc' = Notified
    /\ UNCHANGED <<lifeVars, batch, hand, exitVars, pushed>>
-----------------------------------------------------------------------------
(* RunEvent::Exit                                                          *)

\* flush_now takes what is pending.
ExitTake ==
    /\ exitPc = "running" /\ ~closed
    /\ exitPc' = "apply" /\ exitHand' = batch
    /\ batch' = Nothing
    /\ due' = pushed
    /\ crossed' = (hand # Nothing)
    /\ UNCHANGED <<lifeVars, closed, workerVars, saved, pushed>>

\* Mutant: the exit path has the state saved without waiting for the lock.
ExitSkip ==
    /\ exitPc = "apply"
    /\ exitPc' = "save" /\ exitHand' = Nothing
    /\ UNCHANGED <<lifeVars, batch, closed, workerVars, saved, pushed, due, crossed>>

ExitApply ==
    /\ exitPc = "apply" /\ (exitHand = Nothing \/ LockFree)
    /\ Apply(exitHand)
    /\ exitPc' = "save" /\ exitHand' = Nothing
    /\ UNCHANGED <<life, batch, closed, workerVars, saved, pushed, due, crossed>>

\* saver.flush: every change of the model was scheduled under the same lock.
ExitSave ==
    /\ exitPc = "save"
    /\ exitPc' = "saved" /\ saved' = model
    /\ UNCHANGED <<lifeVars, batch, closed, workerVars, exitHand, pushed, due, crossed>>

Exit == ExitTake \/ ExitApply \/ ExitSave
-----------------------------------------------------------------------------
RouterNext ==
    \/ \E s \in Shells : \/ SpawnBegins(s) \/ SpawnEnds(s) \/ SessionEnds(s)
                         \/ \E f \in Fields : Push(s, f)
    \/ PushNothing \/ Worker \/ Close \/ Exit

RouterSpec == RouterInit /\ [][RouterNext]_routerVars

\* The worker and the exit path run, and a command waits for a spawn no longer
\* than its deadline.
RouterFairness ==
    /\ WF_routerVars(Worker) /\ WF_routerVars(ExitApply \/ ExitSave)
    /\ \A s \in Shells : WF_routerVars(SpawnEnds(s))

FairRouterSpec == RouterSpec /\ RouterFairness
-----------------------------------------------------------------------------
(* What should hold                                                        *)

\* The last event of each field is on its way or shown, for every session that
\* is or may come to be in a tab: merging, taking the batch and the spawn of its
\* session lose none.  The one exception is an exit path that crosses the worker,
\* where the older of two batches may be applied last.
NothingLost ==
    crossed \/ \A s \in Shells, f \in Fields :
        life[s] \in {"starting", "live"} =>
            pushed[s][f] \in {model[s][f], batch[s][f], hand[s][f], exitHand[s][f]}

\* A tab whose shell has ended shows no status, however late the batch with its
\* last one is applied (docs/adr/0006, decision 5).
DeadTabIsQuiet ==
    \A s \in Shells : life[s] # "live" => model[s]["status"] = 0

\* An orderly exit saves what was pushed before it began, unless the worker had
\* a batch in hand at that moment.
PersistedUnlessCrossed ==
    exitPc = "saved" /\ ~crossed =>
        \A s \in Shells, f \in Fields : life[s] = "live" => due[s][f] <= saved[s][f]

\* Every event reaches the tab, or a later one of its field does, unless the
\* shell ends first or the exit path crosses the worker; a closed router empties
\* its batch before its worker leaves.
Delivered ==
    \A s \in Shells, f \in Fields : \A k \in 1..MaxEvents[s][f] :
        pushed[s][f] >= k ~> (model[s][f] >= k \/ life[s] = "ended" \/ crossed)

\* docs/adr/0006: flush_now runs before the Saver flush so the last cwd and
\* status is persisted.
LastIsPersisted ==
    exitPc = "saved" =>
        \A s \in Shells, f \in Fields : life[s] = "live" => due[s][f] <= saved[s][f]
=============================================================================
