------------------------------ MODULE IdleReset ------------------------------
(***************************************************************************)
(* The automatic reload of the page: the policy that decides when a reload *)
(* is safe (mast-core/src/reset.rs) and the supervisor around it           *)
(* (src-tauri/src/reset_supervisor.rs), one worker thread asleep on a      *)
(* condition variable and the threads that bring it signals.               *)
(*                                                                         *)
(* The code keeps absolute instants in milliseconds and compares them with *)
(* the present.  The model keeps what those comparisons see: the age of    *)
(* the last input and of the hiding, the time left of the cooldown, until  *)
(* the next sample and until the worker's alarm.  An age stops counting at *)
(* the largest threshold it is compared with.  Reading the clock and       *)
(* taking the lock are one step, and no time passes while the worker is    *)
(* runnable: the lock is never held across a call that waits, and the code *)
(* runs in far less than a threshold.  The scan of the processes and the   *)
(* reload, both made without the lock, may take one unit.                  *)
(***************************************************************************)
EXTENDS Integers, FiniteSets

CONSTANTS
  Idle,       \* ResetConfig.idle_ms
  Hidden,     \* ResetConfig.hidden_ms
  MemPoll,    \* ResetConfig.mem_poll_ms
  SafeIdle,   \* ResetConfig.safe_idle_ms
  Cooldown    \* ResetConfig.cooldown_ms, 0 for none

\* A threshold of zero turns a trigger off, a sampling period of zero is put
\* back to its default, and the defaults sample within the cooldown.
ASSUME ConfigAssumption ==
  /\ Idle \in Nat \ {0} /\ Hidden \in Nat \ {0} /\ MemPoll \in Nat \ {0}
  /\ SafeIdle \in Nat /\ Cooldown \in Nat

Triggers == {"idle", "hidden", "mem"}
None == -1
Later(a, b) == IF a > b THEN a ELSE b
Sooner(a, b) == IF a < b THEN a ELSE b
MaxInput == Later(Idle, SafeIdle)

VARIABLES
  on,          \* the triggers the configuration leaves on
  sinceInput,  \* now - last_input
  idleArmed,
  focused, visible,
  hiddenFor,   \* now - hidden_since, None while shown
  hiddenFired,
  memPending,
  sampleIn,    \* next_mem_sample_at - now
  suppressed,
  cooldown,    \* cooldown_until - now
  worker,      \* where the worker is: "sample", "scan", "poll", "reload", "asleep"
  scanned,     \* units of time the scan or reload under way has taken
  alarm,       \* asleep: time left of wait_timeout, None for an endless wait
  notified,    \* asleep: a signal has notified the condition variable
  switching,   \* a dispatched switch between its two signals
  \* What the properties remember, never read by an action:
  scanOf,      \* the scan under way was begun after the last reload ("fresh") or before ("stale")
  measure,     \* the same of the latest sample
  hidResets    \* reloads for hiding since this hiding or its last input

policyVars == <<sinceInput, idleArmed, focused, visible, hiddenFor, hiddenFired, memPending, sampleIn, suppressed, cooldown>>
workerVars == <<worker, scanned, alarm>>
history == <<scanOf, measure, hidResets>>
vars == <<on, policyVars, workerVars, notified, switching, history>>

TypeOK ==
  /\ on \subseteq Triggers
  /\ sinceInput \in 0..MaxInput /\ sampleIn \in 0..MemPoll /\ cooldown \in 0..Cooldown
  /\ hiddenFor \in {None} \union 0..Hidden
  /\ {idleArmed, focused, visible, hiddenFired, memPending, suppressed, notified, switching} \subseteq BOOLEAN
  /\ worker \in {"sample", "scan", "poll", "reload", "asleep"} /\ scanned \in 0..1
  /\ alarm \in {None} \union Nat
  /\ {scanOf, measure} \subseteq {"fresh", "stale"} /\ hidResets \in Nat
  /\ (hiddenFor # None) = (~visible \/ ~focused)
  /\ memPending => "mem" \in on

\* config_from_env: a trigger is on when the environment gives it a threshold
\* other than zero and, for the memory, the platform can measure it.
Configured ==
  {{t \in Triggers : env[t] # 0 /\ (t = "mem" => measured)} : env \in [Triggers -> 0..1], measured \in BOOLEAN}

Init ==
  /\ on \in Configured
  /\ sinceInput = 0 /\ idleArmed = TRUE
  /\ focused = TRUE /\ visible = TRUE /\ hiddenFor = None /\ hiddenFired = FALSE
  /\ memPending = FALSE /\ sampleIn = MemPoll /\ suppressed = FALSE /\ cooldown = 0
  /\ worker = "sample" /\ scanned = 0 /\ alarm = None /\ notified = FALSE /\ switching = FALSE
  /\ scanOf = "fresh" /\ measure = "fresh" /\ hidResets = 0

(***************************************************************************)
(* The policy.                                                             *)
(***************************************************************************)
IdleDue == "idle" \in on /\ idleArmed /\ sinceInput >= Idle
HiddenDue == "hidden" \in on /\ hiddenFor # None /\ ~hiddenFired /\ hiddenFor >= Hidden
MemDue == memPending /\ sinceInput >= SafeIdle
SampleDue == "mem" \in on /\ sampleIn = 0

StartCooldown == cooldown' = Cooldown
\* Every scan so far was begun before this reload.
Outdate == scanOf' = "stale" /\ measure' = "stale"

\* fire_mem
FireMem ==
  /\ memPending' = FALSE /\ suppressed' = FALSE
  /\ StartCooldown /\ Outdate
  /\ UNCHANGED <<idleArmed, hiddenFired, hidResets>>

FireIdle ==
  /\ idleArmed' = FALSE
  /\ StartCooldown /\ Outdate
  /\ UNCHANGED <<hiddenFired, memPending, hidResets>>

FireHidden ==
  /\ hiddenFired' = TRUE /\ hidResets' = hidResets + 1
  /\ StartCooldown /\ Outdate
  /\ UNCHANGED <<idleArmed, memPending>>

\* poll's choice, in its order of priority: the watchdog, idle, hidden.
Fires == cooldown = 0 /\ (MemDue \/ IdleDue \/ HiddenDue)
Fire ==
  \/ MemDue /\ FireMem
  \/ ~MemDue /\ IdleDue /\ FireIdle /\ UNCHANGED suppressed
  \/ ~MemDue /\ ~IdleDue /\ HiddenDue /\ FireHidden /\ UNCHANGED suppressed

\* next_deadline, relative to now.  What could fire is not due before the
\* cooldown ends; a sample is.
Clamp(left) == Later(left, cooldown)
When(armed, left) == IF armed THEN {left} ELSE {}

\* Mutant: the moment the watchdog becomes safe is no deadline.
DeadlinesWithoutSafe ==
  When("idle" \in on /\ idleArmed, Clamp(Idle - sinceInput))
  \union When("hidden" \in on /\ hiddenFor # None /\ ~hiddenFired, Clamp(Hidden - hiddenFor))
  \union When("mem" \in on, sampleIn)

\* Mutant: the end of the hiding is no deadline.
DeadlinesWithoutHidden ==
  When("idle" \in on /\ idleArmed, Clamp(Idle - sinceInput))
  \union When(memPending, Clamp(SafeIdle - sinceInput))
  \union When("mem" \in on, sampleIn)

Deadlines ==
  When("idle" \in on /\ idleArmed, Clamp(Idle - sinceInput))
  \union When("hidden" \in on /\ hiddenFor # None /\ ~hiddenFired, Clamp(Hidden - hiddenFor))
  \union When(memPending, Clamp(SafeIdle - sinceInput))
  \union When("mem" \in on, sampleIn)

NextDeadline == IF Deadlines = {} THEN None ELSE CHOOSE d \in Deadlines : \A e \in Deadlines : d <= e

\* sync_hidden: only a transition starts or ends a hiding.
\* Mutant: a repeated report of hiding starts it again.
SyncHiddenRepeated(hidden) ==
  IF hidden THEN hiddenFor' = 0 /\ hiddenFired' = FALSE /\ hidResets' = IF hiddenFor = None THEN 0 ELSE hidResets
  ELSE hiddenFor' = None /\ hiddenFired' = FALSE /\ hidResets' = 0
SyncHidden(hidden) ==
  IF hidden /\ hiddenFor = None THEN hiddenFor' = 0 /\ hiddenFired' = FALSE /\ hidResets' = 0
  ELSE IF ~hidden /\ hiddenFor # None THEN hiddenFor' = None /\ hiddenFired' = FALSE /\ hidResets' = 0
  ELSE UNCHANGED <<hiddenFor, hiddenFired, hidResets>>

(***************************************************************************)
(* The signals.  Each takes the lock, so it comes while the worker sleeps  *)
(* or has dropped it, and ends by notifying the worker, who hears it only  *)
(* when asleep.                                                            *)
(***************************************************************************)
Unlocked == worker \in {"scan", "reload", "asleep"}
Notify == notified' = (notified \/ worker = "asleep")

\* on_user_input
Rearm ==
  /\ sinceInput' = 0 /\ idleArmed' = TRUE
  /\ IF hiddenFor = None THEN UNCHANGED <<hiddenFor, hiddenFired, hidResets>>
     ELSE hiddenFor' = 0 /\ hiddenFired' = FALSE /\ hidResets' = 0
  /\ Notify
  /\ UNCHANGED <<on, focused, visible, memPending, sampleIn, suppressed, cooldown, workerVars, scanOf, measure>>

\* user_input: a ping of the page, or a dispatch that succeeded
UserInput == Unlocked /\ Rearm /\ UNCHANGED switching

\* The first of the two signals a successful SwitchWorkspace sends.
DispatchSwitch == Unlocked /\ ~switching /\ Rearm /\ switching' = TRUE

\* workspace_switch: a safe moment for a pending watchdog, whose reload is
\* made by the dispatching thread itself.
WorkspaceSwitch ==
  /\ Unlocked /\ switching
  /\ switching' = FALSE
  /\ \/ ~memPending /\ UNCHANGED <<idleArmed, hiddenFired, memPending, suppressed, cooldown, history>>
     \/ /\ memPending /\ cooldown > 0 /\ suppressed' = TRUE
        /\ UNCHANGED <<idleArmed, hiddenFired, memPending, cooldown, history>>
     \/ memPending /\ cooldown = 0 /\ FireMem
  /\ Notify
  /\ UNCHANGED <<on, sinceInput, focused, visible, hiddenFor, sampleIn, workerVars>>

Focus(f) ==
  /\ Unlocked
  /\ focused' = f
  /\ SyncHidden(~visible \/ ~f)
  /\ Notify
  /\ UNCHANGED <<on, sinceInput, idleArmed, visible, memPending, sampleIn, suppressed, cooldown, workerVars, switching, scanOf, measure>>

Visibility(v) ==
  /\ Unlocked
  /\ visible' = v
  /\ SyncHidden(~v \/ ~focused)
  /\ Notify
  /\ UNCHANGED <<on, sinceInput, idleArmed, focused, memPending, sampleIn, suppressed, cooldown, workerVars, switching, scanOf, measure>>

(***************************************************************************)
(* The worker.                                                             *)
(***************************************************************************)
\* The lock is dropped for the scan.  A scan begun now sees what the last
\* reload left.
BeginScan ==
  /\ worker = "sample" /\ SampleDue
  /\ worker' = "scan" /\ scanned' = 0 /\ scanOf' = "fresh"
  /\ UNCHANGED <<on, policyVars, alarm, notified, switching, measure, hidResets>>

SkipScan ==
  /\ worker = "sample" /\ ~SampleDue
  /\ worker' = "poll"
  /\ UNCHANGED <<on, policyVars, scanned, alarm, notified, switching, history>>

\* on_mem_sample.  A scan that fails or finds no process of ours counts as
\* a sample of no bytes.
MemSample(over) ==
  /\ sampleIn' = MemPoll
  /\ memPending' = over
  /\ suppressed' = (suppressed /\ over)

EndScan(over) ==
  /\ worker = "scan"
  /\ worker' = "poll"
  /\ MemSample(over)
  /\ measure' = scanOf
  /\ UNCHANGED <<on, sinceInput, idleArmed, focused, visible, hiddenFor, hiddenFired, cooldown, scanned, alarm, notified, switching, scanOf, hidResets>>

\* poll fires: the reload is made without the lock.
PollFires ==
  /\ worker = "poll" /\ Fires
  /\ Fire
  /\ worker' = "reload" /\ scanned' = 0
  /\ UNCHANGED <<on, sinceInput, focused, visible, hiddenFor, sampleIn, alarm, notified, switching>>

\* poll fires nothing: note a watchdog the cooldown holds back, then wait for
\* the next deadline, or go round at once when it has come.
PollSleeps ==
  /\ worker = "poll" /\ ~Fires
  /\ suppressed' = (suppressed \/ (MemDue /\ cooldown > 0))
  /\ alarm' = NextDeadline
  /\ worker' = IF NextDeadline = 0 THEN "sample" ELSE "asleep"
  /\ UNCHANGED <<on, sinceInput, idleArmed, focused, visible, hiddenFor, hiddenFired, memPending, sampleIn, cooldown, scanned, notified, switching, history>>

\* perform_reset returns; the worker judges again at once.
Reloaded ==
  /\ worker = "reload"
  /\ worker' = "sample"
  /\ UNCHANGED <<on, policyVars, scanned, alarm, notified, switching, history>>

\* A signal or the end of wait_timeout.
Wake ==
  /\ worker = "asleep" /\ (notified \/ alarm = 0)
  /\ worker' = "sample" /\ notified' = FALSE /\ alarm' = None
  /\ UNCHANGED <<on, policyVars, scanned, switching, history>>

Older(age, cap) == IF age < cap THEN age + 1 ELSE cap
Less(left) == IF left > 0 THEN left - 1 ELSE left

Tick ==
  /\ \/ worker = "asleep" /\ ~notified /\ alarm # 0 /\ UNCHANGED scanned
     \/ worker \in {"scan", "reload"} /\ scanned = 0 /\ scanned' = 1
  /\ sinceInput' = Older(sinceInput, MaxInput)
  /\ hiddenFor' = IF hiddenFor = None THEN None ELSE Older(hiddenFor, Hidden)
  /\ sampleIn' = Less(sampleIn) /\ cooldown' = Less(cooldown) /\ alarm' = Less(alarm)
  /\ UNCHANGED <<on, idleArmed, focused, visible, hiddenFired, memPending, suppressed, worker, notified, switching, history>>

Signal == UserInput \/ DispatchSwitch \/ WorkspaceSwitch \/ \E b \in BOOLEAN : Focus(b) \/ Visibility(b)
Scan == BeginScan \/ SkipScan \/ \E over \in BOOLEAN : EndScan(over)
Poll == PollFires \/ PollSleeps
Work == Scan \/ Poll \/ Reloaded \/ Wake
Next == Signal \/ Work \/ Tick

Spec == Init /\ [][Next]_vars
\* The worker is scheduled; signals come a finite number of times in a unit
\* of time, so time, which stands still while the worker is runnable, passes.
FairSpec == Spec /\ WF_vars(Work) /\ SF_vars(Tick)

-----------------------------------------------------------------------------
\* While the worker sleeps and nobody has notified it, nothing it could do is
\* overdue: no trigger would fire, no sample is due before its alarm, and it
\* sleeps without an alarm only when no trigger is waiting for a time to come
\* (worker's step 4, with next_deadline).
SleepMissesNothing ==
  worker = "asleep" /\ ~notified /\ alarm # 0 =>
    /\ ~Fires /\ ~SampleDue
    /\ alarm = None => on \subseteq {"hidden", "idle"} /\ ~("idle" \in on /\ idleArmed)
    /\ alarm # None => \A d \in Deadlines : alarm <= d

\* The window is reloaded at most once for being hidden until it is shown or
\* used again, however often the two signals repeat (sync_hidden,
\* hidden_fired).
OncePerHiding == hidResets <= 1

\* When the cooldown no longer holds a pending watchdog back, its memory was
\* measured after the last reload: a scan that a reload overtook is replaced
\* by another before it can cause a second reload (on_mem_sample under the
\* cooldown; it needs a cooldown longer than a period and two scans, as the
\* defaults of 300 and 60 seconds are).
FreshMeasure == memPending /\ cooldown = 0 => measure = "fresh"

\* No reload is repeated for what the last one has already answered.
NoNeedlessReset == OncePerHiding /\ FreshMeasure

\* A watchdog that is pending is served, unless the memory recovers or the
\* user keeps typing; and a window that stays hidden is reloaded, for that or
\* for its memory, unless it is shown or used again.  (Memory comes first: over
\* its limit after every cooldown, it leaves no turn to the other triggers.)
ResetsHappen ==
  /\ memPending ~> ~memPending \/ sinceInput = 0
  /\ "hidden" \in on /\ hiddenFor = Hidden /\ ~hiddenFired ~> hiddenFor = None \/ hiddenFor = 0 \/ cooldown > 0
=============================================================================
