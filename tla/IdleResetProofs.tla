--------------------------- MODULE IdleResetProofs ---------------------------
(***************************************************************************)
(* Proofs about IdleReset, for every configuration of the thresholds.      *)
(*                                                                         *)
(* A sleeping worker that nobody notified has no deadline before its       *)
(* alarm, and time brings the deadlines nearer by no more than it brings   *)
(* the alarm; so what could fire is never overdue.  For the freshness of a *)
(* measure the proof counts the time that is left until a scan begun after *)
(* the last reload is over, and keeps it below what is left of the         *)
(* cooldown.                                                               *)
(***************************************************************************)
EXTENDS IdleReset, TLAPS

\* What a sleeping worker relies on.
Quiet ==
  worker = "asleep" /\ ~notified /\ alarm # 0 =>
    /\ alarm = None => Deadlines = {}
    /\ alarm # None => \A d \in Deadlines : alarm <= d

\* A hiding that has not fired has had no reload.
Hiding == hidResets <= 1 /\ (~hiddenFired => hidResets = 0)

\* The time until a scan begun after the last reload can be over.
UntilFresh ==
  IF worker = "scan"
    THEN IF scanOf = "fresh" THEN 1 - scanned ELSE (1 - scanned) + MemPoll + 1
    ELSE IF worker = "reload" THEN (1 - scanned) + sampleIn + 1 ELSE sampleIn + 1

\* A stale measure is replaced before the cooldown ends.
Freshness ==
  /\ scanOf = "stale" => measure = "stale"
  /\ "mem" \in on /\ measure = "stale" => cooldown > UntilFresh

\* The type invariant in parts: truth values, times, the hiding, the rest.
Flags ==
  /\ idleArmed \in BOOLEAN /\ focused \in BOOLEAN /\ visible \in BOOLEAN /\ hiddenFired \in BOOLEAN
  /\ memPending \in BOOLEAN /\ suppressed \in BOOLEAN /\ notified \in BOOLEAN /\ switching \in BOOLEAN
Times == sinceInput \in 0..MaxInput /\ sampleIn \in 0..MemPoll /\ cooldown \in 0..Cooldown
Hidings == hiddenFor \in {None} \union 0..Hidden /\ (hiddenFor # None <=> ~visible \/ ~focused)
Others ==
  /\ on \subseteq Triggers /\ (memPending => "mem" \in on)
  /\ worker \in {"sample", "scan", "poll", "reload", "asleep"} /\ scanned \in 0..1
  /\ alarm \in {None} \union Nat
  /\ scanOf \in {"fresh", "stale"} /\ measure \in {"fresh", "stale"} /\ hidResets \in Nat

\* A scan is made only for the watchdog.
Scanning == worker = "scan" => "mem" \in on

IInv == TypeOK /\ Scanning /\ Quiet /\ Hiding
-----------------------------------------------------------------------------
LEMMA Parts == TypeOK <=> Flags /\ Times /\ Hidings /\ Others
<1> USE DEF TypeOK, Flags, Times, Hidings, Others
<1>1. ASSUME TypeOK PROVE Flags /\ Times /\ Hidings /\ Others
  <2>1. Flags
    BY <1>1
  <2>2. Hidings
    BY <1>1
  <2>3. Times /\ Others
    BY <1>1
  <2> QED BY <2>1, <2>2, <2>3
<1>2. ASSUME Flags, Times, Hidings, Others PROVE TypeOK
  <2>1. {idleArmed, focused, visible, hiddenFired, memPending, suppressed, notified, switching}
           \subseteq BOOLEAN
    BY <1>2
  <2>2. (hiddenFor # None) = (~visible \/ ~focused)
    BY <1>2
  <2> QED BY <1>2, <2>1, <2>2
<1> QED BY <1>1, <1>2

HasLeast(S) == \E d \in S : \A e \in S : d <= e

LEMMA LeastOfUnion ==
  ASSUME NEW A, NEW B, A \subseteq Int, B \subseteq Int,
         A = {} \/ HasLeast(A), B = {} \/ HasLeast(B)
  PROVE  A \union B = {} \/ HasLeast(A \union B)
<1>1. CASE A = {} \/ B = {}
  BY <1>1 DEF HasLeast
<1>2. CASE HasLeast(A) /\ HasLeast(B)
  <2>1. PICK a \in A : \A e \in A : a <= e
    BY <1>2 DEF HasLeast
  <2>2. PICK b \in B : \A e \in B : b <= e
    BY <1>2 DEF HasLeast
  <2>3. CASE a <= b
    <3>1. \A e \in A \union B : a <= e
      BY <2>1, <2>2, <2>3
    <3> QED BY <3>1 DEF HasLeast
  <2>4. CASE ~(a <= b)
    <3>1. \A e \in A \union B : b <= e
      BY <2>1, <2>2, <2>4
    <3> QED BY <3>1 DEF HasLeast
  <2> QED BY <2>3, <2>4
<1> QED BY <1>1, <1>2

LEMMA LeastWhen ==
  ASSUME NEW armed, NEW left \in Int
  PROVE  /\ When(armed, left) \subseteq Int
         /\ When(armed, left) = {} \/ HasLeast(When(armed, left))
BY DEF When, HasLeast

\* A deadline is a time to come or now, and the next one is the least.
LEMMA NextIsLeast ==
  ASSUME TypeOK
  PROVE  /\ Deadlines \subseteq Nat
         /\ NextDeadline \in {None} \union Nat
         /\ NextDeadline = None => Deadlines = {}
         /\ NextDeadline # None => \A d \in Deadlines : NextDeadline <= d
<1> USE ConfigAssumption
<1> DEFINE I == Clamp(Idle - sinceInput)
           H == Clamp(Hidden - hiddenFor)
           S == Clamp(SafeIdle - sinceInput)
           idle == "idle" \in on /\ idleArmed
           hid == "hidden" \in on /\ hiddenFor # None /\ ~hiddenFired
           D1 == When(idle, I) \union When(hid, H)
           D2 == D1 \union When(memPending, S)
<1>1. I \in Nat /\ S \in Nat /\ sampleIn \in Nat /\ (hiddenFor # None => H \in Nat)
  BY DEF TypeOK, Clamp, Later, MaxInput, None
<1>2. hiddenFor \in Int /\ H \in Int
  BY DEF TypeOK, Clamp, Later, None
<1>3. Deadlines = D2 \union When("mem" \in on, sampleIn)
  BY DEF Deadlines
<1>4. Deadlines \subseteq Nat
  <2> HIDE DEF I, H, S
  <2> QED BY <1>1, <1>3 DEF When
<1>5. Deadlines = {} \/ HasLeast(Deadlines)
  <2> DEFINE A == When(idle, I)
             B == When(hid, H)
             C == When(memPending, S)
             E == When("mem" \in on, sampleIn)
  <2>1. /\ A \subseteq Int /\ (A = {} \/ HasLeast(A))
        /\ B \subseteq Int /\ (B = {} \/ HasLeast(B))
        /\ C \subseteq Int /\ (C = {} \/ HasLeast(C))
        /\ E \subseteq Int /\ (E = {} \/ HasLeast(E))
    <3> HIDE DEF I, H, S, idle, hid
    <3>1. I \in Int /\ S \in Int /\ sampleIn \in Int /\ H \in Int
      BY <1>1, <1>2
    <3> QED BY <3>1, LeastWhen
  <2>2. Deadlines = ((A \union B) \union C) \union E
    BY <1>3
  <2> HIDE DEF A, B, C, E
  <2>3. (A \union B) \subseteq Int /\ (A \union B = {} \/ HasLeast(A \union B))
    BY <2>1, LeastOfUnion
  <2>4. /\ ((A \union B) \union C) \subseteq Int
        /\ (A \union B) \union C = {} \/ HasLeast((A \union B) \union C)
    BY <2>1, <2>3, LeastOfUnion
  <2> QED BY <2>1, <2>2, <2>4, LeastOfUnion
<1>6. ASSUME Deadlines # {}
      PROVE  NextDeadline \in Deadlines /\ \A d \in Deadlines : NextDeadline <= d
  BY <1>5, <1>6 DEF HasLeast, NextDeadline
<1>7. NextDeadline # None <=> Deadlines # {}
  <2>1. ASSUME Deadlines # {} PROVE NextDeadline # None
    BY <1>4, <1>6, <2>1 DEF None
  <2> QED BY <2>1 DEF NextDeadline
<1> QED BY <1>4, <1>6, <1>7
-----------------------------------------------------------------------------
LEMMA InitInv == Init => IInv
<1> SUFFICES ASSUME Init PROVE IInv
  OBVIOUS
<1> USE ConfigAssumption DEF Init
<1>1. MaxInput \in Nat
  BY DEF MaxInput, Later
<1>2. TypeOK
  <2>1. {idleArmed, focused, visible, hiddenFired, memPending, suppressed, notified, switching}
           \subseteq BOOLEAN
    OBVIOUS
  <2>2. sinceInput \in 0..MaxInput /\ sampleIn \in 0..MemPoll /\ cooldown \in 0..Cooldown
    BY <1>1
  <2>3. hiddenFor \in {None} \union 0..Hidden /\ (hiddenFor # None) = (~visible \/ ~focused)
    BY DEF None
  <2>4. /\ on \subseteq Triggers /\ (memPending => "mem" \in on)
        /\ worker \in {"sample", "scan", "poll", "reload", "asleep"} /\ scanned \in 0..1
        /\ alarm \in {None} \union Nat
        /\ {scanOf, measure} \subseteq {"fresh", "stale"} /\ hidResets \in Nat
    <3>1. on \subseteq Triggers
      BY DEF Configured
    <3> QED BY <3>1
  <2> QED BY <2>1, <2>2, <2>3, <2>4 DEF TypeOK
<1> QED BY <1>2 DEF IInv, Scanning, Quiet, Hiding
\* No age passes its threshold, no time left goes below zero.
LEMMA TypesStep ==
  ASSUME TypeOK, Scanning, [Next]_vars
  PROVE  TypeOK'
<1> USE ConfigAssumption DEF policyVars, workerVars, history
<1>0. Flags /\ Times /\ Hidings /\ Others
  BY Parts
<1>1. CASE UserInput
  <2>1. Flags'
    BY <1>0, <1>1 DEF Flags, UserInput, Rearm, Notify
  <2>2. Times'
    BY <1>0, <1>1 DEF Times, UserInput, Rearm, StartCooldown, MaxInput, Later
  <2>3. Hidings'
    BY <1>0, <1>1 DEF Hidings, UserInput, Rearm, None
  <2>4. Others'
    BY <1>0, <1>1 DEF Others, UserInput, Rearm, Outdate, None
  <2> QED BY <2>1, <2>2, <2>3, <2>4, Parts, PTL
<1>2. CASE DispatchSwitch
  <2>1. Flags'
    BY <1>0, <1>2 DEF Flags, DispatchSwitch, Rearm, Notify
  <2>2. Times'
    BY <1>0, <1>2 DEF Times, DispatchSwitch, Rearm, StartCooldown, MaxInput, Later
  <2>3. Hidings'
    BY <1>0, <1>2 DEF Hidings, DispatchSwitch, Rearm, None
  <2>4. Others'
    BY <1>0, <1>2 DEF Others, DispatchSwitch, Rearm, Outdate, None
  <2> QED BY <2>1, <2>2, <2>3, <2>4, Parts, PTL
<1>3. CASE WorkspaceSwitch
  <2>1. Flags'
    BY <1>0, <1>3 DEF Flags, WorkspaceSwitch, FireMem, Notify
  <2>2. Times'
    BY <1>0, <1>3 DEF Times, WorkspaceSwitch, FireMem, StartCooldown, MaxInput, Later
  <2>3. Hidings'
    BY <1>0, <1>3 DEF Hidings, WorkspaceSwitch, FireMem, None
  <2>4. Others'
    BY <1>0, <1>3 DEF Others, WorkspaceSwitch, FireMem, Outdate, None
  <2> QED BY <2>1, <2>2, <2>3, <2>4, Parts, PTL
<1>4. ASSUME NEW b \in BOOLEAN, Focus(b)
      PROVE  TypeOK'
  <2>1. Flags'
    BY <1>0, <1>4 DEF Flags, Focus, SyncHidden, Notify
  <2>2. Times'
    BY <1>0, <1>4 DEF Times, Focus, SyncHidden, StartCooldown, MaxInput, Later
  <2>3. Hidings'
    BY <1>0, <1>4 DEF Hidings, Focus, SyncHidden, None
  <2>4. Others'
    BY <1>0, <1>4 DEF Others, Focus, SyncHidden, Outdate, None
  <2> QED BY <2>1, <2>2, <2>3, <2>4, Parts, PTL
<1>5. ASSUME NEW b \in BOOLEAN, Visibility(b)
      PROVE  TypeOK'
  <2>1. Flags'
    BY <1>0, <1>5 DEF Flags, Visibility, SyncHidden, Notify
  <2>2. Times'
    BY <1>0, <1>5 DEF Times, Visibility, SyncHidden, StartCooldown, MaxInput, Later
  <2>3. Hidings'
    BY <1>0, <1>5 DEF Hidings, Visibility, SyncHidden, None
  <2>4. Others'
    BY <1>0, <1>5 DEF Others, Visibility, SyncHidden, Outdate, None
  <2> QED BY <2>1, <2>2, <2>3, <2>4, Parts, PTL
<1>6. CASE BeginScan
  <2>1. Flags'
    BY <1>0, <1>6 DEF Flags, BeginScan, Notify
  <2>2. Times'
    BY <1>0, <1>6 DEF Times, BeginScan, StartCooldown, MaxInput, Later
  <2>3. Hidings'
    BY <1>0, <1>6 DEF Hidings, BeginScan, None
  <2>4. Others'
    BY <1>0, <1>6 DEF Others, BeginScan, Outdate, None
  <2> QED BY <2>1, <2>2, <2>3, <2>4, Parts, PTL
<1>7. CASE SkipScan
  <2>1. Flags'
    BY <1>0, <1>7 DEF Flags, SkipScan, Notify
  <2>2. Times'
    BY <1>0, <1>7 DEF Times, SkipScan, StartCooldown, MaxInput, Later
  <2>3. Hidings'
    BY <1>0, <1>7 DEF Hidings, SkipScan, None
  <2>4. Others'
    BY <1>0, <1>7 DEF Others, SkipScan, Outdate, None
  <2> QED BY <2>1, <2>2, <2>3, <2>4, Parts, PTL
<1>8. ASSUME NEW b \in BOOLEAN, EndScan(b)
      PROVE  TypeOK'
  <2>1. Flags'
    BY <1>0, <1>8 DEF Flags, EndScan, MemSample, Notify
  <2>2. Times'
    BY <1>0, <1>8 DEF Times, EndScan, MemSample, StartCooldown, MaxInput, Later
  <2>3. Hidings'
    BY <1>0, <1>8 DEF Hidings, EndScan, MemSample, None
  <2>4. Others'
    BY <1>0, <1>8 DEF Scanning, Others, EndScan, MemSample, None
  <2> QED BY <2>1, <2>2, <2>3, <2>4, Parts, PTL
<1>9. CASE PollFires
  <2>1. Flags'
    BY <1>0, <1>9 DEF Flags, PollFires, Fire, FireMem, FireIdle, FireHidden, Notify
  <2>2. Times'
    BY <1>0, <1>9 DEF Times, PollFires, Fire, FireMem, FireIdle, FireHidden, StartCooldown, MaxInput, Later
  <2>3. Hidings'
    BY <1>0, <1>9 DEF Hidings, PollFires, Fire, FireMem, FireIdle, FireHidden, None
  <2>4. Others'
    BY <1>0, <1>9 DEF Others, PollFires, Fire, FireMem, FireIdle, FireHidden, Outdate, None
  <2> QED BY <2>1, <2>2, <2>3, <2>4, Parts, PTL
<1>10. CASE PollSleeps
  <2>1. Flags'
    BY <1>0, <1>10 DEF Flags, PollSleeps, Notify
  <2>2. Times'
    BY <1>0, <1>10 DEF Times, PollSleeps, StartCooldown, MaxInput, Later
  <2>3. Hidings'
    BY <1>0, <1>10 DEF Hidings, PollSleeps, None
  <2>4. Others'
    BY <1>0, <1>10, NextIsLeast DEF Others, PollSleeps, None
  <2> QED BY <2>1, <2>2, <2>3, <2>4, Parts, PTL
<1>11. CASE Reloaded
  <2>1. Flags'
    BY <1>0, <1>11 DEF Flags, Reloaded, Notify
  <2>2. Times'
    BY <1>0, <1>11 DEF Times, Reloaded, StartCooldown, MaxInput, Later
  <2>3. Hidings'
    BY <1>0, <1>11 DEF Hidings, Reloaded, None
  <2>4. Others'
    BY <1>0, <1>11 DEF Others, Reloaded, Outdate, None
  <2> QED BY <2>1, <2>2, <2>3, <2>4, Parts, PTL
<1>12. CASE Wake
  <2>1. Flags'
    BY <1>0, <1>12 DEF Flags, Wake, Notify
  <2>2. Times'
    BY <1>0, <1>12 DEF Times, Wake, StartCooldown, MaxInput, Later
  <2>3. Hidings'
    BY <1>0, <1>12 DEF Hidings, Wake, None
  <2>4. Others'
    BY <1>0, <1>12 DEF Others, Wake, Outdate, None
  <2> QED BY <2>1, <2>2, <2>3, <2>4, Parts, PTL
<1>13. CASE Tick
  <2>1. Flags'
    BY <1>0, <1>13 DEF Flags, Tick, Older, Less, Notify
  <2>2. Times'
    BY <1>0, <1>13 DEF Times, Tick, Older, Less, StartCooldown, MaxInput, Later
  <2>3. Hidings'
    BY <1>0, <1>13 DEF Hidings, Tick, Older, Less, None
  <2>4. Others'
    BY <1>0, <1>13 DEF Others, Tick, Older, Less, Outdate, None
  <2> QED BY <2>1, <2>2, <2>3, <2>4, Parts, PTL
<1>14. CASE UNCHANGED vars
  BY <1>14 DEF vars, TypeOK
<1> QED BY <1>1, <1>2, <1>3, <1>4, <1>5, <1>6, <1>7, <1>8, <1>9, <1>10, <1>11, <1>12, <1>13, <1>14
      DEF Next, Signal, Work, Scan, Poll

\* What is left of a threshold shrinks by no more than the time that passes.
LEMMA Nearer ==
  ASSUME NEW i \in Int, NEW s \in Int, NEW t \in Int, NEW c \in Int, NEW d \in Int,
         NEW a \in Int, NEW b \in Int,
         t <= s + 1, d >= c - 1, a <= Later(i - s, c), b = a - 1
  PROVE  b <= Later(i - t, d)
BY DEF Later

\* Time brings no deadline nearer than the alarm, and whoever changes one
\* notifies the worker.
LEMMA QuietStep ==
  ASSUME IInv, [Next]_vars
  PROVE  Quiet'
<1> USE ConfigAssumption DEF IInv, TypeOK, Quiet
<1>1. CASE UserInput
  BY <1>1 DEF UserInput, Rearm, StartCooldown, Outdate, Notify, Unlocked, None, Later, policyVars, workerVars, history
<1>2. CASE DispatchSwitch
  BY <1>2 DEF DispatchSwitch, Rearm, StartCooldown, Outdate, Notify, Unlocked, None, Later, policyVars, workerVars, history
<1>3. CASE WorkspaceSwitch
  BY <1>3 DEF WorkspaceSwitch, FireMem, StartCooldown, Outdate, Notify, Unlocked, None, Later, policyVars, workerVars, history
<1>4. ASSUME NEW b \in BOOLEAN, Focus(b)
      PROVE  Quiet'
  BY <1>4 DEF Focus, SyncHidden, StartCooldown, Outdate, Notify, Unlocked, None, Later, policyVars, workerVars, history
<1>5. ASSUME NEW b \in BOOLEAN, Visibility(b)
      PROVE  Quiet'
  BY <1>5 DEF Visibility, SyncHidden, StartCooldown, Outdate, Notify, Unlocked, None, Later, policyVars, workerVars, history
<1>6. CASE BeginScan
  BY <1>6 DEF BeginScan, StartCooldown, Outdate, Notify, Unlocked, None, Later, policyVars, workerVars, history
<1>7. CASE SkipScan
  BY <1>7 DEF SkipScan, StartCooldown, Outdate, Notify, Unlocked, None, Later, policyVars, workerVars, history
<1>8. ASSUME NEW b \in BOOLEAN, EndScan(b)
      PROVE  Quiet'
  BY <1>8 DEF EndScan, MemSample, StartCooldown, Outdate, Notify, Unlocked, None, Later, policyVars, workerVars, history
<1>9. CASE PollFires
  BY <1>9 DEF PollFires, Fire, FireMem, FireIdle, FireHidden, StartCooldown, Outdate, Notify, Unlocked, None, Later, policyVars, workerVars, history
<1>10. CASE PollSleeps
  <2>1. Deadlines' = Deadlines
    BY <1>10 DEF PollSleeps, Deadlines, When, Clamp, Later
  <2>2. alarm' = NextDeadline /\ (worker' = "asleep" => NextDeadline # 0)
    BY <1>10 DEF PollSleeps
  <2> QED BY <2>1, <2>2, NextIsLeast
<1>11. CASE Reloaded
  BY <1>11 DEF Reloaded, StartCooldown, Outdate, Notify, Unlocked, None, Later, policyVars, workerVars, history
<1>12. CASE Wake
  BY <1>12 DEF Wake, StartCooldown, Outdate, Notify, Unlocked, None, Later, policyVars, workerVars, history
<1>13. CASE Tick
  <2> SUFFICES ASSUME worker' = "asleep", ~notified', alarm' # 0
               PROVE  /\ alarm' = None => Deadlines' = {}
                      /\ alarm' # None => \A d \in Deadlines' : alarm' <= d
    OBVIOUS
  <2>1. worker = "asleep" /\ ~notified /\ alarm # 0
    BY <1>13 DEF Tick
  <2>2. CASE alarm = None
    <3>1. Deadlines = {} /\ alarm' = None
      BY <1>13, <2>1, <2>2 DEF Tick, Less, None
    <3>2. Deadlines' = {}
      BY <1>13, <3>1 DEF Tick, Deadlines, When, None, Older
    <3> QED BY <3>1, <3>2
  <2>3. CASE alarm # None
    <3>1. alarm \in Nat \ {0} /\ alarm' = alarm - 1 /\ \A d \in Deadlines : alarm <= d
      BY <1>13, <2>1, <2>3 DEF Tick, Less, None
    <3>2. /\ sinceInput' \in Int /\ sinceInput' <= sinceInput + 1
          /\ cooldown' \in Int /\ cooldown' >= cooldown - 1
          /\ sampleIn' \in Int /\ sampleIn' >= sampleIn - 1
          /\ hiddenFor # None => /\ hiddenFor \in Int
                                /\ hiddenFor' \in Int /\ hiddenFor' <= hiddenFor + 1
          /\ hiddenFor' # None => hiddenFor # None
          /\ UNCHANGED <<on, idleArmed, hiddenFired, memPending>>
      BY <1>13 DEF Tick, Older, Less, None, MaxInput, Later
    <3>3. /\ "idle" \in on /\ idleArmed => alarm <= Clamp(Idle - sinceInput)
          /\ "hidden" \in on /\ hiddenFor # None /\ ~hiddenFired => alarm <= Clamp(Hidden - hiddenFor)
          /\ memPending => alarm <= Clamp(SafeIdle - sinceInput)
          /\ "mem" \in on => alarm <= sampleIn
      BY <3>1 DEF Deadlines, When
    <3>4. /\ Idle \in Int /\ SafeIdle \in Int /\ Hidden \in Int
          /\ sinceInput \in Int /\ cooldown \in Int /\ sampleIn \in Int
      OBVIOUS
    <3> HIDE DEF IInv, TypeOK, Quiet
    <3>5. ASSUME "idle" \in on, idleArmed PROVE alarm' <= Clamp(Idle - sinceInput)'
      <4>1. alarm <= Clamp(Idle - sinceInput)
        BY <3>3, <3>5
      <4>2. Idle \in Int /\ sinceInput \in Int /\ sinceInput' \in Int /\ sinceInput' <= sinceInput + 1
        BY <3>2, <3>4
      <4>3. cooldown \in Int /\ cooldown' \in Int /\ cooldown' >= cooldown - 1
        BY <3>2, <3>4
      <4>4. alarm \in Int /\ alarm' = alarm - 1
        BY <3>1
      <4>5. alarm <= Later(Idle - sinceInput, cooldown)
        BY <4>1 DEF Clamp
      <4>6. Clamp(Idle - sinceInput)' = Later(Idle - sinceInput', cooldown')
        BY DEF Clamp
      <4>7. alarm' \in Int
        BY <4>4
      <4>8. alarm' <= Later(Idle - sinceInput', cooldown')
        BY <4>2, <4>3, <4>4, <4>5, <4>7, Nearer
      <4> QED BY <4>6, <4>8
    <3>6. ASSUME memPending PROVE alarm' <= Clamp(SafeIdle - sinceInput)'
      <4>1. alarm <= Clamp(SafeIdle - sinceInput)
        BY <3>3, <3>6
      <4>2. SafeIdle \in Int /\ sinceInput \in Int /\ sinceInput' \in Int /\ sinceInput' <= sinceInput + 1
        BY <3>2, <3>4
      <4>3. cooldown \in Int /\ cooldown' \in Int /\ cooldown' >= cooldown - 1
        BY <3>2, <3>4
      <4>4. alarm \in Int /\ alarm' = alarm - 1
        BY <3>1
      <4>5. alarm <= Later(SafeIdle - sinceInput, cooldown)
        BY <4>1 DEF Clamp
      <4>6. Clamp(SafeIdle - sinceInput)' = Later(SafeIdle - sinceInput', cooldown')
        BY DEF Clamp
      <4>7. alarm' \in Int
        BY <4>4
      <4>8. alarm' <= Later(SafeIdle - sinceInput', cooldown')
        BY <4>2, <4>3, <4>4, <4>5, <4>7, Nearer
      <4> QED BY <4>6, <4>8
    <3>7. ASSUME "hidden" \in on, hiddenFor' # None, ~hiddenFired
          PROVE  alarm' <= Clamp(Hidden - hiddenFor)'
      BY <3>1, <3>2, <3>3, <3>4, <3>7 DEF Clamp, Later
    <3>8. ASSUME "mem" \in on PROVE alarm' <= sampleIn'
      BY <3>1, <3>2, <3>3, <3>4, <3>8
    <3>9. ASSUME NEW d \in Deadlines' PROVE alarm' <= d
      BY <3>2, <3>5, <3>6, <3>7, <3>8 DEF Deadlines, When
    <3>10. alarm' # None
      BY <3>1 DEF None
    <3> QED BY <3>9, <3>10
  <2> QED BY <2>2, <2>3
<1>14. CASE UNCHANGED vars
  BY <1>14 DEF vars, Deadlines, When, Clamp, policyVars, workerVars, history
<1> QED BY <1>1, <1>2, <1>3, <1>4, <1>5, <1>6, <1>7, <1>8, <1>9, <1>10, <1>11, <1>12, <1>13, <1>14
      DEF Next, Signal, Work, Scan, Poll

\* A reload for hiding is remembered until the hiding ends or its user is back.
LEMMA HidingStep ==
  ASSUME IInv, [Next]_vars
  PROVE  Hiding'
<1> USE ConfigAssumption DEF IInv, TypeOK, Hiding
<1>1. CASE UserInput
  BY <1>1 DEF UserInput, Rearm, StartCooldown, Outdate, Fires, IdleDue, HiddenDue, MemDue, policyVars, workerVars, history
<1>2. CASE DispatchSwitch
  BY <1>2 DEF DispatchSwitch, Rearm, StartCooldown, Outdate, Fires, IdleDue, HiddenDue, MemDue, policyVars, workerVars, history
<1>3. CASE WorkspaceSwitch
  BY <1>3 DEF WorkspaceSwitch, FireMem, StartCooldown, Outdate, Fires, IdleDue, HiddenDue, MemDue, policyVars, workerVars, history
<1>4. ASSUME NEW b \in BOOLEAN, Focus(b)
      PROVE  Hiding'
  BY <1>4 DEF Focus, SyncHidden, StartCooldown, Outdate, Fires, IdleDue, HiddenDue, MemDue, policyVars, workerVars, history
<1>5. ASSUME NEW b \in BOOLEAN, Visibility(b)
      PROVE  Hiding'
  BY <1>5 DEF Visibility, SyncHidden, StartCooldown, Outdate, Fires, IdleDue, HiddenDue, MemDue, policyVars, workerVars, history
<1>6. CASE BeginScan
  BY <1>6 DEF BeginScan, StartCooldown, Outdate, Fires, IdleDue, HiddenDue, MemDue, policyVars, workerVars, history
<1>7. CASE SkipScan
  BY <1>7 DEF SkipScan, StartCooldown, Outdate, Fires, IdleDue, HiddenDue, MemDue, policyVars, workerVars, history
<1>8. ASSUME NEW b \in BOOLEAN, EndScan(b)
      PROVE  Hiding'
  BY <1>8 DEF EndScan, MemSample, StartCooldown, Outdate, Fires, IdleDue, HiddenDue, MemDue, policyVars, workerVars, history
<1>9. CASE PollFires
  BY <1>9 DEF PollFires, Fire, FireMem, FireIdle, FireHidden, StartCooldown, Outdate, Fires, IdleDue, HiddenDue, MemDue, policyVars, workerVars, history
<1>10. CASE PollSleeps
  BY <1>10 DEF PollSleeps, StartCooldown, Outdate, Fires, IdleDue, HiddenDue, MemDue, policyVars, workerVars, history
<1>11. CASE Reloaded
  BY <1>11 DEF Reloaded, StartCooldown, Outdate, Fires, IdleDue, HiddenDue, MemDue, policyVars, workerVars, history
<1>12. CASE Wake
  BY <1>12 DEF Wake, StartCooldown, Outdate, Fires, IdleDue, HiddenDue, MemDue, policyVars, workerVars, history
<1>13. CASE Tick
  BY <1>13 DEF Tick, Older, Less, StartCooldown, Outdate, Fires, IdleDue, HiddenDue, MemDue, policyVars, workerVars, history
<1>14. CASE UNCHANGED vars
  BY <1>14 DEF vars, StartCooldown, Outdate, Fires, IdleDue, HiddenDue, MemDue, policyVars, workerVars, history
<1> QED BY <1>1, <1>2, <1>3, <1>4, <1>5, <1>6, <1>7, <1>8, <1>9, <1>10, <1>11, <1>12, <1>13, <1>14
      DEF Next, Signal, Work, Scan, Poll

\* Every step that makes a measure stale starts a cooldown longer than what is
\* left until a new one, and time takes as much of both.
LEMMA FreshStep ==
  ASSUME IInv, Freshness, Cooldown >= MemPoll + 3, [Next]_vars
  PROVE  Freshness'
<1> USE ConfigAssumption DEF IInv, TypeOK, Scanning, Quiet, Freshness, UntilFresh
<1>1. CASE UserInput
  BY <1>1 DEF UserInput, Rearm, StartCooldown, Outdate, Unlocked, SampleDue, Fires, None, Later, policyVars, workerVars, history
<1>2. CASE DispatchSwitch
  BY <1>2 DEF DispatchSwitch, Rearm, StartCooldown, Outdate, Unlocked, SampleDue, Fires, None, Later, policyVars, workerVars, history
<1>3. CASE WorkspaceSwitch
  BY <1>3 DEF WorkspaceSwitch, FireMem, StartCooldown, Outdate, Unlocked, SampleDue, Fires, None, Later, policyVars, workerVars, history
<1>4. ASSUME NEW b \in BOOLEAN, Focus(b)
      PROVE  Freshness'
  BY <1>4 DEF Focus, SyncHidden, StartCooldown, Outdate, Unlocked, SampleDue, Fires, None, Later, policyVars, workerVars, history
<1>5. ASSUME NEW b \in BOOLEAN, Visibility(b)
      PROVE  Freshness'
  BY <1>5 DEF Visibility, SyncHidden, StartCooldown, Outdate, Unlocked, SampleDue, Fires, None, Later, policyVars, workerVars, history
<1>6. CASE BeginScan
  BY <1>6 DEF BeginScan, StartCooldown, Outdate, Unlocked, SampleDue, Fires, None, Later, policyVars, workerVars, history
<1>7. CASE SkipScan
  BY <1>7 DEF SkipScan, StartCooldown, Outdate, Unlocked, SampleDue, Fires, None, Later, policyVars, workerVars, history
<1>8. ASSUME NEW b \in BOOLEAN, EndScan(b)
      PROVE  Freshness'
  BY <1>8 DEF EndScan, MemSample, StartCooldown, Outdate, Unlocked, SampleDue, Fires, None, Later, policyVars, workerVars, history
<1>9. CASE PollFires
  BY <1>9 DEF PollFires, Fire, FireMem, FireIdle, FireHidden, StartCooldown, Outdate, Unlocked, SampleDue, Fires, None, Later, policyVars, workerVars, history
<1>10. CASE PollSleeps
  BY <1>10 DEF PollSleeps, StartCooldown, Outdate, Unlocked, SampleDue, Fires, None, Later, policyVars, workerVars, history
<1>11. CASE Reloaded
  BY <1>11 DEF Reloaded, StartCooldown, Outdate, Unlocked, SampleDue, Fires, None, Later, policyVars, workerVars, history
<1>12. CASE Wake
  BY <1>12 DEF Wake, StartCooldown, Outdate, Unlocked, SampleDue, Fires, None, Later, policyVars, workerVars, history
<1>13. CASE Tick
  <2>1. /\ cooldown' = Less(cooldown) /\ sampleIn' = Less(sampleIn)
        /\ UNCHANGED <<on, worker, scanOf, measure>>
    BY <1>13 DEF Tick, history
  <2> SUFFICES ASSUME "mem" \in on, measure = "stale"
               PROVE  cooldown' > UntilFresh'
    BY <2>1
  <2>2. CASE worker = "asleep"
    <3>1. ~notified /\ alarm # 0
      BY <1>13, <2>2 DEF Tick
    <3>2. sampleIn \in Deadlines
      BY DEF Deadlines, When
    <3>3. sampleIn > 0
      BY <2>2, <3>1, <3>2 DEF None
    <3> QED BY <2>1, <2>2, <3>3 DEF Less
  <2>3. CASE worker \in {"scan", "reload"} /\ scanned = 0 /\ scanned' = 1
    BY <2>1, <2>3 DEF Less
  <2> QED BY <1>13, <2>2, <2>3 DEF Tick
<1>14. CASE UNCHANGED vars
  BY <1>14 DEF vars, StartCooldown, Outdate, Unlocked, SampleDue, Fires, None, Later, policyVars, workerVars, history
<1> QED BY <1>1, <1>2, <1>3, <1>4, <1>5, <1>6, <1>7, <1>8, <1>9, <1>10, <1>11, <1>12, <1>13, <1>14
      DEF Next, Signal, Work, Scan, Poll

\* A scan begins only when a sample is due.
LEMMA ScanStep ==
  ASSUME TypeOK, Scanning, [Next]_vars
  PROVE  Scanning'
<1> USE DEF Scanning, policyVars, workerVars, history
<1>1. CASE UserInput \/ DispatchSwitch
  BY <1>1 DEF UserInput, DispatchSwitch, Rearm
<1>2. CASE WorkspaceSwitch
  BY <1>2 DEF WorkspaceSwitch
<1>3. ASSUME NEW b \in BOOLEAN, Focus(b) \/ Visibility(b)
      PROVE  Scanning'
  BY <1>3 DEF Focus, Visibility
<1>4. CASE BeginScan \/ SkipScan
  BY <1>4 DEF BeginScan, SkipScan, SampleDue
<1>5. ASSUME NEW b \in BOOLEAN, EndScan(b)
      PROVE  Scanning'
  BY <1>5 DEF EndScan
<1>6. CASE PollFires \/ PollSleeps
  BY <1>6 DEF PollFires, PollSleeps
<1>7. CASE Reloaded \/ Wake \/ Tick
  BY <1>7 DEF Reloaded, Wake, Tick
<1>8. CASE UNCHANGED vars
  BY <1>8 DEF vars
<1> QED BY <1>1, <1>2, <1>3, <1>4, <1>5, <1>6, <1>7, <1>8
      DEF Next, Signal, Work, Scan, Poll
-----------------------------------------------------------------------------
\* The inductive invariant behind the theorems below (worker, poll,
\* next_deadline).
THEOREM Invariance == Spec => []IInv
<1>1. IInv /\ [Next]_vars => IInv'
  BY TypesStep, ScanStep, QuietStep, HidingStep DEF IInv
<1> QED BY InitInv, <1>1, PTL DEF Spec

\* Every age and time left of the policy stays within its threshold.
THEOREM TypeCorrect == Spec => []TypeOK
<1>1. IInv => TypeOK
  BY DEF IInv
<1> QED BY Invariance, <1>1, PTL

\* The worker never sleeps past a reload or a sample that is due, whatever
\* signals came in whatever order (worker's step 4, next_deadline).
THEOREM NothingIsMissed == Spec => []SleepMissesNothing
<1>1. ASSUME IInv PROVE SleepMissesNothing
  <2> USE <1>1, ConfigAssumption DEF IInv, TypeOK, Quiet
  <2> SUFFICES ASSUME worker = "asleep", ~notified, alarm # 0
               PROVE  /\ ~Fires /\ ~SampleDue
                      /\ alarm = None => on \subseteq {"hidden", "idle"} /\ ~("idle" \in on /\ idleArmed)
                      /\ alarm # None => \A d \in Deadlines : alarm <= d
    BY DEF SleepMissesNothing
  <2>1. \A d \in Deadlines : d # 0
    BY NextIsLeast DEF None
  <2>2. ~SampleDue
    BY <2>1 DEF SampleDue, Deadlines, When
  <2>3. ~Fires
    <3> SUFFICES ASSUME Fires PROVE FALSE
      OBVIOUS
    <3>1. cooldown = 0
      BY DEF Fires
    <3>2. CASE MemDue
      <4>1. Clamp(SafeIdle - sinceInput) = 0
        BY <3>1, <3>2 DEF MemDue, Clamp, Later
      <4> QED BY <2>1, <3>2, <4>1 DEF MemDue, Deadlines, When
    <3>3. CASE IdleDue
      <4>1. Clamp(Idle - sinceInput) = 0
        BY <3>1, <3>3 DEF IdleDue, Clamp, Later
      <4> QED BY <2>1, <3>3, <4>1 DEF IdleDue, Deadlines, When
    <3>4. CASE HiddenDue
      <4>1. Clamp(Hidden - hiddenFor) = 0
        BY <3>1, <3>4 DEF HiddenDue, Clamp, Later, None
      <4> QED BY <2>1, <3>4, <4>1 DEF HiddenDue, Deadlines, When
    <3> QED BY <3>2, <3>3, <3>4 DEF Fires
  <2>4. ASSUME Deadlines = {}
        PROVE  on \subseteq {"hidden", "idle"} /\ ~("idle" \in on /\ idleArmed)
    BY <2>4 DEF Deadlines, When, Triggers
  <2> QED BY <2>2, <2>3, <2>4
<1> QED BY Invariance, <1>1, PTL

\* When the cooldown outlasts a sampling period and two scans, as the defaults
\* do, no reload answers what the last one has answered: one for each hiding,
\* and none for a measure taken before it (sync_hidden, on_mem_sample).
THEOREM NoneIsNeedless ==
  ASSUME Cooldown >= MemPoll + 3
  PROVE  Spec => []NoNeedlessReset
<1>1. Init => Freshness
  BY DEF Init, Freshness
<1>2. IInv /\ Freshness /\ [Next]_vars => Freshness'
  BY FreshStep
<1>3. IInv /\ Freshness => NoNeedlessReset
  <2> SUFFICES ASSUME IInv, Freshness PROVE NoNeedlessReset
    OBVIOUS
  <2> USE ConfigAssumption DEF IInv
  <2>1. OncePerHiding
    BY DEF Hiding, OncePerHiding
  <2>2. FreshMeasure
    <3>1. UntilFresh \in Nat /\ cooldown \in Nat
      BY DEF TypeOK, UntilFresh
    <3>2. memPending => "mem" \in on /\ measure \in {"fresh", "stale"}
      BY DEF TypeOK
    <3>3. memPending /\ measure = "stale" => cooldown > UntilFresh
      BY <3>2 DEF Freshness
    <3> QED BY <3>1, <3>2, <3>3 DEF FreshMeasure
  <2> QED BY <2>1, <2>2 DEF NoNeedlessReset
<1> QED BY Invariance, <1>1, <1>2, <1>3, PTL DEF Spec
=============================================================================
