--------------------------- MODULE LifecycleProofs ---------------------------
(***************************************************************************)
(* Proofs about Lifecycle, for every set of tabs, every boot and every     *)
(* number of sessions and audits.                                          *)
(*                                                                         *)
(* A tab and the registries agree on a session unless one of four holds it *)
(* in its hands: the command that spawns it, the exit of its shell, the    *)
(* thread of a late spawn, or an audit.  The invariant says which, and why *)
(* none of them lets go what another needs: the lock keeps the command and *)
(* the audit apart, an exit passes the model before the registries, and a  *)
(* session that was ever carried is never a late one.                      *)
(***************************************************************************)
EXTENDS Lifecycle, TLAPS

\* Only sessions whose id was issued have a thread, a shell or a verdict.
Known ==
    \A s \in Sessions :
        (\/ spawnPc[s] # "none" \/ shell[s] # "none" \/ marker[s] # "no" \/ doomed[s] # "no")
            => s < nextId

\* The lock is held by one at a time, and what a command waits for is its own:
\* nobody ends it before the command has it or has given up.
SpawnInv ==
    /\ spawning # NoSession =>
        /\ auditPc = "idle"
        /\ spawnPc[spawning] \in {"called", "sink", "process", "registered"}
        /\ spawnPc[spawning] # "called" => spawning \in sinks
        /\ spawnPc[spawning] = "registered" => spawning \in sessions
    /\ \A s \in Sessions :
        /\ spawnPc[s] # "none" => owner[s] \in Tabs
        /\ shell[s] # "none" => spawnPc[s] \in {"process", "registered", "discard", "done"}
        /\ doomed[s] # "no" => spawning # s

\* A tab carries a session spawned for it, which stays in both registries until
\* the tab is respawned.
CarryInv ==
    /\ \A t \in Tabs : session[t] # NoSession => session[t] \in carried /\ owner[session[t]] = t
    /\ \A s \in carried : spawnPc[s] = "done"
    /\ Attachable
    /\ \A t \in Tabs :
        (spawning # NoSession /\ owner[spawning] = t /\ session[t] # NoSession)
            => session[t] \notin sessions \cup sinks

Uncarried(s) == \A t \in Tabs : session[t] # s

\* The registries know a session its tab has let go only between two steps of
\* its exit, and as long as they do, the exit is marked.
ExitOf(s) ==
    /\ shell[s] \in {"write", "mark", "apply", "unsink", "unsession", "unmark", "gone"}
        => spawning # s
    /\ shell[s] \in {"unsink", "unsession", "unmark", "gone"} => Uncarried(s)
    /\ shell[s] = "write" => s \in carried
    /\ shell[s] \in {"apply", "unsink", "unsession", "unmark"} => s \in exiting
    /\ (s \in carried /\ Uncarried(s)) =>
        /\ s \in sinks => shell[s] = "unsink"
        /\ s \in sessions => shell[s] \in {"unsink", "unsession"}
ExitInv == \A s \in Sessions : ExitOf(s)

\* What an audit has read can only make it spare more.
AuditInv ==
    /\ \A s \in Sessions : doomed[s] # "no" => s \notin carried
    /\ auditPc # "idle" =>
        \A s \in carried : Uncarried(s) /\ s \in sessions \cup sinks => s \in seenExiting
    /\ auditPc = "sinks" =>
        /\ \A s \in carried : Uncarried(s) /\ s \in seenSessions => s \in seenExiting
        /\ \A t \in Tabs : session[t] # NoSession => session[t] \in seenSessions

IInv == TypeOK /\ Known /\ SpawnInv /\ CarryInv /\ ExitInv /\ AuditInv /\ OnlyOwnScreen
LEMMA Ids == Sessions \subseteq Nat /\ NoSession \notin Sessions
BY LifecycleConstants DEF Sessions, NoSession

-----------------------------------------------------------------------------
\* At a boot no session exists, and records are those of earlier runs.
LEMMA InitInv == Init => IInv
<1> SUFFICES ASSUME Init PROVE IInv
  OBVIOUS
<1> USE LifecycleConstants DEF Init, Sessions, NoSession
<1>1. TypeOK
  BY DEF TypeOK, Issued
<1>2. Known /\ SpawnInv
  BY DEF Known, SpawnInv
<1>3. CarryInv
  BY DEF CarryInv, Attachable
<1>4. ExitInv /\ AuditInv
  BY DEF ExitInv, ExitOf, AuditInv
<1>5. OnlyOwnScreen
  BY SMTT(60) DEF OnlyOwnScreen, Older, NoRecord
<1> QED BY <1>1, <1>2, <1>3, <1>4, <1>5 DEF IInv

\* Ids are issued before anything is known of them, and no id is taken back.
LEMMA TypesStep ==
    ASSUME IInv, [Next]_vars
    PROVE  TypeOK'
<1> USE LifecycleConstants DEF IInv, TypeOK, Known, Issued, Sessions, NoSession, SpawnInv, Older, NoRecord
<1>1. ASSUME NEW t \in Tabs, BeginSpawn(t)
      PROVE  TypeOK'
  <2>1. nextId' = nextId + 1 /\ nextId \in 1..MaxSessions
    BY <1>1 DEF BeginSpawn
  <2>2. \A x \in 1..(nextId - 1) : x \in 1..(nextId' - 1)
    BY <2>1
  <2>3. sinks' \subseteq sinks /\ sessions' \subseteq sessions /\ killed' \subseteq killed \cup sessions
    BY <1>1 DEF BeginSpawn, Release
  <2>4. /\ owner' \in [1..MaxSessions -> Tabs \cup {NoTab}]
        /\ spawnPc' \in [1..MaxSessions -> {"none", "called", "sink", "process", "registered",
                                          "discard", "done"}]
        /\ spawning' \in 1..(nextId' - 1)
    BY <1>1, <2>1 DEF BeginSpawn
  <2>5. nextId' \in 1..(MaxSessions + 1)
    BY <2>1
  <2> HIDE DEF Known, SpawnInv
  <2> QED
    BY <1>1, <2>2, <2>3, <2>4, <2>5, SMTT(30) DEF BeginSpawn, modelVars, exitVars, auditVars, fileVars
<1>2. ASSUME NEW t \in Tabs, CloseTab(t)
      PROVE  TypeOK'
  <2>1. /\ status' \in [Tabs -> {"absent", "running", "notStarted", "exited", "closed"}]
        /\ session' \in [Tabs -> (1..(nextId - 1)) \cup {0}]
        /\ deleting' \in [Tabs -> Nat] /\ due' \in Nat
    BY <1>2 DEF CloseTab
  <2>2. sinks' \subseteq sinks /\ sessions' \subseteq sessions /\ killed' \subseteq killed \cup sessions
    BY <1>2 DEF CloseTab, Release
  <2> QED
    BY <1>2, <2>1, <2>2 DEF CloseTab, spawnVars, exitVars
<1>3. ASSUME NEW t \in Tabs, DeleteRecord(t)
      PROVE  TypeOK'
  <2>1. deleting' \in [Tabs -> Nat] /\ record' \in [Tabs -> (1..(nextId - 1)) \cup {0, -1}]
    <3>1. deleting' \in [Tabs -> Nat]
      BY <1>3 DEF DeleteRecord
    <3>2. record' \in [Tabs -> (1..(nextId - 1)) \cup {0, -1}]
      BY <1>3, ZenonT(60) DEF DeleteRecord
    <3> QED BY <3>1, <3>2
  <2> QED
    BY <1>3, <2>1 DEF DeleteRecord, modelVars, regVars, spawnVars, exitVars, auditVars
<1>4. ASSUME NEW s \in Sessions, SpawnSink(s)
      PROVE  TypeOK'
  BY <1>4 DEF SpawnSink, modelVars, exitVars, auditVars, fileVars
<1>5. ASSUME NEW s \in Sessions, SpawnProcess(s)
      PROVE  TypeOK'
  BY <1>5 DEF SpawnProcess, modelVars, regVars, exitVars, auditVars, fileVars
<1>6. ASSUME NEW s \in Sessions, SpawnRegister(s)
      PROVE  TypeOK'
  BY <1>6 DEF SpawnRegister, modelVars, exitVars, auditVars, fileVars
<1>7. ASSUME NEW s \in Sessions, SpawnFails(s)
      PROVE  TypeOK'
  <2>1. owner[s] \in Tabs /\ sinks' \subseteq sinks
    BY <1>7 DEF SpawnFails
  <2>2. spawnPc' \in [1..MaxSessions -> {"none", "called", "sink", "process", "registered",
                                       "discard", "done"}]
    BY <1>7 DEF SpawnFails
  <2>3. /\ session' \in [Tabs -> (1..(nextId - 1)) \cup {0}]
        /\ status' \in [Tabs -> {"absent", "running", "notStarted", "exited", "closed"}]
        /\ spawning' \in (1..(nextId - 1)) \cup {0}
    <3>1. CASE spawning = s /\ SpawnAbandoned(owner[s])
      <4>1. session' \in [Tabs -> (1..(nextId - 1)) \cup {0}]
        BY <3>1, <2>1 DEF SpawnAbandoned
      <4>2. status' \in [Tabs -> {"absent", "running", "notStarted", "exited", "closed"}]
        BY <3>1, <2>1 DEF SpawnAbandoned
      <4> QED BY <3>1, <4>1, <4>2 DEF SpawnAbandoned
    <3>2. CASE UNCHANGED <<spawning, session, status>>
      BY <3>2
    <3> QED BY <1>7, <3>1, <3>2 DEF SpawnFails
  <2> HIDE DEF Known, SpawnInv
  <2> QED
    BY <1>7, <2>1, <2>2, <2>3, SMTT(30) DEF SpawnFails, exitVars, auditVars, fileVars
<1>8. ASSUME NEW s \in Sessions, SpawnDiscardSink(s)
      PROVE  TypeOK'
  BY <1>8 DEF SpawnDiscardSink, modelVars, exitVars, auditVars, fileVars
<1>9. ASSUME NEW s \in Sessions, SpawnDiscardSession(s)
      PROVE  TypeOK'
  BY <1>9 DEF SpawnDiscardSession, modelVars, exitVars, auditVars, fileVars
<1>10. ASSUME NEW s \in Sessions, SpawnTimeout(s)
      PROVE  TypeOK'
  BY <1>10 DEF SpawnTimeout, SpawnAbandoned, regVars, spawnVars, exitVars, auditVars,
     fileVars
<1>11. ASSUME NEW s \in Sessions, SpawnReceived(s)
      PROVE  TypeOK'
  <2>1. owner[s] \in Tabs /\ s \in 1..(nextId - 1)
    BY <1>11 DEF SpawnReceived
  <2>2. /\ session' \in [Tabs -> (1..(nextId - 1)) \cup {0}]
        /\ status' \in [Tabs -> {"absent", "running", "notStarted", "exited", "closed"}]
        /\ deleting' \in [Tabs -> Nat]
    BY <1>11, <2>1 DEF SpawnReceived
  <2>3. spawnPc' \in [1..MaxSessions -> {"none", "called", "sink", "process", "registered",
                                       "discard", "done"}]
        /\ carried' \subseteq 1..(nextId - 1) /\ spawning' = 0
    BY <1>11, <2>1 DEF SpawnReceived
  <2> HIDE DEF Known, SpawnInv
  <2> QED
    BY <1>11, <2>2, <2>3, SMTT(30) DEF SpawnReceived, regVars, exitVars, auditVars
<1>12. ASSUME NEW s \in Sessions, ShellDies(s)
      PROVE  TypeOK'
  BY <1>12 DEF ShellDies, modelVars, regVars, spawnVars, exitVars, auditVars, fileVars
<1>13. ASSUME NEW s \in Sessions, MarkerSeen(s)
      PROVE  TypeOK'
  BY <1>13 DEF MarkerSeen, modelVars, regVars, spawnVars, exitVars, auditVars, fileVars
<1>14. ASSUME NEW s \in Sessions, RouterApply(s)
      PROVE  TypeOK'
  BY <1>14 DEF RouterApply, LockFree, Carries, regVars, spawnVars, exitVars, auditVars,
     fileVars
<1>15. ASSUME NEW s \in Sessions, WatchdogFires(s)
      PROVE  TypeOK'
  BY <1>15 DEF WatchdogFires, modelVars, regVars, spawnVars, exitVars, auditVars, fileVars
<1>16. ASSUME NEW s \in Sessions, WatchdogReports(s)
      PROVE  TypeOK'
  BY <1>16 DEF WatchdogReports, LockFree, Carries, regVars, spawnVars, exitVars, auditVars,
     fileVars
<1>17. ASSUME NEW s \in Sessions, ExitTake(s)
      PROVE  TypeOK'
  BY <1>17 DEF ExitTake, ExitTo, modelVars, regVars, spawnVars, auditVars, fileVars
<1>18. ASSUME NEW s \in Sessions, ExitAdopt(s)
      PROVE  TypeOK'
  BY <1>18, ZenonT(60) DEF ExitAdopt, ExitTo, LockFree, Carries, modelVars, regVars, spawnVars,
     auditVars, fileVars
<1>19. ASSUME NEW s \in Sessions, ExitWrite(s)
      PROVE  TypeOK'
  <2>1. record' \in [Tabs -> (1..(nextId - 1)) \cup {0, -1}]
    <3>1. CASE UNCHANGED record
      BY <3>1
    <3>2. ASSUME s \in taken, NEW r \in {s, NoRecord}, record' = [record EXCEPT ![owner[s]] = r]
          PROVE  record' \in [Tabs -> (1..(nextId - 1)) \cup {0, -1}]
      <4>1. r \in (1..(nextId - 1)) \cup {0, -1}
        BY <3>2
      <4> QED BY <4>1, <3>2
    <3> QED BY <1>19, <3>1, <3>2 DEF ExitWrite, WriteRecord
  <2>2. taken' \subseteq taken
    BY <1>19 DEF ExitWrite, WriteRecord
  <2>3. /\ shell' \in [1..MaxSessions -> {"none", "alive", "take", "adopt", "write", "mark",
                     "apply", "unsink", "unsession", "unmark", "gone"}]
        /\ UNCHANGED <<modelVars, regVars, spawning, spawnVars, killed, marker, watchdog,
                       exiting, auditVars, deleting, carried>>
    BY <1>19 DEF ExitWrite, WriteRecord, ExitTo
  <2> HIDE DEF Known, SpawnInv
  <2> QED
    BY <2>1, <2>2, <2>3, SMTT(30) DEF modelVars, regVars, spawnVars, auditVars
<1>20. ASSUME NEW s \in Sessions, ExitMark(s)
      PROVE  TypeOK'
  BY <1>20 DEF ExitMark, ExitTo, modelVars, regVars, spawnVars, auditVars, fileVars
<1>21. ASSUME NEW s \in Sessions, ExitApply(s)
      PROVE  TypeOK'
  BY <1>21 DEF ExitApply, LetGo, ExitTo, LockFree, regVars, spawnVars, exitVars, auditVars,
     fileVars
<1>22. ASSUME NEW s \in Sessions, ExitUnsink(s)
      PROVE  TypeOK'
  BY <1>22 DEF ExitUnsink, ExitTo, modelVars, spawnVars, exitVars, auditVars, fileVars
<1>23. ASSUME NEW s \in Sessions, ExitUnsession(s)
      PROVE  TypeOK'
  BY <1>23 DEF ExitUnsession, ExitTo, modelVars, spawnVars, exitVars, auditVars, fileVars
<1>24. ASSUME NEW s \in Sessions, ExitUnmark(s)
      PROVE  TypeOK'
  BY <1>24 DEF ExitUnmark, ExitTo, modelVars, regVars, spawnVars, fileVars
<1>25. ASSUME NEW s \in Sessions, AuditDropSink(s)
      PROVE  TypeOK'
  BY <1>25 DEF AuditDropSink, modelVars, spawnVars, exitVars, fileVars
<1>26. ASSUME NEW s \in Sessions, AuditDropSession(s)
      PROVE  TypeOK'
  BY <1>26 DEF AuditDropSession, modelVars, spawnVars, exitVars, fileVars
<1>27. CASE AuditStart
  BY <1>27 DEF AuditStart, LockFree, modelVars, regVars, spawnVars, exitVars, fileVars
<1>28. CASE AuditSessions
  BY <1>28 DEF AuditSessions, modelVars, regVars, spawnVars, exitVars, fileVars
<1>29. CASE AuditJudge
  <2>1. /\ status' \in [Tabs -> {"absent", "running", "notStarted", "exited", "closed"}]
        /\ session' \in [Tabs -> (1..(nextId - 1)) \cup {0}]
        /\ started' \subseteq started
    BY <1>29 DEF AuditJudge, LetGo
  <2>2. doomed' \in [1..MaxSessions -> {"no", "sink", "session"}]
    BY <1>29 DEF AuditJudge
  <2>3. /\ auditPc' = "idle" /\ seenExiting' = {} /\ seenSessions' = {}
        /\ UNCHANGED <<regVars, spawning, spawnVars, shell, killed, marker, watchdog,
                       exitVars, due, fileVars, carried>>
    BY <1>29 DEF AuditJudge
  <2> HIDE DEF Known, SpawnInv
  <2> QED
    BY <2>1, <2>2, <2>3, SMTT(30) DEF regVars, spawnVars, exitVars, fileVars
<1>30. CASE UNCHANGED vars
  <2>1. UNCHANGED <<status, session, started, sessions, sinks, nextId, spawning, auditPc,
        spawnPc, owner, shell, killed, marker, watchdog, taken, exiting, due, seenExiting,
        seenSessions, doomed, record, deleting, carried>>
    BY <1>30 DEF vars, modelVars, regVars, spawnVars, exitVars, auditVars, fileVars
  <2> QED BY <2>1
<1> QED BY <1>1, <1>2, <1>3, <1>4, <1>5, <1>6, <1>7, <1>8, <1>9, <1>10, <1>11, <1>12, <1>13,
    <1>14, <1>15, <1>16, <1>17, <1>18, <1>19, <1>20, <1>21, <1>22, <1>23, <1>24, <1>25,
    <1>26, <1>27, <1>28, <1>29, <1>30 DEF Next, SpawnThread, Startup, OnExit, Audit

\* Nothing starts for an id that was not issued.
LEMMA KnownStep ==
    ASSUME IInv, [Next]_vars
    PROVE  Known'
<1> USE LifecycleConstants DEF IInv, TypeOK, Known, Issued, Sessions, NoSession
<1>1. ASSUME NEW t \in Tabs, BeginSpawn(t)
      PROVE  Known'
  BY <1>1 DEF BeginSpawn, Release, Spawnable, LockFree, modelVars, exitVars, auditVars,
     fileVars
<1>2. ASSUME NEW s \in Sessions, SpawnSink(s)
      PROVE  Known'
  BY <1>2 DEF SpawnSink, modelVars, exitVars, auditVars, fileVars
<1>3. ASSUME NEW s \in Sessions, SpawnProcess(s)
      PROVE  Known'
  BY <1>3 DEF SpawnProcess, modelVars, regVars, exitVars, auditVars, fileVars
<1>4. ASSUME NEW s \in Sessions, SpawnRegister(s)
      PROVE  Known'
  BY <1>4 DEF SpawnRegister, modelVars, exitVars, auditVars, fileVars
<1>5. ASSUME NEW s \in Sessions, SpawnFails(s)
      PROVE  Known'
  BY <1>5 DEF SpawnFails, SpawnAbandoned, exitVars, auditVars, fileVars
<1>6. ASSUME NEW s \in Sessions, SpawnDiscardSink(s)
      PROVE  Known'
  BY <1>6 DEF SpawnDiscardSink, modelVars, exitVars, auditVars, fileVars
<1>7. ASSUME NEW s \in Sessions, SpawnDiscardSession(s)
      PROVE  Known'
  BY <1>7 DEF SpawnDiscardSession, modelVars, exitVars, auditVars, fileVars
<1>8. ASSUME NEW s \in Sessions, SpawnReceived(s)
      PROVE  Known'
  BY <1>8 DEF SpawnReceived, regVars, exitVars, auditVars
<1>9. ASSUME NEW s \in Sessions, ShellDies(s)
      PROVE  Known'
  BY <1>9 DEF ShellDies, modelVars, regVars, spawnVars, exitVars, auditVars, fileVars
<1>10. ASSUME NEW s \in Sessions, MarkerSeen(s)
      PROVE  Known'
  BY <1>10 DEF MarkerSeen, modelVars, regVars, spawnVars, exitVars, auditVars, fileVars
<1>11. ASSUME NEW s \in Sessions, RouterApply(s)
      PROVE  Known'
  BY <1>11 DEF RouterApply, LockFree, Carries, regVars, spawnVars, exitVars, auditVars,
     fileVars
<1>12. ASSUME NEW s \in Sessions, ExitTake(s)
      PROVE  Known'
  BY <1>12 DEF ExitTake, ExitTo, modelVars, regVars, spawnVars, auditVars, fileVars
<1>13. ASSUME NEW s \in Sessions, ExitAdopt(s)
      PROVE  Known'
  BY <1>13 DEF ExitAdopt, ExitTo, LockFree, Carries, modelVars, regVars, spawnVars,
     auditVars, fileVars
<1>14. ASSUME NEW s \in Sessions, ExitWrite(s)
      PROVE  Known'
  BY <1>14 DEF ExitWrite, WriteRecord, ExitTo, modelVars, regVars, spawnVars, auditVars
<1>15. ASSUME NEW s \in Sessions, ExitMark(s)
      PROVE  Known'
  BY <1>15 DEF ExitMark, ExitTo, modelVars, regVars, spawnVars, auditVars, fileVars
<1>16. ASSUME NEW s \in Sessions, ExitApply(s)
      PROVE  Known'
  BY <1>16 DEF ExitApply, LetGo, ExitTo, LockFree, regVars, spawnVars, exitVars, auditVars,
     fileVars
<1>17. ASSUME NEW s \in Sessions, ExitUnsink(s)
      PROVE  Known'
  BY <1>17 DEF ExitUnsink, ExitTo, modelVars, spawnVars, exitVars, auditVars, fileVars
<1>18. ASSUME NEW s \in Sessions, ExitUnsession(s)
      PROVE  Known'
  BY <1>18 DEF ExitUnsession, ExitTo, modelVars, spawnVars, exitVars, auditVars, fileVars
<1>19. ASSUME NEW s \in Sessions, ExitUnmark(s)
      PROVE  Known'
  BY <1>19 DEF ExitUnmark, ExitTo, modelVars, regVars, spawnVars, fileVars
<1>20. ASSUME NEW s \in Sessions, AuditDropSink(s)
      PROVE  Known'
  BY <1>20 DEF AuditDropSink, modelVars, spawnVars, exitVars, fileVars
<1>21. ASSUME NEW s \in Sessions, AuditDropSession(s)
      PROVE  Known'
  BY <1>21 DEF AuditDropSession, modelVars, spawnVars, exitVars, fileVars
<1>22. CASE AuditJudge
  BY <1>22 DEF AuditJudge, LetGo, Dangling, Orphans, regVars, spawnVars, exitVars, fileVars,
     Carries
<1>23. ASSUME NEW t \in Tabs, CloseTab(t) \/ DeleteRecord(t)
      PROVE  Known'
  <2>1. UNCHANGED <<nextId, spawnPc, shell, marker, doomed>>
    BY <1>23 DEF CloseTab, Release, spawnVars, exitVars, DeleteRecord, modelVars, regVars,
       auditVars
  <2> QED BY <2>1
<1>24. ASSUME NEW s \in Sessions, SpawnTimeout(s) \/ WatchdogFires(s) \/ WatchdogReports(s)
      PROVE  Known'
  <2>1. UNCHANGED <<nextId, spawnPc, shell, marker, doomed>>
    BY <1>24 DEF SpawnTimeout, SpawnAbandoned, regVars, spawnVars, exitVars, auditVars,
       fileVars, WatchdogFires, modelVars, WatchdogReports
  <2> QED BY <2>1
<1>25. CASE AuditStart \/ AuditSessions
  <2>1. UNCHANGED <<nextId, spawnPc, shell, marker, doomed>>
    BY <1>25 DEF AuditStart, modelVars, regVars, spawnVars, exitVars, fileVars, AuditSessions
  <2> QED BY <2>1
<1>26. CASE UNCHANGED vars
  <2>1. UNCHANGED <<nextId, spawnPc, shell, marker, doomed>>
    BY <1>26 DEF vars, modelVars, regVars, spawnVars, exitVars, auditVars, fileVars
  <2> QED BY <2>1
<1> QED BY <1>1, <1>2, <1>3, <1>4, <1>5, <1>6, <1>7, <1>8, <1>9, <1>10, <1>11, <1>12, <1>13,
    <1>14, <1>15, <1>16, <1>17, <1>18, <1>19, <1>20, <1>21, <1>22, <1>23, <1>24, <1>25,
    <1>26 DEF Next, SpawnThread, Startup, OnExit, Audit

\* What a command waits for is in no other hand: its exit waits for the lock,
\* and no audit dooms it.
LEMMA SpawnStep ==
    ASSUME IInv, [Next]_vars
    PROVE  SpawnInv'
<1> USE LifecycleConstants DEF IInv, TypeOK, Known, Issued, Sessions, NoSession, SpawnInv, ExitInv, ExitOf, AuditInv
<1>1. ASSUME NEW t \in Tabs, BeginSpawn(t)
      PROVE  SpawnInv'
  BY <1>1 DEF BeginSpawn, Release, Spawnable, LockFree, modelVars, exitVars, auditVars,
     fileVars
<1>2. ASSUME NEW t \in Tabs, CloseTab(t)
      PROVE  SpawnInv'
  BY <1>2 DEF CloseTab, Release, LockFree, spawnVars, exitVars
<1>3. ASSUME NEW s \in Sessions, SpawnSink(s)
      PROVE  SpawnInv'
  <2>1. CASE spawning = s
    BY <1>3, <2>1 DEF SpawnSink, modelVars, auditVars
  <2>2. CASE spawning # s
    <3>1. /\ spawnPc' = [spawnPc EXCEPT ![s] = "sink"] /\ sinks \subseteq sinks'
          /\ UNCHANGED <<sessions, spawning, auditPc, owner, shell, doomed>>
      BY <1>3 DEF SpawnSink, auditVars
    <3>2. spawning # NoSession => spawnPc'[spawning] = spawnPc[spawning]
      BY <2>2, <3>1
    <3>3. \A x \in Sessions : x # s => spawnPc'[x] = spawnPc[x]
      BY <3>1
    <3>4. shell[s] = "none" /\ owner[s] \in Tabs
      BY <1>3 DEF SpawnSink
    <3> QED BY <3>1, <3>2, <3>3, <3>4
  <2> QED BY <2>1, <2>2
<1>4. ASSUME NEW s \in Sessions, SpawnProcess(s)
      PROVE  SpawnInv'
  BY <1>4 DEF SpawnProcess, modelVars, regVars, exitVars, auditVars, fileVars
<1>5. ASSUME NEW s \in Sessions, SpawnRegister(s)
      PROVE  SpawnInv'
  BY <1>5 DEF SpawnRegister, modelVars, exitVars, auditVars, fileVars
<1>6. ASSUME NEW s \in Sessions, SpawnFails(s)
      PROVE  SpawnInv'
  BY <1>6 DEF SpawnFails, SpawnAbandoned, exitVars, auditVars, fileVars
<1>7. ASSUME NEW s \in Sessions, SpawnDiscardSink(s)
      PROVE  SpawnInv'
  BY <1>7 DEF SpawnDiscardSink, modelVars, exitVars, auditVars, fileVars
<1>8. ASSUME NEW s \in Sessions, SpawnDiscardSession(s)
      PROVE  SpawnInv'
  BY <1>8 DEF SpawnDiscardSession, modelVars, exitVars, auditVars, fileVars
<1>9. ASSUME NEW s \in Sessions, SpawnTimeout(s)
      PROVE  SpawnInv'
  BY <1>9 DEF SpawnTimeout, SpawnAbandoned, regVars, spawnVars, exitVars, auditVars,
     fileVars
<1>10. ASSUME NEW s \in Sessions, SpawnReceived(s)
      PROVE  SpawnInv'
  BY <1>10 DEF SpawnReceived, regVars, exitVars, auditVars
<1>11. ASSUME NEW s \in Sessions, ShellDies(s)
      PROVE  SpawnInv'
  BY <1>11 DEF ShellDies, modelVars, regVars, spawnVars, exitVars, auditVars, fileVars
<1>12. ASSUME NEW s \in Sessions, ExitTake(s)
      PROVE  SpawnInv'
  BY <1>12 DEF ExitTake, ExitTo, modelVars, regVars, spawnVars, auditVars, fileVars
<1>13. ASSUME NEW s \in Sessions, ExitAdopt(s)
      PROVE  SpawnInv'
  BY <1>13 DEF ExitAdopt, ExitTo, LockFree, Carries, modelVars, regVars, spawnVars,
     auditVars, fileVars
<1>14. ASSUME NEW s \in Sessions, ExitWrite(s)
      PROVE  SpawnInv'
  BY <1>14 DEF ExitWrite, WriteRecord, ExitTo, modelVars, regVars, spawnVars, auditVars
<1>15. ASSUME NEW s \in Sessions, ExitMark(s)
      PROVE  SpawnInv'
  BY <1>15 DEF ExitMark, ExitTo, modelVars, regVars, spawnVars, auditVars, fileVars
<1>16. ASSUME NEW s \in Sessions, ExitApply(s)
      PROVE  SpawnInv'
  BY <1>16 DEF ExitApply, LetGo, ExitTo, LockFree, regVars, spawnVars, exitVars, auditVars,
     fileVars
<1>17. ASSUME NEW s \in Sessions, ExitUnsink(s)
      PROVE  SpawnInv'
  BY <1>17 DEF ExitUnsink, ExitTo, modelVars, spawnVars, exitVars, auditVars, fileVars
<1>18. ASSUME NEW s \in Sessions, ExitUnsession(s)
      PROVE  SpawnInv'
  BY <1>18 DEF ExitUnsession, ExitTo, modelVars, spawnVars, exitVars, auditVars, fileVars
<1>19. ASSUME NEW s \in Sessions, ExitUnmark(s)
      PROVE  SpawnInv'
  BY <1>19 DEF ExitUnmark, ExitTo, modelVars, regVars, spawnVars, fileVars
<1>20. ASSUME NEW s \in Sessions, AuditDropSink(s)
      PROVE  SpawnInv'
  BY <1>20 DEF AuditDropSink, modelVars, spawnVars, exitVars, fileVars
<1>21. ASSUME NEW s \in Sessions, AuditDropSession(s)
      PROVE  SpawnInv'
  BY <1>21 DEF AuditDropSession, modelVars, spawnVars, exitVars, fileVars
<1>22. CASE AuditStart
  BY <1>22 DEF AuditStart, LockFree, modelVars, regVars, spawnVars, exitVars, fileVars
<1>23. CASE AuditSessions
  BY <1>23 DEF AuditSessions, modelVars, regVars, spawnVars, exitVars, fileVars
<1>24. CASE AuditJudge
  BY <1>24 DEF AuditJudge, LetGo, Dangling, Orphans, regVars, spawnVars, exitVars, fileVars,
     Carries
<1>25. ASSUME NEW t \in Tabs, DeleteRecord(t)
      PROVE  SpawnInv'
  <2>1. UNCHANGED <<spawning, auditPc, spawnPc, sinks, sessions, owner, shell, doomed>>
    BY <1>25 DEF DeleteRecord, modelVars, regVars, spawnVars, exitVars, auditVars
  <2> QED BY <2>1
<1>26. ASSUME NEW s \in Sessions, MarkerSeen(s) \/ RouterApply(s) \/ WatchdogFires(s) \/
       WatchdogReports(s)
      PROVE  SpawnInv'
  <2>1. UNCHANGED <<spawning, auditPc, spawnPc, sinks, sessions, owner, shell, doomed>>
    BY <1>26 DEF MarkerSeen, modelVars, regVars, spawnVars, exitVars, auditVars, fileVars,
       RouterApply, WatchdogFires, WatchdogReports
  <2> QED BY <2>1
<1>27. CASE UNCHANGED vars
  <2>1. UNCHANGED <<spawning, auditPc, spawnPc, sinks, sessions, owner, shell, doomed>>
    BY <1>27 DEF vars, modelVars, regVars, spawnVars, exitVars, auditVars, fileVars
  <2> QED BY <2>1
<1> QED BY <1>1, <1>2, <1>3, <1>4, <1>5, <1>6, <1>7, <1>8, <1>9, <1>10, <1>11, <1>12, <1>13,
    <1>14, <1>15, <1>16, <1>17, <1>18, <1>19, <1>20, <1>21, <1>22, <1>23, <1>24, <1>25,
    <1>26, <1>27 DEF Next, SpawnThread, Startup, OnExit, Audit

\* A registry lets a session go only when no tab carries it, or when the tab is
\* being respawned.
LEMMA CarryStep ==
    ASSUME IInv, [Next]_vars
    PROVE  CarryInv'
<1> USE LifecycleConstants DEF IInv, TypeOK, Known, Issued, Sessions, NoSession, SpawnInv, CarryInv, Attachable, ExitInv, ExitOf, Uncarried, AuditInv
<1>1. ASSUME NEW t \in Tabs, BeginSpawn(t)
      PROVE  CarryInv'
  <2>1. /\ spawning = NoSession /\ spawning' = nextId /\ owner' = [owner EXCEPT ![nextId] = t]
        /\ sinks' = sinks \ {session[t]} /\ sessions' = sessions \ {session[t]}
        /\ UNCHANGED <<session, carried>>
    BY <1>1 DEF BeginSpawn, LockFree, Release, modelVars
  <2>2. nextId \notin carried /\ owner'[nextId] = t
    BY <1>1, <2>1 DEF BeginSpawn
  <2>3. \A u \in Tabs : session[u] # NoSession =>
            session[u] \in carried /\ owner'[session[u]] = u /\ owner[session[u]] = u
    BY <2>1, <2>2
  <2>4. \A x \in carried : spawnPc'[x] = "done"
    BY <1>1, <2>2 DEF BeginSpawn
  <2>5. \A u \in Tabs : session[u] # NoSession /\ u # t =>
            session[u] \in sessions \cap sinks /\ session[u] # session[t]
    BY <2>1, <2>3
  <2>6. Attachable'
    BY <2>1, <2>2, <2>5
  <2> QED BY <2>1, <2>2, <2>3, <2>4, <2>6
<1>2. ASSUME NEW t \in Tabs, CloseTab(t)
      PROVE  CarryInv'
  BY <1>2 DEF CloseTab, Release, LockFree, spawnVars, exitVars
<1>3. ASSUME NEW s \in Sessions, SpawnSink(s)
      PROVE  CarryInv'
  BY <1>3 DEF SpawnSink, modelVars, exitVars, auditVars, fileVars
<1>4. ASSUME NEW s \in Sessions, SpawnProcess(s)
      PROVE  CarryInv'
  BY <1>4 DEF SpawnProcess, modelVars, regVars, exitVars, auditVars, fileVars
<1>5. ASSUME NEW s \in Sessions, SpawnRegister(s)
      PROVE  CarryInv'
  BY <1>5 DEF SpawnRegister, modelVars, exitVars, auditVars, fileVars
<1>6. ASSUME NEW s \in Sessions, SpawnFails(s)
      PROVE  CarryInv'
  <2>1. s \notin carried /\ owner[s] \in Tabs
    BY <1>6 DEF SpawnFails
  <2>2. CASE spawning = s /\ SpawnAbandoned(owner[s])
    <3>1. /\ spawning' = NoSession
          /\ session' = [session EXCEPT ![owner[s]] = NoSession]
      BY <2>2 DEF SpawnAbandoned
    <3> QED BY <1>6, <2>1, <2>2, <3>1 DEF SpawnFails
  <2>3. CASE spawning # s /\ UNCHANGED <<spawning, session, status>>
    BY <1>6, <2>1, <2>3 DEF SpawnFails
  <2> QED BY <1>6, <2>2, <2>3 DEF SpawnFails
<1>7. ASSUME NEW s \in Sessions, SpawnDiscardSink(s)
      PROVE  CarryInv'
  BY <1>7 DEF SpawnDiscardSink, modelVars, exitVars, auditVars, fileVars
<1>8. ASSUME NEW s \in Sessions, SpawnDiscardSession(s)
      PROVE  CarryInv'
  BY <1>8 DEF SpawnDiscardSession, modelVars, exitVars, auditVars, fileVars
<1>9. ASSUME NEW s \in Sessions, SpawnTimeout(s)
      PROVE  CarryInv'
  BY <1>9 DEF SpawnTimeout, SpawnAbandoned, regVars, spawnVars, exitVars, auditVars,
     fileVars
<1>10. ASSUME NEW s \in Sessions, SpawnReceived(s)
      PROVE  CarryInv'
  BY <1>10 DEF SpawnReceived, regVars, exitVars, auditVars
<1>11. ASSUME NEW s \in Sessions, ExitApply(s)
      PROVE  CarryInv'
  BY <1>11 DEF ExitApply, LetGo, ExitTo, LockFree, regVars, spawnVars, exitVars, auditVars,
     fileVars
<1>12. ASSUME NEW s \in Sessions, ExitUnsink(s)
      PROVE  CarryInv'
  BY <1>12 DEF ExitUnsink, ExitTo, modelVars, spawnVars, exitVars, auditVars, fileVars
<1>13. ASSUME NEW s \in Sessions, ExitUnsession(s)
      PROVE  CarryInv'
  BY <1>13 DEF ExitUnsession, ExitTo, modelVars, spawnVars, exitVars, auditVars, fileVars
<1>14. ASSUME NEW s \in Sessions, AuditDropSink(s)
      PROVE  CarryInv'
  BY <1>14 DEF AuditDropSink, modelVars, spawnVars, exitVars, fileVars
<1>15. ASSUME NEW s \in Sessions, AuditDropSession(s)
      PROVE  CarryInv'
  BY <1>15 DEF AuditDropSession, modelVars, spawnVars, exitVars, fileVars
<1>16. CASE AuditJudge
  BY <1>16 DEF AuditJudge, LetGo, Dangling, Orphans, regVars, spawnVars, exitVars, fileVars,
     Carries
<1>17. ASSUME NEW t \in Tabs, DeleteRecord(t)
      PROVE  CarryInv'
  <2>1. UNCHANGED <<session, carried, owner, spawnPc, sessions, sinks, spawning>>
    BY <1>17 DEF DeleteRecord, modelVars, regVars, spawnVars, exitVars, auditVars
  <2> QED BY <2>1
<1>18. ASSUME NEW s \in Sessions, ShellDies(s) \/ MarkerSeen(s) \/ RouterApply(s) \/
       WatchdogFires(s) \/ WatchdogReports(s) \/ ExitTake(s) \/ ExitAdopt(s) \/ ExitWrite(s)
       \/ ExitMark(s) \/ ExitUnmark(s)
      PROVE  CarryInv'
  <2>1. UNCHANGED <<session, carried, owner, spawnPc, sessions, sinks, spawning>>
    BY <1>18 DEF ShellDies, modelVars, regVars, spawnVars, exitVars, auditVars, fileVars,
       MarkerSeen, RouterApply, WatchdogFires, WatchdogReports, ExitTake, ExitTo, ExitAdopt,
       ExitWrite, WriteRecord, ExitMark, ExitUnmark
  <2> QED BY <2>1
<1>19. CASE AuditStart \/ AuditSessions
  <2>1. UNCHANGED <<session, carried, owner, spawnPc, sessions, sinks, spawning>>
    BY <1>19 DEF AuditStart, modelVars, regVars, spawnVars, exitVars, fileVars, AuditSessions
  <2> QED BY <2>1
<1>20. CASE UNCHANGED vars
  <2>1. UNCHANGED <<session, carried, owner, spawnPc, sessions, sinks, spawning>>
    BY <1>20 DEF vars, modelVars, regVars, spawnVars, exitVars, auditVars, fileVars
  <2> QED BY <2>1
<1> QED BY <1>1, <1>2, <1>3, <1>4, <1>5, <1>6, <1>7, <1>8, <1>9, <1>10, <1>11, <1>12, <1>13,
    <1>14, <1>15, <1>16, <1>17, <1>18, <1>19, <1>20 DEF Next, SpawnThread, Startup, OnExit,
    Audit

\* The steps of an exit come in their order, the model before the registries.
LEMMA ExitStep ==
    ASSUME IInv, [Next]_vars
    PROVE  ExitInv'
<1> USE LifecycleConstants DEF IInv, TypeOK, Known, Issued, Sessions, NoSession, SpawnInv, CarryInv, Attachable, ExitInv, ExitOf, Uncarried, AuditInv
<1>1. ASSUME NEW t \in Tabs, BeginSpawn(t)
      PROVE  ExitInv'
  BY <1>1 DEF BeginSpawn, Release, Spawnable, LockFree, modelVars, exitVars, auditVars,
     fileVars
<1>2. ASSUME NEW t \in Tabs, CloseTab(t)
      PROVE  ExitInv'
  BY <1>2 DEF CloseTab, Release, LockFree, spawnVars, exitVars
<1>3. ASSUME NEW s \in Sessions, SpawnSink(s)
      PROVE  ExitInv'
  BY <1>3 DEF SpawnSink, modelVars, exitVars, auditVars, fileVars
<1>4. ASSUME NEW s \in Sessions, SpawnProcess(s)
      PROVE  ExitInv'
  BY <1>4 DEF SpawnProcess, modelVars, regVars, exitVars, auditVars, fileVars
<1>5. ASSUME NEW s \in Sessions, SpawnRegister(s)
      PROVE  ExitInv'
  BY <1>5 DEF SpawnRegister, modelVars, exitVars, auditVars, fileVars
<1>6. ASSUME NEW s \in Sessions, SpawnFails(s)
      PROVE  ExitInv'
  BY <1>6 DEF SpawnFails, SpawnAbandoned, exitVars, auditVars, fileVars
<1>7. ASSUME NEW s \in Sessions, SpawnDiscardSink(s)
      PROVE  ExitInv'
  BY <1>7 DEF SpawnDiscardSink, modelVars, exitVars, auditVars, fileVars
<1>8. ASSUME NEW s \in Sessions, SpawnDiscardSession(s)
      PROVE  ExitInv'
  BY <1>8 DEF SpawnDiscardSession, modelVars, exitVars, auditVars, fileVars
<1>9. ASSUME NEW s \in Sessions, SpawnTimeout(s)
      PROVE  ExitInv'
  BY <1>9 DEF SpawnTimeout, SpawnAbandoned, regVars, spawnVars, exitVars, auditVars,
     fileVars
<1>10. ASSUME NEW s \in Sessions, SpawnReceived(s)
      PROVE  ExitInv'
  BY <1>10 DEF SpawnReceived, regVars, exitVars, auditVars
<1>11. ASSUME NEW s \in Sessions, ShellDies(s)
      PROVE  ExitInv'
  <2>1. UNCHANGED <<session, sinks, sessions, spawning, carried>>
    BY <1>11 DEF ShellDies, modelVars, regVars, spawnVars, auditVars, fileVars, exitVars
  <2>2. \A x \in Sessions : x # s => shell'[x] = shell[x] /\ (x \in exiting => x \in exiting')
    BY <1>11 DEF ShellDies, modelVars, regVars, spawnVars, auditVars, fileVars, exitVars
  <2>3. \A x \in Sessions : x # s => ExitOf(x)'
    BY <2>1, <2>2
  <2>4. shell'[s] = "take"
    BY <1>11 DEF ShellDies, modelVars, regVars, spawnVars, auditVars, fileVars, exitVars
  <2>5. (s \in carried /\ Uncarried(s)) => s \notin sinks /\ s \notin sessions
    BY <1>11 DEF ShellDies
  <2>6. ExitOf(s)'
    BY <2>1, <2>4, <2>5
  <2> QED BY <2>3, <2>6
<1>12. ASSUME NEW s \in Sessions, ExitTake(s)
      PROVE  ExitInv'
  <2>1. UNCHANGED <<session, sinks, sessions, spawning, carried>>
    BY <1>12 DEF ExitTake, ExitTo, modelVars, regVars, spawnVars, auditVars, fileVars
  <2>2. \A x \in Sessions : x # s => shell'[x] = shell[x] /\ (x \in exiting => x \in exiting')
    BY <1>12 DEF ExitTake, ExitTo, modelVars, regVars, spawnVars, auditVars, fileVars
  <2>3. \A x \in Sessions : x # s => ExitOf(x)'
    BY <2>1, <2>2
  <2>4. shell'[s] = "adopt"
    BY <1>12 DEF ExitTake, ExitTo, modelVars, regVars, spawnVars, auditVars, fileVars
  <2>5. (s \in carried /\ Uncarried(s)) => s \notin sinks /\ s \notin sessions
    BY <1>12 DEF ExitTake
  <2>6. ExitOf(s)'
    BY <2>1, <2>4, <2>5
  <2> QED BY <2>3, <2>6
<1>13. ASSUME NEW s \in Sessions, ExitAdopt(s)
      PROVE  ExitInv'
  <2>1. UNCHANGED <<session, sinks, sessions, spawning, carried>>
    BY <1>13 DEF ExitAdopt, ExitTo, LockFree, Carries, modelVars, regVars, spawnVars, auditVars, fileVars
  <2>2. \A x \in Sessions : x # s => shell'[x] = shell[x] /\ (x \in exiting => x \in exiting')
    BY <1>13 DEF ExitAdopt, ExitTo, LockFree, Carries, modelVars, regVars, spawnVars, auditVars, fileVars
  <2>3. \A x \in Sessions : x # s => ExitOf(x)'
    BY <2>1, <2>2
  <2>4. shell'[s] \in {"write", "mark"} /\ spawning # s /\ (shell'[s] = "write" => s \in carried)
    <3>1. spawning # s
      BY <1>13 DEF ExitAdopt, LockFree
    <3>2. CASE Carries(owner[s], s)
      <4>1. owner[s] \in Tabs
        BY <1>13 DEF ExitAdopt
      <4> QED BY <1>13, <3>1, <3>2, <4>1 DEF ExitAdopt, ExitTo, Carries
    <3>3. CASE ~Carries(owner[s], s)
      BY <1>13, <3>1, <3>3 DEF ExitAdopt, ExitTo
    <3> QED BY <3>2, <3>3
  <2>5. (s \in carried /\ Uncarried(s)) => s \notin sinks /\ s \notin sessions
    BY <1>13 DEF ExitAdopt
  <2>6. ExitOf(s)'
    BY <2>1, <2>4, <2>5
  <2> QED BY <2>3, <2>6
<1>14. ASSUME NEW s \in Sessions, ExitWrite(s)
      PROVE  ExitInv'
  <2>1. UNCHANGED <<session, sinks, sessions, spawning, carried>>
    BY <1>14 DEF ExitWrite, WriteRecord, ExitTo, modelVars, regVars, spawnVars, auditVars
  <2>2. \A x \in Sessions : x # s => shell'[x] = shell[x] /\ (x \in exiting => x \in exiting')
    BY <1>14 DEF ExitWrite, WriteRecord, ExitTo, modelVars, regVars, spawnVars, auditVars
  <2>3. \A x \in Sessions : x # s => ExitOf(x)'
    BY <2>1, <2>2
  <2>4. shell'[s] = "mark" /\ spawning # s
    BY <1>14 DEF ExitWrite, WriteRecord, ExitTo, modelVars, regVars, spawnVars, auditVars
  <2>5. (s \in carried /\ Uncarried(s)) => s \notin sinks /\ s \notin sessions
    BY <1>14 DEF ExitWrite, WriteRecord
  <2>6. ExitOf(s)'
    BY <2>1, <2>4, <2>5
  <2> QED BY <2>3, <2>6
<1>15. ASSUME NEW s \in Sessions, ExitMark(s)
      PROVE  ExitInv'
  <2>1. UNCHANGED <<session, sinks, sessions, spawning, carried>>
    BY <1>15 DEF ExitMark, ExitTo, modelVars, regVars, spawnVars, auditVars, fileVars
  <2>2. \A x \in Sessions : x # s => shell'[x] = shell[x] /\ (x \in exiting => x \in exiting')
    BY <1>15 DEF ExitMark, ExitTo, modelVars, regVars, spawnVars, auditVars, fileVars
  <2>3. \A x \in Sessions : x # s => ExitOf(x)'
    BY <2>1, <2>2
  <2>4. shell'[s] = "apply" /\ spawning # s /\ s \in exiting'
    BY <1>15 DEF ExitMark, ExitTo, modelVars, regVars, spawnVars, auditVars, fileVars
  <2>5. (s \in carried /\ Uncarried(s)) => s \notin sinks /\ s \notin sessions
    BY <1>15 DEF ExitMark
  <2>6. ExitOf(s)'
    BY <2>1, <2>4, <2>5
  <2> QED BY <2>3, <2>6
<1>16. ASSUME NEW s \in Sessions, ExitApply(s)
      PROVE  ExitInv'
  BY <1>16 DEF ExitApply, LetGo, ExitTo, LockFree, regVars, spawnVars, exitVars, auditVars,
     fileVars
<1>17. ASSUME NEW s \in Sessions, ExitUnsink(s)
      PROVE  ExitInv'
  BY <1>17 DEF ExitUnsink, ExitTo, modelVars, spawnVars, exitVars, auditVars, fileVars
<1>18. ASSUME NEW s \in Sessions, ExitUnsession(s)
      PROVE  ExitInv'
  BY <1>18 DEF ExitUnsession, ExitTo, modelVars, spawnVars, exitVars, auditVars, fileVars
<1>19. ASSUME NEW s \in Sessions, ExitUnmark(s)
      PROVE  ExitInv'
  <2>1. UNCHANGED <<session, sinks, sessions, spawning, carried>>
    BY <1>19 DEF ExitUnmark, ExitTo, modelVars, regVars, spawnVars, fileVars
  <2>2. \A x \in Sessions : x # s => shell'[x] = shell[x] /\ (x \in exiting => x \in exiting')
    BY <1>19 DEF ExitUnmark, ExitTo, modelVars, regVars, spawnVars, fileVars
  <2>3. \A x \in Sessions : x # s => ExitOf(x)'
    BY <2>1, <2>2
  <2>4. shell'[s] = "gone" /\ spawning # s /\ Uncarried(s)
    BY <1>19 DEF ExitUnmark, ExitTo, modelVars, regVars, spawnVars, fileVars
  <2>5. (s \in carried /\ Uncarried(s)) => s \notin sinks /\ s \notin sessions
    BY <1>19 DEF ExitUnmark
  <2>6. ExitOf(s)'
    BY <2>1, <2>4, <2>5
  <2> QED BY <2>3, <2>6
<1>20. ASSUME NEW s \in Sessions, AuditDropSink(s)
      PROVE  ExitInv'
  BY <1>20 DEF AuditDropSink, modelVars, spawnVars, exitVars, fileVars
<1>21. ASSUME NEW s \in Sessions, AuditDropSession(s)
      PROVE  ExitInv'
  BY <1>21 DEF AuditDropSession, modelVars, spawnVars, exitVars, fileVars
<1>22. CASE AuditJudge
  <2>1. Dangling = {}
    BY <1>22 DEF AuditJudge, Dangling, Carries
  <2>2. session' = session
    BY <1>22, <2>1 DEF AuditJudge, LetGo
  <2> QED BY <1>22, <2>2 DEF AuditJudge, regVars, exitVars, spawnVars
<1>23. ASSUME NEW t \in Tabs, DeleteRecord(t)
      PROVE  ExitInv'
  <2>1. UNCHANGED <<shell, spawning, session, carried, exiting, sinks, sessions>>
    BY <1>23 DEF DeleteRecord, modelVars, regVars, spawnVars, exitVars, auditVars
  <2> QED BY <2>1
<1>24. ASSUME NEW s \in Sessions, MarkerSeen(s) \/ RouterApply(s) \/ WatchdogFires(s) \/
       WatchdogReports(s)
      PROVE  ExitInv'
  <2>1. UNCHANGED <<shell, spawning, session, carried, exiting, sinks, sessions>>
    BY <1>24 DEF MarkerSeen, modelVars, regVars, spawnVars, exitVars, auditVars, fileVars,
       RouterApply, WatchdogFires, WatchdogReports
  <2> QED BY <2>1
<1>25. CASE AuditStart \/ AuditSessions
  <2>1. UNCHANGED <<shell, spawning, session, carried, exiting, sinks, sessions>>
    BY <1>25 DEF AuditStart, modelVars, regVars, spawnVars, exitVars, fileVars, AuditSessions
  <2> QED BY <2>1
<1>26. CASE UNCHANGED vars
  <2>1. UNCHANGED <<shell, spawning, session, carried, exiting, sinks, sessions>>
    BY <1>26 DEF vars, modelVars, regVars, spawnVars, exitVars, auditVars, fileVars
  <2> QED BY <2>1
<1> QED BY <1>1, <1>2, <1>3, <1>4, <1>5, <1>6, <1>7, <1>8, <1>9, <1>10, <1>11, <1>12, <1>13,
    <1>14, <1>15, <1>16, <1>17, <1>18, <1>19, <1>20, <1>21, <1>22, <1>23, <1>24, <1>25,
    <1>26 DEF Next, SpawnThread, Startup, OnExit, Audit

\* What a tab lets go after the marks were read stays out of the verdict.
LEMMA AuditStep ==
    ASSUME IInv, [Next]_vars
    PROVE  AuditInv'
<1> USE LifecycleConstants DEF IInv, TypeOK, Known, Issued, Sessions, NoSession, SpawnInv, CarryInv, Attachable, ExitInv, ExitOf, Uncarried, AuditInv
<1>1. ASSUME NEW t \in Tabs, BeginSpawn(t)
      PROVE  AuditInv'
  BY <1>1 DEF BeginSpawn, Release, Spawnable, LockFree, modelVars, exitVars, auditVars,
     fileVars
<1>2. ASSUME NEW t \in Tabs, CloseTab(t)
      PROVE  AuditInv'
  BY <1>2 DEF CloseTab, Release, LockFree, spawnVars, exitVars
<1>3. ASSUME NEW s \in Sessions, SpawnSink(s)
      PROVE  AuditInv'
  BY <1>3 DEF SpawnSink, modelVars, exitVars, auditVars, fileVars
<1>4. ASSUME NEW s \in Sessions, SpawnRegister(s)
      PROVE  AuditInv'
  BY <1>4 DEF SpawnRegister, modelVars, exitVars, auditVars, fileVars
<1>5. ASSUME NEW s \in Sessions, SpawnFails(s)
      PROVE  AuditInv'
  BY <1>5 DEF SpawnFails, SpawnAbandoned, exitVars, auditVars, fileVars
<1>6. ASSUME NEW s \in Sessions, SpawnDiscardSink(s)
      PROVE  AuditInv'
  BY <1>6 DEF SpawnDiscardSink, modelVars, exitVars, auditVars, fileVars
<1>7. ASSUME NEW s \in Sessions, SpawnDiscardSession(s)
      PROVE  AuditInv'
  BY <1>7 DEF SpawnDiscardSession, modelVars, exitVars, auditVars, fileVars
<1>8. ASSUME NEW s \in Sessions, SpawnTimeout(s)
      PROVE  AuditInv'
  BY <1>8 DEF SpawnTimeout, SpawnAbandoned, regVars, spawnVars, exitVars, auditVars,
     fileVars
<1>9. ASSUME NEW s \in Sessions, SpawnReceived(s)
      PROVE  AuditInv'
  BY <1>9 DEF SpawnReceived, regVars, exitVars, auditVars
<1>10. ASSUME NEW s \in Sessions, ExitApply(s)
      PROVE  AuditInv'
  BY <1>10 DEF ExitApply, LetGo, ExitTo, LockFree, regVars, spawnVars, exitVars, auditVars,
     fileVars
<1>11. ASSUME NEW s \in Sessions, ExitUnsink(s)
      PROVE  AuditInv'
  BY <1>11 DEF ExitUnsink, ExitTo, modelVars, spawnVars, exitVars, auditVars, fileVars
<1>12. ASSUME NEW s \in Sessions, ExitUnsession(s)
      PROVE  AuditInv'
  BY <1>12 DEF ExitUnsession, ExitTo, modelVars, spawnVars, exitVars, auditVars, fileVars
<1>13. ASSUME NEW s \in Sessions, AuditDropSink(s)
      PROVE  AuditInv'
  BY <1>13 DEF AuditDropSink, modelVars, spawnVars, exitVars, fileVars
<1>14. ASSUME NEW s \in Sessions, AuditDropSession(s)
      PROVE  AuditInv'
  BY <1>14 DEF AuditDropSession, modelVars, spawnVars, exitVars, fileVars
<1>15. CASE AuditStart
  BY <1>15 DEF AuditStart, LockFree, modelVars, regVars, spawnVars, exitVars, fileVars
<1>16. CASE AuditSessions
  BY <1>16 DEF AuditSessions, modelVars, regVars, spawnVars, exitVars, fileVars
<1>17. CASE AuditJudge
  BY <1>17 DEF AuditJudge, LetGo, Dangling, Orphans, regVars, spawnVars, exitVars, fileVars,
     Carries
<1>18. ASSUME NEW t \in Tabs, DeleteRecord(t)
      PROVE  AuditInv'
  <2>1. UNCHANGED <<doomed, carried, auditPc, session, sessions, sinks, seenExiting,
        seenSessions>>
    BY <1>18 DEF DeleteRecord, modelVars, regVars, spawnVars, exitVars, auditVars
  <2> QED BY <2>1
<1>19. ASSUME NEW s \in Sessions, SpawnProcess(s) \/ ShellDies(s) \/ MarkerSeen(s) \/
       RouterApply(s) \/ WatchdogFires(s) \/ WatchdogReports(s) \/ ExitTake(s) \/
       ExitAdopt(s) \/ ExitWrite(s) \/ ExitMark(s) \/ ExitUnmark(s)
      PROVE  AuditInv'
  <2>1. UNCHANGED <<doomed, carried, auditPc, session, sessions, sinks, seenExiting,
        seenSessions>>
    BY <1>19 DEF SpawnProcess, modelVars, regVars, exitVars, auditVars, fileVars, ShellDies,
       spawnVars, MarkerSeen, RouterApply, WatchdogFires, WatchdogReports, ExitTake, ExitTo,
       ExitAdopt, ExitWrite, WriteRecord, ExitMark, ExitUnmark
  <2> QED BY <2>1
<1>20. CASE UNCHANGED vars
  <2>1. UNCHANGED <<doomed, carried, auditPc, session, sessions, sinks, seenExiting,
        seenSessions>>
    BY <1>20 DEF vars, modelVars, regVars, spawnVars, exitVars, auditVars, fileVars
  <2> QED BY <2>1
<1> QED BY <1>1, <1>2, <1>3, <1>4, <1>5, <1>6, <1>7, <1>8, <1>9, <1>10, <1>11, <1>12, <1>13,
    <1>14, <1>15, <1>16, <1>17, <1>18, <1>19, <1>20 DEF Next, SpawnThread, Startup, OnExit,
    Audit

\* A record is written by an exit that asked, under the lock, whether its tab
\* carries it.
LEMMA RecordStep ==
    ASSUME IInv, [Next]_vars
    PROVE  OnlyOwnScreen'
<1> USE LifecycleConstants DEF IInv, TypeOK, Known, Issued, Sessions, NoSession, SpawnInv, CarryInv, Attachable, ExitInv, ExitOf, OnlyOwnScreen, Older, NoRecord
<1>1. ASSUME NEW t \in Tabs, BeginSpawn(t)
      PROVE  OnlyOwnScreen'
  BY <1>1 DEF BeginSpawn, Release, Spawnable, LockFree, modelVars, exitVars, auditVars,
     fileVars
<1>2. ASSUME NEW t \in Tabs, DeleteRecord(t)
      PROVE  OnlyOwnScreen'
  BY <1>2 DEF DeleteRecord, modelVars, regVars, spawnVars, exitVars, auditVars
<1>3. ASSUME NEW s \in Sessions, SpawnProcess(s)
      PROVE  OnlyOwnScreen'
  BY <1>3 DEF SpawnProcess, modelVars, regVars, exitVars, auditVars, fileVars
<1>4. ASSUME NEW s \in Sessions, SpawnReceived(s)
      PROVE  OnlyOwnScreen'
  BY <1>4 DEF SpawnReceived, regVars, exitVars, auditVars
<1>5. ASSUME NEW s \in Sessions, ShellDies(s)
      PROVE  OnlyOwnScreen'
  BY <1>5 DEF ShellDies, modelVars, regVars, spawnVars, exitVars, auditVars, fileVars
<1>6. ASSUME NEW s \in Sessions, ExitTake(s)
      PROVE  OnlyOwnScreen'
  BY <1>6 DEF ExitTake, ExitTo, modelVars, regVars, spawnVars, auditVars, fileVars
<1>7. ASSUME NEW s \in Sessions, ExitAdopt(s)
      PROVE  OnlyOwnScreen'
  <2>1. UNCHANGED <<record, owner, carried>>
    BY <1>7 DEF ExitAdopt, spawnVars, fileVars
  <2>2. \A x \in Sessions : x # s => shell'[x] = shell[x] /\ (x \in taken => x \in taken')
    BY <1>7 DEF ExitAdopt, ExitTo
  <2>3. ASSUME shell'[s] = "write" PROVE s \in taken'
    <3>1. spawning = NoSession /\ Carries(owner[s], s) /\ taken' = taken \cup ({s} \cap sessions)
      BY <1>7, <2>3 DEF ExitAdopt, ExitTo, LockFree
    <3>2. spawnPc[s] # "none" /\ owner[s] \in Tabs
      BY <1>7 DEF ExitAdopt
    <3> QED BY <3>1, <3>2 DEF Carries
  <2> QED BY <2>1, <2>2, <2>3
<1>8. ASSUME NEW s \in Sessions, ExitWrite(s)
      PROVE  OnlyOwnScreen'
  <2>1. UNCHANGED <<owner, carried>> /\ s \in carried
    BY <1>8 DEF ExitWrite, WriteRecord, spawnVars
  <2>2. \A x \in Sessions : shell'[x] = "write" => x # s /\ x \in taken'
    BY <1>8 DEF ExitWrite, WriteRecord, ExitTo
  <2>3. CASE UNCHANGED record
    BY <2>1, <2>2, <2>3
  <2>4. ASSUME NEW r \in {s, NoRecord}, record' = [record EXCEPT ![owner[s]] = r]
        PROVE  OnlyOwnScreen'
    BY <2>1, <2>2, <2>4
  <2> QED BY <1>8, <2>3, <2>4 DEF ExitWrite, WriteRecord
<1>9. ASSUME NEW s \in Sessions, ExitMark(s)
      PROVE  OnlyOwnScreen'
  BY <1>9 DEF ExitMark, ExitTo, modelVars, regVars, spawnVars, auditVars, fileVars
<1>10. ASSUME NEW s \in Sessions, ExitApply(s)
      PROVE  OnlyOwnScreen'
  BY <1>10 DEF ExitApply, LetGo, ExitTo, LockFree, regVars, spawnVars, exitVars, auditVars,
     fileVars
<1>11. ASSUME NEW s \in Sessions, ExitUnsink(s)
      PROVE  OnlyOwnScreen'
  BY <1>11 DEF ExitUnsink, ExitTo, modelVars, spawnVars, exitVars, auditVars, fileVars
<1>12. ASSUME NEW s \in Sessions, ExitUnsession(s)
      PROVE  OnlyOwnScreen'
  BY <1>12 DEF ExitUnsession, ExitTo, modelVars, spawnVars, exitVars, auditVars, fileVars
<1>13. ASSUME NEW s \in Sessions, ExitUnmark(s)
      PROVE  OnlyOwnScreen'
  BY <1>13 DEF ExitUnmark, ExitTo, modelVars, regVars, spawnVars, fileVars
<1>14. ASSUME NEW t \in Tabs, CloseTab(t)
      PROVE  OnlyOwnScreen'
  <2>1. UNCHANGED <<record, owner, carried, shell, taken>>
    BY <1>14 DEF CloseTab, Release, spawnVars, exitVars
  <2> QED BY <2>1
<1>15. ASSUME NEW s \in Sessions, SpawnSink(s) \/ SpawnRegister(s) \/ SpawnFails(s) \/
       SpawnDiscardSink(s) \/ SpawnDiscardSession(s) \/ SpawnTimeout(s) \/ MarkerSeen(s) \/
       RouterApply(s) \/ WatchdogFires(s) \/ WatchdogReports(s) \/ AuditDropSink(s) \/
       AuditDropSession(s)
      PROVE  OnlyOwnScreen'
  <2>1. UNCHANGED <<record, owner, carried, shell, taken>>
    BY <1>15 DEF SpawnSink, modelVars, exitVars, auditVars, fileVars, SpawnRegister, SpawnFails,
       SpawnAbandoned, SpawnDiscardSink, SpawnDiscardSession, SpawnTimeout, regVars,
       spawnVars, MarkerSeen, RouterApply, WatchdogFires, WatchdogReports, AuditDropSink,
       AuditDropSession
  <2> QED BY <2>1
<1>16. CASE AuditStart \/ AuditSessions \/ AuditJudge
  <2>1. UNCHANGED <<record, owner, carried, shell, taken>>
    BY <1>16 DEF AuditStart, modelVars, regVars, spawnVars, exitVars, fileVars, AuditSessions,
       AuditJudge, LetGo
  <2> QED BY <2>1
<1>17. CASE UNCHANGED vars
  <2>1. UNCHANGED <<record, owner, carried, shell, taken>>
    BY <1>17 DEF vars, modelVars, regVars, spawnVars, exitVars, auditVars, fileVars
  <2> QED BY <2>1
<1> QED BY <1>1, <1>2, <1>3, <1>4, <1>5, <1>6, <1>7, <1>8, <1>9, <1>10, <1>11, <1>12, <1>13,
    <1>14, <1>15, <1>16, <1>17 DEF Next, SpawnThread, Startup, OnExit, Audit

\* The two writers of the verdict, the router and the watchdog, agree on it.
LEMMA MarkerStep ==
    ASSUME IInv, MarkerWins, [Next]_vars
    PROVE  MarkerWins'
<1> USE LifecycleConstants DEF IInv, TypeOK, Known, Issued, Sessions, NoSession, MarkerWins
<1>1. ASSUME NEW t \in Tabs, CloseTab(t)
      PROVE  MarkerWins'
  BY <1>1 DEF CloseTab, Release, LockFree, spawnVars, exitVars
<1>2. ASSUME NEW s \in Sessions, SpawnFails(s)
      PROVE  MarkerWins'
  <2>1. CASE spawning = s /\ SpawnAbandoned(owner[s])
    <3>1. /\ session' = [session EXCEPT ![owner[s]] = NoSession]
          /\ status' = [status EXCEPT ![owner[s]] = IF status[owner[s]] = "absent"
                                              THEN "absent" ELSE "exited"]
      BY <2>1 DEF SpawnAbandoned
    <3>2. started' = started /\ NoSession \notin started
      BY <1>2 DEF SpawnFails
    <3> QED BY <3>1, <3>2
  <2>2. CASE UNCHANGED <<spawning, session, status>>
    BY <1>2, <2>2 DEF SpawnFails
  <2> QED BY <1>2, <2>1, <2>2 DEF SpawnFails
<1>3. ASSUME NEW s \in Sessions, SpawnTimeout(s)
      PROVE  MarkerWins'
  BY <1>3 DEF SpawnTimeout, SpawnAbandoned, regVars, spawnVars, exitVars, auditVars,
     fileVars
<1>4. ASSUME NEW s \in Sessions, SpawnReceived(s)
      PROVE  MarkerWins'
  BY <1>4 DEF SpawnReceived, regVars, exitVars, auditVars
<1>5. ASSUME NEW s \in Sessions, RouterApply(s)
      PROVE  MarkerWins'
  BY <1>5 DEF RouterApply, LockFree, Carries, regVars, spawnVars, exitVars, auditVars,
     fileVars
<1>6. ASSUME NEW s \in Sessions, WatchdogReports(s)
      PROVE  MarkerWins'
  BY <1>6 DEF WatchdogReports, LockFree, Carries, regVars, spawnVars, exitVars, auditVars,
     fileVars
<1>7. ASSUME NEW s \in Sessions, ExitApply(s)
      PROVE  MarkerWins'
  BY <1>7 DEF ExitApply, LetGo, ExitTo, LockFree, regVars, spawnVars, exitVars, auditVars,
     fileVars
<1>8. CASE AuditJudge
  BY <1>8 DEF AuditJudge, LetGo, Dangling, Orphans, regVars, spawnVars, exitVars, fileVars,
     Carries
<1>9. ASSUME NEW t \in Tabs, BeginSpawn(t) \/ DeleteRecord(t)
      PROVE  MarkerWins'
  <2>1. UNCHANGED <<status, session, started>>
    BY <1>9 DEF BeginSpawn, Release, modelVars, exitVars, auditVars, fileVars, DeleteRecord,
       regVars, spawnVars
  <2> QED BY <2>1
<1>10. ASSUME NEW s \in Sessions, SpawnSink(s) \/ SpawnProcess(s) \/ SpawnRegister(s) \/
       SpawnDiscardSink(s) \/ SpawnDiscardSession(s) \/ ShellDies(s) \/ MarkerSeen(s) \/
       WatchdogFires(s) \/ ExitTake(s) \/ ExitAdopt(s) \/ ExitWrite(s) \/ ExitMark(s) \/
       ExitUnsink(s) \/ ExitUnsession(s) \/ ExitUnmark(s) \/ AuditDropSink(s) \/
       AuditDropSession(s)
      PROVE  MarkerWins'
  <2>1. UNCHANGED <<status, session, started>>
    BY <1>10 DEF SpawnSink, modelVars, exitVars, auditVars, fileVars, SpawnProcess, regVars,
       SpawnRegister, SpawnDiscardSink, SpawnDiscardSession, ShellDies, spawnVars,
       MarkerSeen, WatchdogFires, ExitTake, ExitTo, ExitAdopt, ExitWrite, WriteRecord, ExitMark,
       ExitUnsink, ExitUnsession, ExitUnmark, AuditDropSink, AuditDropSession
  <2> QED BY <2>1
<1>11. CASE AuditStart \/ AuditSessions
  <2>1. UNCHANGED <<status, session, started>>
    BY <1>11 DEF AuditStart, modelVars, regVars, spawnVars, exitVars, fileVars, AuditSessions
  <2> QED BY <2>1
<1>12. CASE UNCHANGED vars
  <2>1. UNCHANGED <<status, session, started>>
    BY <1>12 DEF vars, modelVars, regVars, spawnVars, exitVars, auditVars, fileVars
  <2> QED BY <2>1
<1> QED BY <1>1, <1>2, <1>3, <1>4, <1>5, <1>6, <1>7, <1>8, <1>9, <1>10, <1>11, <1>12 DEF
    Next, SpawnThread, Startup, OnExit, Audit

-----------------------------------------------------------------------------
\* The inductive invariant behind the theorems below: in whose hands a session
\* is, and what the holder may do with it (create_session, on_exit, audit_once).
THEOREM Invariance == Spec => []IInv
<1>1. IInv /\ [Next]_vars => IInv'
  BY TypesStep, KnownStep, SpawnStep, CarryStep, ExitStep, AuditStep, RecordStep DEF IInv
<1> QED BY InitInv, <1>1, PTL DEF Spec

\* Every id in a registry, a tab or a record was issued by nextId.
THEOREM TypeCorrect == Spec => []TypeOK
<1>1. IInv => TypeOK
  BY DEF IInv
<1> QED BY Invariance, <1>1, PTL

\* A tab that names a session can be attached to, unless a respawn of it is
\* under way: the front end never meets an unknown session (attach_terminal).
THEOREM AlwaysAttachable == Spec => []Attachable
<1>1. IInv => Attachable
  BY DEF IInv, CarryInv
<1> QED BY Invariance, <1>1, PTL

\* No audit, whenever it runs, demotes a tab or ends a session a tab ever
\* carried (audit_once, audit_registries).
THEOREM AuditsSpareTheLiving == Spec => []AuditQuiet
<1>1. ASSUME IInv PROVE AuditQuiet
  <2>1. ASSUME auditPc = "sinks" PROVE Dangling = {}
    <3>1. spawning = NoSession
      BY <1>1, <2>1 DEF IInv, SpawnInv
    <3>2. \A t \in Tabs : session[t] # NoSession => session[t] \in seenSessions \cap sinks
      BY <1>1, <2>1, <3>1 DEF IInv, CarryInv, Attachable, AuditInv
    <3> QED BY <3>2, Ids DEF Dangling, Carries
  <2> QED BY <1>1, <2>1 DEF IInv, AuditInv, AuditQuiet
<1> QED BY Invariance, <1>1, PTL

\* The screen a record shows is that of a session its tab carried, and an exit
\* that writes one has it in hand (take_record, on_exit).
THEOREM OwnScreens == Spec => []OnlyOwnScreen
<1>1. IInv => OnlyOwnScreen
  BY DEF IInv
<1> QED BY Invariance, <1>1, PTL

\* No order of marker and deadline at the lock calls a shell that started not
\* started (SessionStartupTimeout, apply_osc).
THEOREM StartedIsStarted == Spec => []MarkerWins
<1>1. Init => MarkerWins
  BY LifecycleConstants DEF Init, MarkerWins
<1>2. IInv /\ MarkerWins /\ [Next]_vars => MarkerWins'
  BY MarkerStep
<1> QED BY Invariance, <1>1, <1>2, PTL DEF Spec
=============================================================================
