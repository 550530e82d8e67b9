----------------------------- MODULE Lifecycle -----------------------------
(***************************************************************************)
(* The life of the shells behind terminal tabs: how a session is spawned   *)
(* under a deadline, adopted by a tab, reported dead, turned into a record *)
(* file, and released; and the audit that compares the model with the two  *)
(* registries (sessions and sinks).                                        *)
(*                                                                         *)
(* Actors: the commands that hold the Dispatcher lock (create, respawn,    *)
(* close; the boot wave is a series of respawns); one spawn thread per     *)
(* session (create_session under call_with_deadline); one waiter thread    *)
(* per session (on_exit); one startup watchdog per session; the router     *)
(* worker; audits; and the threads that delete record files.               *)
(*                                                                         *)
(* A region under the Dispatcher lock is one step, except a spawn and an   *)
(* audit, during which threads that do not need the lock move on.  A tab   *)
(* carries at most one session; panes and layout are left to the model of  *)
(* the workspace.  A tab whose first spawn fails does not come to exist,   *)
(* and its id is used again.                                               *)
(***************************************************************************)
EXTENDS Integers, FiniteSets

CONSTANTS
    Tabs,         \* ids a terminal tab may get
    Boot,         \* what each of them is at the boot
    MaxSessions,  \* bound: sessions ever spawned
    MoreAudits,   \* bound: audits asked for by the boot wave or a person
    Watched,      \* the sessions with a start marker and a startup deadline
    NoTab         \* no tab

ASSUME LifecycleConstants ==
    /\ MaxSessions \in Nat /\ MoreAudits \in Nat
    /\ NoTab \notin Tabs
    /\ Boot \in [Tabs -> {"absent", "running", "exited"}]

VARIABLES
    \* --- the model, under the Dispatcher lock
    status,    \* of a tab: "absent", "running", "notStarted", "exited", "closed"
    session,   \* pty_session of a tab, or NoSession
    started,   \* started_sessions
    \* --- the registries
    sessions, sinks, nextId,
    \* --- who holds the Dispatcher lock
    spawning,  \* the session whose spawn a command waits for, or NoSession
    auditPc,   \* "idle", "sessions", "sinks": what the audit reads next
    \* --- the spawn threads
    spawnPc,   \* "none", "called", "sink", "process", "registered", "discard", "done"
    owner,     \* TerminalSink.tab
    \* --- the shells, their watchdogs and start markers
    shell,     \* "none", "alive"; dead, by the next step of its waiter thread:
               \* "take", "adopt", "write", "mark", "apply", "unsink",
               \* "unsession", "unmark", "gone"
    killed,    \* Inner.killed
    marker,    \* "no", "seen" by the reader, "applied" by the router
    watchdog,  \* "off", "armed", "fired"
    \* --- the waiter threads
    taken,     \* sessions whose record their waiter has in hand
    exiting,   \* exits_in_flight
    \* --- the audits
    due,       \* audits that somebody is yet to run
    seenExiting, seenSessions,
    doomed,    \* orphans an audit releases: "no", "sink", "session"
    \* --- the record files
    record,    \* of a tab: the session whose screen it holds, Older or NoRecord
    deleting,  \* deletions of the record under way
    \* --- history
    carried    \* sessions some tab ever carried

modelVars == <<status, session, started>>
regVars   == <<sessions, sinks, nextId>>
spawnVars == <<spawnPc, owner>>
exitVars  == <<taken, exiting>>
auditVars == <<auditPc, due, seenExiting, seenSessions, doomed>>
fileVars  == <<record, deleting>>
vars == <<modelVars, regVars, spawning, spawnVars, shell, killed, marker, watchdog,
          exitVars, auditVars, fileVars, carried>>

Sessions  == 1..MaxSessions
NoSession == 0
Older     == 0     \* a record an earlier run of the program left
NoRecord  == -1

Issued == 1..(nextId - 1)

\* The sets of sessions and counters hold nothing but ids that were issued.
TypeOK ==
    /\ status \in [Tabs -> {"absent", "running", "notStarted", "exited", "closed"}]
    /\ session \in [Tabs -> Issued \cup {NoSession}]
    /\ started \subseteq Issued
    /\ sessions \subseteq Issued /\ sinks \subseteq Issued
    /\ nextId \in 1..(MaxSessions + 1)
    /\ spawning \in Issued \cup {NoSession}
    /\ auditPc \in {"idle", "sessions", "sinks"}
    /\ spawnPc \in [Sessions -> {"none", "called", "sink", "process", "registered",
                                 "discard", "done"}]
    /\ owner \in [Sessions -> Tabs \cup {NoTab}]
    /\ shell \in [Sessions -> {"none", "alive", "take", "adopt", "write", "mark", "apply",
                               "unsink", "unsession", "unmark", "gone"}]
    /\ killed \subseteq Issued
    /\ marker \in [Sessions -> {"no", "seen", "applied"}]
    /\ watchdog \in [Sessions -> {"off", "armed", "fired"}]
    /\ taken \subseteq Issued
    /\ exiting \subseteq Issued
    /\ due \in Nat
    /\ seenExiting \subseteq Issued /\ seenSessions \subseteq Issued
    /\ doomed \in [Sessions -> {"no", "sink", "session"}]
    /\ record \in [Tabs -> Issued \cup {Older, NoRecord}]
    /\ deleting \in [Tabs -> Nat]
    /\ carried \subseteq Issued

\* A boot: the tabs of the saved state, without sessions (sanitize), and their
\* records (what sweep keeps).
Init ==
    /\ status = Boot
    /\ session = [t \in Tabs |-> NoSession]
    /\ started = {}
    /\ sessions = {} /\ sinks = {} /\ nextId = 1
    /\ spawning = NoSession
    /\ spawnPc = [s \in Sessions |-> "none"]
    /\ owner = [s \in Sessions |-> NoTab]
    /\ shell = [s \in Sessions |-> "none"]
    /\ killed = {}
    /\ marker = [s \in Sessions |-> "no"]
    /\ watchdog = [s \in Sessions |-> "off"]
    /\ taken = {} /\ exiting = {}
    /\ auditPc = "idle" /\ due = MoreAudits
    /\ seenExiting = {} /\ seenSessions = {}
    /\ doomed = [s \in Sessions |-> "no"]
    /\ record = [t \in Tabs |-> IF Boot[t] = "absent" THEN NoRecord ELSE Older]
    /\ deleting = [t \in Tabs |-> 0]
    /\ carried = {}

\* Whoever waits for the Dispatcher lock can have it.
LockFree == spawning = NoSession /\ auditPc = "idle"

Carries(t, s) == session[t] = s

\* Both registries forget these sessions, and their shells are told to end.
\* Unknown ids are harmless.
Release(ids) ==
    /\ sinks' = sinks \ ids
    /\ sessions' = sessions \ ids
    /\ killed' = killed \cup (ids \cap sessions)
-----------------------------------------------------------------------------
(***************************************************************************)
(* Spawning.  The command keeps the Dispatcher lock from BeginSpawn to     *)
(* SpawnReceived, SpawnFails or SpawnTimeout.                              *)
(***************************************************************************)

\* What may be spawned into: a new tab, or one a respawn accepts; not one whose
\* session runs.
Spawnable(t) == status[t] \in {"absent", "notStarted", "exited"}
                    \cup IF session[t] = NoSession THEN {"running"} ELSE {}

\* A command asks for a shell for tab t; a respawn first ends the session the
\* tab still has.
BeginSpawn(t) ==
    /\ LockFree /\ nextId \in Sessions
    /\ Spawnable(t)
    /\ Release({session[t]})
    /\ spawning' = nextId
    /\ nextId' = nextId + 1
    /\ owner' = [owner EXCEPT ![nextId] = t]
    /\ spawnPc' = [spawnPc EXCEPT ![nextId] = "called"]
    /\ UNCHANGED <<modelVars, shell, marker, watchdog, exitVars, auditVars, fileVars, carried>>

SpawnSink(s) ==
    /\ spawnPc[s] = "called"
    /\ spawnPc' = [spawnPc EXCEPT ![s] = "sink"]
    /\ sinks' = sinks \cup {s}
    /\ UNCHANGED <<modelVars, sessions, nextId, spawning, owner, shell, killed, marker,
                   watchdog, exitVars, auditVars, fileVars, carried>>

\* The shell is up, and with it its reader, waiter and watchdog threads.
SpawnProcess(s) ==
    /\ spawnPc[s] = "sink"
    /\ spawnPc' = [spawnPc EXCEPT ![s] = "process"]
    /\ shell' = [shell EXCEPT ![s] = "alive"]
    /\ watchdog' = [watchdog EXCEPT ![s] = IF s \in Watched THEN "armed" ELSE "off"]
    /\ UNCHANGED <<modelVars, regVars, spawning, owner, killed, marker, exitVars,
                   auditVars, fileVars, carried>>

SpawnRegister(s) ==
    /\ spawnPc[s] = "process"
    /\ spawnPc' = [spawnPc EXCEPT ![s] = "registered"]
    /\ sessions' = sessions \cup {s}
    /\ UNCHANGED <<modelVars, sinks, nextId, spawning, owner, shell, killed, marker,
                   watchdog, exitVars, auditVars, fileVars, carried>>

\* The command gets no session: a new tab stays absent, a respawned one is
\* shown as exited.
SpawnAbandoned(t) ==
    /\ spawning' = NoSession
    /\ session' = [session EXCEPT ![t] = NoSession]
    /\ status' = [status EXCEPT ![t] = IF @ = "absent" THEN @ ELSE "exited"]

\* No process came up; the sink is taken back.
SpawnFails(s) ==
    /\ spawnPc[s] = "sink"
    /\ spawnPc' = [spawnPc EXCEPT ![s] = "done"]
    /\ sinks' = sinks \ {s}
    /\ \/ spawning = s /\ SpawnAbandoned(owner[s])
       \/ spawning # s /\ UNCHANGED <<spawning, session, status>>
    /\ UNCHANGED <<started, sessions, nextId, owner, shell, killed, marker, watchdog,
                   exitVars, auditVars, fileVars, carried>>

\* Mutant: a command waits for its spawn as long as it takes.
SpawnNoDeadline(s) == FALSE

\* The command gives up; the thread goes on by itself.
SpawnTimeout(s) ==
    /\ s # NoSession /\ spawning = s
    /\ SpawnAbandoned(owner[s])
    /\ UNCHANGED <<started, regVars, spawnVars, shell, killed, marker, watchdog, exitVars,
                   auditVars, fileVars, carried>>

\* The tab adopts the session.  After a respawn the record of the old screen is
\* deleted, outside the lock.
SpawnReceived(s) ==
    LET t == owner[s] IN
    /\ spawnPc[s] = "registered" /\ spawning = s
    /\ spawnPc' = [spawnPc EXCEPT ![s] = "done"]
    /\ spawning' = NoSession
    /\ session' = [session EXCEPT ![t] = s]
    /\ status' = [status EXCEPT ![t] = "running"]
    /\ deleting' = [deleting EXCEPT ![t] = IF status[t] = "absent" THEN @ ELSE @ + 1]
    /\ carried' = carried \cup {s}
    /\ UNCHANGED <<started, regVars, owner, shell, killed, marker, watchdog, exitVars,
                   auditVars, record>>

\* A session that comes too late is released by its own thread.
SpawnDiscardSink(s) ==
    /\ spawnPc[s] = "registered" /\ spawning # s
    /\ spawnPc' = [spawnPc EXCEPT ![s] = "discard"]
    /\ sinks' = sinks \ {s}
    /\ UNCHANGED <<modelVars, sessions, nextId, spawning, owner, shell, killed, marker,
                   watchdog, exitVars, auditVars, fileVars, carried>>

\* Mutant: the thread of a late spawn takes the sink back, not the session.
SpawnDiscardNothing(s) ==
    /\ spawnPc[s] = "discard"
    /\ spawnPc' = [spawnPc EXCEPT ![s] = "done"]
    /\ UNCHANGED <<modelVars, regVars, spawning, owner, shell, killed, marker, watchdog,
                   exitVars, auditVars, fileVars, carried>>

SpawnDiscardSession(s) ==
    /\ spawnPc[s] = "discard"
    /\ spawnPc' = [spawnPc EXCEPT ![s] = "done"]
    /\ sessions' = sessions \ {s}
    /\ killed' = killed \cup ({s} \cap sessions)
    /\ UNCHANGED <<modelVars, sinks, nextId, spawning, owner, shell, marker, watchdog,
                   exitVars, auditVars, fileVars, carried>>
-----------------------------------------------------------------------------
(***************************************************************************)
(* The shell, its start marker and its watchdog.                           *)
(***************************************************************************)

ShellDies(s) ==
    /\ shell[s] = "alive"
    /\ shell' = [shell EXCEPT ![s] = "take"]
    /\ killed' = killed \cup {s}
    /\ UNCHANGED <<modelVars, regVars, spawning, spawnVars, marker, watchdog, exitVars,
                   auditVars, fileVars, carried>>

\* The reader finds the marker and pushes it to the router; a chunk read before
\* the shell died is still scanned.
MarkerSeen(s) ==
    /\ s \in Watched /\ shell[s] # "none" /\ marker[s] = "no"
    /\ marker' = [marker EXCEPT ![s] = "seen"]
    /\ UNCHANGED <<modelVars, regVars, spawning, spawnVars, shell, killed, watchdog,
                   exitVars, auditVars, fileVars, carried>>

\* A batch with the marker reaches the model.
RouterApply(s) ==
    /\ LockFree /\ marker[s] = "seen"
    /\ marker' = [marker EXCEPT ![s] = "applied"]
    /\ started' = started \cup {s}
    /\ status' = [t \in Tabs |-> IF Carries(t, s) /\ status[t] = "notStarted"
                                 THEN "running" ELSE status[t]]
    /\ UNCHANGED <<session, regVars, spawning, spawnVars, shell, killed, watchdog,
                   exitVars, auditVars, fileVars, carried>>

WatchdogFires(s) ==
    /\ watchdog[s] = "armed" /\ marker[s] = "no" /\ s \notin killed
    /\ watchdog' = [watchdog EXCEPT ![s] = "fired"]
    /\ UNCHANGED <<modelVars, regVars, spawning, spawnVars, shell, killed, marker,
                   exitVars, auditVars, fileVars, carried>>

\* Mutant: a report is believed although the marker has been applied.
WatchdogReportsBlindly(s) ==
    /\ LockFree /\ watchdog[s] = "fired"
    /\ watchdog' = [watchdog EXCEPT ![s] = "off"]
    /\ status' = [t \in Tabs |-> IF Carries(t, s) /\ status[t] = "running"
                                 THEN "notStarted" ELSE status[t]]
    /\ UNCHANGED <<session, started, regVars, spawning, spawnVars, shell, killed, marker,
                   exitVars, auditVars, fileVars, carried>>

\* on_startup_timeout, once it has the lock.
WatchdogReports(s) ==
    /\ LockFree /\ watchdog[s] = "fired"
    /\ watchdog' = [watchdog EXCEPT ![s] = "off"]
    /\ status' = [t \in Tabs |-> IF Carries(t, s) /\ status[t] = "running" /\ s \notin started
                                 THEN "notStarted" ELSE status[t]]
    /\ UNCHANGED <<session, started, regVars, spawning, spawnVars, shell, killed, marker,
                   exitVars, auditVars, fileVars, carried>>
-----------------------------------------------------------------------------
(***************************************************************************)
(* on_exit, on the waiter thread of session s.                             *)
(***************************************************************************)

ExitTo(s, pc) == shell' = [shell EXCEPT ![s] = pc]

\* take_record, for a session that is still registered.
ExitTake(s) ==
    /\ shell[s] = "take"
    /\ taken' = taken \cup ({s} \cap sessions)
    /\ ExitTo(s, "adopt")
    /\ UNCHANGED <<modelVars, regVars, spawning, spawnVars, killed, marker, watchdog,
                   exiting, auditVars, fileVars, carried>>

\* Mutant: the record is written without asking whom the tab carries.
ExitAdoptAnyway(s) ==
    /\ shell[s] = "adopt" /\ LockFree
    /\ taken' = taken \cup ({s} \cap sessions)
    /\ ExitTo(s, "write")
    /\ UNCHANGED <<modelVars, regVars, spawning, spawnVars, killed, marker, watchdog,
                   exiting, auditVars, fileVars, carried>>

\* The check under the lock: is this the session its tab carries?  If so, and
\* the first attempt came before the registration, the record is taken now.
ExitAdopt(s) ==
    /\ shell[s] = "adopt" /\ LockFree
    /\ \/ /\ Carries(owner[s], s)
          /\ taken' = taken \cup ({s} \cap sessions)
          /\ ExitTo(s, "write")
       \/ /\ ~Carries(owner[s], s)
          /\ taken' = taken \ {s}
          /\ ExitTo(s, "mark")
    /\ UNCHANGED <<modelVars, regVars, spawning, spawnVars, killed, marker, watchdog,
                   exiting, auditVars, fileVars, carried>>

\* RecordStore::write and remove: the file of a tab changes whole, by a rename.
WriteRecord(t, r) == record' = [record EXCEPT ![t] = r]

\* With a record in hand: the file is written, or removed when there is nothing
\* to show, or the disk refuses.
ExitWrite(s) ==
    /\ shell[s] = "write"
    /\ \/ /\ s \in taken
          /\ \E r \in {s, NoRecord} : WriteRecord(owner[s], r)
       \/ UNCHANGED record
    /\ taken' = taken \ {s}
    /\ ExitTo(s, "mark")
    /\ UNCHANGED <<modelVars, regVars, spawning, spawnVars, killed, marker, watchdog,
                   exiting, auditVars, deleting, carried>>

\* Mutant: the registries let the session go before the model does.
ExitMarkAndRelease(s) ==
    /\ shell[s] = "mark"
    /\ exiting' = exiting \cup {s}
    /\ Release({s})
    /\ ExitTo(s, "apply")
    /\ UNCHANGED <<modelVars, nextId, spawning, spawnVars, marker, watchdog, taken,
                   auditVars, fileVars, carried>>

ExitMark(s) ==
    /\ shell[s] = "mark"
    /\ exiting' = exiting \cup {s}
    /\ ExitTo(s, "apply")
    /\ UNCHANGED <<modelVars, regVars, spawning, spawnVars, killed, marker, watchdog,
                   taken, auditVars, fileVars, carried>>

\* SessionExited: the tabs that carry s let it go.
LetGo(ids) ==
    /\ status' = [t \in Tabs |-> IF session[t] \in ids THEN "exited" ELSE status[t]]
    /\ session' = [t \in Tabs |-> IF session[t] \in ids THEN NoSession ELSE session[t]]
    /\ started' = started \ ids

\* Mutant: the mark comes down with the lock.
ExitApplyAndUnmark(s) ==
    /\ shell[s] = "apply" /\ LockFree
    /\ LetGo({s})
    /\ ExitTo(s, "unsink")
    /\ exiting' = exiting \ {s}
    /\ UNCHANGED <<regVars, spawning, spawnVars, killed, marker, watchdog, taken,
                   auditVars, fileVars, carried>>

ExitApply(s) ==
    /\ shell[s] = "apply" /\ LockFree
    /\ LetGo({s})
    /\ ExitTo(s, "unsink")
    /\ UNCHANGED <<regVars, spawning, spawnVars, killed, marker, watchdog, exitVars,
                   auditVars, fileVars, carried>>

ExitUnsink(s) ==
    /\ shell[s] = "unsink"
    /\ sinks' = sinks \ {s}
    /\ ExitTo(s, "unsession")
    /\ UNCHANGED <<modelVars, sessions, nextId, spawning, spawnVars, killed, marker,
                   watchdog, exitVars, auditVars, fileVars, carried>>

ExitUnsession(s) ==
    /\ shell[s] = "unsession"
    /\ sessions' = sessions \ {s}
    /\ ExitTo(s, "unmark")
    /\ UNCHANGED <<modelVars, sinks, nextId, spawning, spawnVars, killed, marker,
                   watchdog, exitVars, auditVars, fileVars, carried>>

\* The mark comes down and an audit is due.
ExitUnmark(s) ==
    /\ shell[s] = "unmark"
    /\ exiting' = exiting \ {s}
    /\ due' = due + 1
    /\ ExitTo(s, "gone")
    /\ UNCHANGED <<modelVars, regVars, spawning, spawnVars, killed, marker, watchdog,
                   taken, auditPc, seenExiting, seenSessions, doomed, fileVars,
                   carried>>
-----------------------------------------------------------------------------
(***************************************************************************)
(* Closing tabs, and the threads that delete records.                      *)
(***************************************************************************)

\* The session is ended, the tab goes, its record is left to a thread and an
\* audit is due.
CloseTab(t) ==
    /\ LockFree /\ status[t] \in {"running", "notStarted", "exited"}
    /\ Release({session[t]})
    /\ status' = [status EXCEPT ![t] = "closed"]
    /\ session' = [session EXCEPT ![t] = NoSession]
    /\ deleting' = [deleting EXCEPT ![t] = @ + 1]
    /\ due' = due + 1
    /\ UNCHANGED <<started, nextId, spawning, spawnVars, shell, marker, watchdog, exitVars,
                   auditPc, seenExiting, seenSessions, doomed, record, carried>>

DeleteRecord(t) ==
    /\ deleting[t] > 0
    /\ deleting' = [deleting EXCEPT ![t] = @ - 1]
    /\ record' \in {[record EXCEPT ![t] = NoRecord], record}
    /\ UNCHANGED <<modelVars, regVars, spawning, spawnVars, shell, killed, marker,
                   watchdog, exitVars, auditVars, carried>>
-----------------------------------------------------------------------------
(***************************************************************************)
(* The audit.  It keeps the lock from AuditStart to AuditJudge.            *)
(***************************************************************************)

\* The exits under way are read before the registries.
AuditStart ==
    /\ due > 0 /\ LockFree
    /\ due' = due - 1
    /\ seenExiting' = exiting
    /\ auditPc' = "sessions"
    /\ UNCHANGED <<modelVars, regVars, spawning, spawnVars, shell, killed, marker,
                   watchdog, exitVars, seenSessions, doomed, fileVars, carried>>

AuditSessions ==
    /\ auditPc = "sessions"
    /\ seenSessions' = sessions
    /\ auditPc' = "sinks"
    /\ UNCHANGED <<modelVars, regVars, spawning, spawnVars, shell, killed, marker,
                   watchdog, exitVars, due, seenExiting, doomed, fileVars, carried>>

\* A tab whose session is in one registry only, or in none, cannot be attached.
Dangling == {s \in Sessions : /\ \E t \in Tabs : Carries(t, s)
                              /\ s \notin seenSessions \cap sinks}

\* What no tab carries but a registry knows.
Orphans == {s \in (seenSessions \cup sinks) \ seenExiting :
                s \in Dangling \/ \A t \in Tabs : ~Carries(t, s)}

\* The sinks are read, dangling tabs repaired, the lock given back; the orphans
\* are released after that.
AuditJudge ==
    /\ auditPc = "sinks"
    /\ auditPc' = "idle"
    /\ LetGo(Dangling)
    /\ doomed' = [s \in Sessions |-> IF s \in Orphans THEN "sink" ELSE doomed[s]]
    /\ seenExiting' = {} /\ seenSessions' = {}
    /\ UNCHANGED <<regVars, spawning, spawnVars, shell, killed, marker, watchdog,
                   exitVars, due, fileVars, carried>>

AuditDropSink(s) ==
    /\ doomed[s] = "sink"
    /\ sinks' = sinks \ {s}
    /\ doomed' = [doomed EXCEPT ![s] = "session"]
    /\ UNCHANGED <<modelVars, sessions, nextId, spawning, spawnVars, shell, killed, marker,
                   watchdog, exitVars, auditPc, due, seenExiting, seenSessions,
                   fileVars, carried>>

AuditDropSession(s) ==
    /\ doomed[s] = "session"
    /\ sessions' = sessions \ {s}
    /\ killed' = killed \cup ({s} \cap sessions)
    /\ doomed' = [doomed EXCEPT ![s] = "no"]
    /\ UNCHANGED <<modelVars, sinks, nextId, spawning, spawnVars, shell, marker,
                   watchdog, exitVars, auditPc, due, seenExiting, seenSessions,
                   fileVars, carried>>
-----------------------------------------------------------------------------
SpawnThread(s) == \/ SpawnSink(s) \/ SpawnProcess(s) \/ SpawnRegister(s)
                  \/ SpawnFails(s) \/ SpawnDiscardSink(s) \/ SpawnDiscardSession(s)

OnExit(s) == \/ ExitTake(s) \/ ExitAdopt(s) \/ ExitWrite(s) \/ ExitMark(s) \/ ExitApply(s)
             \/ ExitUnsink(s) \/ ExitUnsession(s) \/ ExitUnmark(s)

Audit == \/ AuditStart \/ AuditSessions \/ AuditJudge
         \/ \E s \in Sessions : AuditDropSink(s) \/ AuditDropSession(s)

Startup(s) == MarkerSeen(s) \/ RouterApply(s) \/ WatchdogFires(s) \/ WatchdogReports(s)

Next ==
    \/ \E t \in Tabs : BeginSpawn(t) \/ CloseTab(t) \/ DeleteRecord(t)
    \/ \E s \in Sessions : \/ SpawnThread(s) \/ SpawnTimeout(s) \/ SpawnReceived(s)
                           \/ ShellDies(s) \/ Startup(s) \/ OnExit(s)
    \/ Audit

Spec == Init /\ [][Next]_vars

\* The threads of the program run, a command waits no longer than its deadline,
\* and a shell told to end does.  Nothing makes a process creation return, a
\* shell end by itself or a marker come.
Fairness ==
    /\ \A s \in Sessions :
        /\ WF_vars(OnExit(s))
        /\ WF_vars(SpawnTimeout(s) \/ SpawnReceived(s))
        /\ WF_vars(SpawnRegister(s) \/ SpawnDiscardSink(s) \/ SpawnDiscardSession(s))
        /\ WF_vars(s \in killed /\ ShellDies(s))
    /\ WF_vars(AuditSessions \/ AuditJudge)

LiveSpec == Spec /\ Fairness
-----------------------------------------------------------------------------
(***************************************************************************)
(* What should hold.                                                       *)
(***************************************************************************)

\* A tab that names a session can be attached to: the session and its sink are
\* registered, except while the tab is being respawned.  on_exit lets the
\* registries go only after the model has let the session go, and a spawn is
\* adopted only once it is registered.
Attachable ==
    \A t \in Tabs : session[t] # NoSession =>
        \/ session[t] \in sessions \cap sinks
        \/ spawning # NoSession /\ owner[spawning] = t

\* The audit never takes an ordinary moment for a fault: it finds no dangling
\* tab to demote, and what it releases as an orphan is a spawn that came too
\* late, never a session a tab carried, dying or not.
AuditQuiet ==
    /\ auditPc = "sinks" => Dangling = {}
    /\ \A s \in Sessions : doomed[s] # "no" => s \notin carried

\* A record holds the screen of a session its tab carried, never that of a spawn
\* the tab did not adopt or of another tab; and when on_exit is about to write,
\* it has the screen in hand, also when the shell died before its session was
\* registered: no adopted exit goes without a record.
OnlyOwnScreen ==
    /\ \A t \in Tabs : record[t] \in Sessions => /\ owner[record[t]] = t
                                                 /\ record[t] \in carried
    /\ \A s \in Sessions : shell[s] = "write" => s \in taken

\* A tab whose shell has shown its start marker to the model is not called not
\* started, in whatever order the watchdog and the router reach the lock.
MarkerWins ==
    \A t \in Tabs : status[t] = "notStarted" => session[t] \notin started

\* A shell that has ended, or that no tab carries (after a late spawn, a respawn
\* or a close), is let go by the model and released for good, without the help
\* of an audit and whatever spawn or audit holds the lock when it dies.
NoZombie ==
    \A s \in Sessions :
        (\/ shell[s] \notin {"none", "alive"}
         \/ shell[s] # "none" /\ spawning # s /\ \A t \in Tabs : ~Carries(t, s))
            ~> (/\ shell[s] = "gone" /\ s \notin sessions \cup sinks
                /\ \A t \in Tabs : ~Carries(t, s))

\* What docs/adr/0018 says of a deletion that a write undoes: the next exit of the
\* tab overwrites the old screen, so nobody sees a wrong one.  A record never
\* goes back to an earlier session's screen.
NeverAnOlderScreen ==
    [][\A t \in Tabs : record'[t] \in Sessions => record[t] <= record'[t]]_vars
=============================================================================
