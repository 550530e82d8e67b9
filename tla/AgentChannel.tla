---------------------------- MODULE AgentChannel ----------------------------
(***************************************************************************)
(* The agent channel: `mast send` types a text into another tab and then,  *)
(* as a second request, Enter; `mast ls` asks for the list of tabs and     *)
(* waits for a file; a program asks for a colour (the mast CLI in          *)
(* provision.rs, deliver_send, deliver_query and answer_color_query in     *)
(* sink.rs, resolve_send_target and list_tabs in queries.rs, send.rs).     *)
(*                                                                         *)
(* A request is an OSC sequence in the output of the caller's session.     *)
(* The reader of that session takes a slot for it, or drops it, and hands  *)
(* it to a pool of threads in which nothing orders the requests.  Tabs are *)
(* renamed, their shells end and are started again, and tabs are closed at *)
(* any moment.                                                             *)
(*                                                                         *)
(* A title is the set of the words it contains.  A session is a number,    *)
(* never used twice.                                                       *)
(***************************************************************************)
EXTENDS OscScanner, FiniteSets

CONSTANTS
    Tabs,           \* ids of terminal tabs
    WorkspaceOf,    \* the workspace of each tab
    Words,          \* what titles are made of
    Calls,          \* the calls of the model, by number
    Requests,       \* what a call may be: [kind, from, target, text], from a tab
    Titles,         \* the titles at the start
    MaxInFlight,    \* MAX_IN_FLIGHT
    MaxSessions, MaxChanges     \* bounds of the model

ChannelConstants ==
    /\ Tabs \subseteq 1..99 /\ Tabs # {} /\ IsFiniteSet(Tabs) /\ Words \subseteq 3000..3999
    /\ Calls \subseteq 0..99 /\ MaxInFlight \in Nat \ {0} /\ MaxSessions \in Nat /\ Cardinality(Tabs) <= MaxSessions
    /\ Titles \in [Tabs -> SUBSET Words]
    /\ \A q \in Requests : /\ q.kind \in {"send", "literal", "ls", "color"} /\ q.from \in Tabs
                           /\ q.target \in Words \cup 2001..2099 \cup {0}  \* cmd_send refuses a semicolon
                           /\ q.text \in {"short", "long"} \* long: over MAX_SEND_BYTES, or a path elsewhere

ASSUME ChannelAssumption == ChannelConstants

Sessions == 1..MaxSessions
NoSession == 0
NoTab == 0

VARIABLES
    session, status, title,     \* of each tab, as the model has it
    owner, alive,   \* the tab of a session; the sessions whose writer is open
    spawned,        \* sessions so far
    changes,        \* what happened to the tabs, so far
    call,           \* what each call is doing
    out,            \* requests in the output of a session its reader has not read
    reader,         \* "idle", or "refused": it has to take back its count
    inFlight,       \* IN_FLIGHT
    tasks,          \* the requests in the pool
    partial, reply, \* the files of a query: "absent", "empty", "half" or "whole"
    input           \* what was written to the stdin of each session

tabVars == <<session, status, title, owner, alive, spawned, changes>>
fileVars == <<partial, reply>>
vars == <<tabVars, call, out, reader, inFlight, tasks, fileVars, input>>
-----------------------------------------------------------------------------
(* Requests, as words of an OSC payload. *)

IdWord(t) == 2000 + t
TextWord(c) == 4000 + c
EnterWord == 4999
PathWord(c) == 5000 + c
ListTabs == 6000

Extension(word, field, last) == <<OscWord.w777, Semicolon, word, Semicolon, field, Semicolon, last>>

Payload(c, part) ==
    CASE part = "text" -> Extension(OscWord.send, call[c].target, TextWord(c))
      [] part = "enter" -> Extension(OscWord.send, call[c].target, EnterWord)
      [] part = "query" -> Extension(OscWord.query, ListTabs, PathWord(c))
      [] part = "color" -> <<49, 49, Semicolon, Question>>

-----------------------------------------------------------------------------
(* Looking up tabs, under the lock of the Dispatcher. *)

Holders(s) == {t \in Tabs : session[t] = s}
Reachable(s, t) ==
    /\ session[t] # NoSession /\ session[t] # s /\ status[t] = "running"
    /\ \E h \in Holders(s) : WorkspaceOf[h] = WorkspaceOf[t]

\* Mutant: the guards of a title are missing when the target is an id.
MatchesUnguarded(s, target) ==
    {t \in Tabs : \/ target = IdWord(t) /\ session[t] # NoSession /\ status[t] = "running"
                  \/ target \in title[t] /\ Reachable(s, t)}

\* The tabs a target may mean: the one it numbers, or those with the word.
Matches(s, target) == {t \in Tabs : Reachable(s, t) /\ (target = IdWord(t) \/ target \in title[t])}

\* resolve_send_target: exactly one match, or nothing.
Resolve(s, target) ==
    LET found == Matches(s, target)
    IN  IF Cardinality(found) = 1 THEN session[CHOOSE t \in found : TRUE] ELSE NoSession

\* A file of a query; "whole" and empty is the answer to a caller unknown.
File(is) == [is |-> is, tabs |-> {}, self |-> NoTab]

\* requester_tab_and_distro: no tab when the session has gone.
SelfTab(s) == IF Holders(s) = {} THEN NoTab ELSE CHOOSE h \in Holders(s) : TRUE

\* list_tabs, and the tab of the requester, both under one lock.
Listing(s) ==
    LET self == SelfTab(s)
    IN  [is |-> "whole", self |-> self,
         tabs |-> {t \in Tabs : status[t] # "closed" /\ self # NoTab /\ WorkspaceOf[t] = WorkspaceOf[self]}]

-----------------------------------------------------------------------------
(* The tabs around the channel. *)

NoCall == [stage |-> "new", kind |-> "none", from |-> NoSession, target |-> 0, text |-> "short", got |-> File("absent")]

Init ==
    /\ session \in [Tabs -> 1..Cardinality(Tabs)] /\ \A t, u \in Tabs : t < u <=> session[t] < session[u]
    /\ owner = [s \in Sessions |-> IF Holders(s) = {} THEN NoTab ELSE CHOOSE t \in Holders(s) : TRUE]
    /\ status = [t \in Tabs |-> "running"] /\ title = Titles
    /\ alive = 1..Cardinality(Tabs) /\ spawned = Cardinality(Tabs) /\ changes = 0
    /\ call = [c \in Calls |-> NoCall] /\ out = [s \in Sessions |-> <<>>]
    /\ reader = [s \in Sessions |-> "idle"] /\ inFlight = 0 /\ tasks = {}
    /\ partial = [c \in Calls |-> File("absent")] /\ reply = [c \in Calls |-> File("absent")]
    /\ input = [s \in Sessions |-> <<>>]

Change == changes < MaxChanges /\ changes' = changes + 1
OnlyTabs == UNCHANGED <<call, out, reader, inFlight, tasks, fileVars, input>>

\* OSC 0: a prompt rewrites the title.
Rename(t, words) ==
    /\ status[t] = "running" /\ title[t] # words /\ Change
    /\ title' = [title EXCEPT ![t] = words]
    /\ UNCHANGED <<session, status, owner, alive, spawned>> /\ OnlyTabs

\* The shell ends; the waiter drops the writer.
ShellEnds(s) ==
    /\ s \in alive /\ Change
    /\ alive' = alive \ {s}
    /\ UNCHANGED <<session, status, title, owner, spawned>> /\ OnlyTabs

\* The exit reaches the model.
ExitApplied(t) ==
    /\ session[t] # NoSession /\ session[t] \notin alive
    /\ session' = [session EXCEPT ![t] = NoSession] /\ status' = [status EXCEPT ![t] = "exited"]
    /\ UNCHANGED <<title, owner, alive, spawned, changes>> /\ OnlyTabs

\* The tab is started again, with a new session.
Respawn(t) ==
    /\ status[t] = "exited" /\ spawned < MaxSessions
    /\ spawned' = spawned + 1
    /\ session' = [session EXCEPT ![t] = spawned + 1] /\ status' = [status EXCEPT ![t] = "running"]
    /\ owner' = [owner EXCEPT ![spawned + 1] = t] /\ alive' = alive \cup {spawned + 1}
    /\ UNCHANGED <<title, changes>> /\ OnlyTabs

\* The tab is closed and its session killed.
CloseTab(t) ==
    /\ status[t] # "closed" /\ Change
    /\ status' = [status EXCEPT ![t] = "closed"] /\ session' = [session EXCEPT ![t] = NoSession]
    /\ alive' = alive \ {session[t]}
    /\ UNCHANGED <<title, owner, spawned>> /\ OnlyTabs

TabChanges == \E t \in Tabs : \/ \E words \in SUBSET Words : Rename(t, words)
                              \/ ExitApplied(t) \/ Respawn(t) \/ CloseTab(t)
-----------------------------------------------------------------------------
(* The caller: a process in a tab. *)

Unchanged == UNCHANGED <<tabVars, reader, inFlight, tasks, input>>

\* mast send, mast send -l, mast ls, or a program that asks for a colour.
Begin(c) ==
    /\ call[c].stage = "new" /\ \A d \in Calls : d < c => call[d].stage # "new"
    /\ \E q \in Requests : \E s \in alive :
         /\ owner[s] = q.from
         /\ call' = [call EXCEPT ![c] = [NoCall EXCEPT !.kind = q.kind, !.from = s, !.target = q.target, !.text = q.text,
                       !.stage = IF q.kind = "ls" THEN "mktemp" ELSE IF q.kind = "color" THEN "color" ELSE "text"]]
    /\ UNCHANGED <<out, fileVars>> /\ Unchanged

\* mast_emit: the sequence goes to the terminal of the caller.
Emit(c, part, then) ==
    /\ call[c].stage = part /\ call[c].from \in alive
    /\ out' = [out EXCEPT ![call[c].from] = Append(@, [call |-> c, part |-> part, payload |-> Payload(c, part)])]
    /\ call' = [call EXCEPT ![c].stage = then]
    /\ UNCHANGED fileVars /\ Unchanged

\* Enter is a sequence of its own, a beat after the text.
EmitSend(c) == \/ Emit(c, "text", IF call[c].kind = "literal" THEN "done" ELSE "enter")
               \/ Emit(c, "enter", "done") \/ Emit(c, "color", "done")

\* A file reserves the name of the reply; it is gone before the request is made.
Mktemp(c) ==
    /\ call[c].stage = "mktemp"
    /\ reply' = [reply EXCEPT ![c] = File("empty")] /\ call' = [call EXCEPT ![c].stage = "rm"]
    /\ UNCHANGED <<out, partial>> /\ Unchanged

RmPlaceholder(c) ==
    /\ call[c].stage = "rm"
    /\ reply' = [reply EXCEPT ![c] = File("absent")] /\ call' = [call EXCEPT ![c].stage = "query"]
    /\ UNCHANGED <<out, partial>> /\ Unchanged

\* The file is there: it is read and removed.
TakeReply(c) ==
    /\ call[c].stage = "wait" /\ reply[c].is # "absent"
    /\ call' = [call EXCEPT ![c].stage = "done", ![c].got = reply[c]]
    /\ reply' = [reply EXCEPT ![c] = File("absent")]
    /\ UNCHANGED <<out, partial>> /\ Unchanged

\* QUERY_TICKS have passed; the answer may still come and is left in /tmp.
GiveUp(c) ==
    /\ call[c].stage = "wait" /\ reply[c].is = "absent"
    /\ call' = [call EXCEPT ![c].stage = "gaveUp"]
    /\ UNCHANGED <<out, fileVars>> /\ Unchanged

List(c) == Mktemp(c) \/ RmPlaceholder(c) \/ Emit(c, "query", "wait") \/ TakeReply(c) \/ GiveUp(c)
-----------------------------------------------------------------------------
(* The app. *)

Task(r, s) == [call |-> r.call, part |-> r.part, event |-> ParsePayload(r.payload), from |-> s,
               stage |-> "begin", to |-> NoSession, answer |-> File("absent")]

\* Mutant: off by one.
AcquireOneMore == [taken |-> inFlight <= MaxInFlight, count |-> inFlight + 1]

\* acquire_in_flight: one more is counted, then the count before it compared.
Acquire == [taken |-> inFlight < MaxInFlight, count |-> inFlight + 1]

\* on_osc for a request: with a slot it goes to the pool, else it is dropped.
ReadRequest(s) ==
    /\ out[s] # <<>> /\ reader[s] = "idle"
    /\ out' = [out EXCEPT ![s] = Tail(@)]
    /\ inFlight' = Acquire.count
    /\ IF Acquire.taken THEN tasks' = tasks \cup {Task(Head(out[s]), s)} /\ UNCHANGED reader
                           ELSE reader' = [reader EXCEPT ![s] = "refused"] /\ UNCHANGED tasks
    /\ UNCHANGED <<tabVars, call, fileVars, input>>

\* A reader over the limit takes its count back.
TakeBack(s) ==
    /\ reader[s] = "refused"
    /\ reader' = [reader EXCEPT ![s] = "idle"] /\ inFlight' = inFlight - 1
    /\ UNCHANGED <<tabVars, call, out, tasks, fileVars, input>>

\* Whatever way a task ends, its guard gives the slot back.
Ends(k) == tasks' = tasks \ {k} /\ inFlight' = inFlight - 1
Becomes(k, then) == tasks' = (tasks \ {k}) \cup {then} /\ UNCHANGED inFlight

\* decode_send_text refuses a text over the limit, whatever follows it.
TooLong(k) == k.part = "text" /\ call[k.call].text = "long"

\* answer_color_query: to the session that asked, no tab is looked up.
AnswerColor(k) ==
    /\ k.stage = "begin" /\ k.event.kind = "color"
    /\ Becomes(k, [k EXCEPT !.stage = "write", !.to = k.from])
    /\ UNCHANGED <<tabVars, call, out, reader, fileVars, input>>

\* deliver_send up to the end of the lock.
ResolveTask(k) ==
    LET to == Resolve(k.from, Head(k.event.target))
    IN  /\ k.stage = "begin" /\ k.event.kind = "send"
        /\ IF TooLong(k) \/ to = NoSession THEN Ends(k) ELSE Becomes(k, [k EXCEPT !.stage = "write", !.to = to])
        /\ UNCHANGED <<tabVars, call, out, reader, fileVars, input>>

\* PtySession::write: to an open writer, or nowhere.
Written(k) == IF k.to \in alive THEN [input EXCEPT ![k.to] = Append(@, [call |-> k.call, part |-> k.part])] ELSE input

\* The write, unless the session has gone meanwhile.
WriteTask(k) ==
    /\ k.stage = "write"
    /\ input' = Written(k)
    /\ Ends(k)
    /\ UNCHANGED <<tabVars, call, out, reader, fileVars>>

\* decode_reply_path refuses a path that is not under /tmp.
PathRefused(k) == call[k.call].text = "long"

\* deliver_query up to the end of the lock.
AnswerTask(k) ==
    /\ k.stage = "begin" /\ k.event.kind = "query"
    /\ IF PathRefused(k) THEN Ends(k) ELSE Becomes(k, [k EXCEPT !.stage = "create", !.answer = Listing(k.from)])
    /\ UNCHANGED <<tabVars, call, out, reader, fileVars, input>>

\* Mutant: the answer is written where it is waited for.
CreateReplyInPlace(k) ==
    /\ k.stage = "create"
    /\ reply' = [reply EXCEPT ![k.call] = File("half")] /\ Becomes(k, [k EXCEPT !.stage = "fill"])
    /\ UNCHANGED <<tabVars, call, out, reader, partial, input>>

\* write_reply_file: the .partial file is written, then renamed.
CreateReply(k) ==
    /\ k.stage = "create"
    /\ partial' = [partial EXCEPT ![k.call] = File("half")] /\ Becomes(k, [k EXCEPT !.stage = "fill"])
    /\ UNCHANGED <<tabVars, call, out, reader, reply, input>>

FillReply(k) ==
    /\ k.stage = "fill"
    /\ \/ partial' = [partial EXCEPT ![k.call] = k.answer] /\ Becomes(k, [k EXCEPT !.stage = "rename"])
       \/ UNCHANGED partial /\ Ends(k) \* the write failed
    /\ UNCHANGED <<tabVars, call, out, reader, reply, input>>

RenameReply(k) ==
    /\ k.stage = "rename"
    /\ partial' = [partial EXCEPT ![k.call] = File("absent")]
    /\ \/ reply' = [reply EXCEPT ![k.call] = partial[k.call]]
       \/ UNCHANGED reply \* the rename failed
    /\ Ends(k)
    /\ UNCHANGED <<tabVars, call, out, reader, input>>

Pool == \E k \in tasks : \/ AnswerColor(k) \/ ResolveTask(k) \/ WriteTask(k) \/ AnswerTask(k)
                         \/ CreateReply(k) \/ FillReply(k) \/ RenameReply(k)

Next == \/ TabChanges
        \/ \E s \in Sessions : ShellEnds(s) \/ ReadRequest(s) \/ TakeBack(s)
        \/ \E c \in Calls : Begin(c) \/ EmitSend(c) \/ List(c)
        \/ Pool

Spec == Init /\ [][Next]_vars
-----------------------------------------------------------------------------
(* Properties. *)

TypeOK ==
    /\ session \in [Tabs -> 0..MaxSessions] /\ status \in [Tabs -> {"running", "exited", "closed"}]
    /\ title \in [Tabs -> SUBSET Words] /\ owner \in [Sessions -> Tabs \cup {NoTab}] /\ alive \subseteq 1..spawned
    /\ inFlight \in Nat /\ reader \in [Sessions -> {"idle", "refused"}]

\* The tab a call was made from.
Caller(c) == owner[call[c].from]

\* What is typed for a caller reaches only a tab of its workspace, never its
\* own, and the numbered one if it named a number, whatever shells ended,
\* started or were closed between the request, its resolution and the write
\* (resolve_send_target, deliver_send); a colour is told to who asked.
ReachesOnlyTheAddressed ==
    \A s \in Sessions : \A i \in DOMAIN input[s] :
        LET c == input[s][i].call
        IN  IF input[s][i].part = "color" THEN s = call[c].from
            ELSE /\ owner[s] # Caller(c) /\ WorkspaceOf[owner[s]] = WorkspaceOf[Caller(c)]
                 /\ call[c].target \in Words \/ call[c].target = IdWord(owner[s])

\* However many readers count at once and whichever way tasks end, the pool
\* never holds more than the limit, and the count is of what is in flight
\* (acquire_in_flight, InFlightGuard).
SlotsCounted ==
    /\ Cardinality(tasks) <= MaxInFlight
    /\ inFlight = Cardinality(tasks) + Cardinality({s \in Sessions : reader[s] = "refused"})

\* What `mast ls` reads is a whole answer, to its own request (cmd_ls,
\* write_reply_file).
AnswerIsWhole ==
    \A c \in Calls : call[c].got.is # "absent" =>
        /\ call[c].got.is = "whole"
        /\ call[c].got.self \in {Caller(c), NoTab}
        /\ \A t \in call[c].got.tabs : WorkspaceOf[t] = WorkspaceOf[Caller(c)]

\* Enter follows the text it belongs to, in the same shell (cmd_send): "The
\* app writes each OSC send to the PTY as soon as it arrives".
EnterFollowsText ==
    \A s \in Sessions : \A i \in DOMAIN input[s] : input[s][i].part = "enter" =>
        \E j \in 1..(i - 1) : input[s][j] = [call |-> input[s][i].call, part |-> "text"]
=============================================================================
