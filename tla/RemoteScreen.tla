---------------------------- MODULE RemoteScreen ----------------------------
(***************************************************************************)
(* A terminal tab on the phone: the desktop's routes for its screen and    *)
(* its input (mast-remote handlers.rs), and the page that polls the one    *)
(* and posts the other (apps/mast/src/remote: poller.ts, protocol.ts,      *)
(* tab-view.ts, input-queue.ts).                                           *)
(*                                                                         *)
(* Every request is a connection of its own: it may be slow, it may be     *)
(* lost on the way in or out, and the shell of the tab may have been       *)
(* replaced while it was under way.                                        *)
(***************************************************************************)
EXTENDS ReplayBuffer

CONSTANTS
    MaxSession,     \* bound: how many shells the tab has had
    MaxBytes,       \* bound: how many bytes a shell writes
    Chunks,         \* the sizes a read returns
    MaxSize,        \* bound: how many sizes the tab takes, each from the last
    Events,         \* bound: which of "close", "unpair", "hide", "leave" happen
    MaxInputs,      \* bound: how often a control of the page is used
    MaxFaults       \* bound: lost requests and answers 429

ASSUME RemoteAssumption == /\ {MaxSession, MaxBytes, MaxSize} \subseteq Nat \ {0}
                           /\ {MaxInputs, MaxFaults} \subseteq Nat
                           /\ Chunks \subseteq Nat \ {0}
                           /\ Events \subseteq {"close", "unpair", "hide", "leave"}

VARIABLES
    \* @desktop
    tab,        \* session (0: none that runs), started, gone (tab closed), size
    stream,     \* for each session, its buffer
    dead,       \* the sessions whose process has ended
    paired,     \* the token the phone holds is the desktop's
    typed,      \* the inputs the shells have read, in the order they got them
    faults,
    \* @phone
    view,       \* the protocol state, the terminal and what it has drawn
    sched,      \* the poll schedule
    poll,       \* the poll in flight
    queue,      \* the inputs not yet sent
    post,       \* the input under way
    requests,   \* the inputs that are on their way to a shell
    box,        \* the text area: a text, or 0
    pending,    \* the Send whose text is brought back if it fails, or 0
    inputs      \* how many inputs were made

desktopVars == <<tab, stream, dead, paired, typed>>
inputVars == <<queue, post, requests, box, pending, inputs>>
vars == <<desktopVars, faults, view, sched, poll, inputVars>>

Sessions == 1..MaxSession

-----------------------------------------------------------------------------
(* The protocol (protocol.ts).                                             *)

InitialView == [phase |-> "full", since |-> 0, session |-> 0, size |-> 0]
NoTerm == [state |-> "none", shown |-> <<>>, mode |-> FALSE]

\* screenQuery: what a poll asks for; session 0 asks for everything.
ScreenQuery(v) == IF v.phase = "ready" /\ v.session # 0
                    THEN [since |-> v.since, session |-> v.session]
                    ELSE [since |-> NoOffset, session |-> 0]

\* Mutant: a terminal is kept across a change of size.
NeedsRecreateSame(v, got) == got.reset \/ got.session # v.session

NeedsRecreate(v, got) == got.reset \/ got.size # v.size \/ got.session # v.session

\* nextRequest.
NextRequest(v, got) ==
    IF v.phase = "full"
      THEN IF got.reset
             THEN [phase |-> "ready", since |-> got.end, session |-> got.session, size |-> got.size]
             ELSE v
      ELSE IF NeedsRecreate(v, got) THEN InitialView ELSE [v EXCEPT !.since = got.end]

\* The terminal after a reply.  Its modes hold once the first write has been
\* parsed: until then it is "opening", and no control works.
TermAfter(v, term, got) ==
    IF v.phase = "full"
      THEN IF got.reset
             THEN [state |-> "opening", shown |-> got.bytes, mode |-> ModeAfter(got.mode, got.bytes)]
             ELSE term
      ELSE IF NeedsRecreate(v, got) THEN NoTerm
           ELSE [term EXCEPT !.shown = @ \o got.bytes, !.mode = ModeAfter(@, got.bytes)]

InputReady == view.term.state = "ready"

-----------------------------------------------------------------------------
(* The poll schedule (poller.ts).                                          *)

Idle == [stage |-> "idle"]
CanRun(s) == s.running /\ s.visible /\ ~s.dead /\ ~s.paused

\* fire, for a schedule with nothing in flight.
Fired(s, v) == IF CanRun(s)
                 THEN [sched |-> [s EXCEPT !.timer = FALSE],
                       poll |-> [stage |-> "sent", query |-> ScreenQuery(v.at), current |-> TRUE]]
                 ELSE [sched |-> s, poll |-> Idle]

\* fire: nothing when a poll is in flight.
Fire(s, v, p) == IF p.stage = "idle" THEN Fired(s, v) ELSE [sched |-> s, poll |-> p]

\* pollNow: a poll in flight is followed by another at once.
PollNow(s, v, p) == IF CanRun(s) /\ p.stage # "idle"
                      THEN [sched |-> [s EXCEPT !.again = TRUE], poll |-> p]
                      ELSE Fire(s, v, p)

\* arm: the next poll after the interval.
Arm(s) == [s EXCEPT !.timer = CanRun(s)]

\* stop.
Stopped(s) == [s EXCEPT !.running = FALSE, !.timer = FALSE, !.wake = FALSE]

\* Mutant: the pause uses the timer of the polls.
NoteStatusShared(s, code) ==
    CASE code = 401 -> [Stopped(s) EXCEPT !.dead = TRUE]
      [] code = 429 -> [s EXCEPT !.paused = TRUE, !.timer = FALSE]
      [] OTHER -> s

\* noteStatus: 401 ends the schedule, 429 pauses it.
NoteStatus(s, code) ==
    CASE code = 401 -> [Stopped(s) EXCEPT !.dead = TRUE]
      [] code = 429 -> [s EXCEPT !.paused = TRUE, !.timer = FALSE, !.wake = TRUE]
      [] OTHER -> s

\* The poll has settled: the next one at once if one was asked for.
SettledPoll(s, v) ==
    LET after == [s EXCEPT !.again = FALSE]
    IN  IF s.again THEN Fired(after, v) ELSE [sched |-> Arm(after), poll |-> Idle]

\* destroyTerminal: what is in flight for the terminal no longer counts.
Overtaken(p) == IF p.stage = "idle" THEN p ELSE [p EXCEPT !.current = FALSE]

\* resetToFull: nothing to do without a terminal.
ResetView(v) == IF v.term.state = "none" THEN v
                ELSE [v EXCEPT !.at = InitialView, !.term = NoTerm]
ResetPoll(v, p) == IF v.term.state = "none" THEN p ELSE Overtaken(p)

-----------------------------------------------------------------------------
(* The desktop.                                                            *)

DesktopOnly == UNCHANGED <<faults, view, sched, poll, inputVars>>

\* The session can still be read by a request.
Observed(s) == s = tab.session \/ (poll.stage = "found" /\ poll.session = s)

\* The reader commits a chunk; it may do so after the process has ended.  What
\* no request can see any more is left out.
Output(s, n) ==
    /\ s <= tab.started /\ Observed(s) /\ stream[s].out + n <= MaxBytes
    /\ stream' = [stream EXCEPT ![s] = Push(@, s, n)]
    /\ UNCHANGED <<tab, dead, paired, typed>> /\ DesktopOnly

\* on_exit takes the record of the session, which empties the buffer, before
\* the tab is told.
ShellEnds(s) ==
    /\ s <= tab.started /\ s \notin dead
    /\ dead' = dead \cup {s}
    /\ stream' = [stream EXCEPT ![s] = Cleared(@)]
    /\ UNCHANGED <<tab, paired, typed>> /\ DesktopOnly

TabLetsGo ==
    /\ tab.session \in dead
    /\ tab' = [tab EXCEPT !.session = 0]
    /\ UNCHANGED <<stream, dead, paired, typed>> /\ DesktopOnly

Restart ==
    /\ tab.session = 0 /\ ~tab.gone /\ tab.started < MaxSession
    /\ tab' = [tab EXCEPT !.session = tab.started + 1, !.started = @ + 1]
    /\ UNCHANGED <<stream, dead, paired, typed>> /\ DesktopOnly

CloseTab ==
    /\ "close" \in Events /\ ~tab.gone
    /\ tab' = [tab EXCEPT !.session = 0, !.gone = TRUE]
    /\ dead' = dead \cup (IF tab.session = 0 THEN {} ELSE {tab.session})
    /\ UNCHANGED <<stream, paired, typed>> /\ DesktopOnly

Resize ==
    /\ tab.size < MaxSize
    /\ tab' = [tab EXCEPT !.size = @ + 1]
    /\ UNCHANGED <<stream, dead, paired, typed>> /\ DesktopOnly

\* The token file was deleted and the application started again.
Unpair ==
    /\ "unpair" \in Events /\ paired /\ paired' = FALSE
    /\ UNCHANGED <<tab, stream, dead, typed>> /\ DesktopOnly

\* live_session: the status a request gets without a shell that runs, or 0.
Refusal == IF ~paired THEN 401
           ELSE IF tab.gone THEN 404
           ELSE IF tab.session = 0 THEN 409 ELSE 0

\* screen: the session is looked up under the lock of the model.
PollArrives ==
    /\ poll.stage = "sent"
    /\ poll' = IF Refusal # 0
                 THEN [stage |-> "answered", code |-> Refusal, current |-> poll.current]
                 ELSE [stage |-> "found", session |-> tab.session, query |-> poll.query,
                       current |-> poll.current]
    /\ UNCHANGED <<desktopVars, faults, view, sched, inputVars>>

\* An offset counts only with the token of the session it is an offset of.
TrustedSince(query, session) == IF query.session = session THEN query.since ELSE NoOffset

\* screen: the reply, with its headers as fields.
Reply(session, size, screen) ==
    [session |-> session, size |-> size, end |-> screen.end, reset |-> screen.reset,
     mode |-> screen.mode, bytes |-> screen.bytes]

\* screen: the buffer is read under the lock of the session.
PollAnswered ==
    /\ poll.stage = "found"
    /\ poll' = [stage |-> "answered", code |-> 200, current |-> poll.current,
                got |-> Reply(poll.session, tab.size,
                              ScreenSince(stream[poll.session], TrustedSince(poll.query, poll.session)))]
    /\ UNCHANGED <<desktopVars, faults, view, sched, inputVars>>

TooMany(request) == [stage |-> "answered", code |-> 429, current |-> request.current]
Lost(request) == [stage |-> "answered", code |-> 0, current |-> request.current]

\* The limiter refuses the address of the phone, or the network fails; code
\* 0 is a request without an answer.
PollFails ==
    /\ faults < MaxFaults /\ faults' = faults + 1
    /\ \/ poll.stage = "sent" /\ poll' \in {TooMany(poll), Lost(poll)}
       \/ poll.stage \in {"found", "answered"} /\ poll' = Lost(poll)
    /\ UNCHANGED <<desktopVars, view, sched, inputVars>>

-----------------------------------------------------------------------------
(* The page: its screen.                                                   *)

PhoneScreen == UNCHANGED <<desktopVars, faults, inputVars>>

\* poll (tab-view.ts) and what follows it in the schedule: a late answer is
\* dropped, a reply is applied, an error is noted.
PollSettles ==
    /\ poll.stage = "answered"
    /\ LET applies == poll.current /\ poll.code = 200
           refused == poll.current /\ poll.code \in {401, 404, 409, 429}
           v == IF applies
                  THEN [view EXCEPT !.at = NextRequest(view.at, poll.got),
                                    !.term = TermAfter(view.at, view.term, poll.got)]
                ELSE IF refused /\ poll.code \in {404, 409} THEN ResetView(view) ELSE view
           s == IF refused THEN NoteStatus(sched, poll.code) ELSE sched
           next == SettledPoll(s, v)
       IN  /\ view' = v /\ sched' = next.sched /\ poll' = next.poll
    /\ PhoneScreen

\* The callback of the first write of a terminal: the controls work.
FirstWritten ==
    /\ view.term.state = "opening"
    /\ view' = [view EXCEPT !.term.state = "ready"]
    /\ UNCHANGED <<sched, poll>> /\ PhoneScreen

PollDue ==
    /\ sched.timer
    /\ LET next == Fire([sched EXCEPT !.timer = FALSE], view, poll)
       IN  sched' = next.sched /\ poll' = next.poll
    /\ UNCHANGED view /\ PhoneScreen

PauseEnds ==
    /\ sched.wake
    /\ LET next == Fire([sched EXCEPT !.wake = FALSE, !.paused = FALSE], view, poll)
       IN  sched' = next.sched /\ poll' = next.poll
    /\ UNCHANGED view /\ PhoneScreen

\* setVisible, called when the page is hidden or shown.
SetVisible(visible) ==
    /\ "hide" \in Events /\ view.open /\ sched.visible # visible
    /\ LET s == [sched EXCEPT !.visible = visible, !.timer = visible /\ @]
           next == IF visible THEN Fire(s, view, poll) ELSE [sched |-> s, poll |-> poll]
       IN  sched' = next.sched /\ poll' = next.poll
    /\ UNCHANGED view /\ PhoneScreen

\* The refresh button works whatever the state.
Refresh ==
    /\ view.open
    /\ LET v == ResetView(view)
           next == PollNow(sched, v, ResetPoll(view, poll))
       IN  view' = v /\ sched' = next.sched /\ poll' = next.poll
    /\ PhoneScreen

\* dispose: the page goes back to the list; an input under way is not stopped.
Dispose ==
    /\ "leave" \in Events /\ view.open
    /\ view' = [view EXCEPT !.open = FALSE, !.term = NoTerm]
    /\ sched' = Stopped(sched)
    /\ poll' = Overtaken(poll)
    /\ queue' = <<>>
    /\ UNCHANGED <<desktopVars, faults, post, requests, box, pending, inputs>>

-----------------------------------------------------------------------------
(* The page: its input (tab-view.ts, input-queue.ts).                      *)

\* The text and the Enter of a Send are two items; a button is one.
TextItem(id, text) == [id |-> id, key |-> "text", text |-> text]
EnterItem(id) == [id |-> id, key |-> "enter", text |-> 0]
KeyItem(id) == [id |-> id, key |-> "key", text |-> 0]

NoPost == [stage |-> "idle"]
Waiting(item) == [stage |-> "waiting", item |-> item]
Request(item) == [item |-> item, session |-> view.at.session, found |-> FALSE]

\* sendOne: the input goes to the session the page holds when it is sent.
Posts(item) ==
    /\ view.at.session # 0
    /\ post' = Waiting(item)
    /\ requests' = requests \cup {Request(item)}

\* Mutant: what is queued is sent all the same.
FailsAlone(item, code) ==
    /\ pending' = 0 /\ post' = IF queue = <<>> THEN NoPost ELSE [stage |-> "delay", item |-> Head(queue)]
    /\ queue' = IF queue = <<>> THEN queue ELSE Tail(queue)
    /\ box' = IF pending = item.id /\ item.key = "text" /\ box = 0 THEN item.text ELSE box
    /\ sched' = NoteStatus(sched, code)
    /\ IF code = 409 THEN view' = ResetView(view) /\ poll' = ResetPoll(view, poll)
                     ELSE UNCHANGED <<view, poll>>
    /\ UNCHANGED requests

\* pump and reportInputError: what is queued goes too, and a text that was
\* not sent comes back to an empty text area.
Fails(item, code) ==
    /\ post' = NoPost /\ queue' = <<>> /\ pending' = 0
    /\ box' = IF pending = item.id /\ item.key = "text" /\ box = 0 THEN item.text ELSE box
    /\ sched' = NoteStatus(sched, code)
    /\ IF code = 409 THEN view' = ResetView(view) /\ poll' = ResetPoll(view, poll)
                     ELSE UNCHANGED <<view, poll>>
    /\ UNCHANGED requests

\* push: the first item leaves at once when nothing is under way.
Pushed(items) ==
    \/ post.stage = "idle" /\ Posts(Head(items)) /\ queue' = queue \o Tail(items)
    \/ post.stage # "idle" /\ queue' = queue \o items /\ UNCHANGED <<post, requests>>

Uses == /\ InputReady /\ inputs < MaxInputs /\ inputs' = inputs + 1
        /\ UNCHANGED <<desktopVars, faults, view, sched, poll>>

Type ==
    /\ Uses /\ box = 0 /\ box' = inputs'
    /\ UNCHANGED <<queue, post, requests, pending>>

Send ==
    /\ Uses /\ box # 0
    /\ Pushed(<<TextItem(inputs', box), EnterItem(inputs')>>)
    /\ pending' = inputs' /\ box' = 0

\* A key of the bar, or Send with an empty text area.
PressKey ==
    /\ Uses
    /\ Pushed(<<KeyItem(inputs')>>)
    /\ UNCHANGED <<box, pending>>

\* The answer to r, if the page still waits for it.
Answered(r, code) ==
    post' = IF post = Waiting(r.item) THEN [stage |-> "answered", item |-> r.item, code |-> code]
            ELSE post

\* resolve_input_session: the token must be that of the session that runs.
PostArrives(r) ==
    /\ ~r.found
    /\ LET code == IF Refusal # 0 THEN Refusal ELSE IF r.session # tab.session THEN 409 ELSE 0
       IN  IF code # 0 THEN requests' = requests \ {r} /\ Answered(r, code)
           ELSE requests' = (requests \ {r}) \cup {[r EXCEPT !.found = TRUE]} /\ UNCHANGED post
    /\ UNCHANGED <<desktopVars, faults, view, sched, poll, queue, box, pending, inputs>>

\* write_input: a process that has ended in the meantime takes nothing.
PostWritten(r) ==
    /\ r.found /\ requests' = requests \ {r}
    /\ IF r.session \in dead THEN Answered(r, 500) /\ UNCHANGED typed
       ELSE Answered(r, 200) /\ typed' = Append(typed, [item |-> r.item, session |-> r.session])
    /\ UNCHANGED <<tab, stream, dead, paired, faults, view, sched, poll, queue, box, pending, inputs>>

\* The limiter refuses the address, or the page hears nothing: the request
\* may be lost, may still be under way, or may have been carried out.
PostFails ==
    /\ faults < MaxFaults /\ faults' = faults + 1
    /\ post.stage \in {"waiting", "answered"}
    /\ LET under == {r \in requests : r.item = post.item}
       IN  \/ /\ \E r \in under : ~r.found
              /\ requests' = requests \ under
              /\ post' = [stage |-> "answered", item |-> post.item, code |-> 429]
           \/ /\ requests' \in {requests, requests \ under}
              /\ post' = [stage |-> "answered", item |-> post.item, code |-> 0]
    /\ UNCHANGED <<desktopVars, view, sched, poll, queue, box, pending, inputs>>

\* The Enter of a Send waits ENTER_DELAY_MS; other items leave at once.
PostSucceeded ==
    /\ post.stage = "answered" /\ post.code = 200
    /\ \/ /\ queue = <<>> /\ post' = NoPost /\ pending' = 0
          /\ LET next == PollNow(sched, view, poll) IN sched' = next.sched /\ poll' = next.poll
          /\ UNCHANGED <<view, queue, requests, box>>
       \/ /\ queue # <<>> /\ queue' = Tail(queue)
          /\ \/ Head(queue).key = "enter" /\ post' = [stage |-> "delay", item |-> Head(queue)]
                                          /\ UNCHANGED requests
             \/ Head(queue).key # "enter" /\ Posts(Head(queue))
          /\ UNCHANGED <<view, sched, poll, box, pending>>
       \/ /\ queue # <<>> /\ Head(queue).key # "enter" /\ view.at.session = 0
          /\ Fails(Head(queue), 0)
    /\ UNCHANGED <<desktopVars, faults, inputs>>

PostFailed ==
    /\ post.stage = "answered" /\ post.code # 200
    /\ Fails(post.item, post.code)
    /\ UNCHANGED <<desktopVars, faults, inputs>>

DelayEnds ==
    /\ post.stage = "delay"
    /\ \/ Posts(post.item) /\ UNCHANGED <<queue, pending, box, sched, view, poll>>
       \/ view.at.session = 0 /\ Fails(post.item, 0)
    /\ UNCHANGED <<desktopVars, faults, inputs>>

-----------------------------------------------------------------------------
NoSchedule == [running |-> TRUE, visible |-> TRUE, dead |-> FALSE, paused |-> FALSE,
               timer |-> FALSE, wake |-> FALSE, again |-> FALSE]
NewView == [open |-> TRUE, at |-> InitialView, term |-> NoTerm]

\* openTab: the view is made and started, over a tab with a shell.
Init ==
    /\ tab = [session |-> 1, started |-> 1, gone |-> FALSE, size |-> 1]
    /\ stream = [s \in Sessions |-> NoStream]
    /\ dead = {} /\ paired = TRUE /\ typed = <<>> /\ faults = 0
    /\ view = NewView
    /\ sched = NoSchedule /\ poll = Fired(NoSchedule, NewView).poll
    /\ queue = <<>> /\ post = NoPost /\ requests = {} /\ box = 0 /\ pending = 0 /\ inputs = 0

Desktop ==
    \/ \E s \in Sessions : ShellEnds(s) \/ \E n \in Chunks : Output(s, n)
    \/ TabLetsGo \/ Restart \/ CloseTab \/ Resize \/ Unpair

Polling == PollArrives \/ PollAnswered \/ PollSettles \/ FirstWritten \/ PollDue \/ PauseEnds

Posting ==
    \/ \E r \in requests : PostArrives(r) \/ PostWritten(r)
    \/ PostSucceeded \/ PostFailed \/ DelayEnds

User ==
    \/ \E visible \in BOOLEAN : SetVisible(visible)
    \/ Refresh \/ Dispose \/ Type \/ Send \/ PressKey

Next == Desktop \/ Polling \/ Posting \/ PollFails \/ PostFails \/ User

Spec == Init /\ [][Next]_vars

\* Timers expire, a request that is not lost is answered, and the callbacks
\* of the page run.  Nothing obliges the user or a shell to do anything.
FairSpec == /\ Spec
            /\ WF_vars(PollArrives) /\ WF_vars(PollAnswered) /\ WF_vars(PollSettles)
            /\ WF_vars(FirstWritten) /\ WF_vars(PollDue) /\ WF_vars(PauseEnds)

-----------------------------------------------------------------------------
(* Properties.                                                             *)

\* What the page shows is an unbroken piece of the stream of one session that
\* ends where its next request begins: nothing twice, no hole, no byte of
\* another shell; and the terminal is in the mode that stream has set.
\* (handlers.rs screen, session.rs screen_since, protocol.ts nextRequest,
\* tab-view.ts apply.)
ScreenFollows ==
    view.open =>
        /\ (view.at.phase = "ready") <=> (view.term.state # "none")
        /\ view.at.phase = "ready" =>
             LET shown == view.term.shown
             IN  /\ view.at.since <= stream[view.at.session].out
                 /\ shown = Bytes(view.at.session, view.at.since - Len(shown), view.at.since)
                 /\ view.term.mode = ModeAfter(FALSE, Bytes(view.at.session, 0, view.at.since))

\* A view that may poll has a poll in flight or a timer that will start one,
\* never both; one that is paused has a timer that ends the pause.
\* (poller.ts: the two timers and their clearing.)
ScheduleAlive ==
    /\ CanRun(sched) => (sched.timer <=> poll.stage = "idle")
    /\ sched.timer => CanRun(sched)
    /\ sched.running /\ sched.paused => sched.wake

\* A shell reads the Enter of a Send only after the text of that Send, and
\* reads nothing twice, whatever answers were lost.  (input-queue.ts: a
\* failure empties the queue.)
EnterAfterText ==
    \A k \in DOMAIN typed :
        /\ typed[k].item.key = "enter" =>
             \E j \in 1..(k - 1) : typed[j].item.key = "text" /\ typed[j].item.id = typed[k].item.id
        /\ \A j \in 1..(k - 1) : typed[j].item # typed[k].item

\* A page that stays open, in view and paired ends up with all that the shell
\* of the tab has written, drawn at its size, however often shells were
\* replaced and requests lost before.
Settled == sched.running /\ sched.visible /\ ~sched.dead /\ paired /\ tab.session # 0 /\ tab.session \notin dead
CaughtUp == /\ view.at.session = tab.session /\ view.at.size = tab.size
            /\ view.at.since = stream[tab.session].out
            /\ view.term.state # "none"
PhoneCatchesUp == <>[]Settled => []<>CaughtUp

\* The Enter of a Send goes to the shell that got its text (ADR-0016 decision
\* 6: an input is not typed into a shell the phone was not looking at).
EnterMeetsItsText ==
    \A j, k \in DOMAIN typed :
        typed[j].item.id = typed[k].item.id => typed[j].session = typed[k].session

\* A text that could not be sent is back in the text area, unless another
\* was typed there.  (tab-view.ts, the comment on pendingPaste.)
FailedTextReturns ==
    [][\A text \in 1..MaxInputs :
          /\ post.stage = "answered" /\ post'.stage = "idle" /\ post.code # 200
          /\ post.item.text = text /\ box = 0 /\ view.open
          => box' = text]_vars
=============================================================================
