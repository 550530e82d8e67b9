----------------------------- MODULE PtyStream -----------------------------
(***************************************************************************)
(* The output path of one PTY session, from the shell to the screen:       *)
(*                                                                         *)
(*   reader thread --> sink slot --> IPC channel --> AttachGate --> xterm  *)
(*        ^                                                    |           *)
(*        +--------- flow account <--- ack_output <--- AckBatcher          *)
(*                                                                         *)
(* Actors: the reader thread (session.rs, reader_loop); the threads that   *)
(* end the session (kill, waiter_loop); the main thread of the app, which  *)
(* runs the synchronous commands attach_terminal, detach_terminal and      *)
(* ack_output one after another; and the single JavaScript thread of the   *)
(* page, which creates and disposes TerminalViews and may be reloaded.     *)
(* An action is one stretch of code between two points where another actor *)
(* can intervene: a lock region, a command step, one JavaScript task.      *)
(*                                                                         *)
(* Stream positions are byte offsets.  A frame is [off, n]; its contents   *)
(* are not modelled.  At most one view of the session lives at a time      *)
(* (views are keyed by tab), so the data of the live view are plain        *)
(* variables and the acknowledgements a dead view left in flight are one   *)
(* counter.  Attach and detach commands reach the main thread in the order *)
(* the page issued them; acknowledgements may overtake or be overtaken.    *)
(* The replay buffer, whose contents attach also returns, is modelled in   *)
(* ReplayBuffer; here only the offset where the snapshot ends matters.     *)
(***************************************************************************)
EXTENDS FlowControl, Sequences, FiniteSets

CONSTANTS
    ChunkSizes,   \* how many bytes one read may return
    AckThreshold, \* AckBatcher.thresholdBytes
    MaxBytes,     \* bound: bytes the shell ever writes
    MaxViews,     \* bound: views ever created
    MaxReloads    \* bound: reloads of the page

ASSUME PtyStreamConstants ==
    /\ ChunkSizes \subseteq Nat \ {0}
    /\ AckThreshold \in Nat \ {0}
    /\ MaxBytes \in Nat /\ MaxViews \in Nat /\ MaxReloads \in Nat

VARIABLES
    \* --- the session (Shared.inner and the handles beside it)
    flow,        \* FlowControl
    bytesOut,    \* bytes_out: length of the stream so far
    killed,      \* the reader is told to leave
    masterOpen,  \* the PTY master has not been dropped
    childAlive,  \* the shell process
    \* --- the reader thread
    readerPc,    \* "check", "wait", "read", "deliver", "rollback", "done"
    hand,        \* size of the chunk it is about to hand to the sink
    \* --- the sink and the main thread
    slot,        \* view whose channel is installed, NoView if none
    ctl,         \* attach / detach commands not yet completed, in order
    mainPc,      \* "idle", or "reset": second half of the head of ctl
    \* --- the page
    page,        \* "loading" until its first render, then "up"
    reloads,     \* reloads so far
    views,       \* views created so far; a view is its number
    cur,         \* the live view, NoView if none
    swept,       \* sweptSessions holds this session
    viewPc,      \* "none", "attaching" (attach awaited), "attached"
    resp,        \* end offset in an attach response under way, or NoOffset
    endOffset,   \* AttachGate.endOffset
    shown,       \* what the live view was told to draw ends here
    chan,        \* frames in the channel of the live view
    queue,       \* AttachGate.queued
    unwritten,   \* bytes handed to term.write, callback not yet run
    acc,         \* AckBatcher.accumulated
    flying,      \* bytes in ack_output calls of the live view
    stale        \* bytes in ack_output calls of dead views

sessionVars == <<flow, bytesOut, killed, masterOpen, childAlive>>
readerVars  == <<readerPc, hand>>
mainVars    == <<slot, ctl, mainPc>>
pageVars    == <<page, reloads, views, cur, swept>>
viewVars    == <<viewPc, resp, endOffset, shown, chan, queue, unwritten, acc,
                 flying>>
vars == <<sessionVars, readerVars, mainVars, pageVars, viewVars, stale>>

NoView   == 0
NoOffset == -1
Views    == 1..MaxViews
Frame    == [off : Nat, n : Nat \ {0}]
Command  == [op : {"attach"}, view : Views] \cup [op : {"detach"}, view : {NoView}]

End(f) == f.off + f.n

\* Bytes carried by a gap-free run of frames.
Bytes(run) == IF run = <<>> THEN 0 ELSE End(run[Len(run)]) - run[1].off

TypeOK ==
    /\ flow \in Flow
    /\ bytesOut \in Nat
    /\ killed \in BOOLEAN /\ masterOpen \in BOOLEAN /\ childAlive \in BOOLEAN
    /\ readerPc \in {"check", "wait", "read", "deliver", "rollback", "done"}
    /\ hand \in Nat
    /\ slot \in Views \cup {NoView}
    /\ ctl \in Seq(Command)
    /\ mainPc \in {"idle", "reset"}
    /\ page \in {"loading", "up"}
    /\ reloads \in Nat
    /\ views \in 0..MaxViews
    /\ cur \in Views \cup {NoView}
    /\ swept \in BOOLEAN
    /\ viewPc \in {"none", "attaching", "attached"}
    /\ resp \in Nat \cup {NoOffset}
    /\ endOffset \in Nat /\ shown \in Nat
    /\ chan \in Seq(Frame) /\ queue \in Seq(Frame)
    /\ unwritten \in Nat /\ acc \in Nat /\ flying \in Nat /\ stale \in Nat

NoViewData ==
    /\ viewPc = "none" /\ resp = NoOffset /\ endOffset = 0 /\ shown = 0
    /\ chan = <<>> /\ queue = <<>> /\ unwritten = 0 /\ acc = 0 /\ flying = 0

Init ==
    /\ flow = ResetFlow /\ bytesOut = 0
    /\ killed = FALSE /\ masterOpen = TRUE /\ childAlive = TRUE
    /\ readerPc = "check" /\ hand = 0
    /\ slot = NoView /\ ctl = <<>> /\ mainPc = "idle"
    /\ page = "loading" /\ reloads = 0 /\ views = 0 /\ cur = NoView
    /\ swept = FALSE
    /\ NoViewData
    /\ stale = 0

\* Mutant: the state changes, nobody notifies the condvar.
WokenByNobody == readerPc

\* cond.notify_all(): a reader waiting on the condvar looks again.
Woken == IF readerPc = "wait" THEN "check" ELSE readerPc

-----------------------------------------------------------------------------
(* The reader thread                                                       *)

\* Top of the loop: leave if killed, sleep while paused, else go and read.
ReaderCheck ==
    /\ readerPc = "check"
    /\ readerPc' = IF killed THEN "done" ELSE IF flow.paused THEN "wait" ELSE "read"
    /\ UNCHANGED <<sessionVars, hand, mainVars, pageVars, viewVars, stale>>

\* read() returns n bytes; the lock region charges them to the flow account
\* and advances the stream before the sink sees the chunk.  (read() touches
\* nothing shared, so it is one step with the lock region after it.)
ReaderRead(n) ==
    /\ readerPc = "read"
    /\ masterOpen
    /\ bytesOut + n <= MaxBytes
    /\ flow' = OnSent(flow, n)
    /\ bytesOut' = bytesOut + n
    /\ readerPc' = "deliver"
    /\ hand' = n
    /\ UNCHANGED <<killed, masterOpen, childAlive, mainVars, pageVars, viewVars,
                   stale>>

\* End of stream: the master was dropped under the read, or the child is gone.
\* A Unix PTY ends with the child; a ConPTY ends only with the master.
ReaderEof ==
    /\ readerPc = "read"
    /\ ~childAlive \/ ~masterOpen
    /\ readerPc' = "done"
    /\ UNCHANGED <<sessionVars, hand, mainVars, pageVars, viewVars, stale>>

\* on_output with a channel that accepts the frame.  The channel of a dead
\* view accepts it too, and nobody will ever acknowledge it.
Deliver ==
    /\ readerPc = "deliver"
    /\ slot # NoView
    /\ chan' = IF slot = cur
                 THEN Append(chan, [off |-> bytesOut - hand, n |-> hand])
                 ELSE chan
    /\ readerPc' = "check"
    /\ hand' = 0
    /\ UNCHANGED <<sessionVars, mainVars, pageVars, viewPc, resp, endOffset, shown,
                   queue, unwritten, acc, flying, stale>>

\* on_output with no channel, or with one whose page is gone and whose send
\* fails: the slot is emptied and the chunk reported Dropped.
Drop ==
    /\ readerPc = "deliver"
    /\ slot = NoView \/ slot # cur
    /\ slot' = NoView
    /\ readerPc' = "rollback"
    /\ UNCHANGED <<sessionVars, hand, ctl, mainPc, pageVars, viewVars, stale>>

\* The compensation for a Dropped chunk, in a lock region of its own.
Rollback ==
    /\ readerPc = "rollback"
    /\ flow' = OnAcked(flow, hand)
    /\ readerPc' = "check"
    /\ hand' = 0
    /\ UNCHANGED <<bytesOut, killed, masterOpen, childAlive, mainVars, pageVars,
                   viewVars, stale>>

Reader ==
    \/ ReaderCheck
    \/ \E n \in ChunkSizes : ReaderRead(n)
    \/ ReaderEof
    \/ Deliver
    \/ Drop
    \/ Rollback

-----------------------------------------------------------------------------
(* The end of the session                                                  *)

\* The shell ends by itself, or because kill() signalled it.
ChildExit ==
    /\ childAlive
    /\ childAlive' = FALSE
    /\ UNCHANGED <<flow, bytesOut, killed, masterOpen, readerVars, mainVars, pageVars,
                   viewVars, stale>>

\* The lock region of kill(), or of waiter_loop once child.wait() returned,
\* and the notify_all after it.
Kill ==
    /\ ~killed
    /\ killed' = TRUE
    /\ readerPc' = Woken
    /\ UNCHANGED <<flow, bytesOut, masterOpen, childAlive, hand, mainVars, pageVars,
                   viewVars, stale>>

\* The rest of kill() or of waiter_loop: drop writer and master.
CloseMaster ==
    /\ killed
    /\ masterOpen
    /\ masterOpen' = FALSE
    /\ UNCHANGED <<flow, bytesOut, killed, childAlive, readerVars, mainVars, pageVars,
                   viewVars, stale>>

-----------------------------------------------------------------------------
(* The main thread: attach_terminal and detach_terminal take two steps, the *)
(* sink slot first and the session account second.                         *)

\* sink.attach(channel)
AttachSink ==
    /\ mainPc = "idle" /\ ctl # <<>> /\ Head(ctl).op = "attach"
    /\ slot' = Head(ctl).view
    /\ mainPc' = "reset"
    /\ UNCHANGED <<sessionVars, readerVars, ctl, pageVars, viewVars, stale>>

\* PtySession::reattach: reset the account and fix the end of the snapshot in
\* one lock region, wake the reader, answer the page.
Reattach ==
    /\ mainPc = "reset" /\ Head(ctl).op = "attach"
    /\ flow' = ResetFlow
    /\ resp' = IF Head(ctl).view = cur THEN bytesOut ELSE resp
    /\ readerPc' = Woken
    /\ ctl' = Tail(ctl)
    /\ mainPc' = "idle"
    /\ UNCHANGED <<bytesOut, killed, masterOpen, childAlive, hand, slot, pageVars,
                   viewPc, endOffset, shown, chan, queue, unwritten, acc, flying,
                   stale>>

\* sink.detach()
DetachSink ==
    /\ mainPc = "idle" /\ ctl # <<>> /\ Head(ctl).op = "detach"
    /\ slot' = NoView
    /\ mainPc' = "reset"
    /\ UNCHANGED <<sessionVars, readerVars, ctl, pageVars, viewVars, stale>>

\* Mutant: detach only empties the slot, and a paused session stays paused.
DetachWithoutReset ==
    /\ mainPc = "reset" /\ Head(ctl).op = "detach"
    /\ ctl' = Tail(ctl)
    /\ mainPc' = "idle"
    /\ UNCHANGED <<sessionVars, readerVars, slot, pageVars, viewVars, stale>>

\* PtySession::reset_flow
DetachReset ==
    /\ mainPc = "reset" /\ Head(ctl).op = "detach"
    /\ flow' = ResetFlow
    /\ readerPc' = Woken
    /\ ctl' = Tail(ctl)
    /\ mainPc' = "idle"
    /\ UNCHANGED <<bytesOut, killed, masterOpen, childAlive, hand, slot, pageVars,
                   viewVars, stale>>

\* PtySession::ack: the reader is woken only by the ack that resumes.
AckBy(k) ==
    /\ mainPc = "idle"
    /\ flow' = OnAcked(flow, k)
    /\ readerPc' = IF Resumes(flow, k) THEN Woken ELSE readerPc
    /\ UNCHANGED <<bytesOut, killed, masterOpen, childAlive, hand, mainVars, pageVars,
                   viewPc, resp, endOffset, shown, chan, queue, unwritten, acc>>

Ack(k) ==
    /\ AckBy(k)
    /\ flying' = flying - k
    /\ UNCHANGED stale

StaleAck(k) ==
    /\ AckBy(k)
    /\ stale' = stale - k
    /\ UNCHANGED flying

MainThread == AttachSink \/ Reattach \/ DetachSink \/ DetachReset

-----------------------------------------------------------------------------
(* The page: one action is one JavaScript task                             *)

\* AckBatcher.add: at the threshold everything accumulated is sent.
AddAck(a, fly) ==
    IF a >= AckThreshold THEN acc' = 0 /\ flying' = fly + a
                         ELSE acc' = a /\ flying' = fly

\* A render finds the tab on screen and no view: create one and attach it.
RenderShow ==
    /\ cur = NoView
    /\ views < MaxViews
    /\ page' = "up"
    /\ views' = views + 1
    /\ cur' = views + 1
    /\ swept' = FALSE
    /\ viewPc' = "attaching"
    /\ ctl' = Append(ctl, [op |-> "attach", view |-> views + 1])
    /\ UNCHANGED <<sessionVars, readerVars, slot, mainPc, reloads, resp, endOffset,
                   shown, chan, queue, unwritten, acc, flying, stale>>

\* A render finds the tab in no view: sweep its session once.
RenderSweep ==
    /\ cur = NoView
    /\ ~swept
    /\ page' = "up"
    /\ swept' = TRUE
    /\ ctl' = Append(ctl, [op |-> "detach", view |-> NoView])
    /\ UNCHANGED <<sessionVars, readerVars, slot, mainPc, reloads, views, cur, viewVars,
                   stale>>

\* Nothing of the live view survives; its acknowledgements, sent or just
\* flushed, are still under way.
ForgetView(left) ==
    /\ cur' = NoView
    /\ viewPc' = "none" /\ resp' = NoOffset /\ endOffset' = 0 /\ shown' = 0
    /\ chan' = <<>> /\ queue' = <<>> /\ unwritten' = 0 /\ acc' = 0 /\ flying' = 0
    /\ stale' = stale + left

\* TerminalView.dispose: detach, then the batcher flushes what it holds.
\* Frames and write callbacks that arrive later are ignored.
Dispose ==
    /\ cur # NoView
    /\ ForgetView(flying + acc)
    /\ ctl' = Append(ctl, [op |-> "detach", view |-> NoView])
    /\ UNCHANGED <<sessionVars, readerVars, slot, mainPc, page, reloads, views, swept>>

\* The page is reloaded: no dispose runs, and the calls it had issued reach
\* the app only in part.  A command the main thread has begun completes.
Reload ==
    /\ page = "up"
    /\ reloads < MaxReloads
    /\ page' = "loading"
    /\ reloads' = reloads + 1
    /\ swept' = FALSE
    /\ \E left \in 0..flying : ForgetView(left)
    /\ \E k \in (IF mainPc = "idle" THEN 0 ELSE 1)..Len(ctl) : ctl' = SubSeq(ctl, 1, k)
    /\ UNCHANGED <<sessionVars, readerVars, slot, mainPc, views>>

\* Mutant: a frame that overtakes the attach response is acknowledged and lost.
ReceiveEarlyLost ==
    /\ chan # <<>> /\ viewPc = "attaching"
    /\ AddAck(acc + Head(chan).n, flying)
    /\ chan' = Tail(chan)
    /\ UNCHANGED <<sessionVars, readerVars, mainVars, pageVars, viewPc, resp, endOffset,
                   shown, queue, unwritten, stale>>

\* The channel hands over a frame before the attach response: it is queued.
ReceiveEarly ==
    /\ chan # <<>> /\ viewPc = "attaching"
    /\ queue' = Append(queue, Head(chan))
    /\ chan' = Tail(chan)
    /\ UNCHANGED <<sessionVars, readerVars, mainVars, pageVars, viewPc, resp, endOffset,
                   shown, unwritten, acc, flying, stale>>

\* AttachGate.judge, kept: the frame goes to the terminal.
ReceiveKept ==
    /\ chan # <<>> /\ viewPc = "attached"
    /\ Head(chan).off >= endOffset
    /\ unwritten' = unwritten + Head(chan).n
    /\ shown' = End(Head(chan))
    /\ chan' = Tail(chan)
    /\ UNCHANGED <<sessionVars, readerVars, mainVars, pageVars, viewPc, resp, endOffset,
                   queue, acc, flying, stale>>

\* Mutant: the frame that starts where the snapshot ends is discarded too.
ReceiveDiscardedOneMore ==
    /\ chan # <<>> /\ viewPc = "attached"
    /\ Head(chan).off <= endOffset
    /\ AddAck(acc + Head(chan).n, flying)
    /\ chan' = Tail(chan)
    /\ UNCHANGED <<sessionVars, readerVars, mainVars, pageVars, viewPc, resp, endOffset,
                   shown, queue, unwritten, stale>>

\* AttachGate.judge, discarded: the snapshot has it; it is acknowledged now.
ReceiveDiscarded ==
    /\ chan # <<>> /\ viewPc = "attached"
    /\ Head(chan).off < endOffset
    /\ AddAck(acc + Head(chan).n, flying)
    /\ chan' = Tail(chan)
    /\ UNCHANGED <<sessionVars, readerVars, mainVars, pageVars, viewPc, resp, endOffset,
                   shown, queue, unwritten, stale>>

\* The attach response: draw the snapshot and judge the queued frames.
\* Offsets grow along the queue, so the discarded frames are a prefix of it.
Snapshot ==
    LET len == Len(queue)
        cut == Cardinality({i \in 1..len : queue[i].off < resp})
    IN /\ viewPc = "attaching" /\ resp # NoOffset
       /\ viewPc' = "attached"
       /\ endOffset' = resp
       /\ resp' = NoOffset
       /\ queue' = <<>>
       /\ shown' = IF cut = len THEN resp ELSE End(queue[len])
       /\ unwritten' = unwritten + Bytes(SubSeq(queue, cut + 1, len))
       /\ AddAck(acc + Bytes(SubSeq(queue, 1, cut)), flying)
       /\ UNCHANGED <<sessionVars, readerVars, mainVars, pageVars, chan, stale>>

\* A term.write callback.
Written(k) ==
    /\ unwritten' = unwritten - k
    /\ AddAck(acc + k, flying)
    /\ UNCHANGED <<sessionVars, readerVars, mainVars, pageVars, viewPc, resp, endOffset,
                   shown, chan, queue, stale>>

\* The batcher's timer.
FlushTimer ==
    /\ acc > 0
    /\ acc' = 0
    /\ flying' = flying + acc
    /\ UNCHANGED <<sessionVars, readerVars, mainVars, pageVars, viewPc, resp, endOffset,
                   shown, chan, queue, unwritten, stale>>

FirstRender == page = "loading" /\ (RenderShow \/ RenderSweep)

ViewTask ==
    \/ ReceiveEarly
    \/ ReceiveKept
    \/ ReceiveDiscarded
    \/ Snapshot
    \/ \E k \in 1..unwritten : Written(k)

-----------------------------------------------------------------------------
Next ==
    \/ Reader
    \/ ChildExit
    \/ Kill
    \/ CloseMaster
    \/ MainThread
    \/ \E k \in 1..flying : Ack(k)
    \/ \E k \in 1..stale : StaleAck(k)
    \/ RenderShow
    \/ RenderSweep
    \/ Dispose
    \/ Reload
    \/ ViewTask
    \/ FlushTimer

Spec == Init /\ [][Next]_vars

\* Threads that can run do run, commands and calls issued by a page that
\* stays are executed, tasks and timers of the page fire, and a loading page
\* reaches its first render.  Nothing obliges the shell to write or to end,
\* the end of the child to end the stream (it does not on Windows), or the
\* user to switch workspaces, close the tab or reload.
Fairness ==
    /\ WF_vars(ReaderCheck)
    /\ WF_vars(~masterOpen /\ ReaderEof)
    /\ WF_vars(Deliver \/ Drop)
    /\ WF_vars(Rollback)
    /\ WF_vars(CloseMaster)
    /\ WF_vars(MainThread)
    /\ WF_vars(\E k \in 1..flying : Ack(k))
    /\ WF_vars(FirstRender)
    /\ WF_vars(ReceiveEarly \/ ReceiveKept \/ ReceiveDiscarded)
    /\ WF_vars(Snapshot)
    /\ WF_vars(\E k \in 1..unwritten : Written(k))
    /\ WF_vars(FlushTimer)

FairSpec == Spec /\ Fairness

-----------------------------------------------------------------------------
(* What the live view will still acknowledge of what it was sent, and what  *)
(* the reader has charged and not yet handed over.                          *)
Owed == (Bytes(chan) + Bytes(queue)) + (unwritten + (acc + flying))

InHand == IF readerPc \in {"deliver", "rollback"} THEN hand ELSE 0

\* A command that resets the flow account is on its way to the main thread,
\* or the page that will issue one is loading.
Rescue == ctl # <<>> \/ page = "loading"

\* No leak in the flow account: unless a reset is on its way, every pending
\* byte is one the live view will acknowledge, or one the reader is about to
\* hand over or roll back.  Every frame the gate discards, every chunk the
\* sink drops and every view that goes away must be settled for this to hold
\* (flow.rs reset(); session.rs Delivery::Dropped; attach-gate.ts).
Accounted ==
    ~Rescue => flow.pending <= InHand + (IF slot = NoView THEN 0 ELSE Owed)

\* A reader asleep on a paused flow has somebody who will wake it: it was not
\* killed, and either a reset is on its way or the live view owes at least
\* the pending bytes (session.rs reader_loop; the stall that
\* TerminalView.dispose and the detach sweep of view-reconcile.ts avert).
NeverStranded ==
    readerPc = "wait" =>
        /\ ~killed
        /\ flow.paused
        /\ Rescue \/ (slot = cur /\ cur # NoView /\ 0 < flow.pending /\ flow.pending <= Owed)

\* Nothing takes the channel of an attached view
\* away: a late detach of an earlier view, or the sweep of an earlier render,
\* would (commands.rs detach_terminal runs for whoever holds the slot).
AttachedHoldsSlot == viewPc = "attached" => slot = cur /\ cur # NoView

\* A frame that may still arrive never straddles the end of the snapshot, so
\* that judging it by its offset alone neither repeats nor loses a byte.
NoStraddle ==
    LET end == IF viewPc = "attached" THEN endOffset ELSE resp
        run == queue \o chan
    IN end # NoOffset /\ viewPc # "none" =>
        \A i \in 1..Len(run) : run[i].off < end => End(run[i]) <= end

\* Where the stream continues after the frames already in the channel.
NextOffset == IF readerPc = "deliver" THEN bytesOut - hand ELSE bytesOut

\* The screen of an attached view is the stream without gap or repetition:
\* the first frame the gate will keep starts where the drawing ended, frames
\* follow one another, and the last one ends where the reader stands
\* (session.rs reattach, "channel first, reattach second"; attach-gate.ts,
\* lines 9 and 10).
StreamIntact ==
    /\ NoStraddle
    /\ viewPc = "attached" =>
        LET len == Len(chan)
            kept == {i \in 1..len : chan[i].off >= endOffset}
        IN /\ \A i \in 1..(len - 1) : chan[i + 1].off = End(chan[i])
           /\ len > 0 => End(chan[len]) = NextOffset
           /\ \A i \in kept : (\A j \in kept : i <= j) => chan[i].off = shown
           /\ kept = {} => shown >= NextOffset
           /\ shown <= bytesOut

\* A reader put to sleep by backpressure is always woken in the end, whatever
\* views come and go and however often the page reloads; and the reader of a
\* killed or ended session returns, even from a read that blocks until the
\* master is dropped or from its sleep on the condvar.
ReaderWakes ==
    /\ readerPc = "wait" ~> readerPc # "wait"
    /\ killed ~> readerPc = "done"

\* Every byte of the stream reaches the screen of a view that stays.
ScreenCatchesUp ==
    \A x \in 1..MaxBytes :
        cur # NoView /\ bytesOut >= x ~> cur = NoView \/ shown >= x

=============================================================================
