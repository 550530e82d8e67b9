---------------------------- MODULE SessionModes ----------------------------
(***************************************************************************)
(* What a session remembers of the modes of its terminal, and what a new   *)
(* terminal is told of them (mast-core session.rs).  A program writes      *)
(* whole sequences, or breaks off in the middle of one; the reader gets    *)
(* the bytes in chunks cut anywhere, scans them, reports the OSC events    *)
(* and keeps the modes; the page closes its terminal and opens a new one,  *)
(* which sees the modes, then the recent output, then what follows.        *)
(*                                                                         *)
(* What a sequence means is said by whoever wrote it, not by the scanner:  *)
(* a saying is the bytes with the event they are meant to be.  The chunk   *)
(* that reaches the page twice or not at all is the subject of PtyStream,  *)
(* so here the page sees it in the step that stores it.                    *)
(***************************************************************************)
EXTENDS OscScanner, FiniteSets

CONSTANTS
    Sayings,        \* what the program may write: [bytes, event]
    Modes,          \* the numbers of the modes it uses
    Untracked,      \* UNTRACKED_DEC_MODES
    SoftReset,      \* SOFT_RESET_DEC_MODES
    MaxTracked,     \* MAX_TRACKED_DEC_MODES
    ReplayCap,      \* replay_cap
    Window,         \* TRIM_SCAN_BYTES
    ChunkSizes,     \* how many bytes a read may return, up to READ_BUF_BYTES
    MaxPipe,        \* bytes that may wait when the program goes on
    MaxSayings, MaxViews    \* bounds of the model

\* The longest CSI of the preamble, a question mark and five digits, is read.
ASSUME ModesAssumption ==
    /\ Modes \subseteq 0..MaxMode /\ Untracked \subseteq Modes /\ SoftReset \subseteq Modes
    /\ MaxTracked \in Nat /\ ChunkSizes \subseteq Nat \ {0} /\ Window \in Nat /\ ReplayCap \in Nat
    /\ MaxCsi >= 6

\* A saying is one sequence, complete or broken off, that begins with an ESC of
\* its own and that the scanner, when nothing else is under way, takes for what
\* it is meant to be: what is longer than the scanner's limits is none.
ASSUME SayingsAssumption ==
    \A s \in Sayings :
      /\ s.bytes \in Seq(Nat) /\ Len(s.bytes) >= 2 /\ s.bytes[1] = ESC /\ s.bytes[2] # Backslash
      /\ Feed(NewScanner, s.bytes).events = IF s.event = NoEvent THEN <<>> ELSE <<s.event>>
      /\ s.event.kind = "mode" => s.event.modes \in Seq(Modes)

\* A sequence under way is never longer than what a snapshot still shows once
\* the buffer has evicted whole chunks and the snapshot has been trimmed.
ASSUME ReplayAssumption ==
    \A s \in Sayings, n \in ChunkSizes : Len(s.bytes) + n + Window <= ReplayCap

NewLine == 10

\* ReplayBuffer tells the bytes of a stream apart by their second half.
Replay == INSTANCE ReplayBuffer WITH
    Cap <- ReplayCap, Lines <- {NewLine}, ModeOn <- {}, ModeOff <- {}
Stored(bytes) == [i \in DOMAIN bytes |-> <<"byte", bytes[i]>>]
Bytes(stored) == [i \in DOMAIN stored |-> stored[i][2]]

VARIABLES
    pipe,       \* written by the program, not read yet
    scanner,
    modes,      \* dec_modes: the tracked modes and their values
    replay,
    view,       \* the terminal of the page
    views,      \* terminals the page has opened
    said,       \* sayings so far
    reported,   \* the events that went to on_osc
    \* What the program meant, never read by an action:
    meant,      \* the modes, as a terminal that understood everything has them
    meantEvents,
    crowded     \* once, more modes were to be tracked than fit

vars == <<pipe, scanner, modes, replay, view, views, said, reported, meant, meantEvents, crowded>>
-----------------------------------------------------------------------------
(* What an event does to a terminal, and to what the session remembers. *)

Defaults == [m \in Modes |-> "default"]
Value(set) == IF set THEN "set" ELSE "reset"

IsModeEvent(event) == event.kind \in {"mode", "reset"}

OnTerminal(values, event) ==
    CASE event.kind = "mode" ->
           [m \in Modes |-> IF m \in Range(event.modes) THEN Value(event.set) ELSE values[m]]
      [] event.kind = "reset" -> [m \in Modes |-> IF ~event.soft \/ m \in SoftReset THEN "default" ELSE values[m]]
      [] OTHER -> values

\* A mode that is not known yet is taken up to the limit, a known one always.
Remember(known, m, set) ==
    IF m \in Untracked \/ (m \notin DOMAIN known /\ Cardinality(DOMAIN known) >= MaxTracked)
      THEN known
      ELSE [k \in DOMAIN known \cup {m} |-> IF k = m THEN Value(set) ELSE known[k]]

Forget(known, soft) ==
    LET kept == {m \in DOMAIN known : soft /\ m \notin SoftReset} IN [m \in kept |-> known[m]]

RememberAll(known, ms, set) == FoldLeft(LAMBDA k, m : Remember(k, m, set), known, ms)

\* apply_mode_event
Apply(known, event) ==
    CASE event.kind = "mode" -> RememberAll(known, event.modes, event.set)
      [] event.kind = "reset" -> Forget(known, event.soft)
      [] OTHER -> known

\* The other events go to the sink.
Reported(sofar, event) == IF IsModeEvent(event) THEN sofar ELSE Append(sofar, event)

Powers == <<1, 10, 100, 1000, 10000, 100000>>
Numeral(n) ==
    LET width == CHOOSE w \in 1..5 : n < Powers[w + 1] /\ (w = 1 \/ n >= Powers[w])
    IN  [i \in 1..width |-> 48 + ((n \div Powers[width - i + 1]) % 10)]

Switch(m, value) == <<ESC, Bracket, Question>> \o Numeral(m) \o <<IF value = "set" THEN LetterH ELSE LetterL>>

\* dec_mode_preamble: the tracked modes in ascending order.
Ranked(known, i) == CHOOSE m \in DOMAIN known : Cardinality({k \in DOMAIN known : k < m}) = i - 1
Preamble(known) ==
    FlattenSeq([i \in 1..Cardinality(DOMAIN known) |-> Switch(Ranked(known, i), known[Ranked(known, i)])])

\* Mutant: the modes come last, in the middle of what the output breaks off.
ReattachAfter(known, held) == held \o Preamble(known)

\* The bytes of reattach: the modes come first, so that what the recent
\* output says of them has the last word.
Reattach(known, held) == Preamble(known) \o held

\* take_record: what a session that has ended leaves of its screen.  Modes
\* alone draw nothing and are no record.
Record(known, held) == IF held = <<>> THEN <<>> ELSE Reattach(known, held)

NoView == [open |-> FALSE, scanner |-> NewScanner, values |-> Defaults]

\* A terminal reads bytes.
Shown(v, bytes) ==
    LET fed == Feed(v.scanner, bytes)
    IN  [v EXCEPT !.scanner = fed.scanner, !.values = FoldLeft(OnTerminal, @, fed.events)]

Init ==
    /\ pipe = <<>> /\ scanner = NewScanner /\ modes = [m \in {} |-> "set"]
    /\ replay = [chunks |-> <<>>, evicted |-> FALSE]
    /\ view = NoView /\ views = 0 /\ said = 0 /\ reported = <<>>
    /\ meant = Defaults /\ meantEvents = <<>> /\ crowded = FALSE

\* The program writes a sequence.
Say(s) ==
    /\ said < MaxSayings /\ Len(pipe) <= MaxPipe
    /\ said' = said + 1
    /\ pipe' = pipe \o s.bytes
    /\ meant' = OnTerminal(meant, s.event)
    /\ meantEvents' = IF s.event = NoEvent \/ IsModeEvent(s.event) THEN meantEvents ELSE Append(meantEvents, s.event)
    /\ crowded' = (crowded \/ Cardinality({m \in Modes \ Untracked : meant'[m] # "default"}) > MaxTracked)
    /\ UNCHANGED <<scanner, modes, replay, view, views, reported>>

\* One round of reader_loop: the events of a chunk go to the sink, the modes
\* and the bytes are stored under one lock, and the page gets the bytes.
Read(n) ==
    LET taken == Min({n, Len(pipe)})
        chunk == SubSeq(pipe, 1, taken)
        fed == Feed(scanner, chunk)
        kept == Replay!Evicted(Append(replay.chunks, Stored(chunk)))
    IN  /\ pipe # <<>>
        /\ pipe' = SubSeq(pipe, taken + 1, Len(pipe))
        /\ scanner' = fed.scanner
        /\ reported' = FoldLeft(Reported, reported, fed.events)
        /\ modes' = FoldLeft(Apply, modes, fed.events)
        /\ replay' = [chunks |-> kept.rest, evicted |-> replay.evicted \/ kept.dropped]
        /\ view' = IF view.open THEN Shown(view, chunk) ELSE view
        /\ UNCHANGED <<views, said, meant, meantEvents, crowded>>

\* reattach: a new terminal shows the modes, then the recent output.
Open ==
    /\ ~view.open /\ views < MaxViews
    /\ views' = views + 1
    /\ view' = Shown([NoView EXCEPT !.open = TRUE], Reattach(modes, Bytes(Replay!Snapshot(replay))))
    /\ UNCHANGED <<pipe, scanner, modes, replay, said, reported, meant, meantEvents, crowded>>

\* The page closes its terminal, or reloads.
Close ==
    /\ view.open
    /\ view' = NoView
    /\ UNCHANGED <<pipe, scanner, modes, replay, views, said, reported, meant, meantEvents, crowded>>

Next == \/ \E s \in Sayings : Say(s)
        \/ \E n \in ChunkSizes : Read(n)
        \/ Open \/ Close

Spec == Init /\ [][Next]_vars
-----------------------------------------------------------------------------
(* Properties. *)

\* Type invariant (feed, Inner): the scanner never holds more than its
\* limits, and no more modes are tracked than allowed.
TypeOK ==
    /\ scanner.state \in {"Ground", "Esc", "Csi", "Collect", "CollectEsc"}
    /\ scanner.state \in {"Ground", "Esc"} => scanner.buf = <<>>
    /\ scanner.state = "Csi" => Len(scanner.buf) <= MaxCsi
    /\ scanner.state \in {"Collect", "CollectEsc"} => Len(scanner.buf) <= MaxPayload
    /\ DOMAIN modes \subseteq Modes \ Untracked /\ Cardinality(DOMAIN modes) <= MaxTracked

\* However the output is cut into chunks, and whatever sequence was broken
\* off before, aborted or too long, the sink is told exactly what the
\* program meant to say, in its order (feed, reader_loop).
EventsAsMeant ==
    /\ IsPrefix(reported, meantEvents)
    /\ pipe = <<>> => reported = meantEvents

\* A mode that is remembered has its present value, also past the limit on
\* their number (apply_mode_event); with a CSI longer than MAX_CSI_BYTES,
\* which the scanner drops, it may not.
RememberedIsRight == pipe = <<>> => \A m \in DOMAIN modes : modes[m] = meant[m]

\* A terminal opened at any moment, also in the middle of a sequence and
\* after what set a mode has left the buffer, ends in the modes of one that
\* was there from the start, while the modes away from their default fit the
\* limit; so does one that shows the record of a session that has ended there
\* (reattach, take_record, apply_mode_event, dec_mode_preamble, snapshot).
RestoresModes(v) == \A m \in Modes \ Untracked : v.values[m] = meant[m]
ReloadRestoresModes ==
    /\ RememberedIsRight
    /\ pipe = <<>> /\ ~crowded =>
        /\ view.open => RestoresModes(view)
        /\ LET record == Record(modes, Bytes(Replay!Snapshot(replay)))
           IN  record # <<>> => RestoresModes(Shown(NoView, record))
=============================================================================
