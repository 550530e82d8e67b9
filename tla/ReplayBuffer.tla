---------------------------- MODULE ReplayBuffer ----------------------------
(***************************************************************************)
(* The buffer of recent output of a session, and the modes it has to       *)
(* remember for what it no longer holds (mast-core replay.rs, session.rs). *)
(*                                                                         *)
(* A stream is the sequence of the bytes a process writes, each a pair of  *)
(* which only the second half matters here.  Bytes names a byte by its     *)
(* session and its offset, so that a byte shown twice, a hole, or a byte   *)
(* of another session can be told apart.                                   *)
(***************************************************************************)
EXTENDS Integers, SequencesExt

CONSTANTS
    Cap,        \* replay_cap: how many bytes a buffer may hold
    Window,     \* TRIM_SCAN_BYTES: where the first end of line is looked for
    Lines,      \* the offsets at which a byte is an end of line
    ModeOn,     \* the offsets at which a mode of the terminal is switched on
    ModeOff     \* the offsets at which it is switched off

ASSUME BufferAssumption == /\ Cap \in Nat \ {0} /\ Window \in Nat
                           /\ Lines \cup ModeOn \cup ModeOff \subseteq Nat
                           /\ ModeOn \cap ModeOff = {}

\* What session s wrote from offset a up to, not including, offset b.
Bytes(s, a, b) == [i \in 1..(b - a) |-> <<s, a + i - 1>>]

\* The state of a session the buffer belongs to: the chunks, the number of
\* bytes ever written, whether a chunk was evicted, and the tracked mode.
NoStream == [chunks |-> <<>>, out |-> 0, evicted |-> FALSE, mode |-> FALSE]

Held(st) == FlattenSeq(st.chunks)
Retained(st) == Len(Held(st))

\* Whole chunks leave from the front until the rest fits; a chunk larger
\* than the capacity leaves too.
Evicted(chunks) ==
    LET fits == {k \in 0..Len(chunks) : Len(FlattenSeq(SubSeq(chunks, k + 1, Len(chunks)))) <= Cap}
        dropped == CHOOSE k \in fits : \A j \in fits : k <= j
    IN  [rest |-> SubSeq(chunks, dropped + 1, Len(chunks)), dropped |-> dropped > 0]

\* The mode after bytes have been read by a terminal that had mode before.
ModeAfter(before, bytes) ==
    LET sets == {i \in DOMAIN bytes : bytes[i][2] \in ModeOn \cup ModeOff}
    IN  IF sets = {} THEN before
        ELSE LET last == CHOOSE i \in sets : \A j \in sets : j <= i IN bytes[last][2] \in ModeOn

\* What the reader of session s commits for a chunk of n bytes, under one lock.
Push(st, s, n) ==
    LET chunk == Bytes(s, st.out, st.out + n)
        kept == Evicted(Append(st.chunks, chunk))
    IN  [chunks |-> kept.rest, out |-> st.out + n, evicted |-> st.evicted \/ kept.dropped,
         mode |-> ModeAfter(st.mode, chunk)]

\* clear: what is held goes, the fact that something was evicted stays.
Cleared(st) == [st EXCEPT !.chunks = <<>>]

\* snapshot: from the first line on, once something was evicted, unless
\* there is no end of line in the window or nothing would be left.
Snapshot(st) ==
    LET held == Held(st)
        ends == {i \in DOMAIN held : i <= Window /\ held[i][2] \in Lines}
        first == CHOOSE i \in ends : \A j \in ends : i <= j
    IN  IF st.evicted /\ ends # {} /\ first < Len(held)
          THEN SubSeq(held, first + 1, Len(held)) ELSE held

\* Mutant: the delta is trimmed to a line like a snapshot.
BytesFromTrimmed(st, pos) ==
    LET rest == Snapshot(st) IN SubSeq(rest, pos + 1, Len(rest))

\* bytes_from: what is held, without its first pos bytes; never trimmed.
BytesFrom(st, pos) == SubSeq(Held(st), pos + 1, Retained(st))

\* The offset of the oldest byte held.
RetainedStart(st) == IF st.out >= Retained(st) THEN st.out - Retained(st) ELSE 0

NoOffset == -1

\* dec_mode_preamble: what a new terminal is told before the snapshot.
Preamble(st) == st.mode

\* screen_since: a delta when the offset lies in what is held, the preamble
\* and the snapshot otherwise.
ScreenSince(st, since) ==
    IF since = st.out \/ (RetainedStart(st) <= since /\ since < st.out)
      THEN [end |-> st.out, reset |-> FALSE, mode |-> FALSE,
            bytes |-> BytesFrom(st, since - RetainedStart(st))]
      ELSE [end |-> st.out, reset |-> TRUE, mode |-> Preamble(st), bytes |-> Snapshot(st)]
=============================================================================
