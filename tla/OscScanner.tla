----------------------------- MODULE OscScanner -----------------------------
(***************************************************************************)
(* What the reader of a session recognises in the output of a process      *)
(* (mast-core osc.rs): OSC sequences, the CSI sequences that set and reset *)
(* private modes, and the two resets of a terminal.                        *)
(*                                                                         *)
(* A byte is its code.  A word of a payload whose letters nothing depends  *)
(* on ("777", "notify", a text) is one byte, with a code above 255.        *)
(***************************************************************************)
EXTENDS Integers, SequencesExt

CONSTANTS
    MaxPayload,     \* MAX_PAYLOAD_BYTES
    MaxCsi          \* MAX_CSI_BYTES

ASSUME ScannerAssumption == MaxPayload \in Nat /\ MaxCsi \in Nat

ESC == 27
BEL == 7
CAN == 24
SUB == 26
Bracket == 91       \* [
CloseBracket == 93  \* ]
Backslash == 92
LetterC == 99       \* c
LetterH == 104      \* h
LetterL == 108      \* l
LetterP == 112      \* p
Question == 63
Semicolon == 59
Bang == 33
Digit == 48..57

\* The words the parser knows.
OscWord == [w777 |-> 1777, notify |-> 1001, send |-> 1002, query |-> 1003, started |-> 1004]

NoEvent == [kind |-> "none"]

MaxMode == 65535    \* u16::MAX

-----------------------------------------------------------------------------
(* Parsing a complete sequence. *)

\* The semicolons of p, and the places before its beginning and after its end.
Cuts(p) == {0, Len(p) + 1} \cup {i \in DOMAIN p : p[i] = Semicolon}
Cut(p, k) == CHOOSE i \in Cuts(p) : Cardinality({j \in Cuts(p) : j < i}) = k

\* The fields of p between its semicolons; there is always at least one.
Split(p) == [k \in 1..(Cardinality(Cuts(p)) - 1) |-> SubSeq(p, Cut(p, k - 1) + 1, Cut(p, k) - 1)]

\* What follows the n-th semicolon of p, which has n of them.
After(p, n) == SubSeq(p, Cut(p, n) + 1, Len(p))

IsNumber(part) == part # <<>> /\ \A i \in DOMAIN part : part[i] \in Digit
Number(part) == FoldLeft(LAMBDA n, b : 10 * n + (b - 48), 0, part)

\* One part that is no number, or none that fits 16 bits: nothing is reported.
PrivateModes(digits, set) ==
    LET parts == Split(digits)
    IN  IF \A k \in DOMAIN parts : IsNumber(parts[k]) /\ Number(parts[k]) <= MaxMode
          THEN [kind |-> "mode", modes |-> [k \in DOMAIN parts |-> Number(parts[k])], set |-> set]
          ELSE NoEvent

IsSoftReset(params) ==
    /\ params # <<>> /\ Last(params) = Bang
    /\ \A i \in DOMAIN Front(params) : params[i] \in Digit \cup {Semicolon}

ParseCsi(params, final) ==
    CASE final \in {LetterH, LetterL} /\ params # <<>> /\ Head(params) = Question
           -> PrivateModes(Tail(params), final = LetterH)
      [] final = LetterP /\ IsSoftReset(params) -> [kind |-> "reset", soft |-> TRUE]
      [] OTHER -> NoEvent

\* OSC 777: a notification may lack its fields, a send and a query may not.
ParseExtension(p) ==
    LET fields == Split(p)
        field(k) == IF k <= Len(fields) THEN fields[k] ELSE <<>>
        last == IF Len(fields) >= 4 THEN After(p, 3) ELSE <<>>
        word == field(2)
    IN  CASE word = <<OscWord.notify>> -> [kind |-> "notice", title |-> field(3), body |-> last]
          [] word = <<OscWord.send>> /\ Len(fields) >= 4 -> [kind |-> "send", target |-> field(3), text |-> last]
          [] word = <<OscWord.query>> /\ Len(fields) >= 4 -> [kind |-> "query", of |-> field(3), reply |-> last]
          [] word = <<OscWord.started>> -> [kind |-> "started"]
          [] OTHER -> NoEvent

ParsePayload(p) ==
    LET code == Split(p)[1]
        rest == IF Len(Split(p)) > 1 THEN After(p, 1) ELSE <<>>
    IN  CASE code \in {<<48>>, <<50>>} -> [kind |-> "title", text |-> rest]
          [] code = <<55>> -> [kind |-> "cwd", text |-> rest]
          [] code = <<57>> -> [kind |-> "note", text |-> rest]
          [] code \in {<<49, 48>>, <<49, 49>>} /\ rest = <<Question>> -> [kind |-> "color", code |-> code]
          [] code = <<OscWord.w777>> -> ParseExtension(p)
          [] OTHER -> NoEvent

-----------------------------------------------------------------------------
(* The scanner: one step per byte, its state kept between chunks. *)

\* Every change of state but the one to CollectEsc empties the buffer.
At(state) == [state |-> state, buf |-> <<>>, overflow |-> FALSE]
NewScanner == At("Ground")

Quiet(scanner) == [scanner |-> scanner, event |-> NoEvent]
Reports(event) == [scanner |-> NewScanner, event |-> event]

\* The byte after an ESC, in a sequence of its own or inside a payload,
\* which it ends unreported.
AfterEsc(b) ==
    CASE b = CloseBracket -> Quiet(At("Collect"))
      [] b = Bracket -> Quiet(At("Csi"))
      [] b = LetterC -> Reports([kind |-> "reset", soft |-> FALSE])
      [] b = ESC -> Quiet(At("Esc"))
      [] OTHER -> Quiet(NewScanner)

\* A sequence over its limit is consumed to its end and then dropped.
Collected(s, b, max) ==
    IF Len(s.buf) >= max THEN [s EXCEPT !.overflow = TRUE, !.buf = <<>>]
                         ELSE [s EXCEPT !.buf = Append(@, b)]

\* Mutant: the part of an overlong sequence after the limit is parsed.
CollectedForgetful(s, b, max) ==
    IF Len(s.buf) >= max THEN [s EXCEPT !.buf = <<>>] ELSE [s EXCEPT !.buf = Append(@, b)]

Finish(s) == Reports(IF s.overflow THEN NoEvent ELSE ParsePayload(s.buf))

InCsi(s, b) ==
    CASE b \in {CAN, SUB} -> Quiet(NewScanner)
      [] b = ESC -> Quiet(At("Esc"))
      [] b \in 32..63 -> Quiet(Collected(s, b, MaxCsi))
      [] b \in 64..126 -> Reports(IF s.overflow THEN NoEvent ELSE ParseCsi(s.buf, b))
      [] OTHER -> Quiet(s)

InPayload(s, b) ==
    CASE b = BEL -> Finish(s)
      [] b = ESC -> Quiet([s EXCEPT !.state = "CollectEsc"])
      [] b \in {CAN, SUB} -> Quiet(NewScanner)
      [] OTHER -> Quiet(Collected(s, b, MaxPayload))

\* Mutant: inside a payload only a backslash may follow an ESC.
AfterEscInPayloadST(s, b) == IF b = Backslash THEN Finish(s) ELSE Quiet(NewScanner)

AfterEscInPayload(s, b) == IF b = Backslash THEN Finish(s) ELSE AfterEsc(b)

Scan(s, b) ==
    CASE s.state = "Ground" -> Quiet(IF b = ESC THEN At("Esc") ELSE s)
      [] s.state = "Esc" -> AfterEsc(b)
      [] s.state = "Csi" -> InCsi(s, b)
      [] s.state = "Collect" -> InPayload(s, b)
      [] s.state = "CollectEsc" -> AfterEscInPayload(s, b)

\* One byte more: the scanner after it and the events so far.
Scanned(acc, b) ==
    LET r == Scan(acc.scanner, b)
    IN  [scanner |-> r.scanner,
         events |-> IF r.event = NoEvent THEN acc.events ELSE Append(acc.events, r.event)]

\* Mutant: every chunk is scanned from the ground state.
FeedAfresh(s, bytes) == FoldLeft(Scanned, [scanner |-> NewScanner, events |-> <<>>], bytes)

\* feed: the events of a chunk, and the scanner after it.
Feed(s, bytes) == FoldLeft(Scanned, [scanner |-> s, events |-> <<>>], bytes)
=============================================================================
