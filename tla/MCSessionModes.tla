--------------------------- MODULE MCSessionModes ---------------------------
(***************************************************************************)
(* Instances of SessionModes: what a program says.  1 and 7 stand for the  *)
(* modes a soft reset clears, 9 for those it does not, 47 for those that   *)
(* are not tracked.                                                        *)
(***************************************************************************)
EXTENDS SessionModes

Csi(rest) == <<ESC, Bracket>> \o rest
Osc(rest) == <<ESC, CloseBracket>> \o rest
Set(digits) == Csi(<<Question>> \o digits \o <<LetterH>>)
Unset(digits) == Csi(<<Question>> \o digits \o <<LetterL>>)
ModeOf(ms, set) == [kind |-> "mode", modes |-> ms, set |-> set]
Note(text) == [kind |-> "note", text |-> text]
Letter == 300

MCModes == {1, 7, 9, 47}
MCUntracked == {47}
MCSoftReset == {1, 7}

\* What the modes are set and reset with, and what may stand in between.
MCSayings == {
    [bytes |-> Set(<<49>>), event |-> ModeOf(<<1>>, TRUE)],
    [bytes |-> Unset(<<49>>), event |-> ModeOf(<<1>>, FALSE)],
    [bytes |-> Set(<<57, Semicolon, 55, Semicolon, 52, 55>>), event |-> ModeOf(<<9, 7, 47>>, TRUE)],
    [bytes |-> <<ESC, LetterC>>, event |-> [kind |-> "reset", soft |-> FALSE]],
    [bytes |-> Csi(<<Bang, LetterP>>), event |-> [kind |-> "reset", soft |-> TRUE]],
    [bytes |-> Osc(<<57, Semicolon, LetterC, ESC, Backslash, NewLine>>), event |-> Note(<<LetterC>>)],
    [bytes |-> Osc(<<57>>), event |-> NoEvent],
    [bytes |-> Csi(<<Question, 49, CAN>>), event |-> NoEvent],
    [bytes |-> Osc(<<57, Letter, Letter, Letter, 57, BEL>>), event |-> NoEvent]}
=============================================================================
