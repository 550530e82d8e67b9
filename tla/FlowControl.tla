---------------------------- MODULE FlowControl ----------------------------
(***************************************************************************)
(* The backpressure accountant of one PTY session (flow.rs): a counter of  *)
(* the bytes sent to the frontend and not yet acknowledged, and whether    *)
(* the reader thread has been told to stop reading.  The struct is pure,   *)
(* so it is a record and its methods are operators from record to record;  *)
(* PtyStream holds the record and calls them under the session lock.       *)
(***************************************************************************)
EXTENDS Integers

CONSTANTS
    High,     \* high_water: reaching it pauses the reader
    Low       \* low_water: falling to it resumes the reader

\* FlowControl::new asserts low_water <= high_water and accepts equality.
ASSUME WaterMarks == High \in Nat /\ Low \in Nat /\ Low <= High

Flow == [pending : Nat, paused : BOOLEAN]

\* reset(), and the state new() starts from
ResetFlow == [pending |-> 0, paused |-> FALSE]

\* usize::saturating_sub
SaturatingSub(a, b) == IF a >= b THEN a - b ELSE 0

\* Pause is given once, on reaching High; a paused flow stays paused.
OnSent(f, n) ==
    [pending |-> f.pending + n,
     paused  |-> f.paused \/ f.pending + n >= High]

\* Resume is given once, on a paused flow falling to Low.
OnAcked(f, n) ==
    [pending |-> SaturatingSub(f.pending, n),
     paused  |-> f.paused /\ SaturatingSub(f.pending, n) > Low]

\* The FlowAction that on_acked returns is Resume.
Resumes(f, n) == f.paused /\ SaturatingSub(f.pending, n) <= Low

\* A paused flow owes at least one acknowledgement.
PausedOwes(f) == f.paused => f.pending > 0
=============================================================================
