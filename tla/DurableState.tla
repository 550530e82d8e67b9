---------------------------- MODULE DurableState ----------------------------
(***************************************************************************)
(* What saving the application state promises.  The states of the          *)
(* application are numbered in the order they came into being; the disk    *)
(* holds one of them.  It only ever moves forward, to a state that really  *)
(* existed, and when the process ends the application resumes from what    *)
(* the disk holds.  How many states are lost then is the business of the   *)
(* debounce window; that the saved one is whole, and never an older one    *)
(* than was saved before, is promised here.                                *)
(***************************************************************************)
EXTENDS Naturals

VARIABLES
    latest,   \* number of the current state of the application
    saved     \* number of the state on the disk

Init == latest = 0 /\ saved = 0

Update == latest' = latest + 1 /\ UNCHANGED saved

Save == saved' \in (saved + 1)..latest /\ UNCHANGED latest

Crash == latest' = saved /\ UNCHANGED saved

Next == Update \/ Save \/ Crash

Spec == Init /\ [][Next]_<<latest, saved>>
=============================================================================
