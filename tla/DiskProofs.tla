----------------------------- MODULE DiskProofs -----------------------------
(***************************************************************************)
(* Proofs about what the program keeps on disk: Saver, the state file, for *)
(* any set of callers of flush and any bounds, and Provision, the files of *)
(* a setup inside a distro, for every number of files, events, versions,   *)
(* failures, saves by the user and scripts, and every distro.              *)
(*                                                                         *)
(* Of the saver, the inductive invariant IInv says which generation is     *)
(* where: in the slot, in the hands of the worker, in the temporary file,  *)
(* on the disk.                                                            *)
(*                                                                         *)
(* Of a setup, SetupInv: the script that runs, when no two have            *)
(* overlapped, has open what it opened and finds beside a file what it has *)
(* written there (Mine), which is what it read, brought up to date, unless *)
(* the user saved the file since.  So what is in place is whole, and the   *)
(* files it has moved are of its version, which is no older than any       *)
(* marker (Whole).  What cuts a script off takes none of that back.        *)
(*                                                                         *)
(* In AGENTS.md no line of the user's stands in an open block, so awk      *)
(* prints them all, which takes an induction over the lines; and what it   *)
(* prints, with the block below, is again so.                              *)
(***************************************************************************)
EXTENDS Saver, Provision, TLAPS, FiniteSetTheorems, SequenceTheorems, WellFoundedInduction
-----------------------------------------------------------------------------
(* The state file.                                                         *)

Busy == {"write", "sync", "rename", "ack"}

\* A worker is dead once it has left its loop; it leaves in order only when
\* the saver was closed and the slot is empty.
WorkerInv ==
    /\ workerDead <=> workerPc \in {"gone", "panicked"}
    /\ workerPc = "gone" => closed /\ ~pending

\* The slot holds a state exactly when something was scheduled since the
\* worker last took one, and what it took is written when it is not busy.
SlotInv ==
    /\ pending <=> taken < scheduled
    /\ ripe => pending
    /\ written <= taken
    /\ workerPc \in {"run", "wait", "doze", "gone"} => written = taken
    /\ workerPc \in Busy => written < taken

\* A sleeping worker owes nobody a write, and a dead one leaves nobody asleep.
CallInv ==
    /\ workerPc \in {"wait", "doze"} => flushTarget <= written
    /\ \A f \in Flushers : caller[f] # "idle" => target[f] <= flushTarget
    /\ workerDead => \A f \in Flushers : caller[f] # "asleep"
    /\ ~workerDead /\ written < flushTarget =>
         \E f \in Flushers : caller[f] # "idle" /\ target[f] = flushTarget
    /\ acked <= written

\* The file holds the last generation whose save succeeded.
FileInv ==
    /\ DiskIsWhole
    /\ base <= disk.state /\ disk.state <= base + taken
    /\ workerPc \in {"write", "sync", "rename"} => disk.state <= base + written
    /\ workerPc \in {"sync", "rename"} => tmp.state = base + taken
    /\ workerPc = "rename" => tmp.durable
    /\ workerPc = "ack" => base + taken <= disk.state \/ taken <= failed
    /\ base + written <= disk.state \/ written <= failed

IInv == TypeOK /\ WorkerInv /\ SlotInv /\ CallInv /\ FileInv

-----------------------------------------------------------------------------
(* The inductive invariant                                                  *)

\* The value of a missing file is a file.
LEMMA NoFileIsFile == NoFile \in File
  BY DEF NoFile, File, Torn

\* It holds of a saver just spawned, on the first boot.
LEMMA InitInv == Init => IInv
<1> SUFFICES ASSUME Init PROVE IInv
  OBVIOUS
<1>1. TypeOK
  <2>1. disk \in File /\ tmp \in File
    BY NoFileIsFile DEF Init, File
  <2>2. crashes \in 0..MaxCrashes
    BY SaverConstants DEF Init
  <2>3. scheduled = 0 /\ scheduled \in Nat /\ 0 \in 0..scheduled
    BY DEF Init
  <2>4. caller \in [Flushers -> {"idle", "asleep", "woken"}]
    BY DEF Init
  <2>5. target \in [Flushers -> 0..scheduled]
    BY <2>3 DEF Init
  <2>6. /\ written \in 0..scheduled /\ flushTarget \in 0..scheduled
        /\ taken \in 0..scheduled /\ acked \in 0..scheduled /\ failed \in 0..scheduled
    BY <2>3 DEF Init
  <2>7. /\ pending \in BOOLEAN /\ ripe \in BOOLEAN /\ closed \in BOOLEAN
        /\ workerDead \in BOOLEAN /\ base \in Nat
        /\ workerPc \in {"run", "wait", "doze", "write", "sync", "rename", "ack",
                         "gone", "panicked"}
    BY DEF Init
  <2> QED BY <2>1, <2>2, <2>3, <2>4, <2>5, <2>6, <2>7 DEF TypeOK
<1>2. WorkerInv /\ SlotInv
  BY DEF Init, WorkerInv, SlotInv, Busy
<1>3. CallInv
  BY DEF Init, CallInv
<1>4. FileInv
  BY DEF Init, FileInv, DiskIsWhole, Torn
<1> QED BY <1>1, <1>2, <1>3, <1>4 DEF IInv

\* Every step of every thread, every failure and every boot keeps it.
LEMMA NextInv == IInv /\ [Next]_vars => IInv'
<1> SUFFICES ASSUME IInv, [Next]_vars PROVE IInv'
  OBVIOUS
<1> USE SaverConstants
<1>1. CASE Schedule
  <2>1. TypeOK'
    BY <1>1 DEF IInv, TypeOK, SlotInv, FileInv, DiskIsWhole, File, NoFile, Torn, Schedule, Notify, WokenWorker, WokenCallers,
       slotVars, workerVars, callVars, fileVars, runVars
  <2>2. WorkerInv'
    BY <1>1 DEF IInv, TypeOK, WorkerInv, SlotInv, Schedule, Notify, WokenWorker, WokenCallers,
       slotVars, workerVars, callVars, fileVars, runVars
  <2>3. SlotInv'
    BY <1>1 DEF IInv, TypeOK, WorkerInv, SlotInv, Busy, Schedule, Notify, WokenWorker, WokenCallers,
       slotVars, workerVars, callVars, fileVars, runVars
  <2>4. CallInv'
    BY <1>1 DEF IInv, TypeOK, WorkerInv, SlotInv, CallInv, Busy, Schedule, Notify, WokenWorker, WokenCallers,
       slotVars, workerVars, callVars, fileVars, runVars
  <2>5. FileInv'
    BY <1>1 DEF IInv, TypeOK, WorkerInv, SlotInv, CallInv, FileInv, DiskIsWhole, Busy, File,
       NoFile, Torn, Schedule, Notify, WokenWorker, WokenCallers,
       slotVars, workerVars, callVars, fileVars, runVars
  <2> QED BY <2>1, <2>2, <2>3, <2>4, <2>5 DEF IInv
<1>2. CASE Ripen
  <2>1. TypeOK'
    BY <1>2 DEF IInv, TypeOK, SlotInv, FileInv, DiskIsWhole, File, NoFile, Torn, Ripen,
       slotVars, workerVars, callVars, fileVars, runVars
  <2>2. WorkerInv'
    BY <1>2 DEF IInv, TypeOK, WorkerInv, SlotInv, Ripen,
       slotVars, workerVars, callVars, fileVars, runVars
  <2>3. SlotInv'
    BY <1>2 DEF IInv, TypeOK, WorkerInv, SlotInv, Busy, Ripen,
       slotVars, workerVars, callVars, fileVars, runVars
  <2>4. CallInv'
    BY <1>2 DEF IInv, TypeOK, WorkerInv, SlotInv, CallInv, Busy, Ripen,
       slotVars, workerVars, callVars, fileVars, runVars
  <2>5. FileInv'
    BY <1>2 DEF IInv, TypeOK, WorkerInv, SlotInv, CallInv, FileInv, DiskIsWhole, Busy, File,
       NoFile, Torn, Ripen,
       slotVars, workerVars, callVars, fileVars, runVars
  <2> QED BY <2>1, <2>2, <2>3, <2>4, <2>5 DEF IInv
<1>3. CASE Close
  <2>1. TypeOK'
    BY <1>3 DEF IInv, TypeOK, SlotInv, FileInv, DiskIsWhole, File, NoFile, Torn, Close, Notify, WokenWorker, WokenCallers,
       slotVars, workerVars, callVars, fileVars, runVars
  <2>2. WorkerInv'
    BY <1>3 DEF IInv, TypeOK, WorkerInv, SlotInv, Close, Notify, WokenWorker, WokenCallers,
       slotVars, workerVars, callVars, fileVars, runVars
  <2>3. SlotInv'
    BY <1>3 DEF IInv, TypeOK, WorkerInv, SlotInv, Busy, Close, Notify, WokenWorker, WokenCallers,
       slotVars, workerVars, callVars, fileVars, runVars
  <2>4. CallInv'
    BY <1>3 DEF IInv, TypeOK, WorkerInv, SlotInv, CallInv, Busy, Close, Notify, WokenWorker, WokenCallers,
       slotVars, workerVars, callVars, fileVars, runVars
  <2>5. FileInv'
    BY <1>3 DEF IInv, TypeOK, WorkerInv, SlotInv, CallInv, FileInv, DiskIsWhole, Busy, File,
       NoFile, Torn, Close, Notify, WokenWorker, WokenCallers,
       slotVars, workerVars, callVars, fileVars, runVars
  <2> QED BY <2>1, <2>2, <2>3, <2>4, <2>5 DEF IInv
<1>4. ASSUME NEW f \in Flushers, FlushNothing(f) PROVE IInv'
  <2>1. TypeOK'
    BY <1>4 DEF IInv, TypeOK, SlotInv, FileInv, DiskIsWhole, File, NoFile, Torn, FlushNothing, Larger,
       slotVars, workerVars, callVars, fileVars, runVars
  <2>2. WorkerInv'
    BY <1>4 DEF IInv, TypeOK, WorkerInv, SlotInv, FlushNothing, Larger,
       slotVars, workerVars, callVars, fileVars, runVars
  <2>3. SlotInv'
    BY <1>4 DEF IInv, TypeOK, WorkerInv, SlotInv, Busy, FlushNothing, Larger,
       slotVars, workerVars, callVars, fileVars, runVars
  <2>4. CallInv'
    BY <1>4 DEF IInv, TypeOK, WorkerInv, SlotInv, CallInv, Busy, FlushNothing, Larger,
       slotVars, workerVars, callVars, fileVars, runVars
  <2>5. FileInv'
    BY <1>4 DEF IInv, TypeOK, WorkerInv, SlotInv, CallInv, FileInv, DiskIsWhole, Busy, File,
       NoFile, Torn, FlushNothing, Larger,
       slotVars, workerVars, callVars, fileVars, runVars
  <2> QED BY <2>1, <2>2, <2>3, <2>4, <2>5 DEF IInv
<1>5. ASSUME NEW f \in Flushers, Flush(f) PROVE IInv'
  <2>1. TypeOK'
    BY <1>5 DEF IInv, TypeOK, SlotInv, FileInv, DiskIsWhole, File, NoFile, Torn, Flush, Larger, WokenWorker, WokenCallers,
       slotVars, workerVars, callVars, fileVars, runVars
  <2>2. WorkerInv'
    BY <1>5 DEF IInv, TypeOK, WorkerInv, SlotInv, Flush, Larger, WokenWorker, WokenCallers,
       slotVars, workerVars, callVars, fileVars, runVars
  <2>3. SlotInv'
    BY <1>5 DEF IInv, TypeOK, WorkerInv, SlotInv, Busy, Flush, Larger, WokenWorker, WokenCallers,
       slotVars, workerVars, callVars, fileVars, runVars
  <2>4. CallInv'
    BY <1>5 DEF IInv, TypeOK, WorkerInv, SlotInv, CallInv, Busy, Flush, Larger, WokenWorker, WokenCallers,
       slotVars, workerVars, callVars, fileVars, runVars
  <2>5. FileInv'
    BY <1>5 DEF IInv, TypeOK, WorkerInv, SlotInv, CallInv, FileInv, DiskIsWhole, Busy, File,
       NoFile, Torn, Flush, Larger, WokenWorker, WokenCallers,
       slotVars, workerVars, callVars, fileVars, runVars
  <2> QED BY <2>1, <2>2, <2>3, <2>4, <2>5 DEF IInv
<1>6. ASSUME NEW f \in Flushers, FlushWakes(f) PROVE IInv'
  <2>1. TypeOK'
    BY <1>6 DEF IInv, TypeOK, SlotInv, FileInv, DiskIsWhole, File, NoFile, Torn, FlushWakes, Larger,
       slotVars, workerVars, callVars, fileVars, runVars
  <2>2. WorkerInv'
    BY <1>6 DEF IInv, TypeOK, WorkerInv, SlotInv, FlushWakes, Larger,
       slotVars, workerVars, callVars, fileVars, runVars
  <2>3. SlotInv'
    BY <1>6 DEF IInv, TypeOK, WorkerInv, SlotInv, Busy, FlushWakes, Larger,
       slotVars, workerVars, callVars, fileVars, runVars
  <2>4. CallInv'
    BY <1>6 DEF IInv, TypeOK, WorkerInv, SlotInv, CallInv, Busy, FlushWakes, Larger,
       slotVars, workerVars, callVars, fileVars, runVars
  <2>5. FileInv'
    BY <1>6 DEF IInv, TypeOK, WorkerInv, SlotInv, CallInv, FileInv, DiskIsWhole, Busy, File,
       NoFile, Torn, FlushWakes, Larger,
       slotVars, workerVars, callVars, fileVars, runVars
  <2> QED BY <2>1, <2>2, <2>3, <2>4, <2>5 DEF IInv
<1>7. CASE WorkerTake
  <2>1. TypeOK'
    <3>1. pending' \in BOOLEAN /\ ripe' \in BOOLEAN /\ closed' \in BOOLEAN /\ workerDead' \in BOOLEAN
      BY <1>7 DEF IInv, TypeOK, SlotInv, FileInv, DiskIsWhole, File, NoFile, Torn, WorkerTake, Due,
         slotVars, workerVars, callVars, fileVars, runVars
    <3>2. scheduled' \in Nat /\ written' \in 0..scheduled' /\ flushTarget' \in 0..scheduled'
      BY <1>7 DEF IInv, TypeOK, SlotInv, FileInv, DiskIsWhole, File, NoFile, Torn, WorkerTake, Due,
         slotVars, workerVars, callVars, fileVars, runVars
    <3>3. taken' \in 0..scheduled' /\ acked' \in 0..scheduled' /\ failed' \in 0..scheduled'
      BY <1>7 DEF IInv, TypeOK, SlotInv, FileInv, DiskIsWhole, File, NoFile, Torn, WorkerTake, Due,
         slotVars, workerVars, callVars, fileVars, runVars
    <3>4. workerPc' \in {"run", "wait", "doze", "write", "sync", "rename", "ack",
                        "gone", "panicked"}
      BY <1>7 DEF IInv, TypeOK, SlotInv, FileInv, DiskIsWhole, File, NoFile, Torn, WorkerTake, Due,
         slotVars, workerVars, callVars, fileVars, runVars
    <3>5. caller' \in [Flushers -> {"idle", "asleep", "woken"}] /\ target' \in [Flushers -> 0..scheduled']
      BY <1>7 DEF IInv, TypeOK, SlotInv, FileInv, DiskIsWhole, File, NoFile, Torn, WorkerTake, Due,
         slotVars, workerVars, callVars, fileVars, runVars
    <3>6. disk' \in File /\ tmp' \in File
      BY <1>7 DEF IInv, TypeOK, SlotInv, FileInv, DiskIsWhole, File, NoFile, Torn, WorkerTake, Due,
         slotVars, workerVars, callVars, fileVars, runVars
    <3>7. base' \in Nat /\ crashes' \in 0..MaxCrashes
      BY <1>7 DEF IInv, TypeOK, SlotInv, FileInv, DiskIsWhole, File, NoFile, Torn, WorkerTake, Due,
         slotVars, workerVars, callVars, fileVars, runVars
    <3> QED BY ONLY <3>1, <3>2, <3>3, <3>4, <3>5, <3>6, <3>7 DEF TypeOK
  <2>2. WorkerInv'
    BY <1>7 DEF IInv, TypeOK, WorkerInv, SlotInv, WorkerTake, Due,
       slotVars, workerVars, callVars, fileVars, runVars
  <2>3. SlotInv'
    BY <1>7 DEF IInv, TypeOK, WorkerInv, SlotInv, Busy, WorkerTake, Due,
       slotVars, workerVars, callVars, fileVars, runVars
  <2>4. CallInv'
    BY <1>7 DEF IInv, TypeOK, WorkerInv, SlotInv, CallInv, Busy, WorkerTake, Due,
       slotVars, workerVars, callVars, fileVars, runVars
  <2>5. FileInv'
    BY <1>7 DEF IInv, TypeOK, WorkerInv, SlotInv, CallInv, FileInv, DiskIsWhole, Busy, File,
       NoFile, Torn, WorkerTake, Due,
       slotVars, workerVars, callVars, fileVars, runVars
  <2> QED BY <2>1, <2>2, <2>3, <2>4, <2>5 DEF IInv
<1>8. CASE WorkerSleep
  <2>1. TypeOK'
    BY <1>8 DEF IInv, TypeOK, SlotInv, FileInv, DiskIsWhole, File, NoFile, Torn, WorkerSleep, Due,
       slotVars, workerVars, callVars, fileVars, runVars
  <2>2. WorkerInv'
    BY <1>8 DEF IInv, TypeOK, WorkerInv, SlotInv, WorkerSleep, Due,
       slotVars, workerVars, callVars, fileVars, runVars
  <2>3. SlotInv'
    BY <1>8 DEF IInv, TypeOK, WorkerInv, SlotInv, Busy, WorkerSleep, Due,
       slotVars, workerVars, callVars, fileVars, runVars
  <2>4. CallInv'
    BY <1>8 DEF IInv, TypeOK, WorkerInv, SlotInv, CallInv, Busy, WorkerSleep, Due,
       slotVars, workerVars, callVars, fileVars, runVars
  <2>5. FileInv'
    BY <1>8 DEF IInv, TypeOK, WorkerInv, SlotInv, CallInv, FileInv, DiskIsWhole, Busy, File,
       NoFile, Torn, WorkerSleep, Due,
       slotVars, workerVars, callVars, fileVars, runVars
  <2> QED BY <2>1, <2>2, <2>3, <2>4, <2>5 DEF IInv
<1>9. CASE WorkerReturn
  <2>1. TypeOK'
    BY <1>9 DEF IInv, TypeOK, SlotInv, FileInv, DiskIsWhole, File, NoFile, Torn, WorkerReturn, Due, WokenCallers,
       slotVars, workerVars, callVars, fileVars, runVars
  <2>2. WorkerInv'
    BY <1>9 DEF IInv, TypeOK, WorkerInv, SlotInv, WorkerReturn, Due, WokenCallers,
       slotVars, workerVars, callVars, fileVars, runVars
  <2>3. SlotInv'
    BY <1>9 DEF IInv, TypeOK, WorkerInv, SlotInv, Busy, WorkerReturn, Due, WokenCallers,
       slotVars, workerVars, callVars, fileVars, runVars
  <2>4. CallInv'
    BY <1>9 DEF IInv, TypeOK, WorkerInv, SlotInv, CallInv, Busy, WorkerReturn, Due, WokenCallers,
       slotVars, workerVars, callVars, fileVars, runVars
  <2>5. FileInv'
    BY <1>9 DEF IInv, TypeOK, WorkerInv, SlotInv, CallInv, FileInv, DiskIsWhole, Busy, File,
       NoFile, Torn, WorkerReturn, Due, WokenCallers,
       slotVars, workerVars, callVars, fileVars, runVars
  <2> QED BY <2>1, <2>2, <2>3, <2>4, <2>5 DEF IInv
<1>10. CASE WorkerTimeout
  <2>1. TypeOK'
    BY <1>10 DEF IInv, TypeOK, SlotInv, FileInv, DiskIsWhole, File, NoFile, Torn, WorkerTimeout,
       slotVars, workerVars, callVars, fileVars, runVars
  <2>2. WorkerInv'
    BY <1>10 DEF IInv, TypeOK, WorkerInv, SlotInv, WorkerTimeout,
       slotVars, workerVars, callVars, fileVars, runVars
  <2>3. SlotInv'
    BY <1>10 DEF IInv, TypeOK, WorkerInv, SlotInv, Busy, WorkerTimeout,
       slotVars, workerVars, callVars, fileVars, runVars
  <2>4. CallInv'
    BY <1>10 DEF IInv, TypeOK, WorkerInv, SlotInv, CallInv, Busy, WorkerTimeout,
       slotVars, workerVars, callVars, fileVars, runVars
  <2>5. FileInv'
    BY <1>10 DEF IInv, TypeOK, WorkerInv, SlotInv, CallInv, FileInv, DiskIsWhole, Busy, File,
       NoFile, Torn, WorkerTimeout,
       slotVars, workerVars, callVars, fileVars, runVars
  <2> QED BY <2>1, <2>2, <2>3, <2>4, <2>5 DEF IInv
<1>11. CASE SaveWrite
  <2>1. TypeOK'
    BY <1>11 DEF IInv, TypeOK, SlotInv, FileInv, DiskIsWhole, File, NoFile, Torn, SaveWrite,
       slotVars, workerVars, callVars, fileVars, runVars
  <2>2. WorkerInv'
    BY <1>11 DEF IInv, TypeOK, WorkerInv, SlotInv, SaveWrite,
       slotVars, workerVars, callVars, fileVars, runVars
  <2>3. SlotInv'
    BY <1>11 DEF IInv, TypeOK, WorkerInv, SlotInv, Busy, SaveWrite,
       slotVars, workerVars, callVars, fileVars, runVars
  <2>4. CallInv'
    BY <1>11 DEF IInv, TypeOK, WorkerInv, SlotInv, CallInv, Busy, SaveWrite,
       slotVars, workerVars, callVars, fileVars, runVars
  <2>5. FileInv'
    BY <1>11 DEF IInv, TypeOK, WorkerInv, SlotInv, CallInv, FileInv, DiskIsWhole, Busy, File,
       NoFile, Torn, SaveWrite,
       slotVars, workerVars, callVars, fileVars, runVars
  <2> QED BY <2>1, <2>2, <2>3, <2>4, <2>5 DEF IInv
<1>12. CASE SaveSync
  <2>1. TypeOK'
    BY <1>12 DEF IInv, TypeOK, SlotInv, FileInv, DiskIsWhole, File, NoFile, Torn, SaveSync,
       slotVars, workerVars, callVars, fileVars, runVars
  <2>2. WorkerInv'
    BY <1>12 DEF IInv, TypeOK, WorkerInv, SlotInv, SaveSync,
       slotVars, workerVars, callVars, fileVars, runVars
  <2>3. SlotInv'
    BY <1>12 DEF IInv, TypeOK, WorkerInv, SlotInv, Busy, SaveSync,
       slotVars, workerVars, callVars, fileVars, runVars
  <2>4. CallInv'
    BY <1>12 DEF IInv, TypeOK, WorkerInv, SlotInv, CallInv, Busy, SaveSync,
       slotVars, workerVars, callVars, fileVars, runVars
  <2>5. FileInv'
    BY <1>12 DEF IInv, TypeOK, WorkerInv, SlotInv, CallInv, FileInv, DiskIsWhole, Busy, File,
       NoFile, Torn, SaveSync,
       slotVars, workerVars, callVars, fileVars, runVars
  <2> QED BY <2>1, <2>2, <2>3, <2>4, <2>5 DEF IInv
<1>13. CASE SaveRename
  <2>1. TypeOK'
    BY <1>13 DEF IInv, TypeOK, SlotInv, FileInv, DiskIsWhole, File, NoFile, Torn, SaveRename,
       slotVars, workerVars, callVars, fileVars, runVars
  <2>2. WorkerInv'
    BY <1>13 DEF IInv, TypeOK, WorkerInv, SlotInv, SaveRename,
       slotVars, workerVars, callVars, fileVars, runVars
  <2>3. SlotInv'
    BY <1>13 DEF IInv, TypeOK, WorkerInv, SlotInv, Busy, SaveRename,
       slotVars, workerVars, callVars, fileVars, runVars
  <2>4. CallInv'
    BY <1>13 DEF IInv, TypeOK, WorkerInv, SlotInv, CallInv, Busy, SaveRename,
       slotVars, workerVars, callVars, fileVars, runVars
  <2>5. FileInv'
    BY <1>13 DEF IInv, TypeOK, WorkerInv, SlotInv, CallInv, FileInv, DiskIsWhole, Busy, File,
       NoFile, Torn, SaveRename,
       slotVars, workerVars, callVars, fileVars, runVars
  <2> QED BY <2>1, <2>2, <2>3, <2>4, <2>5 DEF IInv
<1>14. CASE WorkerAck
  <2>1. TypeOK'
    BY <1>14 DEF IInv, TypeOK, SlotInv, FileInv, DiskIsWhole, File, NoFile, Torn, WorkerAck, WokenCallers,
       slotVars, workerVars, callVars, fileVars, runVars
  <2>2. WorkerInv'
    BY <1>14 DEF IInv, TypeOK, WorkerInv, SlotInv, WorkerAck, WokenCallers,
       slotVars, workerVars, callVars, fileVars, runVars
  <2>3. SlotInv'
    BY <1>14 DEF IInv, TypeOK, WorkerInv, SlotInv, Busy, WorkerAck, WokenCallers,
       slotVars, workerVars, callVars, fileVars, runVars
  <2>4. CallInv'
    <3>1. (workerPc \in {"wait", "doze"} => flushTarget <= written)'
      BY <1>14 DEF IInv, TypeOK, WorkerInv, SlotInv, CallInv, Busy, WorkerAck, WokenCallers,
         slotVars, workerVars, callVars, fileVars, runVars
    <3>2. (\A f \in Flushers : caller[f] # "idle" => target[f] <= flushTarget)'
      BY <1>14 DEF IInv, TypeOK, WorkerInv, SlotInv, CallInv, Busy, WorkerAck, WokenCallers,
         slotVars, workerVars, callVars, fileVars, runVars
    <3>3. (workerDead => \A f \in Flushers : caller[f] # "asleep")'
      BY <1>14 DEF IInv, TypeOK, WorkerInv, SlotInv, CallInv, Busy, WorkerAck, WokenCallers,
         slotVars, workerVars, callVars, fileVars, runVars
    <3>4. (~workerDead /\ written < flushTarget =>
            \E f \in Flushers : caller[f] # "idle" /\ target[f] = flushTarget)'
      BY <1>14 DEF IInv, TypeOK, WorkerInv, SlotInv, CallInv, Busy, WorkerAck, WokenCallers,
         slotVars, workerVars, callVars, fileVars, runVars
    <3>5. (acked <= written)'
      BY <1>14 DEF IInv, TypeOK, WorkerInv, SlotInv, CallInv, Busy, WorkerAck, WokenCallers,
         slotVars, workerVars, callVars, fileVars, runVars
    <3> QED BY ONLY <3>1, <3>2, <3>3, <3>4, <3>5 DEF CallInv
  <2>5. FileInv'
    BY <1>14 DEF IInv, TypeOK, WorkerInv, SlotInv, CallInv, FileInv, DiskIsWhole, Busy, File,
       NoFile, Torn, WorkerAck, WokenCallers,
       slotVars, workerVars, callVars, fileVars, runVars
  <2> QED BY <2>1, <2>2, <2>3, <2>4, <2>5 DEF IInv
<1>15. CASE Spurious
  <2>1. TypeOK'
    BY <1>15 DEF IInv, TypeOK, SlotInv, FileInv, DiskIsWhole, File, NoFile, Torn, Spurious, Notify, WokenWorker, WokenCallers,
       slotVars, workerVars, callVars, fileVars, runVars
  <2>2. WorkerInv'
    BY <1>15 DEF IInv, TypeOK, WorkerInv, SlotInv, Spurious, Notify, WokenWorker, WokenCallers,
       slotVars, workerVars, callVars, fileVars, runVars
  <2>3. SlotInv'
    BY <1>15 DEF IInv, TypeOK, WorkerInv, SlotInv, Busy, Spurious, Notify, WokenWorker, WokenCallers,
       slotVars, workerVars, callVars, fileVars, runVars
  <2>4. CallInv'
    BY <1>15 DEF IInv, TypeOK, WorkerInv, SlotInv, CallInv, Busy, Spurious, Notify, WokenWorker, WokenCallers,
       slotVars, workerVars, callVars, fileVars, runVars
  <2>5. FileInv'
    BY <1>15 DEF IInv, TypeOK, WorkerInv, SlotInv, CallInv, FileInv, DiskIsWhole, Busy, File,
       NoFile, Torn, Spurious, Notify, WokenWorker, WokenCallers,
       slotVars, workerVars, callVars, fileVars, runVars
  <2> QED BY <2>1, <2>2, <2>3, <2>4, <2>5 DEF IInv
<1>16. CASE SaveFails
  <2>1. TypeOK'
    <3>1. pending' \in BOOLEAN /\ ripe' \in BOOLEAN /\ closed' \in BOOLEAN /\ workerDead' \in BOOLEAN
      BY <1>16 DEF IInv, TypeOK, SlotInv, FileInv, DiskIsWhole, File, NoFile, Torn, SaveFails,
         slotVars, workerVars, callVars, fileVars, runVars
    <3>2. scheduled' \in Nat /\ written' \in 0..scheduled' /\ flushTarget' \in 0..scheduled'
      BY <1>16 DEF IInv, TypeOK, SlotInv, FileInv, DiskIsWhole, File, NoFile, Torn, SaveFails,
         slotVars, workerVars, callVars, fileVars, runVars
    <3>3. taken' \in 0..scheduled' /\ acked' \in 0..scheduled' /\ failed' \in 0..scheduled'
      BY <1>16 DEF IInv, TypeOK, SlotInv, FileInv, DiskIsWhole, File, NoFile, Torn, SaveFails,
         slotVars, workerVars, callVars, fileVars, runVars
    <3>4. workerPc' \in {"run", "wait", "doze", "write", "sync", "rename", "ack",
                        "gone", "panicked"}
      BY <1>16 DEF IInv, TypeOK, SlotInv, FileInv, DiskIsWhole, File, NoFile, Torn, SaveFails,
         slotVars, workerVars, callVars, fileVars, runVars
    <3>5. caller' \in [Flushers -> {"idle", "asleep", "woken"}] /\ target' \in [Flushers -> 0..scheduled']
      BY <1>16 DEF IInv, TypeOK, SlotInv, FileInv, DiskIsWhole, File, NoFile, Torn, SaveFails,
         slotVars, workerVars, callVars, fileVars, runVars
    <3>6. disk' \in File /\ tmp' \in File
      BY ONLY <1>16, IInv, NoFileIsFile DEF IInv, TypeOK, SaveFails
    <3>7. base' \in Nat /\ crashes' \in 0..MaxCrashes
      BY <1>16 DEF IInv, TypeOK, SlotInv, FileInv, DiskIsWhole, File, NoFile, Torn, SaveFails,
         slotVars, workerVars, callVars, fileVars, runVars
    <3> QED BY ONLY <3>1, <3>2, <3>3, <3>4, <3>5, <3>6, <3>7 DEF TypeOK
  <2>2. WorkerInv'
    BY <1>16 DEF IInv, TypeOK, WorkerInv, SlotInv, SaveFails,
       slotVars, workerVars, callVars, fileVars, runVars
  <2>3. SlotInv'
    BY <1>16 DEF IInv, TypeOK, WorkerInv, SlotInv, Busy, SaveFails,
       slotVars, workerVars, callVars, fileVars, runVars
  <2>4. CallInv'
    BY <1>16 DEF IInv, TypeOK, WorkerInv, SlotInv, CallInv, Busy, SaveFails,
       slotVars, workerVars, callVars, fileVars, runVars
  <2>5. FileInv'
    BY <1>16 DEF IInv, TypeOK, WorkerInv, SlotInv, CallInv, FileInv, DiskIsWhole, Busy, File,
       NoFile, Torn, SaveFails,
       slotVars, workerVars, callVars, fileVars, runVars
  <2> QED BY <2>1, <2>2, <2>3, <2>4, <2>5 DEF IInv
<1>17. CASE WorkerPanic
  <2>1. TypeOK'
    BY <1>17 DEF IInv, TypeOK, SlotInv, FileInv, DiskIsWhole, File, NoFile, Torn, WorkerPanic, WokenCallers,
       slotVars, workerVars, callVars, fileVars, runVars
  <2>2. WorkerInv'
    BY <1>17 DEF IInv, TypeOK, WorkerInv, SlotInv, WorkerPanic, WokenCallers,
       slotVars, workerVars, callVars, fileVars, runVars
  <2>3. SlotInv'
    BY <1>17 DEF IInv, TypeOK, WorkerInv, SlotInv, Busy, WorkerPanic, WokenCallers,
       slotVars, workerVars, callVars, fileVars, runVars
  <2>4. CallInv'
    BY <1>17 DEF IInv, TypeOK, WorkerInv, SlotInv, CallInv, Busy, WorkerPanic, WokenCallers,
       slotVars, workerVars, callVars, fileVars, runVars
  <2>5. FileInv'
    BY <1>17 DEF IInv, TypeOK, WorkerInv, SlotInv, CallInv, FileInv, DiskIsWhole, Busy, File,
       NoFile, Torn, WorkerPanic, WokenCallers,
       slotVars, workerVars, callVars, fileVars, runVars
  <2> QED BY <2>1, <2>2, <2>3, <2>4, <2>5 DEF IInv
<1>18. CASE Crash
  <2>1. TypeOK'
    <3>1. pending' \in BOOLEAN /\ ripe' \in BOOLEAN /\ closed' \in BOOLEAN /\ workerDead' \in BOOLEAN
      BY <1>18 DEF IInv, TypeOK, SlotInv, FileInv, DiskIsWhole, File, NoFile, Torn, Crash, Boot,
         slotVars, workerVars, callVars, fileVars, runVars
    <3>2. scheduled' \in Nat /\ written' \in 0..scheduled' /\ flushTarget' \in 0..scheduled'
      BY <1>18 DEF IInv, TypeOK, SlotInv, FileInv, DiskIsWhole, File, NoFile, Torn, Crash, Boot,
         slotVars, workerVars, callVars, fileVars, runVars
    <3>3. taken' \in 0..scheduled' /\ acked' \in 0..scheduled' /\ failed' \in 0..scheduled'
      BY <1>18 DEF IInv, TypeOK, SlotInv, FileInv, DiskIsWhole, File, NoFile, Torn, Crash, Boot,
         slotVars, workerVars, callVars, fileVars, runVars
    <3>4. workerPc' \in {"run", "wait", "doze", "write", "sync", "rename", "ack",
                        "gone", "panicked"}
      BY <1>18 DEF IInv, TypeOK, SlotInv, FileInv, DiskIsWhole, File, NoFile, Torn, Crash, Boot,
         slotVars, workerVars, callVars, fileVars, runVars
    <3>5. caller' \in [Flushers -> {"idle", "asleep", "woken"}] /\ target' \in [Flushers -> 0..scheduled']
      BY <1>18 DEF IInv, TypeOK, SlotInv, FileInv, DiskIsWhole, File, NoFile, Torn, Crash, Boot,
         slotVars, workerVars, callVars, fileVars, runVars
    <3>6. disk' \in File /\ tmp' \in File
      BY <1>18 DEF IInv, TypeOK, SlotInv, FileInv, DiskIsWhole, File, NoFile, Torn, Crash, Boot,
         slotVars, workerVars, callVars, fileVars, runVars
    <3>7. base' \in Nat /\ crashes' \in 0..MaxCrashes
      BY <1>18 DEF IInv, TypeOK, SlotInv, FileInv, DiskIsWhole, File, NoFile, Torn, Crash, Boot,
         slotVars, workerVars, callVars, fileVars, runVars
    <3> QED BY ONLY <3>1, <3>2, <3>3, <3>4, <3>5, <3>6, <3>7 DEF TypeOK
  <2>2. WorkerInv'
    BY <1>18 DEF IInv, TypeOK, WorkerInv, SlotInv, Crash, Boot,
       slotVars, workerVars, callVars, fileVars, runVars
  <2>3. SlotInv'
    BY <1>18 DEF IInv, TypeOK, WorkerInv, SlotInv, Busy, Crash, Boot,
       slotVars, workerVars, callVars, fileVars, runVars
  <2>4. CallInv'
    BY <1>18 DEF IInv, TypeOK, WorkerInv, SlotInv, CallInv, Busy, Crash, Boot,
       slotVars, workerVars, callVars, fileVars, runVars
  <2>5. FileInv'
    BY <1>18 DEF IInv, TypeOK, WorkerInv, SlotInv, CallInv, FileInv, DiskIsWhole, Busy, File,
       NoFile, Torn, Crash, Boot,
       slotVars, workerVars, callVars, fileVars, runVars
  <2> QED BY <2>1, <2>2, <2>3, <2>4, <2>5 DEF IInv
<1>19. CASE PowerLoss
  <2>1. TypeOK'
    <3>1. pending' \in BOOLEAN /\ ripe' \in BOOLEAN /\ closed' \in BOOLEAN /\ workerDead' \in BOOLEAN
      BY <1>19 DEF IInv, TypeOK, SlotInv, FileInv, DiskIsWhole, File, NoFile, Torn, PowerLoss, Boot, AfterPowerLoss,
         slotVars, workerVars, callVars, fileVars, runVars
    <3>2. scheduled' \in Nat /\ written' \in 0..scheduled' /\ flushTarget' \in 0..scheduled'
      BY <1>19 DEF IInv, TypeOK, SlotInv, FileInv, DiskIsWhole, File, NoFile, Torn, PowerLoss, Boot, AfterPowerLoss,
         slotVars, workerVars, callVars, fileVars, runVars
    <3>3. taken' \in 0..scheduled' /\ acked' \in 0..scheduled' /\ failed' \in 0..scheduled'
      BY <1>19 DEF IInv, TypeOK, SlotInv, FileInv, DiskIsWhole, File, NoFile, Torn, PowerLoss, Boot, AfterPowerLoss,
         slotVars, workerVars, callVars, fileVars, runVars
    <3>4. workerPc' \in {"run", "wait", "doze", "write", "sync", "rename", "ack",
                        "gone", "panicked"}
      BY <1>19 DEF IInv, TypeOK, SlotInv, FileInv, DiskIsWhole, File, NoFile, Torn, PowerLoss, Boot, AfterPowerLoss,
         slotVars, workerVars, callVars, fileVars, runVars
    <3>5. caller' \in [Flushers -> {"idle", "asleep", "woken"}] /\ target' \in [Flushers -> 0..scheduled']
      BY <1>19 DEF IInv, TypeOK, SlotInv, FileInv, DiskIsWhole, File, NoFile, Torn, PowerLoss, Boot, AfterPowerLoss,
         slotVars, workerVars, callVars, fileVars, runVars
    <3>6. disk' \in File /\ tmp' \in File
      BY <1>19 DEF IInv, TypeOK, SlotInv, FileInv, DiskIsWhole, File, NoFile, Torn, PowerLoss, Boot, AfterPowerLoss,
         slotVars, workerVars, callVars, fileVars, runVars
    <3>7. base' \in Nat /\ crashes' \in 0..MaxCrashes
      BY <1>19 DEF IInv, TypeOK, SlotInv, FileInv, DiskIsWhole, File, NoFile, Torn, PowerLoss, Boot, AfterPowerLoss,
         slotVars, workerVars, callVars, fileVars, runVars
    <3> QED BY ONLY <3>1, <3>2, <3>3, <3>4, <3>5, <3>6, <3>7 DEF TypeOK
  <2>2. WorkerInv'
    BY <1>19 DEF IInv, TypeOK, WorkerInv, SlotInv, PowerLoss, Boot, AfterPowerLoss,
       slotVars, workerVars, callVars, fileVars, runVars
  <2>3. SlotInv'
    BY <1>19 DEF IInv, TypeOK, WorkerInv, SlotInv, Busy, PowerLoss, Boot, AfterPowerLoss,
       slotVars, workerVars, callVars, fileVars, runVars
  <2>4. CallInv'
    BY <1>19 DEF IInv, TypeOK, WorkerInv, SlotInv, CallInv, Busy, PowerLoss, Boot, AfterPowerLoss,
       slotVars, workerVars, callVars, fileVars, runVars
  <2>5. FileInv'
    BY <1>19 DEF IInv, TypeOK, WorkerInv, SlotInv, CallInv, FileInv, DiskIsWhole, Busy, File,
       NoFile, Torn, PowerLoss, Boot, AfterPowerLoss,
       slotVars, workerVars, callVars, fileVars, runVars
  <2> QED BY <2>1, <2>2, <2>3, <2>4, <2>5 DEF IInv
<1>20. CASE UNCHANGED vars
  BY <1>20 DEF IInv, TypeOK, WorkerInv, SlotInv, CallInv, FileInv, DiskIsWhole, Busy, vars,
     slotVars, workerVars, callVars, fileVars, runVars
<1> QED
  BY <1>1, <1>2, <1>3, <1>4, <1>5, <1>6, <1>7, <1>8, <1>9, <1>10, <1>11, <1>12, <1>13, <1>14, <1>15, <1>16, <1>17, <1>18, <1>19, <1>20 DEF Next, Worker

\* The invariant holds in every reachable state.
THEOREM Invariance == Spec => []IInv
<1> QED BY InitInv, NextInv, PTL DEF Spec

-----------------------------------------------------------------------------
(* What follows from it                                                     *)

\* Type correctness: no generation written, asked for or acknowledged was never
\* scheduled (SaverSlot).
THEOREM TypeCorrect == Spec => []TypeOK
<1>1. IInv => TypeOK
  BY DEF IInv
<1> QED BY <1>1, Invariance, PTL

\* The state file is whole whatever ends the process or the machine
\* (save_atomic).
THEOREM AtomicSave == Spec => []DiskIsWhole
<1>1. IInv => DiskIsWhole
  BY DEF IInv, FileInv
<1> QED BY <1>1, Invariance, PTL

\* What a flush reported as written is on the disk unless its save failed
\* (flush, worker_loop).
THEOREM FlushHonest == Spec => []FlushedUnlessFailed
<1>1. IInv => FlushedUnlessFailed
  BY DEF IInv, TypeOK, CallInv, FileInv, FlushedUnlessFailed, DiskIsWhole, File, Torn
<1> QED BY <1>1, Invariance, PTL

\* No caller of flush waits for a worker that sleeps or is gone (the shared
\* condvar, WorkerDeadGuard).
THEOREM FlushNotForgotten == Spec => []FlushIsServed
<1>1. ASSUME IInv, NEW f \in Flushers, caller[f] # "idle", written < target[f]
      PROVE  \/ workerDead /\ caller[f] = "woken"
             \/ ~workerDead /\ workerPc = "run" /\ pending
             \/ ~workerDead /\ workerPc \in Busy /\ (pending \/ taken >= target[f])
  <2>1. /\ caller[f] \in {"asleep", "woken"} /\ target[f] \in 0..scheduled
        /\ target[f] <= flushTarget
    BY <1>1 DEF IInv, TypeOK, CallInv
  <2>2. CASE workerDead
    BY <1>1, <2>1, <2>2 DEF IInv, CallInv
  <2>3. CASE ~workerDead
    <3>1. workerPc \notin {"wait", "doze"}
      BY <1>1, <2>1 DEF IInv, TypeOK, CallInv
    <3>2. workerPc \in {"run"} \cup Busy
      BY <1>1, <2>3, <3>1 DEF IInv, TypeOK, WorkerInv, Busy
    <3>3. workerPc = "run" => pending
      BY <1>1, <2>1 DEF IInv, TypeOK, SlotInv
    <3>4. pending \/ taken >= target[f]
      BY <1>1, <2>1 DEF IInv, TypeOK, SlotInv
    <3> QED BY <2>3, <3>2, <3>3, <3>4
  <2> QED BY <2>2, <2>3
<1>2. IInv => FlushIsServed
  BY <1>1 DEF FlushIsServed, Busy
<1> QED BY <1>2, Invariance, PTL

\* A saver closed in order has written everything (Drop).
THEOREM NothingIsLeft == Spec => []NothingLeftBehind
<1>1. IInv => NothingLeftBehind
  BY DEF IInv, TypeOK, WorkerInv, SlotInv, NothingLeftBehind
<1> QED BY <1>1, Invariance, PTL

\* One flush does not end the debouncing: before its deadline a state is
\* written only for a caller that still waits, or to close.
THEOREM DebounceSurvivesFlush == Spec => EarlyOnlyWhenAsked
<1>1. ASSUME IInv, [Next]_vars, workerPc = "run", workerPc' = "write"
      PROVE  ripe \/ closed
               \/ \E f \in Flushers : caller[f] # "idle" /\ written < target[f]
  <2>1. Due
    BY <1>1 DEF vars, workerVars, Next, Schedule, Ripen, Close, FlushNothing, Flush, FlushWakes, Worker,
       WorkerTake, WorkerSleep, WorkerReturn, WorkerTimeout, SaveWrite, SaveSync,
       SaveRename, WorkerAck, Spurious, SaveFails, WorkerPanic, Crash, PowerLoss, Boot,
       Notify, WokenWorker
  <2>2. ~workerDead
    BY <1>1 DEF IInv, WorkerInv
  <2> QED BY <1>1, <2>1, <2>2 DEF Due, IInv, CallInv
<1>2. IInv /\ [Next]_vars =>
        [workerPc = "run" /\ workerPc' = "write" =>
           ripe \/ closed
             \/ \E f \in Flushers : caller[f] # "idle" /\ written < target[f]]_vars
  BY <1>1
<1> QED BY <1>2, Invariance, PTL DEF Spec, EarlyOnlyWhenAsked

-----------------------------------------------------------------------------
(* The refinement                                                           *)

\* The saver implements DurableState: the file only goes forward, to a state
\* that existed, and a boot resumes from it.
THEOREM Refinement == Spec => ImplementsDurableState
<1>1. Init => DS!Init
  BY DEF Init, DS!Init
<1>2. ASSUME IInv, [Next]_vars
      PROVE  [DS!Next]_<<base + scheduled, disk.state>>
  <2>1. /\ scheduled \in Nat /\ taken \in Nat /\ written \in Nat /\ base \in Nat
        /\ disk.state \in Nat
    BY <1>2 DEF IInv, TypeOK, FileInv, DiskIsWhole, File
  <2>2. CASE Schedule
    BY <2>1, <2>2 DEF Schedule, DS!Next, DS!Update, fileVars, runVars
  <2>3. CASE SaveRename
    <3>1. /\ disk' = tmp /\ tmp.state = base + taken /\ disk.state <= base + written
          /\ written < taken /\ taken <= scheduled
      BY <1>2, <2>3 DEF SaveRename, IInv, TypeOK, SlotInv, FileInv, Busy
    <3>2. base' = base /\ scheduled' = scheduled
      BY <2>3 DEF SaveRename, runVars, slotVars
    <3>3. disk'.state \in (disk.state + 1)..(base + scheduled)
      BY <2>1, <3>1
    <3> QED BY <3>2, <3>3 DEF DS!Next, DS!Save
  <2>4. CASE Crash \/ PowerLoss
    <3>1. disk.durable /\ disk.state # Torn
      BY <1>2 DEF IInv, FileInv, DiskIsWhole
    <3>2. disk' = disk /\ base' = disk.state /\ scheduled' = 0
      BY <2>4, <3>1 DEF Crash, PowerLoss, Boot, AfterPowerLoss
    <3>3. base' + scheduled' = disk.state
      BY <2>1, <3>2
    <3> QED BY <3>2, <3>3 DEF DS!Next, DS!Crash
  <2>5. CASE ~Schedule /\ ~SaveRename /\ ~Crash /\ ~PowerLoss
    <3>1. UNCHANGED <<base, scheduled, disk>>
      BY <1>2, <2>5 DEF vars, Next, Ripen, Close, FlushNothing, Flush, FlushWakes, Worker,
         WorkerTake, WorkerSleep, WorkerReturn, WorkerTimeout, SaveWrite, SaveSync,
         WorkerAck, Spurious, SaveFails, WorkerPanic, slotVars, fileVars, runVars
    <3> QED BY <3>1
  <2> QED BY <2>2, <2>3, <2>4, <2>5
<1> QED BY <1>1, <1>2, Invariance, PTL DEF Spec, ImplementsDurableState, DS!Spec

-----------------------------------------------------------------------------
(* What is the user's: the lines of AGENTS.md.                             *)

\* A set of natural numbers that is not empty has a least element.
LEMMA Least ==
    ASSUME NEW T, T \subseteq Nat, T # {}
    PROVE  \E x \in T : \A y \in T : x <= y
<1> DEFINE Less == OpToRel(<, Nat)
<1>1. IsWellFoundedOn(Less, Nat)
  BY NatLessThanWellFounded DEF OpToRel
<1>2. \A x, y \in Nat : <<x, y>> \in Less <=> x < y
  BY DEF OpToRel
<1> HIDE DEF Less
<1>3. PICK x \in T : \A y \in T : ~(<<y, x>> \in Less)
  BY <1>1, WFMin
<1>4. \A y \in T : ~(y < x)
  BY <1>2, <1>3
<1> QED BY <1>4

\* A bounded one has a greatest element.
LEMMA Greatest ==
    ASSUME NEW n \in Nat, NEW T, T \subseteq 0..n, T # {}
    PROVE  \E x \in T : \A y \in T : y <= x
<1> DEFINE U == {n - x : x \in T}
<1>0. \A x \in T : n - x \in Nat
  OBVIOUS
<1>1. U \subseteq Nat /\ U # {}
  BY <1>0
<1>2. PICK u \in U : \A y \in U : u <= y
  BY <1>1, Least
<1>3. PICK x \in T : u = n - x
  BY <1>2
<1>4. \A y \in T : n - x <= n - y
  BY <1>2, <1>3
<1> QED BY <1>4

\* Induction, over a set in the place of a predicate.
LEMMA Induction ==
    ASSUME NEW S, 0 \in S, \A n \in Nat : n \in S => n + 1 \in S
    PROVE  Nat \subseteq S
<1> SUFFICES ASSUME Nat \ S # {} PROVE FALSE
  OBVIOUS
<1>1. PICK x \in Nat \ S : \A y \in Nat \ S : x <= y
  BY Least
<1>2. x - 1 \in Nat /\ x - 1 < x
  BY <1>1
<1>3. x - 1 \in S
  BY <1>1, <1>2
<1>4. (x - 1) + 1 \in S
  BY <1>2, <1>3
<1> QED BY <1>1, <1>4

\* What holds of the empty sequence and, with a sequence, of one longer by an
\* element, holds of all.
LEMMA SeqInduction ==
    ASSUME NEW E, NEW P, <<>> \in P,
           \A q \in Seq(E), x \in E : q \in P => Append(q, x) \in P
    PROVE  Seq(E) \subseteq P
<1> DEFINE S == {n \in Nat : \A q \in Seq(E) : Len(q) = n => q \in P}
<1>1. 0 \in S
  <2>1. \A q \in Seq(E) : Len(q) = 0 => q = <<>>
    OBVIOUS
  <2> QED BY <2>1
<1>2. ASSUME NEW n \in Nat, n \in S PROVE n + 1 \in S
  <2> SUFFICES ASSUME NEW q \in Seq(E), Len(q) = n + 1 PROVE q \in P
    BY <1>2
  <2> DEFINE r == SubSeq(q, 1, n)
             x == q[n + 1]
  <2>1. r \in Seq(E) /\ Len(r) = n /\ x \in E
    OBVIOUS
  <2>2. q = Append(r, x)
    OBVIOUS
  <2>3. r \in P
    BY <1>2, <2>1
  <2> HIDE DEF r, x
  <2> QED BY <2>1, <2>2, <2>3
<1>3. Nat \subseteq S
  <2> HIDE DEF S
  <2> QED BY <1>1, <1>2, Induction
<1> SUFFICES ASSUME NEW q \in Seq(E) PROVE q \in P
  OBVIOUS
<1>4. Len(q) \in Nat
  OBVIOUS
<1> QED BY <1>3, <1>4

-----------------------------------------------------------------------------
(* Folds.  FoldLeft is a function on the subsets of the indices; step is   *)
(* the operation at each index.                                            *)

\* The greatest index of a set that has the last one.
LEMMA MaxOf ==
    ASSUME NEW k \in Nat, NEW s \in SUBSET (1..k), k \in s
    PROVE  Max(s) = k
<1>1. \E x \in s : \A y \in s : x >= y
  OBVIOUS
<1> DEFINE m == Max(s)
<1>2. m \in s /\ \A y \in s : m >= y
  BY <1>1 DEF Max
<1> HIDE DEF m
<1>3. m \in Nat /\ m <= k /\ m >= k
  BY <1>2
<1> QED BY <1>3 DEF m

\* The greatest index of a set is one of them.
LEMMA MaxIn ==
    ASSUME NEW n \in Nat, NEW s \in SUBSET (1..n), s # {}
    PROVE  Max(s) \in s
<1>0. s \subseteq 0..n
  OBVIOUS
<1>1. PICK x \in s : \A y \in s : y <= x
  BY <1>0, Greatest
<1>2. \E z \in s : \A y \in s : z >= y
  BY <1>1
<1> QED BY <1>2 DEF Max

\* A fold over sets of indices, from the greatest down.
IsFold(h, n, seed, step) ==
    \A s \in SUBSET (1..n) :
      h[s] = IF s = {} THEN seed ELSE step[<<Max(s), h[s \ {Max(s)}]>>]

\* There is such a fold for every operation.
LEMMA FoldExists ==
    ASSUME NEW n \in Nat, NEW T, NEW seed \in T, NEW step \in [(1..n) \X T -> T]
    PROVE  \E h \in [SUBSET (1..n) -> T] : IsFold(h, n, seed, step)
<1> DEFINE S == {k \in Nat : k <= n => \E h \in [SUBSET (1..k) -> T] : IsFold(h, k, seed, step)}
<1>1. 0 \in S
  <2> DEFINE h == [s \in SUBSET (1..0) |-> seed]
  <2>1. h \in [SUBSET (1..0) -> T] /\ SUBSET (1..0) = {{}}
    OBVIOUS
  <2>2. IsFold(h, 0, seed, step)
    BY <2>1 DEF IsFold
  <2> QED BY <2>1, <2>2
<1>2. ASSUME NEW k \in Nat, k \in S PROVE k + 1 \in S
  <2>0. k + 1 \in Nat
    OBVIOUS
  <2> SUFFICES ASSUME k + 1 <= n
               PROVE  \E h \in [SUBSET (1..(k + 1)) -> T] : IsFold(h, k + 1, seed, step)
    BY <2>0, Zenon
  <2>1. k <= n
    OBVIOUS
  <2>2. PICK g \in [SUBSET (1..k) -> T] : IsFold(g, k, seed, step)
    BY <1>2, <2>1
  <2> DEFINE h == [s \in SUBSET (1..(k + 1)) |-> IF k + 1 \in s THEN step[<<k + 1, g[s \ {k + 1}]>>] ELSE g[s]]
  <2>3. ASSUME NEW s \in SUBSET (1..(k + 1)) PROVE s \ {k + 1} \in SUBSET (1..k)
    BY <2>3
  <2>4. ASSUME NEW s \in SUBSET (1..(k + 1)), k + 1 \notin s PROVE s \in SUBSET (1..k)
    BY <2>4
  <2>5. h \in [SUBSET (1..(k + 1)) -> T]
    <3> SUFFICES ASSUME NEW s \in SUBSET (1..(k + 1)) 
                 PROVE (IF k + 1 \in s THEN step[<<k + 1, g[s \ {k + 1}]>>] ELSE g[s]) \in T
      BY Zenon
    <3>1. CASE k + 1 \in s
      <4>1. g[s \ {k + 1}] \in T /\ k + 1 \in 1..n
        BY <2>3
      <4> QED BY <3>1, <4>1
    <3>2. CASE k + 1 \notin s
      BY <2>4, <3>2
    <3> QED BY <3>1, <3>2
  <2>6. ASSUME NEW s \in SUBSET (1..(k + 1)) PROVE h[s] = IF s = {} THEN seed ELSE step[<<Max(s), h[s \ {Max(s)}]>>]
    <3>1. CASE k + 1 \in s
      <4>1. Max(s) = k + 1
        BY <3>1, MaxOf
      <4> DEFINE r == s \ {k + 1}
      <4>2. r \in SUBSET (1..k) /\ k + 1 \notin r /\ r \in SUBSET (1..(k + 1))
        BY <2>3
      <4>3. h[r] = g[r] /\ h[s] = step[<<k + 1, g[r]>>]
        BY <3>1, <4>2
      <4> HIDE DEF h, r
      <4> QED BY <3>1, <4>1, <4>3 DEF r
    <3>2. CASE k + 1 \notin s
      <4>1. s \in SUBSET (1..k) /\ h[s] = g[s]
        BY <2>4, <3>2
      <4>2. g[s] = IF s = {} THEN seed ELSE step[<<Max(s), g[s \ {Max(s)}]>>]
        BY <2>2, <4>1 DEF IsFold
      <4> DEFINE r == s \ {Max(s)}
      <4>3. r \in SUBSET (1..k) /\ r \in SUBSET (1..(k + 1)) /\ k + 1 \notin r
        <5>1. r \subseteq s
          OBVIOUS
        <5> HIDE DEF r
        <5> QED BY <3>2, <4>1, <5>1
      <4>4. h[r] = g[r]
        BY <4>3
      <4> HIDE DEF h
      <4> QED BY <4>1, <4>2, <4>4
    <3> QED BY <3>1, <3>2
  <2> HIDE DEF h
  <2> QED BY <2>5, <2>6 DEF IsFold
<1>3. n \in S
  <2> HIDE DEF S
  <2> QED BY <1>1, <1>2, Induction
<1>4. n <= n
  OBVIOUS
<1> QED BY <1>3, <1>4, Zenon

\* A fold goes over the prefixes one index at a time.
GoesBy(h, n, step) == \A k \in 1..n : h[1..k] = step[<<k, h[1..(k - 1)]>>]

\* A fold over sets of indices does.
LEMMA FoldSteps ==
    ASSUME NEW n \in Nat, NEW h, NEW seed, NEW step, IsFold(h, n, seed, step)
    PROVE  GoesBy(h, n, step)
<1> SUFFICES ASSUME NEW k \in 1..n PROVE h[1..k] = step[<<k, h[1..(k - 1)]>>]
  BY Zenon DEF GoesBy
<1>1. 1..k \in SUBSET (1..n) /\ k \in 1..k /\ Max(1..k) = k /\ (1..k) \ {k} = 1..(k - 1)
  <2>1. Max(1..k) = k
    BY MaxOf
  <2> QED BY <2>1
<1>3. h[1..k] = IF 1..k = {} THEN seed ELSE step[<<Max(1..k), h[(1..k) \ {Max(1..k)}]>>]
  BY <1>1, Zenon DEF IsFold
<1>4. h[1..k] = step[<<k, h[1..(k - 1)]>>]
  BY <1>1, <1>3, Zenon
<1> QED BY <1>4

\* Two tables that agree at the start and go on alike agree at the end.
LEMMA Agree ==
    ASSUME NEW n \in Nat, NEW f, NEW g, f[0] = g[0],
           \A k \in 1..n : f[k - 1] = g[k - 1] => f[k] = g[k]
    PROVE  f[n] = g[n]
<1> DEFINE S == {k \in Nat : k <= n => f[k] = g[k]}
<1>1. 0 \in S
  OBVIOUS
<1>2. ASSUME NEW k \in Nat, k \in S PROVE k + 1 \in S
  <2>0. k + 1 \in Nat
    OBVIOUS
  <2> SUFFICES ASSUME k + 1 <= n PROVE f[k + 1] = g[k + 1]
    BY <2>0, Zenon
  <2>1. k + 1 \in 1..n /\ (k + 1) - 1 = k /\ k <= n
    OBVIOUS
  <2>2. f[k] = g[k]
    BY <1>2, <2>1
  <2> QED BY <2>1, <2>2
<1>3. n \in S
  <2> HIDE DEF S
  <2> QED BY <1>1, <1>2, Induction
<1>4. n <= n
  OBVIOUS
<1> QED BY <1>3, <1>4, Zenon

\* c folds what it is known to have typed so far.
Folds(c, n, T, seed, step) ==
    /\ c[{}] = seed
    /\ \A s \in SUBSET (1..n) : s # {} =>
          (c[s \ {Max(s)}] \in T => c[s] = step[<<Max(s), c[s \ {Max(s)}]>>])

\* A fold as a table over the prefixes.
IsTable(f, n, T, seed, step, last) ==
    /\ f \in [0..n -> T] /\ f[0] = seed /\ f[n] = last
    /\ \A k \in 1..n : f[k] = step[<<k, f[k - 1]>>]

\* The fold by subsets, as a table over the prefixes.
LEMMA FoldTable ==
    ASSUME NEW n \in Nat, NEW T, NEW seed \in T, NEW step \in [(1..n) \X T -> T],
           NEW c, Folds(c, n, T, seed, step)
    PROVE  \E f : IsTable(f, n, T, seed, step, c[1..n])
<1>1. PICK h \in [SUBSET (1..n) -> T] : IsFold(h, n, seed, step)
  BY FoldExists
<1>a. GoesBy(h, n, step)
  BY <1>1, FoldSteps
<1> DEFINE f == [k \in 0..n |-> h[1..k]]
           g == [k \in 0..n |-> c[1..k]]
<1>0. \A k \in 0..n : 1..k \in SUBSET (1..n)
  OBVIOUS
<1>2. f \in [0..n -> T]
  BY <1>0, <1>1
<1>3. f[0] = seed /\ g[0] = seed
  <2>1. 1..0 = {} /\ {} \in SUBSET (1..n) /\ 0 \in 0..n
    OBVIOUS
  <2>2. h[{}] = seed
    BY <1>1, <2>1 DEF IsFold
  <2> QED BY <2>1, <2>2 DEF Folds
<1>4. ASSUME NEW k \in 1..n
      PROVE  f[k] = step[<<k, f[k - 1]>>] /\ (g[k - 1] \in T => g[k] = step[<<k, g[k - 1]>>])
  <2>1. k \in 0..n /\ k - 1 \in 0..n /\ k \in Nat
    OBVIOUS
  <2>2. h[1..k] = step[<<k, h[1..(k - 1)]>>]
    BY <1>a DEF GoesBy
  <2>3. f[k] = step[<<k, f[k - 1]>>]
    BY <2>1, <2>2
  <2>4. 1..k \in SUBSET (1..n) /\ k \in 1..k /\ 1..k # {} /\ (1..k) \ {k} = 1..(k - 1)
    OBVIOUS
  <2>5. Max(1..k) = k
    <3>1. \A s \in SUBSET (1..k) : k \in s => Max(s) = k
      BY <2>1, MaxOf
    <3> QED BY <2>4, <3>1
  <2>6. c[(1..k) \ {Max(1..k)}] \in T => c[1..k] = step[<<Max(1..k), c[(1..k) \ {Max(1..k)}]>>]
    BY <2>4, Zenon DEF Folds
  <2>7. c[1..(k - 1)] \in T => c[1..k] = step[<<k, c[1..(k - 1)]>>]
    BY <2>4, <2>5, <2>6, Zenon
  <2>8. g[k] = c[1..k] /\ g[k - 1] = c[1..(k - 1)]
    BY <2>1
  <2> HIDE DEF f, g
  <2> QED BY <2>3, <2>7, <2>8
<1>5. f[n] = g[n]
  <2>1. f[0] = g[0]
    BY <1>3
  <2>2. ASSUME NEW k \in 1..n, f[k - 1] = g[k - 1] PROVE f[k] = g[k]
    <3>1. k - 1 \in 0..n
      OBVIOUS
    <3>2. f[k - 1] \in T
      BY <1>2, <3>1
    <3> HIDE DEF f, g
    <3> QED BY <1>4, <2>2, <3>2
  <2> HIDE DEF f, g
  <2> QED BY <2>1, <2>2, Agree
<1>6. g[n] = c[1..n] /\ f[0] = seed
  BY <1>3
<1>7. \A k \in 1..n : f[k] = step[<<k, f[k - 1]>>]
  BY <1>4
<1> HIDE DEF f, g
<1> QED BY <1>2, <1>5, <1>6, <1>7 DEF IsTable

\* The same for an operation that takes the elements of a sequence.
Solves(h, n, T, op, seed, q) ==
    /\ h \in [SUBSET (1..n) -> T]
    /\ \A s \in SUBSET (1..n) :
          h[s] = IF s = {} THEN seed ELSE op[<<h[s \ {Max(s)}], q[Max(s)]>>]

\* The value a recursive definition names follows the operation.
Follows(c, n, T, op, seed, q) ==
    /\ c[{}] = seed
    /\ \A s \in SUBSET (1..n) : s # {} =>
          (c[s \ {Max(s)}] \in T => c[s] = op[<<c[s \ {Max(s)}], q[Max(s)]>>])

\* What folding the operation op over q, from seed, comes to.
IsFoldOf(v, T, op, seed, q) ==
    \E f \in [0..Len(q) -> T] :
      /\ f[0] = seed /\ f[Len(q)] = v
      /\ \A k \in 1..Len(q) : f[k] = op[<<f[k - 1], q[k]>>]

\* The recursive definition of a fold has a solution.
LEMMA FoldSolves ==
    ASSUME NEW T, NEW E, NEW op \in [T \X E -> T], NEW seed \in T, NEW q \in Seq(E),
           NEW n, n = Len(q)
    PROVE  \E h : Solves(h, n, T, op, seed, q)
<1> DEFINE step == [p \in (1..n) \X T |-> op[<<p[2], q[p[1]]>>]]
<1>1. n \in Nat /\ \A k \in 1..n : q[k] \in E
  OBVIOUS
<1>2. step \in [(1..n) \X T -> T]
  BY <1>1
<1>3. PICK h \in [SUBSET (1..n) -> T] : IsFold(h, n, seed, step)
  <2> HIDE DEF step
  <2> QED BY <1>1, <1>2, FoldExists
<1>4. ASSUME NEW s \in SUBSET (1..n)
      PROVE  h[s] = IF s = {} THEN seed ELSE op[<<h[s \ {Max(s)}], q[Max(s)]>>]
  <2>1. h[s] = IF s = {} THEN seed ELSE step[<<Max(s), h[s \ {Max(s)}]>>]
    <3> HIDE DEF step
    <3> QED BY <1>3 DEF IsFold
  <2>2. CASE s # {}
    <3>1. Max(s) \in 1..n /\ s \ {Max(s)} \in SUBSET (1..n)
      BY <1>1, <2>2, MaxIn
    <3>2. h[s \ {Max(s)}] \in T
      BY <1>3, <3>1
    <3>3. step[<<Max(s), h[s \ {Max(s)}]>>] = op[<<h[s \ {Max(s)}], q[Max(s)]>>]
      BY <3>1, <3>2
    <3> HIDE DEF step
    <3> QED BY <2>1, <2>2, <3>3
  <2> HIDE DEF step
  <2> QED BY <2>1, <2>2
<1> HIDE DEF step
<1> QED BY <1>3, <1>4 DEF Solves

\* Whatever follows the operation is the fold of the sequence.
LEMMA FoldFollows ==
    ASSUME NEW T, NEW E, NEW op \in [T \X E -> T], NEW seed \in T, NEW q \in Seq(E),
           NEW n, n = Len(q), NEW c, Follows(c, n, T, op, seed, q)
    PROVE  IsFoldOf(c[1..n], T, op, seed, q)
<1> DEFINE step == [p \in (1..n) \X T |-> op[<<p[2], q[p[1]]>>]]
<1>1. n \in Nat /\ \A k \in 1..n : q[k] \in E
  OBVIOUS
<1>2. step \in [(1..n) \X T -> T]
  BY <1>1
<1>3. ASSUME NEW s \in SUBSET (1..n), s # {}, c[s \ {Max(s)}] \in T
      PROVE  c[s] = step[<<Max(s), c[s \ {Max(s)}]>>]
  <2>1. Max(s) \in 1..n
    BY <1>1, <1>3, MaxIn
  <2>2. c[s] = op[<<c[s \ {Max(s)}], q[Max(s)]>>]
    BY <1>3, Zenon DEF Follows
  <2> QED BY <1>3, <2>1, <2>2
<1>4. Folds(c, n, T, seed, step)
  <2> HIDE DEF step
  <2>1. c[{}] = seed
    BY DEF Follows
  <2> QED BY <1>3, <2>1, Zenon DEF Folds
<1>5. PICK f : IsTable(f, n, T, seed, step, c[1..n])
  <2> HIDE DEF step
  <2> QED BY <1>1, <1>2, <1>4, FoldTable, Zenon
<1>6. /\ f \in [0..n -> T] /\ f[0] = seed /\ f[n] = c[1..n]
      /\ \A k \in 1..n : f[k] = step[<<k, f[k - 1]>>]
  <2> HIDE DEF step
  <2> QED BY <1>5 DEF IsTable
<1>7. ASSUME NEW k \in 1..n PROVE f[k] = op[<<f[k - 1], q[k]>>]
  <2>1. k - 1 \in 0..n /\ f[k] = step[<<k, f[k - 1]>>]
    <3> HIDE DEF step
    <3> QED BY <1>1, <1>6
  <2>2. f[k - 1] \in T
    BY <1>6, <2>1
  <2> QED BY <2>1, <2>2
<1> HIDE DEF step
<1> QED BY <1>6, <1>7 DEF IsFoldOf

\* A fold over nothing is where it began.
LEMMA FoldNil ==
    ASSUME NEW T, NEW op, NEW seed, NEW v, IsFoldOf(v, T, op, seed, <<>>)
    PROVE  v = seed
<1>1. Len(<<>>) = 0
  OBVIOUS
<1> QED BY <1>1 DEF IsFoldOf

\* r is q and one element more.
Longer(r, q, b) ==
    Len(q) \in Nat /\ Len(r) = Len(q) + 1 /\ r[Len(q) + 1] = b /\ \A k \in 1..Len(q) : r[k] = q[k]

\* A fold over one more element is one more step.
LEMMA FoldSnoc ==
    ASSUME NEW T, NEW op, NEW seed, NEW q, NEW r, NEW b, Longer(r, q, b),
           NEW v, NEW w, IsFoldOf(v, T, op, seed, q), IsFoldOf(w, T, op, seed, r)
    PROVE  v \in T /\ w = op[<<v, b>>]
<1> DEFINE n == Len(q)
<1>1. n \in Nat /\ Len(r) = n + 1 /\ r[n + 1] = b /\ \A k \in 1..n : r[k] = q[k]
  BY DEF Longer
<1>2. PICK f \in [0..n -> T] : /\ f[0] = seed /\ f[n] = v
                               /\ \A k \in 1..n : f[k] = op[<<f[k - 1], q[k]>>]
  BY DEF IsFoldOf
<1>3. PICK g \in [0..Len(r) -> T] : /\ g[0] = seed /\ g[Len(r)] = w
                                    /\ \A k \in 1..Len(r) : g[k] = op[<<g[k - 1], r[k]>>]
  BY DEF IsFoldOf
<1> HIDE DEF n
<1>4. ASSUME NEW k \in 1..n, f[k - 1] = g[k - 1] PROVE f[k] = g[k]
  <2>1. k \in 1..Len(r)
    BY <1>1
  <2> QED BY <1>1, <1>2, <1>3, <1>4, <2>1
<1>5. f[n] = g[n]
  <2>1. f[0] = g[0] /\ \A k \in 1..n : f[k - 1] = g[k - 1] => f[k] = g[k]
    BY <1>2, <1>3, <1>4, Zenon
  <2> QED BY <1>1, <2>1, Agree, Zenon
<1>6. g[n + 1] = op[<<g[(n + 1) - 1], r[n + 1]>>] /\ (n + 1) - 1 = n
  BY <1>1, <1>3
<1>7. n \in 0..n
  BY <1>1
<1> QED BY <1>1, <1>2, <1>3, <1>5, <1>6, <1>7

-----------------------------------------------------------------------------
(* awk, line by line.                                                      *)

\* What awk has printed, and whether it goes on to; the user's lines.
AwkStates == [skip : BOOLEAN, out : Seq(AgentsLines)]
AwkOver(a, lines) == FoldLeft(Awk, a, lines)
Users(u, lines) == FoldLeft(UserLine, u, lines)

\* A line leaves something printed.
LEMMA AwkTyped ==
  ASSUME NEW a \in AwkStates, NEW l \in AgentsLines
  PROVE  Awk(a, l) \in AwkStates
<1>1. a.skip \in BOOLEAN /\ a.out \in Seq(AgentsLines) /\ a = [skip |-> a.skip, out |-> a.out]
  BY DEF AwkStates
<1>2. ASSUME NEW b \in BOOLEAN PROVE [a EXCEPT !.skip = b] \in AwkStates
  BY DEF AwkStates
<1>3. Append(a.out, l) \in Seq(AgentsLines)
  BY <1>1
<1>4. ASSUME NEW o \in Seq(AgentsLines) PROVE [a EXCEPT !.out = o] \in AwkStates
  BY DEF AwkStates
<1> QED BY <1>2, <1>3, <1>4 DEF Awk

\* A line leaves lines of the user.
LEMMA UserLineTyped ==
  ASSUME NEW u \in Seq(AgentsLines), NEW l \in AgentsLines
  PROVE  UserLine(u, l) \in Seq(AgentsLines)
BY DEF UserLine

AwkOf == [p \in AwkStates \X AgentsLines |-> Awk(p[1], p[2])]

\* AwkStates lines is a fold.
LEMMA AwkFolds ==
    ASSUME NEW a \in AwkStates, NEW q \in Seq(AgentsLines)
    PROVE  IsFoldOf(AwkOver(a, q), AwkStates, AwkOf, a, q) /\ a \in AwkStates
<1> DEFINE n == Len(q)
           seed == a
           op == AwkOf
           Rec(c) == c = [r \in SUBSET (1..n) |-> IF r = {} THEN seed ELSE Awk(c[r \ {Max(r)}], q[Max(r)])]
           it == CHOOSE c : Rec(c)
<1>1. n \in Nat /\ DOMAIN q = 1..n /\ (\A k \in 1..n : q[k] \in AgentsLines)
  OBVIOUS
<1>2. seed \in AwkStates
  OBVIOUS
<1>3. op \in [AwkStates \X AgentsLines -> AwkStates] /\ \A v \in AwkStates, x \in AgentsLines : op[<<v, x>>] = Awk(v, x)
  BY AwkTyped DEF AwkOf
<1> HIDE DEF op
<1>4. PICK h : Solves(h, n, AwkStates, op, seed, q)
  <2> HIDE DEF n, seed
  <2> QED BY <1>2, <1>3, FoldSolves DEF n
<1>5. ASSUME NEW r \in SUBSET (1..n), r # {} PROVE Max(r) \in 1..n /\ r \ {Max(r)} \in SUBSET (1..n)
  BY <1>1, <1>5, MaxIn
<1>6. Rec(h)
  <2>0. h \in [SUBSET (1..n) -> AwkStates]
    BY <1>4 DEF Solves
  <2>1. ASSUME NEW r \in SUBSET (1..n) PROVE h[r] = IF r = {} THEN seed ELSE Awk(h[r \ {Max(r)}], q[Max(r)])
    <3>1. h[r] = IF r = {} THEN seed ELSE op[<<h[r \ {Max(r)}], q[Max(r)]>>]
      BY <1>4 DEF Solves
    <3>2. CASE r # {}
      <4>1. h[r \ {Max(r)}] \in AwkStates /\ q[Max(r)] \in AgentsLines
        BY <1>1, <1>5, <2>0, <3>2
      <4> HIDE DEF seed, n
      <4> QED BY <1>3, <3>1, <3>2, <4>1
    <3> QED BY <3>1, <3>2
  <2> HIDE DEF seed, n
  <2> QED BY <2>0, <2>1
<1>7. Rec(it)
  <2> HIDE DEF seed, n
  <2> QED BY <1>6
<1>8. AwkOver(a, q) = it[1..n]
  BY <1>1 DEF AwkOver, FoldLeft, MapThenFoldSet
<1> HIDE DEF seed, n, it
<1>9. ASSUME NEW r \in SUBSET (1..n), r # {}, it[r \ {Max(r)}] \in AwkStates
      PROVE  it[r] = op[<<it[r \ {Max(r)}], q[Max(r)]>>]
  <2>1. it[r] = Awk(it[r \ {Max(r)}], q[Max(r)])
    BY <1>7, <1>9
  <2>2. q[Max(r)] \in AgentsLines
    BY <1>1, <1>5, <1>9
  <2> QED BY <1>3, <1>9, <2>1, <2>2, Zenon
<1>10. it[{}] = seed
  BY <1>7
<1>11. Follows(it, n, AwkStates, op, seed, q)
  BY <1>9, <1>10, Zenon DEF Follows
<1>12. IsFoldOf(it[1..n], AwkStates, op, seed, q)
  BY <1>2, <1>3, <1>11, FoldFollows, Zenon DEF n
<1> QED BY <1>2, <1>8, <1>12 DEF seed, op

\* One more line is one more step.
LEMMA AwkSteps ==
    ASSUME NEW a \in AwkStates, NEW q \in Seq(AgentsLines), NEW b \in AgentsLines
    PROVE  /\ AwkOver(a, <<>>) = a
           /\ AwkOver(a, q) \in AwkStates
           /\ AwkOver(a, Append(q, b)) = Awk(AwkOver(a, q), b)
<1> DEFINE qb == Append(q, b)
<1>0. <<>> \in Seq(AgentsLines) /\ qb \in Seq(AgentsLines)
  OBVIOUS
<1>1. IsFoldOf(AwkOver(a, <<>>), AwkStates, AwkOf, a, <<>>)
  BY <1>0, AwkFolds, Zenon
<1>2. IsFoldOf(AwkOver(a, q), AwkStates, AwkOf, a, q)
  BY AwkFolds, Zenon
<1> HIDE DEF qb
<1>3. IsFoldOf(AwkOver(a, qb), AwkStates, AwkOf, a, qb)
  BY <1>0, AwkFolds, Zenon
<1> DEFINE v == AwkOver(a, q)
           w == AwkOver(a, qb)
           op == AwkOf
           seed == a
<1>a. IsFoldOf(v, AwkStates, op, seed, q)
  BY <1>2, Zenon
<1>b. IsFoldOf(w, AwkStates, op, seed, qb) 
  BY <1>3, Zenon
<1>d. Longer(qb, q, b)
  BY DEF Longer, qb
<1> HIDE DEF v, w, op, seed
<1>c. v \in AwkStates /\ w = op[<<v, b>>]
  BY <1>a, <1>b, <1>d, FoldSnoc
<1>4. v \in AwkStates /\ w = AwkOf[<<v, b>>]
  BY <1>c DEF op
<1>5. AwkOf[<<v, b>>] = Awk(v, b)
  BY <1>4 DEF AwkOf
<1>6. AwkOver(a, <<>>) = a
  BY <1>1, FoldNil, Zenon
<1> QED BY <1>4, <1>5, <1>6 DEF v, w, qb

UsersOf == [p \in Seq(AgentsLines) \X AgentsLines |-> UserLine(p[1], p[2])]

\* The lines of the user are a fold.
LEMMA UsersFolds ==
    ASSUME NEW u \in Seq(AgentsLines), NEW q \in Seq(AgentsLines)
    PROVE  IsFoldOf(Users(u, q), Seq(AgentsLines), UsersOf, u, q) /\ u \in Seq(AgentsLines)
<1> DEFINE n == Len(q)
           seed == u
           op == UsersOf
           Rec(c) == c = [r \in SUBSET (1..n) |-> IF r = {} THEN seed ELSE UserLine(c[r \ {Max(r)}], q[Max(r)])]
           it == CHOOSE c : Rec(c)
<1>1. n \in Nat /\ DOMAIN q = 1..n /\ (\A k \in 1..n : q[k] \in AgentsLines)
  OBVIOUS
<1>2. seed \in Seq(AgentsLines)
  OBVIOUS
<1>3. op \in [Seq(AgentsLines) \X AgentsLines -> Seq(AgentsLines)] /\ \A v \in Seq(AgentsLines), x \in AgentsLines : op[<<v, x>>] = UserLine(v, x)
  BY UserLineTyped DEF UsersOf
<1> HIDE DEF op
<1>4. PICK h : Solves(h, n, Seq(AgentsLines), op, seed, q)
  <2> HIDE DEF n, seed
  <2> QED BY <1>2, <1>3, FoldSolves DEF n
<1>5. ASSUME NEW r \in SUBSET (1..n), r # {} PROVE Max(r) \in 1..n /\ r \ {Max(r)} \in SUBSET (1..n)
  BY <1>1, <1>5, MaxIn
<1>6. Rec(h)
  <2>0. h \in [SUBSET (1..n) -> Seq(AgentsLines)]
    BY <1>4 DEF Solves
  <2>1. ASSUME NEW r \in SUBSET (1..n) PROVE h[r] = IF r = {} THEN seed ELSE UserLine(h[r \ {Max(r)}], q[Max(r)])
    <3>1. h[r] = IF r = {} THEN seed ELSE op[<<h[r \ {Max(r)}], q[Max(r)]>>]
      BY <1>4 DEF Solves
    <3>2. CASE r # {}
      <4>1. h[r \ {Max(r)}] \in Seq(AgentsLines) /\ q[Max(r)] \in AgentsLines
        BY <1>1, <1>5, <2>0, <3>2
      <4> HIDE DEF seed, n
      <4> QED BY <1>3, <3>1, <3>2, <4>1
    <3> QED BY <3>1, <3>2
  <2> HIDE DEF seed, n
  <2> QED BY <2>0, <2>1
<1>7. Rec(it)
  <2> HIDE DEF seed, n
  <2> QED BY <1>6
<1>8. Users(u, q) = it[1..n]
  BY <1>1 DEF Users, FoldLeft, MapThenFoldSet
<1> HIDE DEF seed, n, it
<1>9. ASSUME NEW r \in SUBSET (1..n), r # {}, it[r \ {Max(r)}] \in Seq(AgentsLines)
      PROVE  it[r] = op[<<it[r \ {Max(r)}], q[Max(r)]>>]
  <2>1. it[r] = UserLine(it[r \ {Max(r)}], q[Max(r)])
    BY <1>7, <1>9
  <2>2. q[Max(r)] \in AgentsLines
    BY <1>1, <1>5, <1>9
  <2> QED BY <1>3, <1>9, <2>1, <2>2, Zenon
<1>10. it[{}] = seed
  BY <1>7
<1>11. Follows(it, n, Seq(AgentsLines), op, seed, q)
  BY <1>9, <1>10, Zenon DEF Follows
<1>12. IsFoldOf(it[1..n], Seq(AgentsLines), op, seed, q)
  BY <1>2, <1>3, <1>11, FoldFollows, Zenon DEF n
<1> QED BY <1>2, <1>8, <1>12 DEF seed, op

\* One more line is one more step.
LEMMA UsersSteps ==
    ASSUME NEW u \in Seq(AgentsLines), NEW q \in Seq(AgentsLines), NEW b \in AgentsLines
    PROVE  /\ Users(u, <<>>) = u
           /\ Users(u, q) \in Seq(AgentsLines)
           /\ Users(u, Append(q, b)) = UserLine(Users(u, q), b)
<1> DEFINE qb == Append(q, b)
<1>0. <<>> \in Seq(AgentsLines) /\ qb \in Seq(AgentsLines)
  OBVIOUS
<1>1. IsFoldOf(Users(u, <<>>), Seq(AgentsLines), UsersOf, u, <<>>)
  BY <1>0, UsersFolds, Zenon
<1>2. IsFoldOf(Users(u, q), Seq(AgentsLines), UsersOf, u, q)
  BY UsersFolds, Zenon
<1> HIDE DEF qb
<1>3. IsFoldOf(Users(u, qb), Seq(AgentsLines), UsersOf, u, qb)
  BY <1>0, UsersFolds, Zenon
<1> DEFINE v == Users(u, q)
           w == Users(u, qb)
           op == UsersOf
           seed == u
<1>a. IsFoldOf(v, Seq(AgentsLines), op, seed, q)
  BY <1>2, Zenon
<1>b. IsFoldOf(w, Seq(AgentsLines), op, seed, qb) 
  BY <1>3, Zenon
<1>d. Longer(qb, q, b)
  BY DEF Longer, qb
<1> HIDE DEF v, w, op, seed
<1>c. v \in Seq(AgentsLines) /\ w = op[<<v, b>>]
  BY <1>a, <1>b, <1>d, FoldSnoc
<1>4. v \in Seq(AgentsLines) /\ w = UsersOf[<<v, b>>]
  BY <1>c DEF op
<1>5. UsersOf[<<v, b>>] = UserLine(v, b)
  BY <1>4 DEF UsersOf
<1>6. Users(u, <<>>) = u
  BY <1>1, FoldNil, Zenon
<1> QED BY <1>4, <1>5, <1>6 DEF v, w, qb

\* With one more line.
LEMMA UserLinesSteps ==
  ASSUME NEW q \in Seq(AgentsLines), NEW l \in AgentsLines
  PROVE  /\ UserLines(<<>>) = <<>>
         /\ UserLines(q) \in Seq(AgentsLines)
         /\ UserLines(Append(q, l)) = IF l = "user" THEN Append(UserLines(q), l) ELSE UserLines(q)
<1> DEFINE u == <<>>
<1>1. u \in Seq(AgentsLines)
  OBVIOUS
<1>2. \A s : UserLines(s) = Users(u, s)
  BY DEF UserLines, Users
<1> HIDE DEF u
<1>3. /\ Users(u, <<>>) = u /\ Users(u, q) \in Seq(AgentsLines)
      /\ Users(u, Append(q, l)) = UserLine(Users(u, q), l)
  BY <1>1, UsersSteps, Zenon
<1>4. /\ UserLines(<<>>) = u /\ UserLines(q) \in Seq(AgentsLines)
      /\ UserLines(Append(q, l)) = UserLine(UserLines(q), l)
  BY <1>2, <1>3, Zenon
<1> QED BY <1>4 DEF UserLine, u

\* With one more line.
LEMMA PrintedSteps ==
  ASSUME NEW q \in Seq(AgentsLines), NEW l \in AgentsLines
  PROVE  /\ Printed(<<>>) = [skip |-> FALSE, out |-> <<>>]
         /\ Printed(q) \in AwkStates
         /\ Printed(Append(q, l)) = Awk(Printed(q), l)
<1> DEFINE a == [skip |-> FALSE, out |-> <<>>]
<1>1. a \in AwkStates
  BY DEF AwkStates
<1>2. \A s : Printed(s) = AwkOver(a, s)
  BY DEF Printed, AwkOver
<1> HIDE DEF a
<1>3. /\ AwkOver(a, <<>>) = a /\ AwkOver(a, q) \in AwkStates
      /\ AwkOver(a, Append(q, l)) = Awk(AwkOver(a, q), l)
  BY <1>1, AwkSteps, Zenon
<1> QED BY <1>2, <1>3, Zenon DEF a

\* A block is open after the lines q.
Open(q) == \E j \in 1..Len(q) : q[j] = "begin" /\ \A k \in (j + 1)..Len(q) : q[k] # "end"

\* What awk has printed of tidy lines: all of the user's, and no marker.
IsPrinted(q) ==
  /\ Tidy(q) => UserLines(Printed(q).out) = UserLines(q)
  /\ Printed(q).skip => Open(q)
  /\ \A i \in 1..Len(Printed(q).out) : Printed(q).out[i] # "begin"

\* Tidy lines are tidy without the last one.
LEMMA TidyFront ==
  ASSUME NEW q \in Seq(AgentsLines), NEW l \in AgentsLines, Tidy(Append(q, l))
  PROVE  Tidy(q) /\ (l = "user" => ~Open(q))
<1> DEFINE r == Append(q, l)
           n == Len(q)
<1>1. n \in Nat /\ Len(r) = n + 1 /\ r[n + 1] = l /\ DOMAIN q = 1..n /\ DOMAIN r = 1..(n + 1)
  OBVIOUS
<1>2. \A k \in 1..n : r[k] = q[k]
  OBVIOUS
<1>3. \A i \in 1..(n + 1) : r[i] = "user" =>
        \A j \in 1..(i - 1) : r[j] = "begin" => \E k \in (j + 1)..(i - 1) : r[k] = "end"
  BY <1>1 DEF Tidy
<1> HIDE DEF r, n
<1>4. Tidy(q)
  <2> SUFFICES ASSUME NEW i \in 1..n, q[i] = "user", NEW j \in 1..(i - 1), q[j] = "begin"
               PROVE  \E k \in (j + 1)..(i - 1) : q[k] = "end"
    BY <1>1 DEF Tidy
  <2>1. i \in 1..(n + 1) /\ j \in 1..n /\ r[i] = "user" /\ r[j] = "begin"
    BY <1>1, <1>2
  <2>2. PICK k \in (j + 1)..(i - 1) : r[k] = "end"
    BY <1>3, <2>1
  <2>3. k \in 1..n
    BY <1>1, <2>1
  <2> QED BY <1>2, <2>2, <2>3
<1>5. ASSUME l = "user", NEW j \in 1..n, q[j] = "begin" PROVE \E k \in (j + 1)..n : q[k] = "end"
  <2>1. n + 1 \in 1..(n + 1) /\ (n + 1) - 1 = n /\ r[n + 1] = "user" /\ r[j] = "begin"
    BY <1>1, <1>2, <1>5
  <2>2. PICK k \in (j + 1)..n : r[k] = "end"
    BY <1>3, <2>1
  <2>3. k \in 1..n
    BY <1>1
  <2> QED BY <1>2, <2>2, <2>3
<1> QED BY <1>4, <1>5 DEF Open, n

\* An open block stays open until its end, and a line that begins one opens it.
LEMMA OpenOn ==
  ASSUME NEW q \in Seq(AgentsLines), NEW l \in AgentsLines, l # "end", Open(q) \/ l = "begin"
  PROVE  Open(Append(q, l))
<1> DEFINE r == Append(q, l)
           n == Len(q)
<1>1. n \in Nat /\ Len(r) = n + 1 /\ r[n + 1] = l /\ \A k \in 1..n : r[k] = q[k]
  OBVIOUS
<1> HIDE DEF r
<1>2. CASE l = "begin"
  <2>1. n + 1 \in 1..Len(r) /\ r[n + 1] = "begin" /\ \A k \in ((n + 1) + 1)..Len(r) : r[k] # "end"
    BY <1>1, <1>2
  <2> QED BY <2>1 DEF Open, r
<1>3. CASE Open(q)
  <2>1. PICK j \in 1..n : q[j] = "begin" /\ \A k \in (j + 1)..n : q[k] # "end"
    BY <1>3 DEF Open
  <2>2. j \in 1..Len(r) /\ r[j] = "begin"
    BY <1>1, <2>1
  <2>3. ASSUME NEW k \in (j + 1)..Len(r) PROVE r[k] # "end"
    <3>1. k = n + 1 \/ k \in (j + 1)..n
      BY <1>1, <2>1
    <3>2. k \in (j + 1)..n => k \in 1..n
      BY <1>1, <2>1
    <3> QED BY <1>1, <2>1, <3>1, <3>2
  <2> QED BY <2>2, <2>3 DEF Open, r
<1> QED BY <1>2, <1>3

\* One more line is printed as it should be.
LEMMA IsPrintedOn ==
  ASSUME NEW q \in Seq(AgentsLines), NEW l \in AgentsLines, IsPrinted(q)
  PROVE  IsPrinted(Append(q, l))
<1> DEFINE r == Append(q, l)
           p == Printed(q)
           out == p.out
<1>1. p \in AwkStates /\ Printed(r) = Awk(p, l)
  BY PrintedSteps, Zenon
<1>2. out \in Seq(AgentsLines) /\ p.skip \in BOOLEAN
  BY <1>1 DEF AwkStates
<1>3. UserLines(r) = IF l = "user" THEN Append(UserLines(q), l) ELSE UserLines(q)
  BY UserLinesSteps, Zenon
<1>4. UserLines(Append(out, l)) = IF l = "user" THEN Append(UserLines(out), l) ELSE UserLines(out)
  BY <1>2, UserLinesSteps, Zenon
<1>5. Tidy(r) => Tidy(q) /\ (l = "user" => ~Open(q))
  BY TidyFront, Zenon
<1>6. l # "end" /\ (Open(q) \/ l = "begin") => Open(r)
  BY OpenOn, Zenon
<1>7. /\ Tidy(q) => UserLines(out) = UserLines(q)
      /\ p.skip => Open(q)
      /\ \A i \in 1..Len(out) : out[i] # "begin"
  BY DEF IsPrinted
<1>8. CASE l \in {"begin", "end"}
  <2>1. Printed(r).out = out /\ (Printed(r).skip => l = "begin")
    BY <1>1, <1>8 DEF Awk, AwkStates
  <2> HIDE DEF r, p, out
  <2>2. l # "user" /\ (l = "begin" => l # "end")
    BY <1>8
  <2>3. Tidy(r) => UserLines(Printed(r).out) = UserLines(r)
    BY <1>3, <1>5, <1>7, <2>1, <2>2, Zenon
  <2>4. Printed(r).skip => Open(r)
    BY <1>6, <2>1, <2>2, Zenon
  <2>5. \A i \in 1..Len(Printed(r).out) : Printed(r).out[i] # "begin"
    BY <1>7, <2>1, Zenon
  <2>6. IsPrinted(r)
    BY <2>3, <2>4, <2>5, Zenon DEF IsPrinted
  <2> QED BY <2>6 DEF r
<1>9. CASE l \notin {"begin", "end"} /\ p.skip
  <2>1. Printed(r) = p
    BY <1>1, <1>9 DEF Awk
  <2> HIDE DEF r, p
  <2>2. Tidy(r) => UserLines(out) = UserLines(r)
    BY <1>3, <1>5, <1>7, <1>9, Zenon
  <2>3. l # "end"
    BY <1>9
  <2>4. p.skip => Open(r)
    BY <1>6, <1>7, <2>3, Zenon
  <2>5. Printed(r).out = out /\ Printed(r).skip = p.skip
    BY <2>1
  <2> HIDE DEF out
  <2>6. IsPrinted(r)
    BY <1>7, <2>2, <2>4, <2>5, Zenon DEF IsPrinted
  <2> QED BY <2>6 DEF r
<1>10. CASE l \notin {"begin", "end"} /\ ~p.skip
  <2>1. Printed(r).out = Append(out, l) /\ ~Printed(r).skip
    BY <1>1, <1>10 DEF Awk, AwkStates
  <2>2. \A i \in 1..Len(Append(out, l)) : Append(out, l)[i] # "begin"
    <3> HIDE DEF out
    <3>1. Len(Append(out, l)) = Len(out) + 1 /\ Append(out, l)[Len(out) + 1] = l
      BY <1>2
    <3>2. \A i \in 1..Len(out) : Append(out, l)[i] = out[i]
      BY <1>2
    <3>3. \A i \in 1..(Len(out) + 1) : i \in 1..Len(out) \/ i = Len(out) + 1
      BY <1>2
    <3>4. l # "begin"
      BY <1>10
    <3> QED BY <1>7, <3>1, <3>2, <3>3, <3>4
  <2> HIDE DEF r, p, out
  <2>3. Tidy(r) => UserLines(Printed(r).out) = UserLines(r)
    <3>1. CASE l = "user"
      BY <1>3, <1>4, <1>5, <1>7, <2>1, <3>1, Zenon
    <3>2. CASE l # "user"
      BY <1>3, <1>4, <1>5, <1>7, <2>1, <3>2, Zenon
    <3> QED BY <3>1, <3>2
  <2>4. \A i \in 1..Len(Printed(r).out) : Printed(r).out[i] # "begin"
    BY <2>1, <2>2, Zenon
  <2>5. IsPrinted(r)
    BY <2>1, <2>3, <2>4, Zenon DEF IsPrinted
  <2> QED BY <2>5 DEF r
<1> QED BY <1>8, <1>9, <1>10

\* So it is of all lines.
LEMMA PrintedIs ==
  ASSUME NEW lines \in Seq(AgentsLines)
  PROVE  IsPrinted(lines)
<1> DEFINE P == {q \in Seq(AgentsLines) : IsPrinted(q)}
<1>1. <<>> \in P
  <2>1. <<>> \in Seq(AgentsLines) /\ "user" \in AgentsLines
    BY DEF AgentsLines
  <2>2. Printed(<<>>) = [skip |-> FALSE, out |-> <<>>] /\ UserLines(<<>>) = <<>>
    BY <2>1, PrintedSteps, UserLinesSteps, Zenon
  <2>3. Printed(<<>>).out = <<>> /\ ~Printed(<<>>).skip /\ Len(<<>>) = 0
    BY <2>2
  <2>4. \A i \in 1..Len(Printed(<<>>).out) : Printed(<<>>).out[i] # "begin"
    BY <2>3
  <2>5. UserLines(Printed(<<>>).out) = UserLines(<<>>)
    BY <2>3, Zenon
  <2>6. IsPrinted(<<>>)
    BY <2>3, <2>4, <2>5, Zenon DEF IsPrinted
  <2> QED BY <2>1, <2>6
<1>2. ASSUME NEW q \in Seq(AgentsLines), NEW l \in AgentsLines, q \in P
      PROVE  Append(q, l) \in P
  <2>1. Append(q, l) \in Seq(AgentsLines)
    OBVIOUS
  <2>2. IsPrinted(Append(q, l))
    BY <1>2, IsPrintedOn
  <2> QED BY <2>1, <2>2
<1>3. Seq(AgentsLines) \subseteq P
  <2> HIDE DEF P
  <2> QED BY <1>1, <1>2, SeqInduction, Zenon
<1> QED BY <1>3

\* The block that a setup writes costs the user no line, and leaves them tidy.
\* What awk prints of tidy lines is tidy, and costs the user no line.
LEMMA PrintedTidy ==
  ASSUME NEW q \in Seq(AgentsLines)
  PROVE  /\ Printed(q).out \in Seq(AgentsLines) /\ Tidy(Printed(q).out)
         /\ Tidy(q) => UserLines(Printed(q).out) = UserLines(q)
<1> DEFINE o == Printed(q).out
<1>1. "user" \in AgentsLines
  BY DEF AgentsLines
<1>2. Printed(q) \in AwkStates
  BY <1>1, PrintedSteps
<1>3. o \in Seq(AgentsLines)
  BY <1>2 DEF AwkStates
<1>4. (Tidy(q) => UserLines(o) = UserLines(q)) /\ \A i \in 1..Len(o) : o[i] # "begin"
  BY PrintedIs, Zenon DEF IsPrinted
<1> HIDE DEF o
<1>5. Tidy(o)
  <2> SUFFICES ASSUME NEW i \in DOMAIN o, NEW j \in 1..(i - 1), o[j] = "begin"
               PROVE  FALSE
    BY DEF Tidy
  <2>1. DOMAIN o = 1..Len(o) /\ Len(o) \in Nat
    BY <1>3
  <2>2. j \in 1..Len(o)
    BY <2>1
  <2> QED BY <1>4, <2>2
<1> QED BY <1>3, <1>4, <1>5 DEF o

\* Nor does the block that is appended to them.
LEMMA BlockedTidy ==
  ASSUME NEW o \in Seq(AgentsLines)
  PROVE  /\ Blocked(o) \in Seq(AgentsLines) /\ UserLines(Blocked(o)) = UserLines(o)
         /\ Tidy(o) => Tidy(Blocked(o))
<1> DEFINE r == Blocked(o)
<1>0. {"user", "begin", "block", "end"} = AgentsLines
  BY DEF AgentsLines
<1>3. r = Append(Append(Append(o, "begin"), "block"), "end") /\ r \in Seq(AgentsLines)
  BY <1>0 DEF Blocked
<1>4. UserLines(r) = UserLines(o)
  <2> DEFINE a == Append(o, "begin")
             b == Append(a, "block")
  <2>1. a \in Seq(AgentsLines) /\ b \in Seq(AgentsLines) /\ r = Append(b, "end")
    BY <1>0, <1>3
  <2>2. UserLines(a) = UserLines(o)
    BY <1>0, UserLinesSteps
  <2> HIDE DEF a
  <2>3. UserLines(b) = UserLines(a)
    BY <1>0, <2>1, UserLinesSteps
  <2> HIDE DEF b, r
  <2>4. UserLines(r) = UserLines(b)
    BY <1>0, <2>1, UserLinesSteps
  <2> QED BY <2>2, <2>3, <2>4
<1>5. ASSUME Tidy(o) PROVE Tidy(r)
  <2>1. Len(o) \in Nat /\ DOMAIN r = 1..(Len(o) + 3) /\ DOMAIN o = 1..Len(o)
    BY DEF Blocked
  <2>2. \A i \in 1..Len(o) : r[i] = o[i]
    BY DEF Blocked
  <2>3. r[Len(o) + 1] = "begin" /\ r[Len(o) + 2] = "block" /\ r[Len(o) + 3] = "end"
    BY DEF Blocked
  <2> HIDE DEF r
  <2> SUFFICES ASSUME NEW i \in 1..(Len(o) + 3), r[i] = "user", NEW j \in 1..(i - 1), r[j] = "begin"
               PROVE  \E k \in (j + 1)..(i - 1) : r[k] = "end"
    BY <2>1 DEF Tidy
  <2>4. i \in 1..Len(o) \/ i = Len(o) + 1 \/ i = Len(o) + 2 \/ i = Len(o) + 3
    BY <2>1
  <2>5. i \in 1..Len(o)
    BY <2>3, <2>4
  <2>6. j \in 1..Len(o) /\ \A k \in (j + 1)..(i - 1) : k \in 1..Len(o)
    BY <2>1, <2>5
  <2>7. o[i] = "user" /\ o[j] = "begin"
    BY <2>2, <2>5, <2>6
  <2>8. PICK k \in (j + 1)..(i - 1) : o[k] = "end"
    BY <1>5, <2>1, <2>5, <2>7 DEF Tidy
  <2> QED BY <2>2, <2>6, <2>8
<1> HIDE DEF r
<1> QED BY <1>3, <1>4, <1>5 DEF r

-----------------------------------------------------------------------------
(* The setup of a distro.                                                  *)

Script == [at : Places, v : Versions, i : Files, handle : {"tmp", "place", "gone"},
           read : Hooks, out : CodexKinds, raced : BOOLEAN]

\* One claim, one script.
Claims == launched <= 1 /\ ("D" \notin claimed => launched = 0)

AtMostOne(h) == \A e \in Events : \A a, b \in h[e] \intersect Mast : a = b
AllWired(h) == \A e \in Events : Wired(h[e])

\* No event has two hooks of ours, in place, beside it or in a script's hand.
Single ==
  /\ AtMostOne(settings.hooks) /\ AtMostOne(settingsTmp.hooks)
  /\ \A s \in Scripts : AtMostOne(script[s].read)

\* Versions only grow.
Ahead == \A v \in markers : v <= version
Versioned == \A s \in Scripts : Running(s) => V(s) <= version /\ (At(s, "start") => I(s) = 1)

\* The files a script has moved in place.
Moved(r) ==
  IF r.at \in Installing THEN {f \in Files : f < r.i}
  ELSE IF r.at \in {"none", "start"} THEN {} ELSE Files

\* What the one script that runs relies on: what it has written is what it
\* wrote, in the files it installs, ...
FilesMine(s) ==
  /\ \A v \in markers : v <= script[s].v
  /\ \A f \in Moved(script[s]) : file[f] = script[s].v
  /\ script[s].at = "write" => script[s].handle = "tmp"
  /\ script[s].at = "move" => fileTmp[script[s].i] = script[s].v

\* ... in the settings, which are what it has read, unless the user saved them, ...
Settings == {"openSettings", "dump", "replace"}
PastHooks == Places \ (Installing \union Settings \union {"none", "start", "merge"})
SettingsMine(s) ==
  /\ script[s].at \in Settings => settings.text = "json" /\ (~script[s].raced => settings.hooks = script[s].read)
  /\ script[s].at = "dump" => script[s].handle = "tmp"
  /\ script[s].at = "replace" => settingsTmp = Json(Merged(script[s].read))
  /\ script[s].at \in PastHooks => AllWired(settings.hooks)

\* ... in Codex's configuration ...
Codex == {"openCodex", "writeCodex", "replaceCodex"}
CodexMine(s) ==
  /\ script[s].at \in Codex => /\ script[s].out \in {"ours", "spliced"}
                               /\ ~script[s].raced => script[s].out \in Rewritten(codex)
  /\ script[s].at = "writeCodex" => script[s].handle = "tmp"
  /\ script[s].at = "replaceCodex" => codexTmp = script[s].out

\* ... and beside AGENTS.md, where the user's lines are those in place.
Copies(s, lines) == Tidy(lines) /\ (~script[s].raced => UserLines(lines) = UserLines(agents))
AgentsMine(s) ==
  /\ script[s].at \in Splicing => script[s].handle = "tmp"
  /\ script[s].at \in {"openNew", "cat", "add"} => Copies(s, agentsTmp.lines)
  /\ script[s].at = "refresh" => Copies(s, agentsNew.lines)

\* The one script that runs.
Mine(s) == FilesMine(s) /\ SettingsMine(s) /\ CodexMine(s) /\ AgentsMine(s)
Alone ==
  ~overlapped =>
    /\ \A s, t \in Scripts : Running(s) /\ Running(t) => s = t
    /\ \A s \in Scripts : Running(s) => Mine(s)

\* What is in place is whole, and no older than any marker.
Whole ==
  ~overlapped =>
    /\ \A f \in Files : file[f] # Half /\ \A v \in markers : file[f] >= v
    /\ markers # {} => AllWired(settings.hooks)
    /\ settings.text \in {"json", "broken"} /\ codex # "cut" /\ Tidy(agents)

SetupInv == SetupTypeOK /\ Claims /\ Single /\ Ahead /\ Versioned /\ Alone /\ Whole
-----------------------------------------------------------------------------
\* Versions, files and what a file may hold, as numbers.
LEMMA Numbers ==
  /\ Versions \subseteq Nat /\ Files \subseteq Nat /\ Half \in Nat /\ NFiles \in Files /\ 1 \in Files /\ 1 \in Versions
  /\ \A v \in Versions : v \in 0..Half /\ v # Half
  /\ 0..Half \subseteq Nat /\ Half \in 0..Half /\ Absent \in 0..Half
  /\ \A i \in Files : i # NFiles => i + 1 \in Files
  /\ \A i, f \in Files : f < i + 1 <=> f < i \/ f = i
  /\ \A f \in Files : ~(f < 1) /\ (f < NFiles \/ f = NFiles)
BY BoundsAssumption DEF Versions, Files, Half, Absent

\* Texts and kinds of a file are typed.
LEMMA TextsTyped ==
  /\ NoHooks \in Hooks /\ Cut \in JsonTexts /\ NoText \in JsonTexts /\ \A h \in Hooks : Json(h) \in JsonTexts
  /\ \A c \in CodexKinds : Rewritten(c) \subseteq CodexKinds \intersect {"ours", "spliced"}
  /\ {"cut", "absent", "users", "ours"} \subseteq CodexKinds
  /\ NoLines \in Texts /\ Text(<<>>) \in Texts /\ \A q \in Seq(AgentsLines) : Text(q) \in Texts
BY DEF NoHooks, Hooks, Cut, NoText, JsonTexts, Json, CodexKinds, Rewritten, NoLines, Texts, Text

\* No script, as one.
LEMMA NoScriptTyped == NoScript \in Script /\ NoScript.at = "none" /\ NoScript.i = 1 /\ NoScript.read = NoHooks
BY Numbers, TextsTyped DEF NoScript, Script, Places, CodexKinds

\* A script that has done with the file at hand.
Fresh(p, v) == [NoScript EXCEPT !.at = p, !.v = v]
LEMMA FreshTyped ==
  ASSUME NEW p \in Places, NEW v \in Versions
  PROVE  Fresh(p, v) \in Script /\ Fresh(p, v).at = p /\ Fresh(p, v).v = v /\ Fresh(p, v).i = 1 /\ Fresh(p, v).read = NoHooks
<1> DEFINE a == [NoScript EXCEPT !.at = p]
           b == [a EXCEPT !.v = v]
<1>1. a \in Script /\ a.at = p /\ a.i = 1 /\ a.read = NoHooks
  BY NoScriptTyped DEF Script
<1> HIDE DEF a
<1>2. b \in Script /\ b.at = p /\ b.v = v /\ b.i = 1 /\ b.read = NoHooks
  BY <1>1 DEF Script
<1>3. Fresh(p, v) = b
  BY DEF a, Fresh
<1> HIDE DEF b
<1> QED BY <1>2, <1>3

\* Merging gives every event a hook and none a second one.
LEMMA MergedHooks ==
  ASSUME NEW h \in Hooks, AtMostOne(h)
  PROVE  Merged(h) \in Hooks /\ AtMostOne(Merged(h)) /\ AllWired(Merged(h))
<1>1. ASSUME NEW e \in Events
      PROVE  /\ Merged(h)[e] \subseteq Mast \union {"user"}
             /\ \A a, b \in Merged(h)[e] \intersect Mast : a = b
             /\ Wired(Merged(h)[e])
  <2>1. h[e] \subseteq Mast \union {"user"} /\ \A a, b \in h[e] \intersect Mast : a = b
    BY DEF Hooks, AtMostOne
  <2>2. CASE Wired(h[e])
    <3>1. Merged(h)[e] = Migrated(h[e])
      BY <2>2 DEF Merged
    <3> QED BY <2>1, <2>2, <3>1 DEF Migrated, Wired, Mast
  <2>3. CASE ~Wired(h[e])
    <3>1. Merged(h)[e] = h[e] \union {"ours"}
      BY <2>3 DEF Merged
    <3> QED BY <2>1, <2>3, <3>1 DEF Wired, Mast
  <2> QED BY <2>2, <2>3
<1> QED BY <1>1 DEF Merged, Hooks, AtMostOne, AllWired

\* Merged hooks are hooks, however many an event had.
LEMMA MergedTyped ==
  ASSUME NEW h \in Hooks
  PROVE  Merged(h) \in Hooks
<1>1. ASSUME NEW e \in Events PROVE Merged(h)[e] \subseteq Mast \union {"user"}
  <2>1. h[e] \subseteq Mast \union {"user"}
    BY DEF Hooks
  <2>2. CASE Wired(h[e])
    BY <2>1, <2>2 DEF Merged, Migrated, Mast
  <2>3. CASE ~Wired(h[e])
    BY <2>1, <2>3 DEF Merged, Mast
  <2> QED BY <2>2, <2>3
<1> QED BY <1>1 DEF Merged, Hooks
-----------------------------------------------------------------------------
(* The steps of a script.                                                  *)

\* Two scripts differ in what they have open at most.
Alike(a, b) == a.at = b.at /\ a.v = b.v /\ a.i = b.i /\ a.read = b.read /\ a.out = b.out /\ a.raced = b.raced

\* A step of the script s.
Turned(s) == script' \in [Scripts -> Script] /\ \A t \in Scripts \ {s} : Alike(script'[t], script[t])

\* One script takes on a record.
LEMMA TurnedTo ==
  ASSUME SetupTypeOK, NEW s \in Scripts, NEW r \in Script, script' = [script EXCEPT ![s] = r]
  PROVE  Turned(s) /\ script'[s] = r
BY DEF SetupTypeOK, Script, Turned, Alike

\* It moves to another place.
LEMMA Placed ==
  ASSUME SetupTypeOK, NEW s \in Scripts, NEW place \in Places, To(s, place)
  PROVE  /\ Turned(s) /\ script'[s].at = place /\ script'[s].v = script[s].v /\ script'[s].i = script[s].i
         /\ script'[s].handle = script[s].handle
         /\ script'[s].read = script[s].read /\ script'[s].out = script[s].out /\ script'[s].raced = script[s].raced
<1> DEFINE n == [script[s] EXCEPT !.at = place]
<1>1. script[s] \in Script
  BY DEF SetupTypeOK, Script
<1>2. /\ n \in Script /\ n.at = place /\ n.v = script[s].v /\ n.i = script[s].i
      /\ n.handle = script[s].handle /\ n.read = script[s].read /\ n.out = script[s].out /\ n.raced = script[s].raced
  BY <1>1 DEF Script
<1>3. script' = [script EXCEPT ![s] = n]
  BY DEF To
<1> HIDE DEF n
<1> QED BY <1>2, <1>3, TurnedTo

\* It stops: nothing of it is left.
LEMMA Gone ==
  ASSUME SetupTypeOK, NEW s \in Scripts, Stopped(s)
  PROVE  Turned(s) /\ script'[s].at = "none" /\ script'[s].read = NoHooks
BY NoScriptTyped, TurnedTo DEF Stopped

\* It starts, at the first file and with the version of the launch.
LEMMA Begun ==
  ASSUME SetupTypeOK, NEW s \in Scripts, Start(s)
  PROVE  Turned(s) /\ script'[s].at = "start" /\ script'[s].v = version /\ script'[s].i = 1 /\ script'[s].read = NoHooks
<1>1. version \in Versions /\ "start" \in Places
  BY DEF SetupTypeOK, Places
<1> DEFINE n == Fresh("start", version)
<1>2. script' = [script EXCEPT ![s] = n]
  BY DEF Start, Fresh
<1>3. n \in Script /\ n.at = "start" /\ n.v = version /\ n.i = 1 /\ n.read = NoHooks
  BY <1>1, FreshTyped
<1> HIDE DEF n
<1> QED BY <1>2, <1>3, TurnedTo

\* It has done with the file at hand.
LEMMA Onward ==
  ASSUME SetupTypeOK, NEW s \in Scripts, NEW place \in Places, On(s, place)
  PROVE  Turned(s) /\ script'[s].at = place /\ script'[s].v = script[s].v /\ script'[s].read = NoHooks
<1>1. script[s].v \in Versions
  BY DEF SetupTypeOK
<1> DEFINE n == Fresh(place, script[s].v)
<1>2. script' = [script EXCEPT ![s] = n]
  BY DEF On, Fresh, V
<1>3. n \in Script /\ n.at = place /\ n.v = script[s].v /\ n.read = NoHooks
  BY <1>1, FreshTyped
<1> HIDE DEF n
<1> QED BY <1>2, <1>3, TurnedTo

\* It opens a file to write.
LEMMA Opened ==
  ASSUME SetupTypeOK, NEW s \in Scripts, NEW place \in Places, Opens(s, place)
  PROVE  /\ Turned(s) /\ script'[s].at = place /\ script'[s].v = script[s].v /\ script'[s].i = script[s].i
         /\ script'[s].handle = "tmp"
         /\ script'[s].read = script[s].read /\ script'[s].out = script[s].out /\ script'[s].raced = script[s].raced
<1> DEFINE a == [script[s] EXCEPT !.at = place]
           n == [a EXCEPT !.handle = "tmp"]
<1>1. script[s] \in Script
  BY DEF SetupTypeOK, Script
<1>2. /\ a \in Script /\ a.at = place /\ a.v = script[s].v /\ a.i = script[s].i
      /\ a.read = script[s].read /\ a.out = script[s].out /\ a.raced = script[s].raced
  BY <1>1 DEF Script
<1> HIDE DEF a
<1>3. /\ n \in Script /\ n.at = a.at /\ n.v = a.v /\ n.i = a.i /\ n.handle = "tmp"
      /\ n.read = a.read /\ n.out = a.out /\ n.raced = a.raced
  BY <1>2 DEF Script
<1>4. script' = [script EXCEPT ![s] = n]
  <2>1. script \in [Scripts -> Script]
    BY DEF SetupTypeOK, Script
  <2> QED BY <2>1 DEF Opens, a
<1> HIDE DEF n
<1> QED BY <1>2, <1>3, <1>4, TurnedTo

\* It has read the settings that it will merge.
LEMMA HasRead ==
  ASSUME SetupTypeOK, NEW s \in Scripts, NEW h \in Hooks,
         script' = [script EXCEPT ![s].at = "openSettings", ![s].read = h, ![s].raced = FALSE]
  PROVE  /\ Turned(s) /\ script'[s].at = "openSettings" /\ script'[s].v = script[s].v
         /\ script'[s].read = h /\ ~script'[s].raced
<1> DEFINE a == [script[s] EXCEPT !.at = "openSettings"]
           b == [a EXCEPT !.read = h]
           n == [b EXCEPT !.raced = FALSE]
<1>1. script \in [Scripts -> Script] /\ script[s] \in Script /\ "openSettings" \in Places
  BY DEF SetupTypeOK, Script, Places
<1>2. a \in Script /\ a.at = "openSettings" /\ a.v = script[s].v
  BY <1>1 DEF Script
<1> HIDE DEF a
<1>3. b \in Script /\ b.at = a.at /\ b.v = a.v /\ b.read = h
  BY <1>2 DEF Script
<1> HIDE DEF b
<1>4. n \in Script /\ n.at = b.at /\ n.v = b.v /\ n.read = b.read /\ n.raced = FALSE
  BY <1>3 DEF Script
<1>5. script' = [script EXCEPT ![s] = n]
  BY <1>1 DEF a, b
<1> HIDE DEF n
<1> QED BY <1>2, <1>3, <1>4, <1>5, TurnedTo

\* It has read the configuration, and knows what it will write.
LEMMA HasSpliced ==
  ASSUME SetupTypeOK, NEW s \in Scripts, NEW c \in CodexKinds,
         script' = [script EXCEPT ![s].at = "openCodex", ![s].out = c, ![s].raced = FALSE]
  PROVE  /\ Turned(s) /\ script'[s].at = "openCodex" /\ script'[s].v = script[s].v
         /\ script'[s].read = script[s].read /\ script'[s].out = c /\ ~script'[s].raced
<1> DEFINE a == [script[s] EXCEPT !.at = "openCodex"]
           b == [a EXCEPT !.out = c]
           n == [b EXCEPT !.raced = FALSE]
<1>1. script \in [Scripts -> Script] /\ script[s] \in Script /\ "openCodex" \in Places
  BY DEF SetupTypeOK, Script, Places
<1>2. a \in Script /\ a.at = "openCodex" /\ a.v = script[s].v /\ a.read = script[s].read
  BY <1>1 DEF Script
<1> HIDE DEF a
<1>3. b \in Script /\ b.at = a.at /\ b.v = a.v /\ b.read = a.read /\ b.out = c
  BY <1>2 DEF Script
<1> HIDE DEF b
<1>4. n \in Script /\ n.at = b.at /\ n.v = b.v /\ n.read = b.read /\ n.out = b.out /\ n.raced = FALSE
  BY <1>3 DEF Script
<1>5. script' = [script EXCEPT ![s] = n]
  BY <1>1 DEF a, b
<1> HIDE DEF n
<1> QED BY <1>2, <1>3, <1>4, <1>5, TurnedTo

\* It has read AGENTS.md, and written it beside itself.
LEMMA HasPrinted ==
  ASSUME SetupTypeOK, NEW s \in Scripts, NEW place \in Places,
         script' = [script EXCEPT ![s].at = place, ![s].raced = FALSE]
  PROVE  /\ Turned(s) /\ script'[s].at = place /\ script'[s].v = script[s].v
         /\ script'[s].read = script[s].read /\ ~script'[s].raced
<1> DEFINE a == [script[s] EXCEPT !.at = place]
           n == [a EXCEPT !.raced = FALSE]
<1>1. script \in [Scripts -> Script] /\ script[s] \in Script
  BY DEF SetupTypeOK, Script
<1>2. a \in Script /\ a.at = place /\ a.v = script[s].v /\ a.read = script[s].read
  BY <1>1 DEF Script
<1> HIDE DEF a
<1>3. n \in Script /\ n.at = a.at /\ n.v = a.v /\ n.read = a.read /\ n.raced = FALSE
  BY <1>2 DEF Script
<1>4. script' = [script EXCEPT ![s] = n]
  BY <1>1 DEF a
<1> HIDE DEF n
<1> QED BY <1>2, <1>3, <1>4, TurnedTo

\* It moves a file in place, or removes one: other scripts may notice only by
\* what they have open.
LEMMA Swapped ==
  ASSUME SetupTypeOK, NEW s \in Scripts, NEW r \in Script, NEW M, NEW R,
         \/ script' = [Follow(M, R) EXCEPT ![s] = r]
         \/ script' = [Removed(M) EXCEPT ![s] = r]
  PROVE  Turned(s) /\ script'[s] = r
<1> DEFINE gone(t) == [script[t] EXCEPT !.handle = "gone"]
           place(t) == [script[t] EXCEPT !.handle = "place"]
<1>1. ASSUME NEW t \in Scripts
      PROVE  script[t] \in Script /\ gone(t) \in Script /\ place(t) \in Script
             /\ Alike(script[t], script[t]) /\ Alike(gone(t), script[t]) /\ Alike(place(t), script[t])
  <2>1. script[t] \in Script
    BY DEF SetupTypeOK, Script
  <2> QED BY <2>1 DEF Alike, Script
<1>2. \A t \in Scripts : /\ Follow(M, R)[t] \in {script[t], gone(t), place(t)}
                         /\ Removed(M)[t] \in {script[t], gone(t), place(t)}
  BY DEF Follow, Removed
<1> HIDE DEF gone, place
<1>3. \A t \in Scripts : /\ Follow(M, R)[t] \in Script /\ Alike(Follow(M, R)[t], script[t])
                         /\ Removed(M)[t] \in Script /\ Alike(Removed(M)[t], script[t])
  <2> SUFFICES ASSUME NEW t \in Scripts
               PROVE  /\ Follow(M, R)[t] \in Script /\ Alike(Follow(M, R)[t], script[t])
                      /\ Removed(M)[t] \in Script /\ Alike(Removed(M)[t], script[t])
    OBVIOUS
  <2>1. Follow(M, R)[t] \in {script[t], gone(t), place(t)} /\ Removed(M)[t] \in {script[t], gone(t), place(t)}
    BY <1>2
  <2> QED BY <1>1, <2>1, Zenon
<1>4. \E f : f \in [Scripts -> Script] /\ (\A t \in Scripts : Alike(f[t], script[t])) /\ script' = [f EXCEPT ![s] = r]
  <2>1. Follow(M, R) \in [Scripts -> Script] /\ Removed(M) \in [Scripts -> Script]
    BY <1>3 DEF Follow, Removed
  <2> QED BY <1>3, <2>1
<1> QED BY <1>4 DEF Turned

\* It removes the file it has printed to.
LEMMA Unlinked ==
  ASSUME SetupTypeOK, NEW s \in Scripts, NEW M, script' = [Removed(M) EXCEPT ![s].at = "marker"]
  PROVE  /\ Turned(s) /\ script'[s].at = "marker" /\ script'[s].v = script[s].v /\ script'[s].read = script[s].read
<1> DEFINE q == Removed(M)[s]
           n == [q EXCEPT !.at = "marker"]
<1>1. q \in Script /\ Alike(q, script[s])
  <2> DEFINE g == [script[s] EXCEPT !.handle = "gone"]
  <2>1. script[s] \in Script
    BY DEF SetupTypeOK, Script
  <2>2. g \in Script /\ Alike(g, script[s]) /\ Alike(script[s], script[s])
    BY <2>1 DEF Alike, Script
  <2>3. q = script[s] \/ q = g
    BY DEF Removed
  <2> HIDE DEF g, q
  <2> QED BY <2>1, <2>2, <2>3
<1> HIDE DEF q
<1>2. "marker" \in Places
  BY DEF Places
<1>3. n \in Script /\ n.at = "marker" /\ n.v = q.v /\ n.read = q.read
  BY <1>1, <1>2 DEF Script
<1>4. script' = [Removed(M) EXCEPT ![s] = n]
  BY DEF Removed, q
<1> HIDE DEF n
<1> QED BY <1>1, <1>3, <1>4, Swapped DEF Alike

\* It gives up, and removes what it was writing.
LEMMA GaveUp ==
  ASSUME SetupTypeOK, NEW s \in Scripts, GivesUp(s)
  PROVE  /\ Turned(s) /\ script'[s].at = "none" /\ script'[s].read = NoHooks
         /\ UNCHANGED <<python, file, settings, settingsTmp, codex, codexTmp, agents, markers>>
         /\ fileTmp' \in [Files -> 0..Half]
         /\ agentsTmp' \in {agentsTmp, NoLines} /\ agentsNew' \in {agentsNew, NoLines}
         /\ script[s].at \notin Installing => fileTmp' = fileTmp
         /\ script[s].at \notin Refreshing \union Adding => UNCHANGED <<agentsTmp, agentsNew>>
<1>1. \E M : script' = [Removed(M) EXCEPT ![s] = NoScript]
  BY DEF GivesUp
<1>2. Turned(s) /\ script'[s] = NoScript
  BY <1>1, NoScriptTyped, Swapped
<1>3. fileTmp' \in [Files -> 0..Half]
  BY Numbers DEF GivesUp, SetupTypeOK
<1>4. /\ UNCHANGED <<python, file, settings, settingsTmp, codex, codexTmp, agents, markers>>
      /\ agentsTmp' \in {agentsTmp, NoLines} /\ agentsNew' \in {agentsNew, NoLines}
      /\ script[s].at \notin Installing => fileTmp' = fileTmp
      /\ script[s].at \notin Refreshing \union Adding => UNCHANGED <<agentsTmp, agentsNew>>
  BY DEF GivesUp, settingsVars, codexVars
<1> QED BY <1>2, <1>3, <1>4, NoScriptTyped

\* It has moved a file in place: the next one is at hand, or the settings are.
LEMMA HasMoved ==
  ASSUME SetupTypeOK, NEW s \in Scripts, MoveTmp(s), fileTmp[script[s].i] # Absent
  PROVE  /\ Turned(s) /\ script[s].at = "move" /\ script'[s].v = script[s].v /\ script'[s].read = NoHooks
         /\ IF script[s].i = NFiles THEN script'[s].at = "merge"
            ELSE script'[s].at = "open" /\ script'[s].i = script[s].i + 1
<1> DEFINE n == IF I(s) = NFiles THEN [NoScript EXCEPT !.at = "merge", !.v = V(s)]
                ELSE [NoScript EXCEPT !.at = "open", !.v = V(s), !.i = I(s) + 1]
<1>0. script[s].v \in Versions /\ script[s].i \in Files
  BY DEF SetupTypeOK
<1>1. /\ script[s].at = "move"
      /\ script' = [Follow(Writing(I(s)), Writing(I(s))) EXCEPT ![s] = n]
  BY DEF MoveTmp, At, I
<1>2. CASE script[s].i = NFiles
  <2>1. n = Fresh("merge", script[s].v) /\ "merge" \in Places
    BY <1>2 DEF Fresh, V, I, Places
  <2> HIDE DEF n
  <2>2. n \in Script /\ n.at = "merge" /\ n.v = script[s].v /\ n.read = NoHooks
    BY <1>0, <2>1, FreshTyped
  <2>3. Turned(s) /\ script'[s] = n
    BY <1>1, <2>2, Swapped
  <2> QED BY <1>1, <1>2, <2>2, <2>3
<1>3. CASE script[s].i # NFiles
  <2> DEFINE b == Fresh("open", script[s].v)
             c == [b EXCEPT !.i = script[s].i + 1]
  <2>1. n = c /\ "open" \in Places /\ script[s].i + 1 \in Files
    BY <1>0, <1>3, Numbers DEF Fresh, V, I, Places
  <2>2. n \in Script /\ n.at = "open" /\ n.v = script[s].v /\ n.read = NoHooks /\ n.i = script[s].i + 1
    <3>1. b \in Script /\ b.at = "open" /\ b.v = script[s].v /\ b.read = NoHooks
      BY <1>0, <2>1, FreshTyped
    <3> HIDE DEF b, n
    <3> QED BY <2>1, <3>1 DEF Script
  <2> HIDE DEF n
  <2>3. Turned(s) /\ script'[s] = n
    BY <1>1, <2>2, Swapped
  <2> QED BY <1>1, <1>3, <2>2, <2>3
<1> QED BY <1>2, <1>3

\* Where a script goes from where it is.
Leads(p, q) ==
  \/ p = "start" /\ q = "open"
  \/ p = "open" /\ q = "write"
  \/ p = "write" /\ q = "move"
  \/ p = "move" /\ q \in {"open", "merge"}
  \/ p = "merge" /\ q \in {"openSettings", "codex"}
  \/ p = "openSettings" /\ q = "dump"
  \/ p = "dump" /\ q = "replace"
  \/ p = "replace" /\ q = "codex"
  \/ p = "codex" /\ q \in {"openCodex", "agents"}
  \/ p = "openCodex" /\ q = "writeCodex"
  \/ p = "writeCodex" /\ q = "replaceCodex"
  \/ p = "replaceCodex" /\ q = "agents"
  \/ p = "agents" /\ q \in {"openAwk", "openAdd", "marker"}
  \/ p = "openAwk" /\ q = "awk"
  \/ p = "awk" /\ q = "openNew"
  \/ p = "openNew" /\ q = "cat"
  \/ p = "cat" /\ q = "refresh"
  \/ p = "refresh" /\ q = "remove"
  \/ p = "remove" /\ q = "marker"
  \/ p = "openAdd" /\ q = "append"
  \/ p = "append" /\ q = "add"
  \/ p = "add" /\ q = "marker"

\* A step of a script ends it or takes it on.
Ends(s) == script'[s].at = "none" /\ script'[s].read = NoHooks
Goes(s) ==
  /\ script'[s].v = script[s].v /\ Leads(script[s].at, script'[s].at)
  /\ script'[s].read \in {script[s].read, NoHooks, settings.hooks}

\* While it installs files ...
LEMMA StepsInstalling ==
  ASSUME SetupTypeOK, NEW s \in Scripts,
         CheckMarker(s) \/ OpenTmp(s) \/ WriteTmp(s) \/ MoveTmp(s)
  PROVE  Turned(s) /\ (Ends(s) \/ Goes(s))
<1>0. script[s].v \in Versions /\ script[s].i \in Files
  BY DEF SetupTypeOK
<1>1. CASE Stopped(s)
  BY <1>1, Gone DEF Ends
<1>2. CASE CheckMarker(s) /\ To(s, "open")
  BY <1>2, Placed DEF Goes, Leads, CheckMarker, At, Places
<1>3. CASE OpenTmp(s)
  BY <1>3, Opened DEF Goes, Leads, OpenTmp, At, Places
<1>4. CASE WriteTmp(s)
  BY <1>4, Placed DEF Goes, Leads, WriteTmp, At, Places
<1>5. CASE MoveTmp(s) /\ fileTmp[script[s].i] # Absent
  BY <1>5, HasMoved DEF Goes, Leads
<1> QED BY <1>1, <1>2, <1>3, <1>4, <1>5 DEF CheckMarker, MoveTmp, I

\* ... merges the hooks ...
LEMMA StepsMerging ==
  ASSUME SetupTypeOK, NEW s \in Scripts,
         MergeHooks(s) \/ OpenSettings(s) \/ DumpSettings(s) \/ ReplaceSettings(s)
  PROVE  Turned(s) /\ (Ends(s) \/ Goes(s))
<1>0. script[s].v \in Versions /\ settings.hooks \in Hooks
  BY DEF SetupTypeOK, JsonTexts
<1>1. CASE Stopped(s)
  BY <1>1, Gone DEF Ends
<1>2. CASE MergeHooks(s) /\ On(s, "codex")
  BY <1>2, Onward DEF Goes, Leads, MergeHooks, At, Places
<1>3. CASE MergeHooks(s) /\ script' = [script EXCEPT ![s].at = "openSettings", ![s].read = settings.hooks, ![s].raced = FALSE]
  BY <1>0, <1>3, HasRead DEF Goes, Leads, MergeHooks, At
<1>4. CASE OpenSettings(s)
  BY <1>4, Opened DEF Goes, Leads, OpenSettings, At, Places
<1>5. CASE DumpSettings(s)
  BY <1>5, Placed DEF Goes, Leads, DumpSettings, At, Places
<1>6. CASE ReplaceSettings(s) /\ ~Stopped(s)
  <2> DEFINE n == Fresh("codex", script[s].v)
  <2>1. /\ script[s].at = "replace" /\ "codex" \in Places
        /\ script' = [Follow(Those({"dump"}), Those({"dump"})) EXCEPT ![s] = n]
    BY <1>6 DEF ReplaceSettings, At, Fresh, V, Places
  <2>2. n \in Script /\ n.at = "codex" /\ n.v = script[s].v /\ n.read = NoHooks
    BY <1>0, <2>1, FreshTyped
  <2> HIDE DEF n
  <2>3. Turned(s) /\ script'[s] = n
    BY <2>1, <2>2, Swapped
  <2> QED BY <2>1, <2>2, <2>3 DEF Goes, Leads
<1> QED BY <1>1, <1>2, <1>3, <1>4, <1>5, <1>6 DEF MergeHooks, ReadsHooks

\* ... wires Codex ...
LEMMA StepsNotify ==
  ASSUME SetupTypeOK, NEW s \in Scripts,
         CodexNotify(s) \/ OpenCodex(s) \/ WriteCodex(s) \/ ReplaceCodex(s)
  PROVE  Turned(s) /\ (Ends(s) \/ Goes(s))
<1>0. script[s].v \in Versions /\ codex \in CodexKinds
  BY DEF SetupTypeOK
<1>1. CASE Stopped(s)
  BY <1>1, Gone DEF Ends
<1>2. CASE CodexNotify(s) /\ To(s, "agents")
  BY <1>2, Placed DEF Goes, Leads, CodexNotify, At, Places
<1>3. CASE CodexNotify(s) /\ \E c \in Rewritten(codex) :
             script' = [script EXCEPT ![s].at = "openCodex", ![s].out = c, ![s].raced = FALSE]
  <2>1. PICK c \in CodexKinds : script' = [script EXCEPT ![s].at = "openCodex", ![s].out = c, ![s].raced = FALSE]
    BY <1>0, <1>3, TextsTyped
  <2> QED BY <1>3, <2>1, HasSpliced DEF Goes, Leads, CodexNotify, At
<1>4. CASE OpenCodex(s)
  BY <1>4, Opened DEF Goes, Leads, OpenCodex, At, Places
<1>5. CASE WriteCodex(s)
  BY <1>5, Placed DEF Goes, Leads, WriteCodex, At, Places
<1>6. CASE ReplaceCodex(s) /\ ~Stopped(s)
  <2> DEFINE n == Fresh("agents", script[s].v)
  <2>1. /\ script[s].at = "replaceCodex" /\ "agents" \in Places
        /\ script' = [Follow(Those({"writeCodex"}), Those({"writeCodex"})) EXCEPT ![s] = n]
    BY <1>6 DEF ReplaceCodex, At, Fresh, V, Places
  <2>2. n \in Script /\ n.at = "agents" /\ n.v = script[s].v /\ n.read = NoHooks
    BY <1>0, <2>1, FreshTyped
  <2> HIDE DEF n
  <2>3. Turned(s) /\ script'[s] = n
    BY <2>1, <2>2, Swapped
  <2> QED BY <2>1, <2>2, <2>3 DEF Goes, Leads
<1> QED BY <1>1, <1>2, <1>3, <1>4, <1>5, <1>6 DEF CodexNotify

\* ... and refreshes or adds the block.
LEMMA StepsBlock ==
  ASSUME SetupTypeOK, NEW s \in Scripts,
         \/ AgentsBlock(s) \/ OpenAgents(s, "openAwk", "awk") \/ AwkPrints(s) \/ OpenNew(s) \/ CatNew(s) \/ Refresh(s)
         \/ RemoveTmp(s) \/ OpenAgents(s, "openAdd", "append") \/ CatAll(s) \/ AddBlock(s) \/ Mark(s)
  PROVE  Turned(s) /\ (Ends(s) \/ Goes(s))
<1>0. script[s].v \in Versions
  BY DEF SetupTypeOK
<1>1. CASE Stopped(s)
  BY <1>1, Gone DEF Ends
<1>2. CASE GivesUp(s)
  BY <1>2, GaveUp DEF Ends
<1>3. CASE AgentsBlock(s)
  BY <1>3, Placed, Onward DEF Goes, Leads, AgentsBlock, At, Places
<1>4. CASE OpenAgents(s, "openAwk", "awk")
  BY <1>4, Opened DEF Goes, Leads, OpenAgents, At, Places
<1>5. CASE AwkPrints(s)
  BY <1>5, HasPrinted DEF Goes, Leads, AwkPrints, Prints, At, Places
<1>6. CASE OpenNew(s)
  BY <1>6, Opened DEF Goes, Leads, OpenNew, At, Places
<1>7. CASE CatNew(s)
  BY <1>7, Placed DEF Goes, Leads, CatNew, At, Places
<1>8. CASE Refresh(s) /\ ~GivesUp(s)
  <2> DEFINE n == Fresh("remove", script[s].v)
  <2>1. /\ script[s].at = "refresh" /\ "remove" \in Places
        /\ script' = [Follow(Those({"cat"}), Those(Splicing)) EXCEPT ![s] = n]
    BY <1>8 DEF Refresh, At, Fresh, V, Places
  <2>2. n \in Script /\ n.at = "remove" /\ n.v = script[s].v /\ n.read = NoHooks
    BY <1>0, <2>1, FreshTyped
  <2> HIDE DEF n
  <2>3. Turned(s) /\ script'[s] = n
    BY <2>1, <2>2, Swapped
  <2> QED BY <2>1, <2>2, <2>3 DEF Goes, Leads
<1>9. CASE RemoveTmp(s)
  BY <1>9, Unlinked DEF Goes, Leads, RemoveTmp, At
<1>10. CASE OpenAgents(s, "openAdd", "append")
  BY <1>10, Opened DEF Goes, Leads, OpenAgents, At, Places
<1>11. CASE CatAll(s)
  BY <1>11, HasPrinted DEF Goes, Leads, CatAll, Prints, At, Places
<1>12. CASE AddBlock(s) /\ ~GivesUp(s)
  <2> DEFINE n == Fresh("marker", script[s].v)
  <2>1. /\ script[s].at = "add" /\ "marker" \in Places
        /\ script' = [Follow(Those(Printing), Those(Splicing)) EXCEPT ![s] = n]
    BY <1>12 DEF AddBlock, At, Fresh, V, Places
  <2>2. n \in Script /\ n.at = "marker" /\ n.v = script[s].v /\ n.read = NoHooks
    BY <1>0, <2>1, FreshTyped
  <2> HIDE DEF n
  <2>3. Turned(s) /\ script'[s] = n
    BY <2>1, <2>2, Swapped
  <2> QED BY <2>1, <2>2, <2>3 DEF Goes, Leads
<1> QED BY <1>1, <1>2, <1>3, <1>4, <1>5, <1>6, <1>7, <1>8, <1>9, <1>10, <1>11, <1>12 DEF Mark

\* What the steps at other places leave alone.
LEMMA Touches ==
  ASSUME NEW s \in Scripts, Fails(s) \/ Step(s)
  PROVE  /\ UNCHANGED <<up, version, wsl, asked, claimed, launched, overlapped, python>> /\ Running(s)
         /\ script[s].at \notin Installing => UNCHANGED <<file, fileTmp>>
         /\ script[s].at \notin Settings => UNCHANGED <<settings, settingsTmp>>
         /\ script[s].at \notin Codex => UNCHANGED <<codex, codexTmp>>
         /\ script[s].at \notin Refreshing \union Adding \union {"remove"} => UNCHANGED <<agents, agentsTmp, agentsNew>>
         /\ script[s].at # "marker" => UNCHANGED markers
<1> USE DEF Running, At, Installing, Settings, Codex, Refreshing, Adding, appVars, historyVars, installVars,
            settingsVars, codexVars, agentsVars
<1>1. CASE Fails(s)
  BY <1>1 DEF Fails, GivesUp, distroVars
<1>2. CASE CheckMarker(s) \/ OpenTmp(s) \/ WriteTmp(s) \/ MoveTmp(s)
  BY <1>2 DEF CheckMarker, OpenTmp, WriteTmp, MoveTmp, distroVars
<1>3. CASE MergeHooks(s) \/ OpenSettings(s) \/ DumpSettings(s) \/ ReplaceSettings(s)
  BY <1>3 DEF MergeHooks, OpenSettings, DumpSettings, ReplaceSettings, distroVars
<1>4. CASE CodexNotify(s) \/ OpenCodex(s) \/ WriteCodex(s) \/ ReplaceCodex(s)
  BY <1>4 DEF CodexNotify, OpenCodex, WriteCodex, ReplaceCodex, distroVars
<1>5. CASE AgentsBlock(s) \/ Mark(s) \/ RemoveTmp(s)
  BY <1>5 DEF AgentsBlock, Mark, RemoveTmp, distroVars
<1>6. CASE OpenAgents(s, "openAwk", "awk") \/ OpenAgents(s, "openAdd", "append") \/ OpenNew(s)
  BY <1>6 DEF OpenAgents, OpenNew
<1>7. CASE AwkPrints(s) \/ CatNew(s) \/ CatAll(s)
  BY <1>7 DEF AwkPrints, CatNew, CatAll, Prints
<1>8. CASE Refresh(s) \/ AddBlock(s)
  BY <1>8 DEF Refresh, AddBlock, GivesUp
<1> QED BY <1>1, <1>2, <1>3, <1>4, <1>5, <1>6, <1>7, <1>8 DEF Step

\* Every step of a script.
LEMMA Steps ==
  ASSUME SetupTypeOK, NEW s \in Scripts, Fails(s) \/ Step(s)
  PROVE  Turned(s) /\ (Ends(s) \/ Goes(s))
<1>1. CASE Fails(s)
  BY <1>1, Gone, GaveUp DEF Fails, Ends
<1> QED BY <1>1, StepsInstalling, StepsMerging, StepsNotify, StepsBlock DEF Step

\* The user saves a file: the scripts that have read it have read another.
LEMMA Raced ==
  ASSUME SetupTypeOK, NEW places, Saves(places)
  PROVE  /\ script' \in [Scripts -> Script]
         /\ \A t \in Scripts : /\ script'[t].at = script[t].at /\ script'[t].v = script[t].v
                               /\ script'[t].i = script[t].i /\ script'[t].handle = script[t].handle
                               /\ script'[t].read = script[t].read /\ script'[t].out = script[t].out
                               /\ ~script'[t].raced => ~script[t].raced /\ script[t].at \notin places
<1>1. script' = [t \in Scripts |-> [script[t] EXCEPT !.raced = @ \/ script[t].at \in places]]
  BY DEF Saves
<1>2. ASSUME NEW t \in Scripts, NEW b \in BOOLEAN
      PROVE  LET n == [script[t] EXCEPT !.raced = b]
             IN  /\ n \in Script /\ n.at = script[t].at /\ n.v = script[t].v /\ n.i = script[t].i
                 /\ n.handle = script[t].handle /\ n.read = script[t].read /\ n.out = script[t].out /\ n.raced = b
  <2>1. script[t] \in Script
    BY DEF SetupTypeOK, Script
  <2> QED BY <2>1 DEF Script
<1>3. \A t \in Scripts : (script[t].raced \/ script[t].at \in places) \in BOOLEAN
  OBVIOUS
<1>4. ASSUME NEW t \in Scripts
      PROVE  /\ script'[t] \in Script
             /\ script'[t].at = script[t].at /\ script'[t].v = script[t].v
             /\ script'[t].i = script[t].i /\ script'[t].handle = script[t].handle
             /\ script'[t].read = script[t].read /\ script'[t].out = script[t].out
             /\ script'[t].raced = (script[t].raced \/ script[t].at \in places)
  BY <1>1, <1>2, <1>3
<1>5. script' \in [Scripts -> Script]
  BY <1>1, <1>4
<1> QED BY <1>4, <1>5

\* A text read or typed in AGENTS.md.
LEMMA LinesTyped ==
  ASSUME SetupTypeOK
  PROVE  /\ agentsTmp.lines \in Seq(AgentsLines) /\ agentsNew.lines \in Seq(AgentsLines)
         /\ Printed(agents).out \in Seq(AgentsLines) /\ Blocked(agents) \in Seq(AgentsLines)
         /\ Blocked(agentsTmp.lines) \in Seq(AgentsLines)
<1>1. agentsTmp.lines \in Seq(AgentsLines) /\ agentsNew.lines \in Seq(AgentsLines) /\ agents \in Seq(AgentsLines)
  BY DEF SetupTypeOK, Texts
<1> QED BY <1>1, PrintedTidy, BlockedTidy

\* Everything keeps its type.
LEMMA TypesStep ==
  ASSUME SetupTypeOK, [SetupNext]_setupVars
  PROVE  SetupTypeOK'
<1> DEFINE Rest == <<python, fileTmp, file, settings, settingsTmp, codex, codexTmp, agents, agentsTmp, agentsNew, markers>>
           Bools == up \in BOOLEAN /\ wsl \in BOOLEAN /\ overlapped \in BOOLEAN
           Keys == version \in Versions /\ asked \subseteq Names /\ claimed \subseteq {"D", ""}
           Counts == launched \in Nat /\ failures \in Nat /\ edits \in Nat
           Typed == /\ python \in Pythons /\ markers \subseteq Versions
                    /\ fileTmp \in [Files -> 0..Half] /\ file \in [Files -> 0..Half]
                    /\ settings \in JsonTexts /\ settingsTmp \in JsonTexts /\ codex \in CodexKinds /\ codexTmp \in CodexKinds
                    /\ agents \in Seq(AgentsLines) /\ agentsTmp \in Texts /\ agentsNew \in Texts
<1>0. Bools /\ Keys /\ Counts /\ Typed /\ script \in [Scripts -> Script]
  BY DEF SetupTypeOK, Script
<1>00. Bools' /\ Keys' /\ Counts' /\ Typed' /\ script' \in [Scripts -> Script] => SetupTypeOK'
  BY DEF SetupTypeOK, Script
<1>1. CASE App
  <2>1. UNCHANGED Rest
    BY <1>1 DEF App, Exit, Ask, Launch, Ensure, distroVars, installVars, settingsVars, codexVars, agentsVars
  <2>2. Typed'
    BY <1>0, <2>1
  <2>3. Counts'
    <3>1. launched \in Nat /\ failures \in Nat /\ edits \in Nat
      BY <1>0
    <3>2. CASE Exit \/ Ask
      BY <3>1, <3>2 DEF Exit, Ask, historyVars
    <3>3. ASSUME NEW v \in Versions, NEW w \in BOOLEAN, Launch(v, w) PROVE Counts'
      BY <3>1, <3>3 DEF Launch
    <3>4. ASSUME NEW n \in Names, Ensure(n) PROVE Counts'
      BY <3>1, <3>4 DEF Ensure
    <3> QED BY <1>1, <3>2, <3>3, <3>4 DEF App
  <2>6. Keys'
    <3>1. version \in Versions /\ asked \subseteq Names /\ claimed \subseteq {"D", ""}
      BY <1>0
    <3>2. CASE Exit
      BY <3>1, <3>2 DEF Exit
    <3>3. CASE Ask
      BY <3>1, <3>3 DEF Ask
    <3>4. ASSUME NEW v \in Versions, NEW w \in BOOLEAN, Launch(v, w) PROVE Keys'
      BY <3>1, <3>4 DEF Launch
    <3>5. ASSUME NEW n \in Names, Ensure(n) PROVE Keys'
      BY <3>1, <3>5 DEF Ensure, Key
    <3> QED BY <1>1, <3>2, <3>3, <3>4, <3>5 DEF App
  <2>5. Bools'
    <3>1. CASE Exit \/ Ask
      BY <1>0, <3>1 DEF Exit, Ask, historyVars
    <3>2. ASSUME NEW v \in Versions, NEW w \in BOOLEAN, Launch(v, w) PROVE Bools'
      BY <1>0, <3>2 DEF Launch
    <3>3. ASSUME NEW n \in Names, Ensure(n) PROVE Bools'
      BY <1>0, <3>3 DEF Ensure
    <3> QED BY <1>1, <3>1, <3>2, <3>3 DEF App
  <2>4. script' \in [Scripts -> Script]
    <3>1. script' = script \/ \E s \in Scripts : Start(s)
      BY <1>1 DEF App, Exit, Ask, Launch, Ensure
    <3>2. ASSUME NEW s \in Scripts, Start(s) PROVE script' \in [Scripts -> Script]
      BY <3>2, Begun DEF Turned
    <3> QED BY <1>0, <3>1, <3>2
  <2> QED BY <1>00, <2>2, <2>3, <2>4, <2>5, <2>6
<1>2. CASE User
  <2>1. \E places : Saves(places)
    BY <1>2 DEF User, EditSettings, EditCodex, EditAgents
  <2>2. script' \in [Scripts -> Script]
    BY <2>1, Raced
  <2>3. Counts'
    <3>1. launched \in Nat /\ failures \in Nat /\ edits \in Nat
      BY <1>0
    <3> QED BY <2>1, <3>1 DEF Saves, appVars
  <2>6. Keys'
    BY <1>0, <2>1 DEF Saves, appVars
  <2>5. Bools'
    BY <1>0, <2>1 DEF Saves, appVars
  <2>4. Typed'
    <3>1. UNCHANGED <<python, fileTmp, file, settingsTmp, codexTmp, agentsTmp, agentsNew, markers>>
      BY <2>1 DEF Saves, installVars
    <3>2. CASE \E e \in Events : EditSettings(e)
      <4>1. PICK e \in Events : EditSettings(e)
        BY <3>2
      <4>2. settings' \in JsonTexts /\ UNCHANGED <<codex, agents>>
        BY <1>0, <4>1 DEF EditSettings, JsonTexts, Hooks
      <4> QED BY <1>0, <3>1, <4>2
    <3>3. CASE EditCodex
      BY <1>0, <3>1, <3>3, TextsTyped DEF EditCodex
    <3>4. CASE EditAgents
      <4>0. "user" \in AgentsLines
        BY DEF AgentsLines
      <4>1. agents' \in Seq(AgentsLines) /\ UNCHANGED <<codex, settings>>
        <5>1. agents \in Seq(AgentsLines)
          BY <1>0
        <5> QED BY <3>4, <4>0, <5>1 DEF EditAgents
      <4> QED BY <1>0, <3>1, <4>1
    <3> QED BY <1>2, <3>2, <3>3, <3>4 DEF User
  <2> QED BY <1>00, <2>2, <2>3, <2>4, <2>5, <2>6
<1>3. ASSUME NEW s \in Scripts, Fails(s) \/ Step(s)
      PROVE  SetupTypeOK'
  <2>1. script' \in [Scripts -> Script]
    BY <1>3, Steps DEF Turned
  <2>2. Counts' /\ Keys' /\ Bools'
    <3>1. UNCHANGED <<up, version, wsl, asked, claimed, launched, overlapped>>
      BY <1>3, Touches
    <3>2. failures' \in {failures, failures + 1} /\ edits' = edits
      BY <1>3 DEF Fails, Step, CheckMarker, OpenTmp, WriteTmp, MoveTmp, MergeHooks, OpenSettings, DumpSettings,
         ReplaceSettings, CodexNotify, OpenCodex, WriteCodex, ReplaceCodex, AgentsBlock, OpenAgents, AwkPrints, CatAll,
         Prints, OpenNew, CatNew, Refresh, RemoveTmp, AddBlock, Mark, historyVars
    <3>3. Keys' /\ Bools'
      BY <1>0, <3>1
    <3>4. launched \in Nat /\ failures \in Nat /\ edits \in Nat
      BY <1>0
    <3>5. Counts'
      BY <3>1, <3>2, <3>4
    <3> QED BY <3>3, <3>5
  <2>3. CASE GivesUp(s) \/ UNCHANGED distroVars
    <3>1. ASSUME GivesUp(s) PROVE Typed'
      <4>1. agentsTmp' \in Texts /\ agentsNew' \in Texts
        BY <1>0, <3>1, GaveUp, TextsTyped
      <4> QED BY <1>0, <3>1, <4>1, GaveUp
    <3>2. ASSUME UNCHANGED distroVars PROVE Typed'
      BY <1>0, <3>2 DEF distroVars, installVars, settingsVars, codexVars, agentsVars
    <3> QED BY <1>00, <2>1, <2>2, <2>3, <3>1, <3>2
  <2>4. CASE OpenTmp(s) \/ WriteTmp(s) \/ MoveTmp(s)
    <3>1. /\ script[s].v \in 0..Half /\ script[s].i \in Files
      BY <1>0, Numbers DEF Script
    <3>2. file' \in [Files -> 0..Half] /\ fileTmp' \in [Files -> 0..Half]
      <4>1. CASE OpenTmp(s)
        BY <1>0, <4>1, Numbers DEF OpenTmp
      <4>2. CASE WriteTmp(s)
        <5>1. file[I(s)] \in 0..Half /\ fileTmp[I(s)] \in 0..Half /\ V(s) \in 0..Half
          BY <1>0, <3>1 DEF I, V
        <5> QED BY <1>0, <4>2, <5>1 DEF WriteTmp, Beside, InPlace
      <4>3. CASE MoveTmp(s)
        <5>1. fileTmp[I(s)] \in 0..Half /\ Absent \in 0..Half
          BY <1>0, <3>1, Numbers DEF I
        <5> QED BY <1>0, <4>3, <5>1 DEF MoveTmp, installVars
      <4> QED BY <2>4, <4>1, <4>2, <4>3
    <3>3. UNCHANGED <<python, settings, settingsTmp, codex, codexTmp, agents, agentsTmp, agentsNew, markers>>
      BY <2>4 DEF OpenTmp, WriteTmp, MoveTmp, settingsVars, codexVars, agentsVars
    <3> QED BY <1>0, <1>00, <2>1, <2>2, <3>2, <3>3
  <2>5. CASE OpenSettings(s) \/ DumpSettings(s) \/ ReplaceSettings(s)
    <3>1. Json(Merged(script[s].read)) \in JsonTexts
      <4>1. script[s].read \in Hooks
        BY <1>0 DEF Script
      <4> QED BY <4>1, MergedTyped, TextsTyped
    <3>2. settings' \in JsonTexts /\ settingsTmp' \in JsonTexts
      BY <1>0, <2>5, <3>1, TextsTyped DEF OpenSettings, DumpSettings, ReplaceSettings, Beside, InPlace, settingsVars
    <3>3. UNCHANGED <<python, file, fileTmp, codex, codexTmp, agents, agentsTmp, agentsNew, markers>>
      BY <2>5 DEF OpenSettings, DumpSettings, ReplaceSettings, installVars, codexVars, agentsVars
    <3> QED BY <1>0, <1>00, <2>1, <2>2, <3>2, <3>3
  <2>6. CASE OpenCodex(s) \/ WriteCodex(s) \/ ReplaceCodex(s)
    <3>1. script[s].out \in CodexKinds
      BY <1>0 DEF Script
    <3>2. codex' \in CodexKinds /\ codexTmp' \in CodexKinds
      BY <1>0, <2>6, <3>1, TextsTyped DEF OpenCodex, WriteCodex, ReplaceCodex, Beside, InPlace, codexVars
    <3>3. UNCHANGED <<python, file, fileTmp, settings, settingsTmp, agents, agentsTmp, agentsNew, markers>>
      BY <2>6 DEF OpenCodex, WriteCodex, ReplaceCodex, installVars, settingsVars, agentsVars
    <3> QED BY <1>0, <1>00, <2>1, <2>2, <3>2, <3>3
  <2>7. CASE /\ ~GivesUp(s)
             /\ \/ OpenAgents(s, "openAwk", "awk") \/ AwkPrints(s) \/ OpenNew(s) \/ CatNew(s) \/ Refresh(s)
                \/ RemoveTmp(s) \/ OpenAgents(s, "openAdd", "append") \/ CatAll(s) \/ AddBlock(s)
    <3>1. agents' \in Seq(AgentsLines) /\ agentsTmp' \in Texts /\ agentsNew' \in Texts
      <4>1. CASE OpenAgents(s, "openAwk", "awk") \/ OpenAgents(s, "openAdd", "append") \/ OpenNew(s) \/ RemoveTmp(s)
        BY <1>0, <4>1, TextsTyped DEF OpenAgents, OpenNew, RemoveTmp
      <4>2. CASE AwkPrints(s) \/ CatAll(s) \/ CatNew(s)
        <5> DEFINE out == Printed(agents).out
                   all == Blocked(agents)
                   new == Blocked(agentsTmp.lines)
        <5>1. out \in Seq(AgentsLines) /\ all \in Seq(AgentsLines) /\ new \in Seq(AgentsLines)
          BY LinesTyped
        <5>2. \/ Prints(s, "awk", out, "openNew") \/ Prints(s, "append", all, "add")
              \/ /\ agentsTmp' = agentsTmp
                 /\ agentsNew' = Beside(s, agentsNew, Text(new)) /\ agents' = InPlace(s, agents, new)
          BY <4>2 DEF AwkPrints, CatAll, CatNew
        <5> HIDE DEF out, all, new
        <5> QED BY <1>0, <5>1, <5>2, TextsTyped DEF Prints, Beside, InPlace
      <4>3. CASE ~GivesUp(s) /\ (Refresh(s) \/ AddBlock(s))
        BY <1>0, <4>3, LinesTyped, TextsTyped DEF Refresh, AddBlock
      <4> QED BY <2>7, <4>1, <4>2, <4>3
    <3>2. UNCHANGED <<python, file, fileTmp, settings, settingsTmp, codex, codexTmp, markers>>
      BY <2>7 DEF OpenAgents, AwkPrints, OpenNew, CatNew, Refresh, RemoveTmp, CatAll, AddBlock, Prints, installVars,
         settingsVars, codexVars
    <3> QED BY <1>0, <1>00, <2>1, <2>2, <3>1, <3>2
  <2>8. CASE Mark(s)
    <3>1. script[s].v \in Versions
      BY <1>0 DEF Script
    <3>2. Typed'
      BY <1>0, <2>8, <3>1 DEF Mark, V, installVars, settingsVars, codexVars, agentsVars
    <3> QED BY <1>00, <2>1, <2>2, <3>2
  <2>9. CASE CheckMarker(s) \/ MergeHooks(s) \/ CodexNotify(s) \/ AgentsBlock(s)
    BY <2>3, <2>9 DEF CheckMarker, MergeHooks, CodexNotify, AgentsBlock
  <2>10. CASE Fails(s)
    BY <2>3, <2>10 DEF Fails
  <2> QED BY <1>3, <2>3, <2>4, <2>5, <2>6, <2>7, <2>8, <2>9, <2>10 DEF Step
<1>4. CASE UNCHANGED setupVars
  BY <1>4 DEF SetupTypeOK, setupVars, appVars, distroVars, historyVars, installVars, settingsVars, codexVars, agentsVars
<1> QED BY <1>1, <1>2, <1>3, <1>4 DEF SetupNext
-----------------------------------------------------------------------------
\* The invariant holds of every distro before the first launch.
LEMMA SetupInitInv == SetupInit => SetupInv
<1> SUFFICES ASSUME SetupInit PROVE SetupInv
  OBVIOUS
<1>1. PICK d \in Distros : python = d.python /\ settings = d.settings /\ codex = d.codex /\ agents = d.agents
  BY DEF SetupInit
<1>2. /\ python \in Pythons /\ settings \in JsonTexts /\ codex \in CodexKinds
      /\ settings.text \in {"json", "broken"} /\ AtMostOne(settings.hooks) /\ codex # "cut"
  BY <1>1, DistrosAssumption DEF AtMostOne
<1>3. agents \in Seq(AgentsLines) /\ Tidy(agents)
  BY <1>1, AgentsAssumption
<1>4. \A s \in Scripts : script[s] = NoScript /\ ~Running(s)
  BY NoScriptTyped DEF SetupInit, Running
<1>5. AtMostOne(NoHooks)
  BY DEF AtMostOne, NoHooks
<1>6. script \in [Scripts -> Script]
  BY NoScriptTyped DEF SetupInit
<1>7. SetupTypeOK
  <2>1. fileTmp \in [Files -> 0..Half] /\ file \in [Files -> 0..Half] /\ version \in Versions
    BY Numbers DEF SetupInit
  <2>2. settingsTmp \in JsonTexts /\ codexTmp \in CodexKinds /\ agentsTmp \in Texts /\ agentsNew \in Texts
    BY TextsTyped DEF SetupInit
  <2>3. /\ markers \subseteq Versions /\ asked \subseteq Names /\ claimed \subseteq {"D", ""}
        /\ {launched, failures, edits} \subseteq Nat
    BY DEF SetupInit
  <2>5. {up, wsl, overlapped} \subseteq BOOLEAN
    BY DEF SetupInit
  <2>4. {settings, settingsTmp} \subseteq JsonTexts /\ {codex, codexTmp} \subseteq CodexKinds /\ {agentsTmp, agentsNew} \subseteq Texts
    BY <1>2, <2>2
  <2> QED BY <1>2, <1>3, <1>6, <2>1, <2>3, <2>4, <2>5 DEF SetupTypeOK, Script
<1>8. Claims
  BY DEF SetupInit, Claims
<1>9. Single
  BY <1>2, <1>4, <1>5, NoScriptTyped DEF SetupInit, Single, NoText
<1>10. Ahead /\ Versioned /\ Alone
  BY <1>4 DEF SetupInit, Ahead, Versioned, Alone
<1>11. Whole
  BY <1>2, <1>3, Numbers DEF SetupInit, Whole, Absent, Half
<1> QED BY <1>7, <1>8, <1>9, <1>10, <1>11 DEF SetupInv

\* A claim lets one script start.
LEMMA ClaimsStep ==
  ASSUME SetupInv, [SetupNext]_setupVars
  PROVE  Claims'
<1>0. SetupTypeOK /\ Claims
  BY DEF SetupInv
<1>1. CASE Exit
  BY <1>0, <1>1 DEF Exit, Claims
<1>2. CASE Ask \/ \E v \in Versions, w \in BOOLEAN : Launch(v, w)
  BY <1>0, <1>2 DEF Ask, Launch, Claims
<1>3. ASSUME NEW n \in Names, Ensure(n)
      PROVE  Claims'
  <2>1. CASE Key(n) \notin claimed /\ wsl
    <3>1. Key(n) = "D" /\ launched = 0
      BY <1>0, <2>1 DEF Key, Claims
    <3> QED BY <1>3, <2>1, <3>1 DEF Ensure, Claims
  <2>2. CASE ~(Key(n) \notin claimed /\ wsl)
    BY <1>0, <1>3, <2>2 DEF Ensure, Claims
  <2> QED BY <2>1, <2>2
<1>4. CASE User
  BY <1>0, <1>4 DEF User, EditSettings, EditCodex, EditAgents, Saves, appVars, Claims
<1>5. ASSUME NEW s \in Scripts, Fails(s) \/ Step(s)
      PROVE  Claims'
  BY <1>0, <1>5, Touches DEF Claims
<1>6. CASE UNCHANGED setupVars
  BY <1>0, <1>6 DEF setupVars, appVars, Claims
<1> QED BY <1>1, <1>2, <1>3, <1>4, <1>5, <1>6 DEF SetupNext, App

\* What is read is what was in place, and merging adds no second hook.
LEMMA SingleStep ==
  ASSUME SetupInv, [SetupNext]_setupVars
  PROVE  Single'
<1>0. SetupTypeOK /\ Single
  BY DEF SetupInv
<1>01. AtMostOne(NoHooks)
  BY DEF AtMostOne, NoHooks
<1>1. CASE App
  <2>1. UNCHANGED <<settings, settingsTmp>> /\ (script' = script \/ \E s \in Scripts : Start(s))
    BY <1>1 DEF App, Exit, Ask, Launch, Ensure, distroVars, settingsVars
  <2>2. ASSUME NEW s \in Scripts, Start(s) PROVE \A t \in Scripts : AtMostOne(script'[t].read)
    BY <1>0, <1>01, <2>2, Begun DEF Turned, Alike, Single
  <2>3. \A t \in Scripts : AtMostOne(script'[t].read)
    BY <1>0, <2>1, <2>2 DEF Single
  <2> QED BY <1>0, <2>1, <2>3 DEF Single
<1>2. CASE User
  <2>1. PICK places : Saves(places)
    BY <1>2 DEF User, EditSettings, EditCodex, EditAgents
  <2>2. settingsTmp' = settingsTmp /\ \A t \in Scripts : script'[t].read = script[t].read
    <3>1. settingsTmp' = settingsTmp
      BY <2>1 DEF Saves
    <3>2. SetupTypeOK
      BY <1>0
    <3> QED BY <2>1, <3>1, <3>2, Raced
  <2>3. AtMostOne(settings'.hooks)
    <3>1. settings' = settings \/ \E e \in Events : settings' = [settings EXCEPT !.hooks[e] = @ \union {"user"}]
      BY <1>2 DEF User, EditSettings, EditCodex, EditAgents
    <3>2. ASSUME NEW e \in Events, settings' = [settings EXCEPT !.hooks[e] = @ \union {"user"}]
          PROVE  \A f \in Events : settings'.hooks[f] \intersect Mast = settings.hooks[f] \intersect Mast
      BY <1>0, <3>2 DEF SetupTypeOK, JsonTexts, Hooks, Mast
    <3> QED BY <1>0, <3>1, <3>2 DEF Single, AtMostOne
  <2> QED BY <1>0, <2>2, <2>3 DEF Single
<1>3. ASSUME NEW s \in Scripts, Fails(s) \/ Step(s)
      PROVE  Single'
  <2>1. \A t \in Scripts : AtMostOne(script'[t].read)
    <3>1. \A t \in Scripts \ {s} : script'[t].read = script[t].read
      BY <1>0, <1>3, Steps DEF Turned, Alike
    <3>2. script'[s].read \in {script[s].read, NoHooks, settings.hooks}
      BY <1>0, <1>3, Steps DEF Ends, Goes
    <3> QED BY <1>0, <1>01, <3>1, <3>2 DEF Single
  <2>2. /\ settings' \in {settings, settingsTmp, Json(Merged(script[s].read))}
        /\ settingsTmp' \in {settingsTmp, Cut, NoText, Json(Merged(script[s].read))}
    <3>1. CASE Fails(s) \/ script[s].at \notin Settings
      BY <1>3, <3>1, Touches DEF Fails, GivesUp, distroVars, settingsVars
    <3>2. CASE OpenSettings(s)
      BY <3>2 DEF OpenSettings
    <3>3. CASE DumpSettings(s)
      BY <3>3 DEF DumpSettings, Beside, InPlace
    <3>4. CASE ReplaceSettings(s)
      BY <3>4 DEF ReplaceSettings, settingsVars
    <3>5. Fails(s) \/ script[s].at \notin Settings \/ OpenSettings(s) \/ DumpSettings(s) \/ ReplaceSettings(s)
      BY <1>3 DEF Step, Settings, CheckMarker, OpenTmp, WriteTmp, MoveTmp, MergeHooks, CodexNotify, OpenCodex, WriteCodex,
         ReplaceCodex, AgentsBlock, OpenAgents, AwkPrints, OpenNew, CatNew, Refresh, RemoveTmp, CatAll, AddBlock, Mark,
         Prints, At
    <3> QED BY <3>1, <3>2, <3>3, <3>4, <3>5
  <2>3. script[s].read \in Hooks
    BY <1>0 DEF SetupTypeOK
  <2>4. AtMostOne(Merged(script[s].read))
    BY <1>0, <2>3, MergedHooks DEF Single
  <2>5. AtMostOne(Cut.hooks) /\ AtMostOne(NoText.hooks) /\ AtMostOne(Json(Merged(script[s].read)).hooks)
    BY <1>01, <2>4 DEF Cut, NoText, Json
  <2>6. AtMostOne(settings'.hooks) /\ AtMostOne(settingsTmp'.hooks)
    BY <1>0, <2>2, <2>5 DEF Single
  <2> QED BY <2>1, <2>6 DEF Single
<1>4. CASE UNCHANGED setupVars
  BY <1>0, <1>4 DEF setupVars, distroVars, settingsVars, Single
<1> QED BY <1>1, <1>2, <1>3, <1>4 DEF SetupNext

\* Versions only grow.
LEMMA VersionsStep ==
  ASSUME SetupInv, [SetupNext]_setupVars
  PROVE  Ahead' /\ Versioned'
<1>0. SetupTypeOK /\ Ahead /\ Versioned
  BY DEF SetupInv
<1>01. version \in Versions /\ markers \subseteq Versions /\ \A t \in Scripts : script[t].v \in Versions
  BY <1>0 DEF SetupTypeOK
<1> USE DEF Ahead, Versioned, Running, V, At, I
<1>1. CASE Exit \/ Ask \/ \E v \in Versions, w \in BOOLEAN : Launch(v, w)
  <2>1. UNCHANGED <<script, markers>> /\ version' \in Versions /\ version' >= version
    BY <1>1, <1>01, Numbers DEF Exit, Ask, Launch, distroVars
  <2>3. ASSUME NEW v \in Versions, v <= version
        PROVE  v <= version'
    <3>1. v \in Nat /\ version \in Nat /\ version' \in Nat
      BY <1>01, <2>1, Numbers
    <3> QED BY <2>1, <2>3, <3>1
  <2> QED BY <1>0, <1>01, <2>1, <2>3
<1>2. ASSUME NEW n \in Names, Ensure(n)
      PROVE  Ahead' /\ Versioned'
  <2>1. UNCHANGED <<version, markers>> /\ (script' = script \/ \E s \in Scripts : Start(s))
    BY <1>2 DEF Ensure, distroVars
  <2>2. CASE script' = script
    BY <1>0, <2>1, <2>2
  <2>3. ASSUME NEW s \in Scripts, Start(s) PROVE Versioned'
    <3>1. script'[s].at = "start" /\ script'[s].v = version /\ script'[s].i = 1 /\ version <= version
      BY <1>0, <1>01, <2>3, Begun, Numbers
    <3>2. \A t \in Scripts \ {s} : Alike(script'[t], script[t])
      BY <1>0, <2>3, Begun DEF Turned
    <3> QED BY <1>0, <2>1, <3>1, <3>2 DEF Alike
  <2> QED BY <1>0, <2>1, <2>2, <2>3
<1>3. CASE User
  <2>1. \E places : Saves(places)
    BY <1>3 DEF User, EditSettings, EditCodex, EditAgents
  <2>2. UNCHANGED <<version, markers>>
    BY <2>1 DEF Saves, appVars
  <2>3. \A t \in Scripts : script'[t].at = script[t].at /\ script'[t].v = script[t].v /\ script'[t].i = script[t].i
    BY <1>0, <2>1, Raced
  <2> QED BY <1>0, <2>2, <2>3
<1>4. ASSUME NEW s \in Scripts, Fails(s) \/ Step(s)
      PROVE  Ahead' /\ Versioned'
  <2>1. version' = version /\ Running(s)
    BY <1>4, Touches
  <2>2. markers' \in {markers, markers \union {V(s)}}
    <3>1. script[s].at # "marker" => markers' = markers
      BY <1>4, Touches
    <3>2. CASE Fails(s)
      BY <3>2 DEF Fails, GivesUp, distroVars
    <3>3. CASE Mark(s)
      BY <3>3 DEF Mark
    <3>4. script[s].at = "marker" => Fails(s) \/ Mark(s)
      BY <1>4 DEF Step, CheckMarker, OpenTmp, WriteTmp, MoveTmp, MergeHooks, OpenSettings, DumpSettings, ReplaceSettings,
         CodexNotify, OpenCodex, WriteCodex, ReplaceCodex, AgentsBlock, OpenAgents, AwkPrints, OpenNew, CatNew, Refresh,
         RemoveTmp, CatAll, AddBlock, Prints
    <3> QED BY <3>1, <3>2, <3>3, <3>4
  <2>3. \A t \in Scripts \ {s} : Alike(script'[t], script[t])
    BY <1>0, <1>4, Steps DEF Turned
  <2>4. script'[s].at = "none" \/ (script'[s].v = script[s].v /\ script'[s].at # "start")
    BY <1>0, <1>4, Steps DEF Ends, Goes, Leads
  <2>5. Ahead'
    BY <1>0, <2>1, <2>2
  <2>6. Versioned'
    BY <1>0, <2>1, <2>3, <2>4 DEF Alike
  <2> QED BY <2>5, <2>6
<1>5. CASE UNCHANGED setupVars
  BY <1>0, <1>5 DEF setupVars, appVars, distroVars
<1> QED BY <1>1, <1>2, <1>3, <1>4, <1>5 DEF SetupNext, App
-----------------------------------------------------------------------------
(* The one script that runs.                                               *)

\* Nothing in a script's hands, when there is none.
LEMMA MineIs ==
  ASSUME SetupInv, NEW s \in Scripts, Running(s), ~overlapped
  PROVE  /\ SetupTypeOK /\ FilesMine(s) /\ SettingsMine(s) /\ CodexMine(s) /\ AgentsMine(s)
         /\ \A f \in Files : file[f] # Half /\ \A v \in markers : file[f] >= v
         /\ markers # {} => AllWired(settings.hooks)
         /\ settings.text \in {"json", "broken"} /\ codex # "cut" /\ Tidy(agents)
BY DEF SetupInv, Alone, Mine, Whole

\* Its settings are what it has read, and have every hook when it is past them.
LEMMA SettingsStep ==
  ASSUME SetupInv, NEW s \in Scripts, Fails(s) \/ Step(s), ~overlapped
  PROVE  /\ script'[s].at # "none" => SettingsMine(s)'
         /\ settings'.text \in {"json", "broken"} /\ (markers' # {} => AllWired(settings'.hooks))
<1>0. /\ SetupTypeOK /\ SettingsMine(s)
      /\ markers # {} => AllWired(settings.hooks)
      /\ settings.text \in {"json", "broken"}
  BY Touches, MineIs
<1>01. /\ settings.hooks \in Hooks /\ AtMostOne(settings.hooks)
       /\ script[s].read \in Hooks /\ AtMostOne(script[s].read)
  BY <1>0 DEF SetupTypeOK, JsonTexts, SetupInv, Single
<1>1. CASE Fails(s)
  <2>1. UNCHANGED <<settings, markers>> /\ script'[s].at = "none"
    BY <1>0, <1>1, Gone, GaveUp DEF Fails, distroVars, settingsVars
  <2> QED BY <1>0, <2>1
<1>2. CASE ~Fails(s) /\ script[s].at \notin Settings \union {"merge", "marker"}
  <2>1. UNCHANGED <<settings, settingsTmp, markers>>
    BY <1>2, Touches
  <2>2. script'[s].at = "none" \/ (script'[s].at \notin Settings /\ (script'[s].at \in PastHooks => script[s].at \in PastHooks))
    <3>1. script'[s].at = "none" \/ Leads(script[s].at, script'[s].at)
      BY <1>0, <1>2, Steps DEF Ends, Goes
    <3>2. script[s].at \in Places
      BY <1>0 DEF SetupTypeOK
    <3> QED BY <1>2, <3>1, <3>2 DEF Leads, Settings, PastHooks, Places, Installing
  <2>3. script'[s].at # "none" => SettingsMine(s)'
    BY <1>0, <2>1, <2>2 DEF SettingsMine, Settings
  <2> QED BY <1>0, <2>1, <2>3
<1>3. CASE Mark(s)
  <2>1. script'[s].at = "none" /\ settings' = settings /\ AllWired(settings.hooks)
    BY <1>0, <1>3, Gone DEF Mark, settingsVars, SettingsMine, At, PastHooks, Places, Installing, Settings
  <2> QED BY <1>0, <2>1
<1>4. CASE MergeHooks(s)
  <2>1. UNCHANGED <<settings, settingsTmp, markers>>
    BY <1>4 DEF MergeHooks, distroVars, settingsVars
  <2>2. CASE Stopped(s)
    BY <1>0, <2>1, <2>2, Gone
  <2>3. CASE On(s, "codex") /\ Merged(settings.hooks) = settings.hooks
    <3>1. script'[s].at = "codex" /\ AllWired(settings.hooks)
      BY <1>0, <1>01, <2>3, MergedHooks, Onward DEF Places
    <3> QED BY <1>0, <2>1, <3>1 DEF SettingsMine, Settings
  <2>4. CASE settings.text # "broken" /\ script' = [script EXCEPT ![s].at = "openSettings", ![s].read = settings.hooks, ![s].raced = FALSE]
    <3>1. script'[s].at = "openSettings" /\ script'[s].read = settings.hooks /\ settings.text = "json"
      BY <1>0, <1>01, <2>4, HasRead
    <3> QED BY <1>0, <2>1, <3>1 DEF SettingsMine, PastHooks, Settings
  <2> QED BY <1>4, <2>2, <2>3, <2>4 DEF MergeHooks, ReadsHooks
<1>5. CASE OpenSettings(s)
  <2>1. /\ script[s].at = "openSettings" /\ script'[s].at = "dump" /\ script'[s].handle = "tmp"
        /\ script'[s].read = script[s].read /\ script'[s].raced = script[s].raced /\ UNCHANGED <<settings, markers>>
    BY <1>0, <1>5, Opened DEF OpenSettings, At, Places
  <2> QED BY <1>0, <2>1 DEF SettingsMine, PastHooks, Settings
<1>6. CASE DumpSettings(s)
  <2>1. /\ script[s].at = "dump" /\ script'[s].at = "replace"
        /\ script'[s].read = script[s].read /\ script'[s].raced = script[s].raced /\ UNCHANGED markers
    BY <1>0, <1>6, Placed DEF DumpSettings, At, Places
  <2>2. settings' = settings /\ settingsTmp' = Json(Merged(script[s].read))
    BY <1>0, <1>6, <2>1 DEF DumpSettings, Beside, InPlace, SettingsMine
  <2> QED BY <1>0, <2>1, <2>2 DEF SettingsMine, PastHooks, Settings
<1>7. CASE ReplaceSettings(s)
  <2>1. script[s].at = "replace" /\ settingsTmp = Json(Merged(script[s].read)) /\ UNCHANGED markers
    BY <1>0, <1>7 DEF ReplaceSettings, SettingsMine, At
  <2>2. settingsTmp # NoText
    BY <2>1 DEF Json, NoText
  <2>3. /\ settings' = Json(Merged(script[s].read))
        /\ Goes(s) \/ Ends(s)
    BY <1>0, <1>7, <2>1, <2>2, Steps DEF ReplaceSettings
  <2>4. script'[s].at \in {"none", "codex"}
    BY <2>1, <2>3 DEF Goes, Ends, Leads
  <2>5. settings'.text = "json" /\ AllWired(settings'.hooks)
    BY <1>01, <2>3, MergedHooks DEF Json
  <2> QED BY <2>4, <2>5 DEF SettingsMine, Settings
<1>8. \/ Fails(s) \/ (~Fails(s) /\ script[s].at \notin Settings \union {"merge", "marker"}) \/ Mark(s)
      \/ MergeHooks(s) \/ OpenSettings(s) \/ DumpSettings(s) \/ ReplaceSettings(s)
  BY DEF Step, Settings, CheckMarker, OpenTmp, WriteTmp, MoveTmp, CodexNotify, OpenCodex, WriteCodex, ReplaceCodex,
     AgentsBlock, OpenAgents, AwkPrints, OpenNew, CatNew, Refresh, RemoveTmp, CatAll, AddBlock, Prints, At
<1> QED BY <1>1, <1>2, <1>3, <1>4, <1>5, <1>6, <1>7, <1>8

\* Codex's configuration is what it has rewritten.
LEMMA CodexStep ==
  ASSUME SetupInv, NEW s \in Scripts, Fails(s) \/ Step(s), ~overlapped
  PROVE  (script'[s].at # "none" => CodexMine(s)') /\ codex' # "cut"
<1>0. SetupTypeOK /\ CodexMine(s) /\ codex # "cut" /\ python' = python
  BY Touches, MineIs
<1>1. CASE Fails(s)
  <2>1. UNCHANGED codex /\ script'[s].at = "none"
    BY <1>0, <1>1, Gone, GaveUp DEF Fails, distroVars, codexVars
  <2> QED BY <1>0, <2>1
<1>2. CASE ~Fails(s) /\ script[s].at \notin Codex \union {"codex"}
  <2>1. UNCHANGED <<codex, codexTmp>>
    BY <1>2, Touches
  <2>2. script'[s].at \notin Codex
    BY <1>0, <1>2, Steps DEF Ends, Goes, Leads, Codex
  <2> QED BY <1>0, <2>1, <2>2 DEF CodexMine, Codex
<1>3. CASE CodexNotify(s)
  <2>1. UNCHANGED <<codex, codexTmp>>
    BY <1>3 DEF CodexNotify, distroVars, codexVars
  <2>2. CASE To(s, "agents")
    <3>1. script'[s].at = "agents"
      BY <1>0, <2>2, Placed DEF Places
    <3> QED BY <1>0, <2>1, <3>1 DEF CodexMine, Codex
  <2>3. ASSUME NEW c \in Rewritten(codex),
               script' = [script EXCEPT ![s].at = "openCodex", ![s].out = c, ![s].raced = FALSE]
        PROVE  CodexMine(s)'
    <3>1. c \in CodexKinds /\ c \in {"ours", "spliced"}
      BY <1>0, TextsTyped DEF SetupTypeOK
    <3>2. script'[s].at = "openCodex" /\ script'[s].out = c
      BY <1>0, <2>3, <3>1, HasSpliced
    <3>3. Rewritten(codex)' = Rewritten(codex)
      BY <1>0, <2>1 DEF Rewritten
    <3> QED BY <3>1, <3>2, <3>3 DEF CodexMine
  <2> QED BY <1>0, <1>3, <2>1, <2>2, <2>3 DEF CodexNotify
<1>4. CASE OpenCodex(s)
  <2>1. /\ script[s].at = "openCodex" /\ script'[s].at = "writeCodex" /\ script'[s].handle = "tmp"
        /\ script'[s].out = script[s].out /\ script'[s].raced = script[s].raced /\ UNCHANGED codex
    BY <1>0, <1>4, Opened DEF OpenCodex, At, Places
  <2>2. Rewritten(codex)' = Rewritten(codex)
    BY <1>0, <2>1 DEF Rewritten
  <2> QED BY <1>0, <2>1, <2>2 DEF CodexMine, Codex
<1>5. CASE WriteCodex(s)
  <2>1. /\ script[s].at = "writeCodex" /\ script'[s].at = "replaceCodex"
        /\ script'[s].out = script[s].out /\ script'[s].raced = script[s].raced
    BY <1>0, <1>5, Placed DEF WriteCodex, At, Places
  <2>2. codex' = codex /\ codexTmp' = script[s].out
    BY <1>0, <1>5, <2>1 DEF WriteCodex, Beside, InPlace, CodexMine
  <2>3. Rewritten(codex)' = Rewritten(codex)
    BY <1>0, <2>2 DEF Rewritten
  <2> QED BY <1>0, <2>1, <2>2, <2>3 DEF CodexMine, Codex
<1>6. CASE ReplaceCodex(s)
  <2>1. script[s].at = "replaceCodex" /\ codexTmp \in {"ours", "spliced"}
    BY <1>0, <1>6 DEF ReplaceCodex, CodexMine, At, Codex
  <2>2. codex' = codexTmp
    BY <1>6, <2>1 DEF ReplaceCodex
  <2>3. script'[s].at \notin Codex
    BY <1>0, <2>1, Steps DEF Ends, Goes, Leads, Codex
  <2> QED BY <2>1, <2>2, <2>3 DEF CodexMine, Codex
<1>7. \/ Fails(s) \/ (~Fails(s) /\ script[s].at \notin Codex \union {"codex"})
      \/ CodexNotify(s) \/ OpenCodex(s) \/ WriteCodex(s) \/ ReplaceCodex(s)
  BY DEF Step, Codex, CheckMarker, OpenTmp, WriteTmp, MoveTmp, MergeHooks, OpenSettings, DumpSettings, ReplaceSettings,
     AgentsBlock, OpenAgents, AwkPrints, OpenNew, CatNew, Refresh, RemoveTmp, CatAll, AddBlock, Mark, Prints, At
<1> QED BY <1>1, <1>2, <1>3, <1>4, <1>5, <1>6, <1>7

\* What it has written beside AGENTS.md has the user's lines.
LEMMA AgentsStep ==
  ASSUME SetupInv, NEW s \in Scripts, Fails(s) \/ Step(s), ~overlapped
  PROVE  (script'[s].at # "none" => AgentsMine(s)') /\ Tidy(agents')
<1>0. SetupTypeOK /\ AgentsMine(s) /\ Tidy(agents) /\ agents \in Seq(AgentsLines)
  BY Touches, MineIs DEF SetupTypeOK
<1>1. CASE Fails(s)
  <2>1. UNCHANGED agents /\ script'[s].at = "none"
    BY <1>0, <1>1, Gone, GaveUp DEF Fails, distroVars, agentsVars
  <2> QED BY <1>0, <2>1
<1>2. CASE ~Fails(s) /\ script[s].at \notin Refreshing \union Adding \union {"remove"}
  <2>1. UNCHANGED <<agents, agentsTmp, agentsNew>>
    BY <1>2, Touches
  <2>2. script'[s].at \notin Splicing \union {"openNew", "cat", "add", "refresh"}
    BY <1>0, <1>2, Steps DEF Ends, Goes, Leads, Splicing, Printing, Refreshing, Adding
  <2> QED BY <1>0, <2>1, <2>2 DEF AgentsMine
<1>3. CASE OpenAgents(s, "openAwk", "awk") \/ OpenAgents(s, "openAdd", "append")
  <2>1. agents' = agents /\ script'[s].at \in {"awk", "append"} /\ script'[s].handle = "tmp"
    BY <1>0, <1>3, Opened DEF OpenAgents, Places
  <2> QED BY <1>0, <2>1 DEF AgentsMine
<1>4. ASSUME NEW from \in Printing, NEW to \in {"openNew", "add"}, NEW q \in Seq(AgentsLines),
             Prints(s, from, q, to), Tidy(q), UserLines(q) = UserLines(agents)
      PROVE  (script'[s].at # "none" => AgentsMine(s)') /\ Tidy(agents')
  <2>1. script[s].handle = "tmp"
    BY <1>0, <1>4 DEF Prints, At, AgentsMine, Splicing
  <2>2. agents' = agents /\ agentsTmp' = Text(q)
    BY <1>4, <2>1 DEF Prints, Beside, InPlace
  <2>3. script'[s].at = to
    BY <1>0, <1>4, HasPrinted DEF Prints, Places
  <2>4. Copies(s, agentsTmp.lines)'
    BY <1>4, <2>2 DEF Copies, Text
  <2> QED BY <1>0, <2>2, <2>3, <2>4 DEF AgentsMine, Splicing, Printing
<1>5. CASE AwkPrints(s)
  <2> DEFINE q == Printed(agents).out
  <2>1. q \in Seq(AgentsLines) /\ Tidy(q) /\ UserLines(q) = UserLines(agents)
    BY <1>0, PrintedTidy
  <2>2. Prints(s, "awk", q, "openNew") /\ "awk" \in Printing
    BY <1>5 DEF AwkPrints, Printing
  <2> HIDE DEF q
  <2> QED BY <1>4, <2>1, <2>2
<1>6. CASE CatAll(s)
  <2> DEFINE q == Blocked(agents)
  <2>1. q \in Seq(AgentsLines) /\ Tidy(q) /\ UserLines(q) = UserLines(agents)
    BY <1>0, BlockedTidy
  <2>2. Prints(s, "append", q, "add") /\ "append" \in Printing
    BY <1>6 DEF CatAll, Printing
  <2> HIDE DEF q
  <2> QED BY <1>4, <2>1, <2>2
<1>7. CASE OpenNew(s)
  <2>1. /\ script[s].at = "openNew" /\ script'[s].at = "cat" /\ script'[s].handle = "tmp"
        /\ script'[s].raced = script[s].raced /\ UNCHANGED <<agents, agentsTmp>>
    BY <1>0, <1>7, Opened DEF OpenNew, At, Places
  <2> QED BY <1>0, <2>1 DEF AgentsMine, Copies
<1>8. CASE CatNew(s)
  <2>1. /\ script[s].at = "cat" /\ script'[s].at = "refresh" /\ script'[s].raced = script[s].raced
    BY <1>0, <1>8, Placed DEF CatNew, At, Places
  <2>2. script[s].handle = "tmp" /\ Copies(s, agentsTmp.lines)
    BY <1>0, <2>1 DEF AgentsMine, Splicing
  <2>3. agents' = agents /\ agentsNew' = Text(Blocked(agentsTmp.lines))
    BY <1>8, <2>2 DEF CatNew, Beside, InPlace
  <2>4. Tidy(Blocked(agentsTmp.lines)) /\ UserLines(Blocked(agentsTmp.lines)) = UserLines(agentsTmp.lines)
    BY <1>0, <2>2, LinesTyped, BlockedTidy DEF Copies
  <2>5. Copies(s, agentsNew.lines)'
    BY <2>1, <2>2, <2>3, <2>4 DEF Copies, Text
  <2> QED BY <1>0, <2>1, <2>3, <2>5 DEF AgentsMine, Splicing, Printing
<1>9. CASE Refresh(s) \/ AddBlock(s)
  <2>1. CASE GivesUp(s)
    BY <1>0, <2>1, GaveUp
  <2>2. CASE Refresh(s) /\ ~GivesUp(s)
    <3>1. agents' = agentsNew.lines /\ script[s].at = "refresh"
      BY <2>2 DEF Refresh, At
    <3>2. Tidy(agentsNew.lines)
      BY <1>0, <3>1 DEF AgentsMine, Copies
    <3>3. script'[s].at \in {"none", "remove"}
      BY <1>0, <3>1, Steps DEF Ends, Goes, Leads
    <3> QED BY <3>1, <3>2, <3>3 DEF AgentsMine, Splicing, Printing
  <2>3. CASE AddBlock(s) /\ ~GivesUp(s)
    <3>1. agents' = agentsTmp.lines /\ script[s].at = "add"
      BY <2>3 DEF AddBlock, At
    <3>2. Tidy(agentsTmp.lines)
      BY <1>0, <3>1 DEF AgentsMine, Copies
    <3>3. script'[s].at \in {"none", "marker"}
      BY <1>0, <3>1, Steps DEF Ends, Goes, Leads
    <3> QED BY <3>1, <3>2, <3>3 DEF AgentsMine, Splicing, Printing
  <2> QED BY <1>9, <2>1, <2>2, <2>3
<1>10. CASE RemoveTmp(s)
  <2>1. agents' = agents /\ script'[s].at = "marker"
    BY <1>0, <1>10, Unlinked DEF RemoveTmp
  <2> QED BY <1>0, <2>1 DEF AgentsMine, Splicing, Printing
<1>11. \/ Fails(s) \/ (~Fails(s) /\ script[s].at \notin Refreshing \union Adding \union {"remove"})
       \/ OpenAgents(s, "openAwk", "awk") \/ OpenAgents(s, "openAdd", "append") \/ AwkPrints(s) \/ CatAll(s) \/ OpenNew(s)
       \/ CatNew(s) \/ Refresh(s) \/ AddBlock(s) \/ RemoveTmp(s)
  BY DEF Step, Refreshing, Adding, CheckMarker, OpenTmp, WriteTmp, MoveTmp, MergeHooks, OpenSettings, DumpSettings,
     ReplaceSettings, CodexNotify, OpenCodex, WriteCodex, ReplaceCodex, AgentsBlock, Mark, At
<1> QED BY <1>1, <1>2, <1>3, <1>5, <1>6, <1>7, <1>8, <1>9, <1>10, <1>11

\* The files it has moved in place are of its version, and so is the one at hand.
LEMMA FilesStep ==
  ASSUME SetupInv, NEW s \in Scripts, Fails(s) \/ Step(s), ~overlapped
  PROVE  /\ script'[s].at # "none" => FilesMine(s)'
         /\ \A f \in Files : file'[f] # Half /\ \A v \in markers' : file'[f] >= v
<1>0. /\ SetupTypeOK /\ FilesMine(s)
      /\ \A f \in Files : file[f] # Half /\ \A v \in markers : file[f] >= v
  BY Touches, MineIs
<1>01. /\ script[s].v \in Versions /\ script[s].v \in 0..Half /\ script[s].v # Half /\ script[s].v \in Nat
       /\ script[s].i \in Files /\ script[s].at \in Places
       /\ file \in [Files -> 0..Half] /\ fileTmp \in [Files -> 0..Half] /\ markers \subseteq Versions
  BY <1>0, Numbers DEF SetupTypeOK
<1>1. CASE Fails(s)
  <2>1. UNCHANGED <<file, markers>> /\ script'[s].at = "none"
    BY <1>0, <1>1, Gone, GaveUp DEF Fails, distroVars, installVars
  <2> QED BY <1>0, <2>1
<1>2. CASE ~Fails(s) /\ script[s].at \notin Installing \union {"start", "marker"}
  <2>1. UNCHANGED <<file, fileTmp, markers>>
    BY <1>2, Touches
  <2>2. \/ script'[s].at = "none"
        \/ script'[s].at \notin Installing \union {"none", "start"} /\ script'[s].v = script[s].v
    BY <1>0, <1>2, Steps DEF Ends, Goes, Leads, Installing
  <2>3. script[s].at # "none"
    BY <1>2, Touches DEF Running
  <2>4. script'[s].at # "none" => Moved(script'[s]) = Files /\ Moved(script[s]) = Files
    BY <1>2, <2>2, <2>3 DEF Moved
  <2>5. script'[s].at # "none" => FilesMine(s)'
    <3> SUFFICES ASSUME script'[s].at # "none" PROVE FilesMine(s)'
      OBVIOUS
    <3>1. script'[s].v = script[s].v /\ script'[s].at \notin Installing /\ Moved(script'[s]) = Moved(script[s])
      BY <2>2, <2>4
    <3> QED BY <1>0, <2>1, <3>1 DEF FilesMine, Installing
  <2> QED BY <1>0, <2>1, <2>5
<1>3. CASE CheckMarker(s)
  <2>1. UNCHANGED <<file, markers>>
    BY <1>3 DEF CheckMarker, distroVars, installVars
  <2>2. CASE Stopped(s)
    BY <1>0, <2>1, <2>2, Gone
  <2>3. CASE To(s, "open")
    <3>1. script'[s].at = "open" /\ script'[s].v = script[s].v /\ script'[s].i = script[s].i
      BY <1>0, <2>3, Placed DEF Places
    <3>2. script[s].i = 1
      BY <1>3, Touches DEF SetupInv, Versioned, CheckMarker, I
    <3>3. Moved(script'[s]) = {}
      BY <3>1, <3>2, Numbers DEF Moved, Installing
    <3>4. FilesMine(s)'
      BY <1>0, <2>1, <3>1, <3>3 DEF FilesMine
    <3> QED BY <1>0, <2>1, <3>4
  <2> QED BY <1>3, <2>2, <2>3 DEF CheckMarker
<1>4. CASE OpenTmp(s)
  <2>1. /\ script[s].at = "open" /\ script'[s].at = "write" /\ script'[s].v = script[s].v /\ script'[s].i = script[s].i
        /\ script'[s].handle = "tmp" /\ UNCHANGED <<file, markers>>
    BY <1>0, <1>4, Opened DEF OpenTmp, At, Places
  <2>2. Moved(script'[s]) = Moved(script[s])
    BY <2>1 DEF Moved, Installing
  <2>3. FilesMine(s)'
    BY <1>0, <2>1, <2>2 DEF FilesMine
  <2> QED BY <1>0, <2>1, <2>3
<1>5. CASE WriteTmp(s)
  <2>1. /\ script[s].at = "write" /\ script'[s].at = "move" /\ script'[s].v = script[s].v /\ script'[s].i = script[s].i
        /\ UNCHANGED markers
    BY <1>0, <1>5, Placed DEF WriteTmp, At, Places
  <2>2. script[s].handle = "tmp"
    BY <1>0, <2>1 DEF FilesMine
  <2>3. file' = file /\ fileTmp'[script[s].i] = script[s].v
    <3>1. /\ fileTmp' = [fileTmp EXCEPT ![script[s].i] = script[s].v]
          /\ file' = [file EXCEPT ![script[s].i] = file[script[s].i]]
      BY <1>5, <2>2 DEF WriteTmp, Beside, InPlace, I, V
    <3> QED BY <1>01, <3>1
  <2>4. Moved(script'[s]) = Moved(script[s])
    BY <2>1 DEF Moved, Installing
  <2>5. FilesMine(s)'
    BY <1>0, <2>1, <2>3, <2>4 DEF FilesMine
  <2> QED BY <1>0, <2>1, <2>3, <2>5
<1>6. CASE MoveTmp(s)
  <2>1. script[s].at = "move" /\ UNCHANGED markers /\ fileTmp[script[s].i] = script[s].v
    BY <1>0, <1>6 DEF MoveTmp, At, FilesMine
  <2>2. fileTmp[script[s].i] # Absent
    BY <2>1, <1>01, Numbers DEF Absent, Versions
  <2>3. file' = [file EXCEPT ![script[s].i] = script[s].v]
    BY <1>6, <2>1, <2>2 DEF MoveTmp, I
  <2>4. /\ script'[s].v = script[s].v
        /\ IF script[s].i = NFiles THEN script'[s].at = "merge"
           ELSE script'[s].at = "open" /\ script'[s].i = script[s].i + 1
    BY <1>0, <1>6, <2>2, HasMoved
  <2>5. Moved(script[s]) = {f \in Files : f < script[s].i}
    BY <2>1 DEF Moved, Installing
  <2>6. \A f \in Moved(script'[s]) : f \in Files /\ (f \in Moved(script[s]) \/ f = script[s].i)
    <3>1. CASE script[s].i = NFiles
      BY <2>4, <2>5, <3>1, Numbers DEF Moved, Installing
    <3>2. CASE script[s].i # NFiles
      <4>1. Moved(script'[s]) = {f \in Files : f < script[s].i + 1}
        BY <2>4, <3>2 DEF Moved, Installing
      <4> QED BY <1>01, <2>5, <4>1, Numbers
    <3> QED BY <3>1, <3>2
  <2>7. \A f \in Moved(script'[s]) : file'[f] = script[s].v
    BY <1>0, <1>01, <2>3, <2>6 DEF FilesMine
  <2>8. FilesMine(s)'
    BY <1>0, <2>1, <2>4, <2>7 DEF FilesMine
  <2>9. \A f \in Files : file'[f] # Half /\ \A v \in markers' : file'[f] >= v
    <3>1. \A v \in markers : script[s].v >= v
      BY <1>0, <1>01, Numbers DEF FilesMine
    <3> QED BY <1>0, <1>01, <2>1, <2>3, <3>1
  <2> QED BY <2>8, <2>9
<1>7. CASE Mark(s)
  <2>1. script[s].at = "marker" /\ script'[s].at = "none" /\ file' = file /\ markers' = markers \union {script[s].v}
    BY <1>0, <1>7, Gone DEF Mark, At, V, installVars
  <2>2. Moved(script[s]) = Files
    BY <2>1 DEF Moved, Installing
  <2>3. \A f \in Files : file[f] = script[s].v /\ script[s].v >= script[s].v
    BY <1>0, <1>01, <2>2 DEF FilesMine
  <2> QED BY <1>0, <2>1, <2>3
<1>8. \/ Fails(s) \/ (~Fails(s) /\ script[s].at \notin Installing \union {"start", "marker"})
      \/ CheckMarker(s) \/ OpenTmp(s) \/ WriteTmp(s) \/ MoveTmp(s) \/ Mark(s)
  BY DEF Step, Installing, MergeHooks, OpenSettings, DumpSettings, ReplaceSettings, CodexNotify, OpenCodex, WriteCodex,
     ReplaceCodex, AgentsBlock, OpenAgents, AwkPrints, OpenNew, CatNew, Refresh, RemoveTmp, CatAll, AddBlock, Prints, At
<1> QED BY <1>1, <1>2, <1>3, <1>4, <1>5, <1>6, <1>7, <1>8

\* What the user saves does no harm to what a script has in its hands.
LEMMA UserStep ==
  ASSUME SetupInv, User, ~overlapped
  PROVE  /\ \A s \in Scripts : Running(s)' <=> Running(s)
         /\ \A s \in Scripts : Running(s) => Mine(s)'
         /\ Whole'
<1>0. SetupTypeOK
  BY DEF SetupInv
<1>1. PICK places : /\ Saves(places)
                    /\ \/ (\E e \in Events : EditSettings(e)) /\ places = Settings
                       \/ EditCodex /\ places = Codex
                       \/ EditAgents /\ places = {"openNew", "cat", "refresh", "add"}
  BY DEF User, EditSettings, EditCodex, EditAgents, Settings, Codex
<1>2. /\ \A t \in Scripts : /\ script'[t].at = script[t].at /\ script'[t].v = script[t].v
                            /\ script'[t].i = script[t].i /\ script'[t].handle = script[t].handle
                            /\ script'[t].read = script[t].read /\ script'[t].out = script[t].out
                            /\ ~script'[t].raced => ~script[t].raced /\ script[t].at \notin places
      /\ UNCHANGED <<python, file, fileTmp, settingsTmp, codexTmp, agentsTmp, agentsNew, markers>>
  BY <1>0, <1>1, Raced DEF Saves, installVars
<1>3. \A t \in Scripts : Running(t)' <=> Running(t)
  BY <1>2 DEF Running
<1>4. Whole
  BY DEF SetupInv
<1>5. \A t \in Scripts : Moved(script'[t]) = Moved(script[t])
  BY <1>2 DEF Moved
<1>6. ASSUME NEW s \in Scripts, Running(s) PROVE FilesMine(s)'
  BY <1>2, <1>5, <1>6, MineIs DEF FilesMine
<1>7. CASE (\E e \in Events : EditSettings(e)) /\ places = Settings
  <2>1. PICK e \in Events : EditSettings(e)
    BY <1>7
  <2>2. UNCHANGED <<codex, agents>> /\ settings'.text = settings.text /\ \A f \in Events : settings.hooks[f] \subseteq settings'.hooks[f]
    BY <1>0, <2>1 DEF EditSettings, SetupTypeOK, JsonTexts, Hooks
  <2>3. AllWired(settings.hooks) => AllWired(settings'.hooks)
    BY <2>2 DEF AllWired, Wired
  <2>4. Rewritten(codex)' = Rewritten(codex)
    BY <1>2, <2>2 DEF Rewritten
  <2>5. ASSUME NEW s \in Scripts, Running(s) PROVE SettingsMine(s)' /\ CodexMine(s)' /\ AgentsMine(s)'
    <3>1. SettingsMine(s)'
      BY <1>2, <1>7, <2>2, <2>3, <2>5, MineIs DEF SettingsMine
    <3>2. CodexMine(s)'
      BY <1>2, <2>2, <2>4, <2>5, MineIs DEF CodexMine
    <3>3. AgentsMine(s)'
      BY <1>2, <2>2, <2>5, MineIs DEF AgentsMine, Copies
    <3> QED BY <3>1, <3>2, <3>3
  <2>6. Whole'
    BY <1>2, <1>4, <2>2, <2>3 DEF Whole
  <2> QED BY <1>3, <1>6, <2>5, <2>6 DEF Mine
<1>8. CASE EditCodex /\ places = Codex
  <2>1. codex' = "users" /\ UNCHANGED <<settings, agents>>
    BY <1>8 DEF EditCodex
  <2>5. ASSUME NEW s \in Scripts, Running(s) PROVE SettingsMine(s)' /\ CodexMine(s)' /\ AgentsMine(s)'
    <3>1. SettingsMine(s)'
      BY <1>2, <2>1, <2>5, MineIs DEF SettingsMine
    <3>2. CodexMine(s)'
      BY <1>2, <1>8, <2>5, MineIs DEF CodexMine
    <3>3. AgentsMine(s)'
      BY <1>2, <2>1, <2>5, MineIs DEF AgentsMine, Copies
    <3> QED BY <3>1, <3>2, <3>3
  <2>6. Whole'
    BY <1>2, <1>4, <2>1 DEF Whole
  <2> QED BY <1>3, <1>6, <2>5, <2>6 DEF Mine
<1>9. CASE EditAgents /\ places = {"openNew", "cat", "refresh", "add"}
  <2>1. Tidy(agents') /\ UNCHANGED <<settings, codex>>
    BY <1>9 DEF EditAgents
  <2>4. Rewritten(codex)' = Rewritten(codex)
    BY <1>2, <2>1 DEF Rewritten
  <2>5. ASSUME NEW s \in Scripts, Running(s) PROVE SettingsMine(s)' /\ CodexMine(s)' /\ AgentsMine(s)'
    <3>1. SettingsMine(s)'
      BY <1>2, <2>1, <2>5, MineIs DEF SettingsMine
    <3>2. CodexMine(s)'
      BY <1>2, <2>1, <2>4, <2>5, MineIs DEF CodexMine
    <3>3. AgentsMine(s)'
      BY <1>2, <1>9, <2>5, MineIs DEF AgentsMine, Copies
    <3> QED BY <3>1, <3>2, <3>3
  <2>6. Whole'
    BY <1>2, <1>4, <2>1 DEF Whole
  <2> QED BY <1>3, <1>6, <2>5, <2>6 DEF Mine
<1> QED BY <1>1, <1>7, <1>8, <1>9

\* So the one script, and what is in place, are as they should be.
LEMMA AloneStep ==
  ASSUME SetupInv, [SetupNext]_setupVars
  PROVE  Alone' /\ Whole'
<1>0. SetupTypeOK /\ Alone /\ Whole /\ Ahead
  BY DEF SetupInv
<1>1. CASE Exit \/ Ask \/ \E v \in Versions, w \in BOOLEAN : Launch(v, w)
  <2>1. UNCHANGED <<script, distroVars, overlapped>>
    BY <1>1 DEF Exit, Ask, Launch, historyVars
  <2>2. UNCHANGED <<python, file, fileTmp, settings, settingsTmp, codex, codexTmp, agents, agentsTmp, agentsNew, markers>>
    BY <2>1 DEF distroVars, installVars, settingsVars, codexVars, agentsVars
  <2> QED BY <1>0, <2>1, <2>2 DEF Alone, Whole, Mine, FilesMine, SettingsMine, CodexMine, AgentsMine, Copies, Running,
                                  Rewritten
<1>2. ASSUME NEW n \in Names, Ensure(n)
      PROVE  Alone' /\ Whole'
  <2>1. /\ UNCHANGED <<python, file, fileTmp, settings, settingsTmp, codex, codexTmp, agents, agentsTmp, agentsNew, markers>>
        /\ ~overlapped' => ~overlapped
    BY <1>2 DEF Ensure, distroVars, installVars, settingsVars, codexVars, agentsVars
  <2>2. Whole'
    BY <1>0, <2>1 DEF Whole
  <2>3. CASE UNCHANGED <<script, overlapped>>
    BY <1>0, <2>1, <2>2, <2>3 DEF Alone, Mine, FilesMine, SettingsMine, CodexMine, AgentsMine, Copies, Running, Rewritten
  <2>4. ASSUME NEW s \in Scripts, ~Running(s), Start(s),
               overlapped' = (overlapped \/ \E t \in Scripts : Running(t)), ~overlapped'
        PROVE  Alone'
    <3>1. \A t \in Scripts \ {s} : ~Running(t)'
      <4>1. \A t \in Scripts : ~Running(t)
        BY <2>4
      <4>2. Turned(s)
        BY <1>0, <2>4, Begun
      <4> QED BY <4>1, <4>2 DEF Running, Turned, Alike
    <3>2. script'[s].at = "start" /\ script'[s].v = version
      BY <1>0, <2>4, Begun
    <3>3. Moved(script'[s]) = {}
      BY <3>2 DEF Moved, Installing
    <3>4. FilesMine(s)'
      BY <1>0, <2>1, <3>2, <3>3 DEF FilesMine, Ahead
    <3>5. SettingsMine(s)' /\ CodexMine(s)' /\ AgentsMine(s)'
      BY <3>2 DEF SettingsMine, CodexMine, AgentsMine, Settings, PastHooks, Codex, Splicing, Printing
    <3> QED BY <3>1, <3>4, <3>5 DEF Alone, Mine
  <2>5. CASE overlapped'
    BY <2>2, <2>5 DEF Alone
  <2> QED BY <1>2, <2>2, <2>3, <2>4, <2>5 DEF Ensure
<1>3. CASE User
  <2>1. UNCHANGED overlapped
    BY <1>3 DEF User, EditSettings, EditCodex, EditAgents, Saves
  <2>2. CASE overlapped
    BY <2>1, <2>2 DEF Alone, Whole
  <2>3. CASE ~overlapped
    <3>1. Alone'
      BY <1>0, <1>3, <2>3, UserStep DEF Alone
    <3> QED BY <1>3, <2>3, <3>1, UserStep
  <2> QED BY <2>2, <2>3
<1>4. ASSUME NEW s \in Scripts, Fails(s) \/ Step(s)
      PROVE  Alone' /\ Whole'
  <2>1. UNCHANGED overlapped /\ Running(s)
    BY <1>4, Touches
  <2>2. CASE overlapped
    BY <2>1, <2>2 DEF Alone, Whole
  <2>3. CASE ~overlapped
    <3>1. \A t \in Scripts \ {s} : ~Running(t)'
      <4>1. \A t \in Scripts \ {s} : ~Running(t)
        BY <1>0, <2>1, <2>3 DEF Alone
      <4>2. \A t \in Scripts \ {s} : script'[t].at = script[t].at
        BY <1>0, <1>4, Steps DEF Turned, Alike
      <4> QED BY <4>1, <4>2 DEF Running
    <3>2. Running(s)' => Mine(s)'
      BY <1>4, <2>3, FilesStep, SettingsStep, CodexStep, AgentsStep DEF Running, Mine
    <3>3. Alone'
      BY <3>1, <3>2 DEF Alone
    <3>4. Whole'
      BY <1>4, <2>3, FilesStep, SettingsStep, CodexStep, AgentsStep DEF Whole
    <3> QED BY <3>3, <3>4
  <2> QED BY <2>2, <2>3
<1>5. CASE UNCHANGED setupVars
  <2>1. UNCHANGED <<script, overlapped>>
    BY <1>5 DEF setupVars, historyVars
  <2>2. UNCHANGED <<python, file, fileTmp, settings, settingsTmp, codex, codexTmp, agents, agentsTmp, agentsNew, markers>>
    BY <1>5 DEF setupVars, distroVars, installVars, settingsVars, codexVars, agentsVars
  <2> QED BY <1>0, <2>1, <2>2 DEF Alone, Whole, Mine, FilesMine, SettingsMine, CodexMine, AgentsMine, Copies, Running,
                                  Rewritten
<1> QED BY <1>1, <1>2, <1>3, <1>4, <1>5 DEF SetupNext, App

-----------------------------------------------------------------------------
(* The theorems about the setup.                                           *)

\* The inductive invariant, of every step of the application, of the user and
\* of the scripts: a script that runs alone has in its hands and beside the
\* files what it wrote, and what is in place is whole.
THEOREM SetupInvariance == SetupSpec => []SetupInv
<1>1. SetupInv /\ [SetupNext]_setupVars => SetupInv'
  <2> SUFFICES ASSUME SetupInv, [SetupNext]_setupVars PROVE SetupInv'
    OBVIOUS
  <2>1. SetupTypeOK' /\ Claims' /\ Single'
    BY TypesStep, ClaimsStep, SingleStep DEF SetupInv
  <2>2. Ahead' /\ Versioned'
    BY VersionsStep
  <2> QED BY <2>1, <2>2, AloneStep DEF SetupInv
<1> QED BY SetupInitInv, <1>1, PTL DEF SetupSpec

\* A launch starts at most one setup in a distro, under whatever names it asks
\* for it and however its tasks interleave (ensure_provisioned, claim).
THEOREM OneSetup == SetupSpec => []OneSetupPerLaunch
<1>1. SetupInv => OneSetupPerLaunch
  BY DEF SetupInv, Claims, OneSetupPerLaunch
<1> QED BY SetupInvariance, <1>1, PTL

\* A marker is there only over a complete installation, no older than the
\* marker, wherever setups were cut off before, unless two of them overlapped
\* (the script's own order of steps); and no event has two hooks, whatever
\* overlapped.
THEOREM MarkersAreTrue == SetupSpec => []MarkerMeansInstalled
<1>1. ASSUME SetupInv PROVE MarkerMeansInstalled
  <2>1. ASSUME NEW e \in Events
        PROVE  Cardinality(settings.hooks[e] \intersect Mast) <= 1
    <3> DEFINE S == settings.hooks[e] \intersect Mast
    <3>1. \A a, b \in S : a = b
      BY <1>1 DEF SetupInv, Single, AtMostOne
    <3>2. S = {} \/ \E a : S = {a}
      BY <3>1
    <3>3. Cardinality(S) \in {0, 1}
      <4> HIDE DEF S
      <4> QED BY <3>2, FS_EmptySet, FS_Singleton
    <3> QED BY <3>3
  <2>2. ~overlapped /\ markers # {} => \A e \in Events : Wired(settings.hooks[e])
    BY <1>1 DEF SetupInv, Whole, AllWired
  <2>3. ~overlapped => \A f \in Files : file[f] # Half /\ \A v \in markers : file[f] >= v
    BY <1>1 DEF SetupInv, Whole
  <2> QED BY <2>1, <2>2, <2>3 DEF MarkerMeansInstalled
<1> QED BY SetupInvariance, <1>1, PTL

\* Merging takes no hook away but one that it moves on.
LEMMA MergedKeeps ==
  ASSUME NEW h \in Hooks, NEW e \in Events
  PROVE  h[e] \intersect {"user", "wrapped"} \subseteq Merged(h)[e]
<1>1. CASE Wired(h[e])
  <2>1. Merged(h)[e] = Migrated(h[e])
    BY <1>1 DEF Merged
  <2> QED BY <2>1 DEF Migrated
<1>2. CASE ~Wired(h[e])
  <2>1. Merged(h)[e] = h[e] \union {"ours"}
    BY <1>2 DEF Merged
  <2> QED BY <2>1
<1> QED BY <1>1, <1>2

\* What a script that runs alone makes of the settings ...
LEMMA SettingsStay ==
  ASSUME SetupInv, NEW s \in Scripts, Fails(s) \/ Step(s), ~overlapped, settings' # settings
  PROVE  SettingsKept \/ Overtaken({"replace"})
<1>0. SetupTypeOK /\ SettingsMine(s) /\ settings.hooks \in Hooks
  BY Touches, MineIs DEF SetupTypeOK, JsonTexts
<1>1. DumpSettings(s) \/ ReplaceSettings(s)
  <2>1. script[s].at \in Settings
    BY Touches
  <2>2. ~Fails(s)
    BY DEF Fails, GivesUp, distroVars, settingsVars
  <2>3. ~OpenSettings(s)
    BY DEF OpenSettings
  <2> QED BY <2>1, <2>2, <2>3
    DEF Step, Settings, CheckMarker, OpenTmp, WriteTmp, MoveTmp, MergeHooks, CodexNotify, OpenCodex, WriteCodex,
        ReplaceCodex, AgentsBlock, OpenAgents, AwkPrints, OpenNew, CatNew, Refresh, RemoveTmp, CatAll, AddBlock, Mark,
        Prints, At
<1>2. ~DumpSettings(s)
  <2>1. DumpSettings(s) => script[s].handle = "tmp"
    BY <1>0 DEF DumpSettings, At, SettingsMine
  <2> QED BY <2>1 DEF DumpSettings, InPlace
<1>3. /\ script[s].at = "replace" /\ settingsTmp = Json(Merged(script[s].read))
      /\ settings.text = "json" /\ (~script[s].raced => settings.hooks = script[s].read)
  BY <1>0, <1>1, <1>2 DEF ReplaceSettings, At, SettingsMine, Settings
<1>4. CASE script[s].raced
  BY <1>3, <1>4 DEF Overtaken, Those
<1>5. CASE ~script[s].raced
  <2>1. settings' = Json(Merged(settings.hooks))
    BY <1>1, <1>2, <1>3, <1>5 DEF ReplaceSettings, Json, NoText
  <2>2. settings'.text = "json" /\ settings'.hooks = Merged(settings.hooks)
    BY <2>1 DEF Json
  <2>3. \A e \in Events : settings.hooks[e] \intersect {"user", "wrapped"} \subseteq settings'.hooks[e]
    BY <1>0, <2>2, MergedKeeps
  <2> QED BY <1>3, <2>2, <2>3 DEF SettingsKept
<1> QED BY <1>4, <1>5

\* ... of Codex's configuration ...
LEMMA CodexStays ==
  ASSUME SetupInv, NEW s \in Scripts, Fails(s) \/ Step(s), ~overlapped, codex' # codex
  PROVE  CodexKept \/ Overtaken({"replaceCodex"})
<1>0. SetupTypeOK /\ CodexMine(s)
  BY Touches, MineIs
<1>1. WriteCodex(s) \/ ReplaceCodex(s)
  <2>1. script[s].at \in Codex
    BY Touches
  <2>2. ~Fails(s)
    BY DEF Fails, GivesUp, distroVars, codexVars
  <2>3. ~OpenCodex(s)
    BY DEF OpenCodex
  <2> QED BY <2>1, <2>2, <2>3
    DEF Step, Codex, CheckMarker, OpenTmp, WriteTmp, MoveTmp, MergeHooks, OpenSettings, DumpSettings, ReplaceSettings,
        CodexNotify, AgentsBlock, OpenAgents, AwkPrints, OpenNew, CatNew, Refresh, RemoveTmp, CatAll, AddBlock, Mark,
        Prints, At
<1>2. ~WriteCodex(s)
  <2>1. WriteCodex(s) => script[s].handle = "tmp"
    BY <1>0 DEF WriteCodex, At, CodexMine
  <2> QED BY <2>1 DEF WriteCodex, InPlace
<1>3. /\ script[s].at = "replaceCodex" /\ codexTmp = script[s].out /\ script[s].out \in {"ours", "spliced"}
      /\ ~script[s].raced => script[s].out \in Rewritten(codex)
  BY <1>0, <1>1, <1>2 DEF ReplaceCodex, At, CodexMine, Codex
<1>4. CASE script[s].raced
  BY <1>3, <1>4 DEF Overtaken, Those
<1>5. CASE ~script[s].raced
  <2>1. codex' \in Rewritten(codex) /\ codex' # "cut"
    BY <1>1, <1>2, <1>3, <1>5 DEF ReplaceCodex
  <2>2. codex # "users"
    BY <2>1 DEF Rewritten
  <2> QED BY <2>1, <2>2 DEF CodexKept
<1> QED BY <1>4, <1>5

\* ... and of AGENTS.md.
LEMMA AgentsStay ==
  ASSUME SetupInv, NEW s \in Scripts, Fails(s) \/ Step(s), ~overlapped, agents' # agents
  PROVE  AgentsKept \/ Overtaken({"refresh", "add"})
<1>0. SetupTypeOK /\ AgentsMine(s) /\ agents \in Seq(AgentsLines)
  BY Touches, MineIs DEF SetupTypeOK
<1>1. /\ ~GivesUp(s)
      /\ AwkPrints(s) \/ CatAll(s) \/ CatNew(s) \/ Refresh(s) \/ AddBlock(s)
  <2>1. script[s].at \in Refreshing \union Adding \union {"remove"}
    BY Touches
  <2>2. ~GivesUp(s)
    BY DEF GivesUp
  <2>3. ~Fails(s)
    BY <2>2 DEF Fails, distroVars, agentsVars
  <2>4. ~OpenAgents(s, "openAwk", "awk") /\ ~OpenAgents(s, "openAdd", "append") /\ ~OpenNew(s) /\ ~RemoveTmp(s)
    BY DEF OpenAgents, OpenNew, RemoveTmp
  <2> QED BY <2>1, <2>2, <2>3, <2>4
    DEF Step, Refreshing, Adding, CheckMarker, OpenTmp, WriteTmp, MoveTmp, MergeHooks, OpenSettings, DumpSettings,
        ReplaceSettings, CodexNotify, OpenCodex, WriteCodex, ReplaceCodex, AgentsBlock, Mark, At
<1>2. ~AwkPrints(s) /\ ~CatAll(s) /\ ~CatNew(s)
  <2>1. script[s].at \in Splicing => script[s].handle = "tmp"
    BY <1>0 DEF AgentsMine
  <2> QED BY <2>1 DEF AwkPrints, CatAll, CatNew, Prints, At, InPlace, Splicing, Printing
<1>3. PICK q \in {agentsNew.lines, agentsTmp.lines} :
        agents' = q /\ Copies(s, q) /\ script[s].at \in {"refresh", "add"}
  BY <1>0, <1>1, <1>2 DEF Refresh, AddBlock, At, AgentsMine
<1>4. CASE script[s].raced
  BY <1>3, <1>4 DEF Overtaken, Those
<1>5. CASE ~script[s].raced
  <2>1. UserLines(agents') = UserLines(agents)
    BY <1>3, <1>5 DEF Copies
  <2>2. UserLines(agents) \in Seq(AgentsLines) /\ "user" \in AgentsLines
    BY <1>0, UserLinesSteps DEF AgentsLines
  <2>3. \A u \in Seq(AgentsLines) : IsPrefix(u, u)
    BY DEF IsPrefix
  <2> QED BY <2>1, <2>2, <2>3 DEF AgentsKept
<1> QED BY <1>4, <1>5

\* What the user saves has what the user had.
LEMMA UserKeeps ==
  ASSUME SetupInv, User, ~overlapped
  PROVE  /\ settings' # settings => SettingsKept
         /\ codex' # codex => CodexKept
         /\ agents' # agents => AgentsKept
<1>0. settings \in JsonTexts /\ settings.hooks \in Hooks /\ agents \in Seq(AgentsLines)
  BY DEF SetupInv, SetupTypeOK, JsonTexts
<1>1. ASSUME NEW e \in Events, EditSettings(e)
      PROVE  SettingsKept /\ UNCHANGED <<codex, agents>>
  <2>1. UNCHANGED <<codex, agents>> /\ settings' = [settings EXCEPT !.hooks[e] = @ \union {"user"}] /\ settings.text = "json"
    BY <1>1 DEF EditSettings
  <2>2. settings'.text = settings.text /\ \A f \in Events : settings.hooks[f] \subseteq settings'.hooks[f]
    BY <1>0, <2>1 DEF JsonTexts, Hooks
  <2> QED BY <2>1, <2>2 DEF SettingsKept
<1>2. CASE EditCodex
  <2>1. codex' = "users" /\ codex # "broken" /\ UNCHANGED <<settings, agents>>
    BY <1>2 DEF EditCodex
  <2> QED BY <2>1 DEF CodexKept
<1>3. CASE EditAgents
  <2>1. agents' = Append(agents, "user") /\ "user" \in AgentsLines /\ UNCHANGED <<settings, codex>>
    BY <1>3 DEF EditAgents, AgentsLines
  <2>2. UserLines(agents) \in Seq(AgentsLines) /\ UserLines(agents') = Append(UserLines(agents), "user")
    BY <1>0, <2>1, UserLinesSteps
  <2>3. \A u \in Seq(AgentsLines) : IsPrefix(u, Append(u, "user"))
    BY DEF IsPrefix
  <2> QED BY <2>1, <2>2, <2>3 DEF AgentsKept
<1> QED BY <1>1, <1>2, <1>3 DEF User

\* No setup takes a hook, a notify line or a line of AGENTS.md of the user's
\* away, unless setups overlapped or the user saved what it had read
\* (merge_settings, the rewriting of config.toml, the block in AGENTS.md).
THEOREM KeepsUserContent == SetupSpec => UserContentKept
<1>1. SetupInv /\ [SetupNext]_setupVars => [AllKept]_setupVars
  <2> SUFFICES ASSUME SetupInv, [SetupNext]_setupVars, ~overlapped
               PROVE  /\ settings' # settings => SettingsKept \/ Overtaken({"replace"})
                      /\ codex' # codex => CodexKept \/ Overtaken({"replaceCodex"})
                      /\ agents' # agents => AgentsKept \/ Overtaken({"refresh", "add"})
    BY DEF AllKept
  <2>1. CASE App \/ UNCHANGED setupVars
    <3>1. UNCHANGED <<settings, codex, agents>>
      BY <2>1 DEF App, Exit, Ask, Launch, Ensure, setupVars, distroVars, settingsVars, codexVars, agentsVars
    <3> QED BY <3>1
  <2>2. CASE User
    BY <2>2, UserKeeps
  <2>3. ASSUME NEW s \in Scripts, Fails(s) \/ Step(s)
        PROVE  /\ settings' # settings => SettingsKept \/ Overtaken({"replace"})
               /\ codex' # codex => CodexKept \/ Overtaken({"replaceCodex"})
               /\ agents' # agents => AgentsKept \/ Overtaken({"refresh", "add"})
    BY <2>3, SettingsStay, CodexStays, AgentsStay
  <2> QED BY <2>1, <2>2, <2>3 DEF SetupNext
<1> QED BY SetupInvariance, <1>1, PTL DEF SetupSpec, UserContentKept
=============================================================================
