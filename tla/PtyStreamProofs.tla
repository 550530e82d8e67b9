-------------------------- MODULE PtyStreamProofs --------------------------
(***************************************************************************)
(* Proofs about PtyStream for every value of its constants: type           *)
(* correctness, no leak in the flow account, no stranded reader, no view   *)
(* robbed of its channel, and a screen that is the stream.  The inductive  *)
(* invariant IInv adds to them who owns the sink slot while commands are   *)
(* under way, and that the frames in flight form gap-free runs, which      *)
(* makes the bytes the view owes a difference of offsets that every step   *)
(* of the page preserves.  Drawn adds to IInv where the snapshot ends      *)
(* among those frames and how far the screen is drawn.                     *)
(***************************************************************************)
EXTENDS PtyStream, TLAPS, FiniteSetTheorems, SequenceTheorems

\* Frames that follow one another without gap or overlap.
Gapless(run) ==
    \A i, j \in 1..Len(run) :
        i < j => /\ End(run[i]) <= run[j].off
                 /\ j = i + 1 => End(run[i]) = run[j].off

ReaderInv ==
    /\ readerPc \in {"deliver", "rollback"} => hand \in 1..bytesOut
    /\ PausedOwes(flow)
    /\ readerPc = "wait" => ~killed /\ flow.paused

\* Commands and slot name views that were created.
NumberInv ==
    /\ slot <= views
    /\ cur <= views
    /\ \A i \in 1..Len(ctl) : ctl[i].view <= views

\* Where the commands under way leave the slot: with the live view.
OwnerInv ==
    /\ mainPc = "reset" =>
         /\ ctl # <<>>
         /\ slot = Head(ctl).view \/ (slot = NoView /\ Head(ctl).view # cur)
    /\ page = "up" => IF ctl = <<>> THEN slot = cur ELSE ctl[Len(ctl)].view = cur
    /\ page = "loading" => cur = NoView
    /\ cur # NoView => \A i \in 1..(Len(ctl) - 1) : ctl[i].view # cur
    /\ cur # NoView /\ slot = cur => Len(ctl) = 0 \/ (mainPc = "reset" /\ Len(ctl) = 1)

ViewInv ==
    /\ viewPc = "none" <=> cur = NoView
    /\ cur = NoView => chan = <<>> /\ queue = <<>> /\ resp = NoOffset
    /\ viewPc = "attached" \/ resp # NoOffset => slot = cur /\ ctl = <<>>
    /\ viewPc = "attached" => queue = <<>>
    /\ chan # <<>> \/ queue # <<>> => slot = cur

RunInv ==
    /\ Gapless(chan)
    /\ Gapless(queue)
    /\ chan # <<>> => End(chan[Len(chan)]) = NextOffset
    /\ queue # <<>> =>
         End(queue[Len(queue)]) = IF chan = <<>> THEN NextOffset ELSE chan[1].off

IInv ==
    TypeOK /\ ReaderInv /\ NumberInv /\ OwnerInv /\ ViewInv /\ RunInv /\ Accounted

-----------------------------------------------------------------------------
(* Runs of frames                                                          *)

\* A frame is not empty.
LEMMA FrameFacts ==
    ASSUME NEW f \in Frame
    PROVE  f.off \in Nat /\ f.n \in Nat /\ End(f) \in Nat /\ f.off < End(f)
BY DEF Frame, End

\* A gap-free run carries a natural number of bytes (replayed frames and
\* queued frames are counted by their offsets).
LEMMA BytesNat ==
    ASSUME NEW run \in Seq(Frame), Gapless(run)
    PROVE  Bytes(run) \in Nat
<1>1. CASE run = <<>>
  BY <1>1 DEF Bytes
<1>2. CASE run # <<>>
  <2>1. Len(run) \in Nat \ {0} /\ run[1] \in Frame /\ run[Len(run)] \in Frame
    BY <1>2
  <2>2. End(run[1]) <= End(run[Len(run)])
    <3>1. CASE Len(run) = 1
      BY <3>1, <2>1 DEF End, Frame
    <3>2. CASE Len(run) # 1
      BY <3>2, <2>1 DEF Gapless, End, Frame
    <3> QED BY <3>1, <3>2
  <2> QED BY <1>2, <2>1, <2>2 DEF Bytes, End, Frame
<1> QED BY <1>1, <1>2

\* The channel receives the frame that starts where its last one ended, and
\* the gate queues the frame that follows the ones it holds.
LEMMA RunAppend ==
    ASSUME NEW run \in Seq(Frame), Gapless(run), NEW f \in Frame,
           run # <<>> => End(run[Len(run)]) = f.off
    PROVE  /\ Append(run, f) \in Seq(Frame)
           /\ Gapless(Append(run, f))
           /\ Bytes(Append(run, f)) = Bytes(run) + f.n
           /\ Append(run, f) # <<>>
           /\ Append(run, f)[Len(Append(run, f))] = f
           /\ Append(run, f)[1] = IF run = <<>> THEN f ELSE run[1]
<1> DEFINE new == Append(run, f)
           len == Len(run)
<1>1. /\ new \in Seq(Frame) /\ new # <<>>
      /\ Len(new) = len + 1 /\ len \in Nat
      /\ new[Len(new)] = f
      /\ \A i \in 1..len : new[i] = run[i] /\ run[i] \in Frame
  BY AppendProperties, LenProperties, ElementOfSeq
<1>2. run = <<>> <=> len = 0
  BY EmptySeq
<1> HIDE DEF new
<1>3. new[1] = IF run = <<>> THEN f ELSE run[1]
  BY <1>1, <1>2
<1>4. Gapless(new)
  <2> SUFFICES ASSUME NEW i \in 1..Len(new), NEW j \in 1..Len(new), i < j
               PROVE  /\ End(new[i]) <= new[j].off
                      /\ j = i + 1 => End(new[i]) = new[j].off
    BY DEF Gapless
  <2>1. CASE j # Len(new)
    <3>1. i \in 1..len /\ j \in 1..len
      BY <2>1, <1>1
    <3> QED BY <3>1, <1>1 DEF Gapless
  <2>2. CASE j = Len(new)
    <3>1. i \in 1..len /\ run # <<>> /\ new[i] = run[i] /\ new[j] = f
      BY <2>2, <1>1, <1>2
    <3>2. run[i] \in Frame /\ run[len] \in Frame /\ len \in 1..len
      BY <3>1, <1>1
    <3>3. CASE i = len
      BY <3>1, <3>2, <3>3 DEF End, Frame
    <3>4. CASE i # len
      <4>1. End(run[i]) <= run[len].off
        BY <3>1, <3>2, <3>4 DEF Gapless
      <4>2. End(run[i]) <= f.off
        BY <3>1, <3>2, <4>1, FrameFacts
      <4>3. j # i + 1
        BY <3>1, <3>4, <2>2, <1>1
      <4> QED BY <3>1, <3>2, <4>2, <4>3
    <3> QED BY <3>3, <3>4
  <2> QED BY <2>1, <2>2
<1>5. Bytes(new) = Bytes(run) + f.n
  <2>1. CASE run = <<>>
    BY <2>1, <1>1, <1>2, <1>3 DEF Bytes, End, Frame
  <2>2. CASE run # <<>>
    <3>1. run[1] \in Frame /\ run[len] \in Frame
      BY <2>2, <1>1, <1>2
    <3> QED BY <2>2, <1>1, <1>3, <3>1, SMTT(60) DEF Bytes, End, Frame
  <2> QED BY <2>1, <2>2
<1> QED BY <1>1, <1>3, <1>4, <1>5 DEF new

\* A contiguous part of a run, from position d on, is a run.
LEMMA RunPart ==
    ASSUME NEW run \in Seq(Frame), Gapless(run), NEW part \in Seq(Frame),
           NEW d \in Nat,
           \A i \in 1..Len(part) : i + d \in 1..Len(run) /\ part[i] = run[i + d]
    PROVE  Gapless(part)
<1> SUFFICES ASSUME NEW i \in 1..Len(part), NEW j \in 1..Len(part), i < j
             PROVE  /\ End(part[i]) <= part[j].off
                    /\ j = i + 1 => End(part[i]) = part[j].off
  BY DEF Gapless
<1>1. i \in Nat /\ j \in Nat
  BY LenProperties
<1>2. /\ i + d \in 1..Len(run) /\ j + d \in 1..Len(run) /\ i + d < j + d
      /\ part[i] = run[i + d] /\ part[j] = run[j + d]
  BY <1>1
<1>3. /\ End(run[i + d]) <= run[j + d].off
      /\ j + d = (i + d) + 1 => End(run[i + d]) = run[j + d].off
  BY <1>2 DEF Gapless
<1> QED BY <1>1, <1>2, <1>3

\* Taking the first frame of a run leaves a run, shorter by that frame.
LEMMA RunTail ==
    ASSUME NEW run \in Seq(Frame), Gapless(run), run # <<>>
    PROVE  /\ Head(run) \in Frame /\ Head(run) = run[1]
           /\ Tail(run) \in Seq(Frame)
           /\ Gapless(Tail(run))
           /\ Bytes(Tail(run)) = Bytes(run) - Head(run).n
           /\ Tail(run) # <<>> => /\ Tail(run)[Len(Tail(run))] = run[Len(run)]
                                  /\ Tail(run)[1].off = End(Head(run))
           /\ Tail(run) = <<>> => run[Len(run)] = Head(run)
<1> DEFINE new == Tail(run)
           len == Len(run)
<1>1. /\ new \in Seq(Frame) /\ len \in Nat \ {0} /\ Len(new) = len - 1
      /\ \A i \in 1..Len(new) : new[i] = run[i + 1]
      /\ \A i \in 1..len : run[i] \in Frame
  BY HeadTailProperties, LenProperties, ElementOfSeq, EmptySeq
<1>2. Head(run) = run[1]
  OBVIOUS
<1>3. new = <<>> <=> Len(new) = 0
  BY <1>1, EmptySeq
<1> HIDE DEF new
<1>4. Gapless(new)
  <2>1. \A i \in 1..Len(new) : i + 1 \in 1..len /\ new[i] = run[i + 1]
    BY <1>1
  <2> QED BY <1>1, <2>1, RunPart
<1>5. CASE new = <<>>
  <2>1. len = 1
    BY <1>5, <1>1, <1>3
  <2> QED BY <1>1, <1>2, <1>4, <1>5, <2>1 DEF Bytes, End, Frame, new
<1>6. CASE new # <<>>
  <2>1. new[Len(new)] = run[len] /\ new[1] = run[2] /\ 2 \in 1..len /\ 1 \in 1..len
    BY <1>1, <1>3, <1>6
  <2>2. End(run[1]) = run[2].off
    BY <1>1, <2>1 DEF Gapless
  <2>3. run[1] \in Frame /\ run[2] \in Frame /\ run[len] \in Frame
    BY <1>1, <2>1
  <2>4. Bytes(new) = Bytes(run) - Head(run).n
    <3>1. Bytes(new) = End(run[len]) - End(run[1])
      BY <1>6, <2>1, <2>2 DEF Bytes
    <3>2. Bytes(run) = End(run[len]) - run[1].off /\ End(run[1]) = run[1].off + run[1].n
      BY DEF Bytes, End
    <3>3. /\ run[1].off \in Nat /\ run[1].n \in Nat
          /\ End(run[1]) \in Nat /\ End(run[len]) \in Nat
      BY <2>3, FrameFacts
    <3> QED BY <1>2, <3>1, <3>2, <3>3
  <2> QED BY <1>1, <1>2, <1>4, <1>6, <2>1, <2>2, <2>3, <2>4 DEF new
<1> QED BY <1>5, <1>6

\* However the attach response cuts the queue, what it keeps and what it
\* discards together carry the bytes of the queue (attach-gate.ts onSnapshot).
LEMMA RunSplit ==
    ASSUME NEW run \in Seq(Frame), Gapless(run), NEW cut \in 0..Len(run)
    PROVE  /\ Bytes(SubSeq(run, 1, cut)) \in Nat
           /\ Bytes(SubSeq(run, cut + 1, Len(run))) \in Nat
           /\ Bytes(SubSeq(run, 1, cut)) + Bytes(SubSeq(run, cut + 1, Len(run)))
                = Bytes(run)
<1> DEFINE len == Len(run)
           low == SubSeq(run, 1, cut)
           top == SubSeq(run, cut + 1, len)
<1>1. len \in Nat /\ cut \in Nat /\ cut <= len /\ \A i \in 1..len : run[i] \in Frame
  BY LenProperties, ElementOfSeq
<1>2. /\ low \in Seq(Frame) /\ Len(low) = cut
      /\ \A i \in 1..cut : low[i] = run[i]
  <2>1. \A i \in 1..cut : run[i] \in Frame
    BY <1>1
  <2> HIDE DEF low
  <2>2. /\ low \in Seq(Frame) /\ Len(low) = IF 1 <= cut THEN cut - 1 + 1 ELSE 0
        /\ \A i \in 1..(cut - 1 + 1) : low[i] = run[1 + i - 1]
    BY <2>1, <1>1, SubSeqProperties DEF low
  <2> QED BY <1>1, <2>2
<1>3. /\ top \in Seq(Frame) /\ Len(top) = len - cut
      /\ \A i \in 1..(len - cut) : top[i] = run[i + cut]
  <2>1. \A i \in (cut + 1)..len : run[i] \in Frame
    BY <1>1
  <2> HIDE DEF top
  <2>2. /\ top \in Seq(Frame)
        /\ Len(top) = IF cut + 1 <= len THEN len - (cut + 1) + 1 ELSE 0
        /\ \A i \in 1..(len - (cut + 1) + 1) : top[i] = run[(cut + 1) + i - 1]
    BY <2>1, <1>1, SubSeqProperties DEF top
  <2> QED BY <1>1, <2>2
<1>4. /\ run = <<>> <=> len = 0
      /\ low = <<>> <=> cut = 0
      /\ top = <<>> <=> len = cut
  <2> HIDE DEF low, top
  <2>1. \A q \in Seq(Frame) : q = <<>> <=> Len(q) = 0
    BY EmptySeq
  <2> QED BY <2>1, <1>1, <1>2, <1>3
<1> HIDE DEF low, top
<1>5. Bytes(low) \in Nat
  <2>1. \A i \in 1..Len(low) : i + 0 \in 1..len /\ low[i] = run[i + 0]
    BY <1>1, <1>2
  <2>2. Gapless(low)
    BY <1>2, <2>1, RunPart
  <2> QED BY <1>2, <2>2, BytesNat
<1>6. Bytes(top) \in Nat
  <2>1. \A i \in 1..Len(top) : i + cut \in 1..len /\ top[i] = run[i + cut]
    BY <1>1, <1>3
  <2>2. Gapless(top)
    BY <1>1, <1>3, <2>1, RunPart
  <2> QED BY <1>3, <2>2, BytesNat
<1>7. CASE cut = 0
  BY <1>1, <1>3, <1>4, <1>5, <1>6, <1>7 DEF Bytes
<1>8. CASE cut = len
  BY <1>1, <1>2, <1>4, <1>5, <1>6, <1>8 DEF Bytes
<1>9. CASE 0 < cut /\ cut < len
  <2>1. /\ low[1] = run[1] /\ low[Len(low)] = run[cut]
        /\ top[1] = run[cut + 1] /\ top[Len(top)] = run[len]
    <3>1. 1 \in 1..cut /\ cut \in 1..cut /\ 1 \in 1..(len - cut) /\ len - cut \in 1..(len - cut)
      BY <1>1, <1>9
    <3>2. 1 + cut = cut + 1 /\ (len - cut) + cut = len
      BY <1>1
    <3>3. low[1] = run[1] /\ low[cut] = run[cut]
      BY <1>2, <3>1
    <3>4. top[1] = run[1 + cut] /\ top[len - cut] = run[(len - cut) + cut]
      BY <1>3, <3>1
    <3> QED BY <1>2, <1>3, <3>2, <3>3, <3>4
  <2>4. End(run[cut]) = run[cut + 1].off
    BY <1>1, <1>9 DEF Gapless
  <2>2. /\ run[1] \in Frame /\ run[cut] \in Frame
        /\ run[cut + 1] \in Frame /\ run[len] \in Frame
    BY <1>1, <1>9
  <2>3. Bytes(low) + Bytes(top) = Bytes(run)
    <3>1. Bytes(low) = End(run[cut]) - run[1].off
      BY <1>4, <1>9, <1>1, <2>1 DEF Bytes
    <3>2. Bytes(top) = End(run[len]) - End(run[cut])
      BY <1>4, <1>9, <1>1, <2>1, <2>4 DEF Bytes
    <3>3. Bytes(run) = End(run[len]) - run[1].off
      BY <1>4, <1>9, <1>1 DEF Bytes
    <3>4. run[1].off \in Nat /\ End(run[cut]) \in Nat /\ End(run[len]) \in Nat
      BY <2>2, FrameFacts
    <3> QED BY <3>1, <3>2, <3>3, <3>4
  <2> QED BY <1>5, <1>6, <2>3 DEF low, top
<1> QED BY <1>1, <1>5, <1>6, <1>7, <1>8, <1>9 DEF low, top

-----------------------------------------------------------------------------
(* The flow account                                                        *)

\* What each method of FlowControl returns (flow.rs).
LEMMA FlowFacts ==
    ASSUME NEW f \in Flow, NEW n \in Nat
    PROVE  /\ ResetFlow \in Flow /\ ResetFlow.pending = 0 /\ ~ResetFlow.paused
           /\ OnSent(f, n) \in Flow /\ OnSent(f, n).pending = f.pending + n
           /\ OnSent(f, n).paused => f.paused \/ f.pending + n >= High
           /\ OnAcked(f, n) \in Flow
           /\ OnAcked(f, n).pending = IF f.pending >= n THEN f.pending - n ELSE 0
           /\ OnAcked(f, n).paused <=> f.paused /\ ~Resumes(f, n)
<1>1. f.pending \in Nat /\ f.paused \in BOOLEAN
  BY DEF Flow
<1>2. /\ ResetFlow \in Flow /\ ResetFlow.pending = 0 /\ ~ResetFlow.paused
  BY DEF Flow, ResetFlow
<1>3. f.pending + n \in Nat /\ SaturatingSub(f.pending, n) \in Nat
  BY <1>1 DEF SaturatingSub
<1>4. OnSent(f, n) \in Flow
  BY <1>3 DEF Flow, OnSent
<1>5. OnAcked(f, n) \in Flow
  BY <1>3 DEF Flow, OnAcked
<1>6. /\ OnSent(f, n).pending = f.pending + n
      /\ OnAcked(f, n).pending = IF f.pending >= n THEN f.pending - n ELSE 0
  BY <1>1 DEF OnSent, OnAcked, SaturatingSub
<1>7. OnSent(f, n).paused => f.paused \/ f.pending + n >= High
  BY DEF OnSent
<1>8. OnAcked(f, n).paused <=> f.paused /\ ~Resumes(f, n)
  <2>1. OnAcked(f, n).paused = (f.paused /\ SaturatingSub(f.pending, n) > Low)
    BY DEF OnAcked
  <2>2. Low \in Nat
    BY WaterMarks
  <2>3. SaturatingSub(f.pending, n) > Low <=> ~(SaturatingSub(f.pending, n) <= Low)
    BY <2>2, <1>3
  <2> QED BY <1>1, <2>1, <2>3 DEF Resumes
<1> QED BY <1>2, <1>4, <1>5, <1>6, <1>7, <1>8

\* Only a flow that owes acknowledgements is paused, after every method.
LEMMA PausedFacts ==
    ASSUME NEW f \in Flow, NEW n \in Nat, PausedOwes(f)
    PROVE  /\ PausedOwes(ResetFlow)
           /\ n > 0 => PausedOwes(OnSent(f, n))
           /\ PausedOwes(OnAcked(f, n))
<1>1. f.pending \in Nat
  BY DEF Flow
<1>2. PausedOwes(ResetFlow)
  BY DEF ResetFlow, PausedOwes
<1>3. n > 0 => PausedOwes(OnSent(f, n))
  <2>1. OnSent(f, n).pending = f.pending + n
    BY FlowFacts
  <2> QED BY <1>1, <2>1 DEF PausedOwes
<1>4. PausedOwes(OnAcked(f, n))
  <2>1. SUFFICES ASSUME OnAcked(f, n).paused
                 PROVE  OnAcked(f, n).pending > 0
    BY DEF PausedOwes
  <2>2. OnAcked(f, n).pending = SaturatingSub(f.pending, n)
        /\ OnAcked(f, n).paused = (f.paused /\ SaturatingSub(f.pending, n) > Low)
    BY DEF OnAcked
  <2>3. SaturatingSub(f.pending, n) > Low
    BY <2>1, <2>2
  <2>4. SaturatingSub(f.pending, n) \in Nat
    BY <1>1 DEF SaturatingSub
  <2> QED BY <2>2, <2>3, <2>4, WaterMarks
<1> QED BY <1>2, <1>3, <1>4

-----------------------------------------------------------------------------
(* Every step preserves the invariant                                      *)

\* The bytes owed by the live view are a natural number.
LEMMA OwedNat ==
    ASSUME IInv
    PROVE  Bytes(chan) \in Nat /\ Bytes(queue) \in Nat /\ Owed \in Nat
BY BytesNat DEF IInv, TypeOK, RunInv, Owed

\* When no reset is on its way, the slot belongs to the live view.
LEMMA Settled ==
    ASSUME IInv, ~Rescue
    PROVE  slot = cur
BY DEF IInv, TypeOK, OwnerInv, Rescue

\* The end of the session touches neither frames nor acknowledgements.
LEMMA EndStep ==
    ASSUME IInv, ChildExit \/ Kill \/ CloseMaster
    PROVE  IInv'
<1> USE DEF IInv, readerVars, mainVars, pageVars, viewVars
<1>1. CASE ChildExit
  <2>1. /\ childAlive' \in BOOLEAN
        /\ UNCHANGED <<flow, bytesOut, killed, masterOpen, readerVars, mainVars,
                       pageVars, viewVars, stale>>
    BY <1>1 DEF ChildExit
  <2> USE <2>1
  <2>2. TypeOK'
    BY DEF TypeOK
  <2>3. ReaderInv'
    BY DEF ReaderInv, PausedOwes
  <2>4. NumberInv'
    BY DEF NumberInv
  <2>5. OwnerInv'
    BY DEF OwnerInv
  <2>6. ViewInv'
    BY DEF ViewInv
  <2>7. RunInv'
    BY DEF RunInv, NextOffset
  <2>8. Accounted'
    BY DEF Accounted, Rescue, InHand, Owed
  <2> QED BY <2>2, <2>3, <2>4, <2>5, <2>6, <2>7, <2>8 DEF IInv
<1>2. CASE Kill
  <2> USE <1>2 DEF Kill, Woken
  <2>1. TypeOK'
    BY DEF TypeOK
  <2>2. ReaderInv'
    BY DEF ReaderInv, PausedOwes
  <2>3. NumberInv'
    BY DEF NumberInv
  <2>4. OwnerInv'
    BY DEF OwnerInv
  <2>5. ViewInv'
    BY DEF ViewInv
  <2>6. RunInv'
    BY DEF RunInv, NextOffset
  <2>7. Accounted'
    BY DEF Accounted, Rescue, InHand, Owed
  <2> QED BY <2>1, <2>2, <2>3, <2>4, <2>5, <2>6, <2>7 DEF IInv
<1>3. CASE CloseMaster
  <2>1. /\ masterOpen' \in BOOLEAN
        /\ UNCHANGED <<flow, bytesOut, killed, childAlive, readerVars, mainVars,
                       pageVars, viewVars, stale>>
    BY <1>3 DEF CloseMaster
  <2> USE <2>1
  <2>2. TypeOK'
    BY DEF TypeOK
  <2>3. ReaderInv'
    BY DEF ReaderInv, PausedOwes
  <2>4. NumberInv'
    BY DEF NumberInv
  <2>5. OwnerInv'
    BY DEF OwnerInv
  <2>6. ViewInv'
    BY DEF ViewInv
  <2>7. RunInv'
    BY DEF RunInv, NextOffset
  <2>8. Accounted'
    BY DEF Accounted, Rescue, InHand, Owed
  <2> QED BY <2>2, <2>3, <2>4, <2>5, <2>6, <2>7, <2>8 DEF IInv
<1> QED BY <1>1, <1>2, <1>3

\* The reader charges a chunk before it hands it over, and takes back what
\* the sink drops; a frame it delivers continues the run in the channel.
LEMMA ReaderStep ==
    ASSUME IInv, Reader
    PROVE  IInv'
<1> USE DEF IInv, sessionVars, mainVars, pageVars, viewVars
<1>1. CASE ReaderCheck
  <2> USE <1>1 DEF ReaderCheck
  <2>1. TypeOK'
    BY DEF TypeOK
  <2>2. ReaderInv'
    BY DEF ReaderInv, PausedOwes
  <2>3. NumberInv'
    BY DEF NumberInv
  <2>4. OwnerInv'
    BY DEF OwnerInv
  <2>5. ViewInv'
    BY DEF ViewInv
  <2>6. RunInv'
    BY DEF RunInv, NextOffset
  <2>7. Accounted'
    BY DEF Accounted, Rescue, InHand, Owed
  <2> QED BY <2>1, <2>2, <2>3, <2>4, <2>5, <2>6, <2>7 DEF IInv
<1>2. ASSUME NEW n \in ChunkSizes, ReaderRead(n)
      PROVE  IInv'
  <2> USE <1>2 DEF ReaderRead
  <2>1. n \in Nat /\ n > 0
    BY PtyStreamConstants
  <2>2. /\ flow' \in Flow /\ flow'.pending = flow.pending + n
        /\ PausedOwes(flow') /\ flow \in Flow
    BY <2>1, FlowFacts, PausedFacts DEF TypeOK, ReaderInv
  <2>3. TypeOK'
    BY <2>1, <2>2 DEF TypeOK
  <2>4. ReaderInv'
    BY <2>1, <2>2 DEF ReaderInv, PausedOwes, TypeOK
  <2>5. NumberInv'
    BY DEF NumberInv
  <2>6. OwnerInv'
    BY DEF OwnerInv
  <2>7. ViewInv'
    BY DEF ViewInv
  <2>8. RunInv'
    BY <2>1 DEF RunInv, NextOffset, TypeOK
  <2>9. Accounted'
    BY <2>1, <2>2, OwedNat, SMTT(60) DEF Accounted, Rescue, InHand, Owed, TypeOK, Flow
  <2> QED BY <2>3, <2>4, <2>5, <2>6, <2>7, <2>8, <2>9 DEF IInv
<1>3. CASE ReaderEof
  <2> USE <1>3 DEF ReaderEof
  <2>1. TypeOK'
    BY DEF TypeOK
  <2>2. ReaderInv'
    BY DEF ReaderInv, PausedOwes
  <2>3. NumberInv'
    BY DEF NumberInv
  <2>4. OwnerInv'
    BY DEF OwnerInv
  <2>5. ViewInv'
    BY DEF ViewInv
  <2>6. RunInv'
    BY DEF RunInv, NextOffset
  <2>7. Accounted'
    BY DEF Accounted, Rescue, InHand, Owed
  <2> QED BY <2>1, <2>2, <2>3, <2>4, <2>5, <2>6, <2>7 DEF IInv
<1>4. CASE Deliver
  <2> USE <1>4 DEF Deliver
  <2> DEFINE f == [off |-> bytesOut - hand, n |-> hand]
  <2>1. hand \in Nat \ {0} /\ bytesOut \in Nat /\ f \in Frame /\ End(f) = bytesOut
    BY DEF TypeOK, ReaderInv, Frame, End
  <2>2. chan # <<>> => End(chan[Len(chan)]) = f.off
    BY DEF RunInv, NextOffset
  <2>3. /\ chan \in Seq(Frame) /\ queue \in Seq(Frame) /\ Gapless(chan)
        /\ Bytes(chan) \in Nat
    BY OwedNat DEF TypeOK, RunInv
  <2> HIDE DEF f
  <2>4. CASE slot # cur
    <3>1. chan' = chan /\ chan = <<>> /\ queue = <<>>
      BY <2>4 DEF ViewInv
    <3>2. TypeOK'
      BY <3>1 DEF TypeOK
    <3>3. ReaderInv'
      BY DEF ReaderInv, PausedOwes
    <3>4. NumberInv'
      BY DEF NumberInv
    <3>5. OwnerInv'
      BY DEF OwnerInv
    <3>6. ViewInv'
      BY <3>1 DEF ViewInv
    <3>7. RunInv'
      BY <3>1 DEF RunInv, NextOffset
    <3>8. Accounted'
      BY <2>4, Settled DEF Accounted, Rescue, InHand, Owed
    <3> QED BY <3>2, <3>3, <3>4, <3>5, <3>6, <3>7, <3>8 DEF IInv
  <2>5. CASE slot = cur
    <3>1. /\ chan' \in Seq(Frame) /\ Gapless(chan') /\ chan' # <<>>
          /\ Bytes(chan') = Bytes(chan) + hand
          /\ chan'[Len(chan')] = f
          /\ chan'[1] = IF chan = <<>> THEN f ELSE chan[1]
      BY <2>1, <2>2, <2>3, <2>5, RunAppend DEF f
    <3>2. f.off = bytesOut - hand
      BY DEF f
    <3>3. Owed' = Owed + hand
      <4>1. UNCHANGED <<queue, unwritten, acc, flying>>
        OBVIOUS
      <4>2. Bytes(queue) \in Nat /\ unwritten \in Nat /\ acc \in Nat /\ flying \in Nat
        BY OwedNat DEF TypeOK
      <4> QED BY ONLY <2>1, <2>3, <3>1, <4>1, <4>2 DEF Owed
    <3>4. InHand = hand /\ InHand' = 0
      BY DEF InHand
    <3>5. Accounted'
      BY <2>1, <3>3, <3>4, OwedNat DEF Accounted, Rescue, TypeOK, Flow
    <3>6. TypeOK'
      BY <3>1 DEF TypeOK
    <3>7. ReaderInv'
      BY DEF ReaderInv, PausedOwes
    <3>8. NumberInv'
      BY DEF NumberInv
    <3>9. OwnerInv'
      BY DEF OwnerInv
    <3>10. ViewInv'
      BY <2>5 DEF ViewInv
    <3>11. RunInv'
      BY <2>1, <3>1, <3>2 DEF RunInv, NextOffset
    <3> QED BY <3>6, <3>7, <3>8, <3>9, <3>10, <3>11, <3>5 DEF IInv
  <2> QED BY <2>4, <2>5
<1>5. CASE Drop
  <2> USE <1>5 DEF Drop
  <2>1. chan = <<>> /\ queue = <<>>
    BY DEF ViewInv
  <2>2. TypeOK'
    BY DEF TypeOK
  <2>3. ReaderInv'
    BY DEF ReaderInv, PausedOwes
  <2>4. NumberInv'
    BY DEF NumberInv, TypeOK, NoView
  <2>5. OwnerInv'
    BY DEF OwnerInv
  <2>6. ViewInv'
    BY <2>1 DEF ViewInv
  <2>7. RunInv'
    BY <2>1 DEF RunInv, NextOffset
  <2>8. Accounted'
    BY Settled DEF Accounted, Rescue, InHand, Owed
  <2> QED BY <2>2, <2>3, <2>4, <2>5, <2>6, <2>7, <2>8 DEF IInv
<1>6. CASE Rollback
  <2> USE <1>6 DEF Rollback
  <2>1. hand \in Nat /\ flow \in Flow
    BY DEF TypeOK
  <2>2. /\ flow' \in Flow /\ PausedOwes(flow')
        /\ flow'.pending = IF flow.pending >= hand THEN flow.pending - hand ELSE 0
    BY <2>1, FlowFacts, PausedFacts DEF ReaderInv
  <2>3. TypeOK'
    BY <2>2 DEF TypeOK
  <2>4. ReaderInv'
    BY <2>2 DEF ReaderInv, PausedOwes
  <2>5. NumberInv'
    BY DEF NumberInv
  <2>6. OwnerInv'
    BY DEF OwnerInv
  <2>7. ViewInv'
    BY DEF ViewInv
  <2>8. RunInv'
    BY DEF RunInv, NextOffset
  <2>9. Accounted'
    BY <2>1, <2>2, OwedNat, SMTT(60) DEF Accounted, Rescue, InHand, Owed, TypeOK, Flow
  <2> QED BY <2>3, <2>4, <2>5, <2>6, <2>7, <2>8, <2>9 DEF IInv
<1> QED BY <1>1, <1>2, <1>3, <1>4, <1>5, <1>6 DEF Reader

\* The command at the head of the main thread's queue, and the ones behind it.
LEMMA Commands ==
    ASSUME IInv, ctl # <<>>
    PROVE  /\ Len(ctl) \in Nat \ {0} /\ Head(ctl) = ctl[1]
           /\ Head(ctl).view \in Views \cup {NoView}
           /\ Head(ctl).op = "attach" => Head(ctl).view \in Views
           /\ Head(ctl).op = "detach" => Head(ctl).view = NoView
           /\ Head(ctl).view <= views
           /\ Tail(ctl) \in Seq(Command) /\ Len(Tail(ctl)) = Len(ctl) - 1
           /\ \A i \in 1..Len(Tail(ctl)) : Tail(ctl)[i] = ctl[i + 1]
           /\ Tail(ctl) = <<>> <=> Len(ctl) = 1
<1>1. ctl \in Seq(Command)
  BY DEF IInv, TypeOK
<1>2. Len(ctl) \in Nat \ {0} /\ Head(ctl) = ctl[1]
  BY <1>1, EmptySeq
<1>3. Head(ctl) \in Command
  BY <1>1, HeadTailProperties
<1>4. /\ Tail(ctl) \in Seq(Command) /\ Len(Tail(ctl)) = Len(ctl) - 1
      /\ \A i \in 1..Len(Tail(ctl)) : Tail(ctl)[i] = ctl[i + 1]
  BY <1>1, HeadTailProperties
<1>5. Tail(ctl) = <<>> <=> Len(ctl) = 1
  <2>1. \A q \in Seq(Command) : q = <<>> <=> Len(q) = 0
    BY EmptySeq
  <2>2. Tail(ctl) = <<>> <=> Len(Tail(ctl)) = 0
    BY <2>1, <1>4
  <2> QED BY <1>2, <1>4, <2>2
<1>6. Head(ctl).view <= views
  BY <1>2 DEF IInv, NumberInv
<1>7. /\ Head(ctl).view \in Views \cup {NoView}
      /\ Head(ctl).op = "attach" => Head(ctl).view \in Views
      /\ Head(ctl).op = "detach" => Head(ctl).view = NoView
  BY <1>3 DEF Command
<1> QED BY <1>2, <1>4, <1>5, <1>6, <1>7

\* The first half of a command moves the slot to the view it names.  It is
\* never taken from a view that has been answered: such a view has no command
\* behind it.
LEMMA SlotMoves ==
    ASSUME IInv, mainPc = "idle", ctl # <<>>,
           slot' = Head(ctl).view, mainPc' = "reset",
           UNCHANGED <<sessionVars, readerVars, ctl, pageVars, viewVars, stale>>
    PROVE  IInv'
<1> USE DEF IInv, sessionVars, readerVars, pageVars, viewVars
<1>1. chan = <<>> /\ queue = <<>> /\ viewPc # "attached" /\ resp = NoOffset
  BY Commands DEF ViewInv, OwnerInv
<1>2. OwnerInv'
  <2>1. cur # NoView /\ Head(ctl).view = cur => Len(ctl) = 1
    BY Commands DEF OwnerInv
  <2> QED BY <2>1, Commands DEF OwnerInv
<1>3. TypeOK'
  BY Commands DEF TypeOK
<1>4. ReaderInv'
  BY DEF ReaderInv, PausedOwes
<1>5. NumberInv'
  BY Commands DEF NumberInv
<1>6. ViewInv'
  BY <1>1 DEF ViewInv
<1>7. RunInv'
  BY DEF RunInv, NextOffset
<1>8. Accounted'
  BY DEF Accounted, Rescue, InHand, Owed
<1> QED BY <1>3, <1>4, <1>5, <1>2, <1>6, <1>7, <1>8 DEF IInv

\* The second half resets the account and leaves the queue to the rest.
LEMMA CommandDone ==
    ASSUME IInv, mainPc = "reset", flow' = ResetFlow, readerPc' = Woken,
           ctl' = Tail(ctl), mainPc' = "idle",
           resp' = resp \/ (Head(ctl).view = cur /\ cur # NoView /\ resp' \in Nat),
           UNCHANGED <<bytesOut, killed, masterOpen, childAlive, hand, slot, pageVars,
                       viewPc, endOffset, shown, chan, queue, unwritten, acc, flying,
                       stale>>
    PROVE  IInv'
<1> USE DEF IInv, pageVars
<1>1. /\ ctl # <<>>
      /\ slot = Head(ctl).view \/ (slot = NoView /\ Head(ctl).view # cur)
  BY DEF OwnerInv
<1>2. /\ flow' \in Flow /\ flow'.pending = 0 /\ PausedOwes(flow') /\ readerPc' # "wait"
      /\ InHand' = InHand /\ NextOffset' = NextOffset
      /\ readerPc' \in {readerPc, "check"} /\ (readerPc' = "check" \/ readerPc' = readerPc)
  BY FlowFacts, PausedFacts DEF Woken, InHand, NextOffset, TypeOK, ReaderInv
<1>3. cur # NoView /\ Head(ctl).view = cur => slot = cur /\ ctl' = <<>>
  <2>1. cur # NoView /\ Head(ctl).view = cur => slot = cur /\ Len(ctl) = 1
    BY <1>1, Commands DEF OwnerInv
  <2> QED BY <1>1, <2>1, Commands
<1>4. viewPc # "attached" /\ resp = NoOffset
  BY <1>1 DEF ViewInv
<1>5. OwnerInv'
  <2>1. page = "up" => IF ctl' = <<>> THEN slot = cur ELSE ctl'[Len(ctl')].view = cur
    <3>1. CASE Len(ctl) = 1
      BY <1>1, <3>1, Commands DEF OwnerInv
    <3>2. CASE Len(ctl) # 1
      <4>1. Len(ctl') \in 1..Len(ctl') /\ Len(ctl') + 1 = Len(ctl)
        BY <1>1, <3>2, Commands
      <4>2. ctl'[Len(ctl')] = ctl[Len(ctl)]
        BY <1>1, <4>1, Commands
      <4> QED BY <1>1, <3>2, <4>2, Commands DEF OwnerInv
    <3> QED BY <3>1, <3>2
  <2>2. cur # NoView => \A i \in 1..(Len(ctl') - 1) : ctl'[i].view # cur
    <3> SUFFICES ASSUME cur # NoView, NEW i \in 1..(Len(ctl') - 1)
                 PROVE  ctl'[i].view # cur
      OBVIOUS
    <3>1. i \in 1..Len(ctl') /\ i + 1 \in 1..(Len(ctl) - 1)
      BY <1>1, Commands
    <3> QED BY <1>1, <3>1, Commands DEF OwnerInv
  <2>3. cur # NoView /\ slot = cur => Len(ctl') = 0
    BY <1>1, Commands DEF OwnerInv
  <2> QED BY <2>1, <2>2, <2>3 DEF OwnerInv
<1>6. NumberInv'
  <2> SUFFICES ASSUME NEW i \in 1..Len(ctl')
               PROVE  ctl'[i].view <= views
    BY DEF NumberInv
  <2>1. i + 1 \in 1..Len(ctl) /\ ctl'[i] = ctl[i + 1]
    BY <1>1, Commands
  <2> QED BY <2>1 DEF NumberInv
<1>7. Accounted'
  <2>1. InHand \in Nat
    BY DEF InHand, TypeOK
  <2>2. Owed' = Owed /\ Owed \in Nat
    BY OwedNat DEF Owed
  <2> QED BY ONLY <1>2, <2>1, <2>2 DEF Accounted
<1>8. TypeOK'
  BY <1>1, <1>2, Commands DEF TypeOK
<1>9. ReaderInv'
  BY <1>2 DEF ReaderInv, PausedOwes
<1>10. ViewInv'
  BY <1>3, <1>4 DEF ViewInv
<1>11. RunInv'
  BY <1>2 DEF RunInv, NextOffset
<1> QED BY <1>8, <1>9, <1>6, <1>5, <1>10, <1>11, <1>7 DEF IInv

\* attach_terminal and detach_terminal, each in two steps.
LEMMA MainStep ==
    ASSUME IInv, MainThread
    PROVE  IInv'
<1>1. CASE AttachSink
  BY <1>1, SlotMoves DEF AttachSink
<1>2. CASE DetachSink
  <2>1. Head(ctl).view = NoView
    BY <1>2, Commands DEF DetachSink
  <2> QED BY <1>2, <2>1, SlotMoves DEF DetachSink
<1>3. CASE Reattach
  <2>1. ctl # <<>>
    BY <1>3 DEF IInv, OwnerInv, Reattach
  <2>2. Head(ctl).view # NoView /\ bytesOut \in Nat
    BY <1>3, <2>1, Commands DEF Reattach, Views, NoView, IInv, TypeOK
  <2> QED BY <1>3, <2>2, CommandDone DEF Reattach
<1>4. CASE DetachReset
  BY <1>4, CommandDone DEF DetachReset, viewVars
<1> QED BY <1>1, <1>2, <1>3, <1>4 DEF MainThread

\* An acknowledgement, of the live view or of a dead one, only shrinks the
\* account, and wakes the reader when it resumes the flow.
LEMMA AckStep ==
    ASSUME IInv,
           (\E k \in 1..flying : Ack(k)) \/ (\E k \in 1..stale : StaleAck(k))
    PROVE  IInv'
<1>1. ASSUME NEW k \in Nat, AckBy(k), flying' \in Nat, stale' \in Nat,
             flying' = flying \/ (k <= flying /\ flying' = flying - k)
      PROVE  IInv'
  <2>1. flow \in Flow /\ flow' = OnAcked(flow, k)
    BY <1>1 DEF IInv, TypeOK, AckBy
  <2>2. /\ flow' \in Flow /\ PausedOwes(flow')
        /\ flow'.pending = IF flow.pending >= k THEN flow.pending - k ELSE 0
        /\ flow.paused /\ ~Resumes(flow, k) => flow'.paused
    BY <1>1, <2>1, FlowFacts, PausedFacts DEF IInv, ReaderInv
  <2>3. /\ readerPc' = IF Resumes(flow, k) THEN Woken ELSE readerPc
        /\ UNCHANGED <<bytesOut, killed, masterOpen, childAlive, hand, slot, ctl, mainPc,
                       page, reloads, views, cur, swept, viewPc, resp, endOffset, shown,
                       chan, queue, unwritten, acc>>
    BY <1>1 DEF AckBy, mainVars, pageVars
  <2>4. /\ readerPc' = readerPc \/ (readerPc = "wait" /\ readerPc' = "check")
        /\ readerPc' = "wait" => readerPc = "wait" /\ ~Resumes(flow, k)
    BY <2>3 DEF Woken
  <2>5. InHand' = InHand /\ NextOffset' = NextOffset
    BY <2>3, <2>4 DEF InHand, NextOffset
  <2>6. Accounted'
    <3>1. Bytes(chan) \in Nat /\ Bytes(queue) \in Nat /\ unwritten \in Nat /\ acc \in Nat
          /\ flying \in Nat /\ InHand \in Nat /\ flow.pending \in Nat
          /\ Owed \in Nat /\ k \in Nat
      BY OwedNat, <2>1 DEF IInv, TypeOK, InHand, Flow
    <3>2. Owed' \in Nat /\ (Owed' = Owed \/ Owed' = Owed - k)
      BY <1>1, <2>3, <3>1 DEF Owed
    <3>3. Accounted
      BY DEF IInv
    <3> QED BY ONLY <1>1, <2>2, <2>3, <2>5, <3>1, <3>2, <3>3 DEF Accounted, Rescue
  <2> USE <1>1, <2>3 DEF IInv
  <2>7. TypeOK'
    BY <2>2, <2>4 DEF TypeOK
  <2>8. ReaderInv'
    BY <2>2, <2>4 DEF ReaderInv, PausedOwes
  <2>9. NumberInv'
    BY DEF NumberInv
  <2>10. OwnerInv'
    BY DEF OwnerInv
  <2>11. ViewInv'
    BY DEF ViewInv
  <2>12. RunInv'
    BY <2>5 DEF RunInv, NextOffset
  <2> QED BY <2>7, <2>8, <2>9, <2>10, <2>11, <2>12, <2>6 DEF IInv
<1>2. ASSUME NEW k \in 1..flying, Ack(k)
      PROVE  IInv'
  <2>1. flying \in Nat /\ stale \in Nat
    BY DEF IInv, TypeOK
  <2> QED BY <1>1, <1>2, <2>1 DEF Ack
<1>3. ASSUME NEW k \in 1..stale, StaleAck(k)
      PROVE  IInv'
  <2>1. flying \in Nat /\ stale \in Nat
    BY DEF IInv, TypeOK
  <2> QED BY <1>1, <1>3, <2>1 DEF StaleAck
<1> QED BY <1>2, <1>3

\* What a command appended to the queue changes in it.
LEMMA Appended ==
    ASSUME IInv, NEW c \in Command
    PROVE  /\ Append(ctl, c) \in Seq(Command) /\ Append(ctl, c) # <<>>
           /\ Len(ctl) \in Nat /\ Len(Append(ctl, c)) = Len(ctl) + 1
           /\ Append(ctl, c)[Len(Append(ctl, c))] = c
           /\ \A i \in 1..Len(ctl) : Append(ctl, c)[i] = ctl[i]
           /\ ctl # <<>> => Head(Append(ctl, c)) = Head(ctl)
<1>1. ctl \in Seq(Command)
  BY DEF IInv, TypeOK
<1> QED BY <1>1, AppendProperties, LenProperties, HeadTailAppend

\* Creating, sweeping and disposing leave a command behind them that settles
\* the account; a reload leaves a page that will.
LEMMA PageStep ==
    ASSUME IInv, RenderShow \/ RenderSweep \/ Dispose \/ Reload
    PROVE  IInv'
<1> USE DEF IInv, sessionVars, readerVars, viewVars
<1>1. CASE RenderShow
  <2> USE <1>1 DEF RenderShow
  <2> DEFINE c == [op |-> "attach", view |-> views + 1]
  <2>1. /\ views \in Nat /\ views + 1 \in Views /\ views + 1 # NoView
        /\ views + 1 \in 0..MaxViews
    BY PtyStreamConstants DEF TypeOK, Views, NoView
  <2>2. c \in Command /\ c.view = views + 1
    BY <2>1 DEF Command
  <2>3. chan = <<>> /\ queue = <<>> /\ resp = NoOffset
    BY DEF ViewInv
  <2>4. ctl' = Append(ctl, c)
    OBVIOUS
  <2> HIDE DEF c
  <2>5. NumberInv'
    <3> SUFFICES ASSUME NEW i \in 1..Len(ctl')
                 PROVE  ctl'[i].view <= views + 1 /\ slot <= views + 1
      BY <2>1 DEF NumberInv
    <3>1. i \in 1..Len(ctl) \/ i = Len(ctl')
      BY <2>2, <2>4, Appended
    <3>2. slot \in Int
      BY DEF TypeOK, Views, NoView
    <3>3. \A j \in 1..Len(ctl) : ctl[j].view \in Int
      <4>1. \A j \in 1..Len(ctl) : ctl[j] \in Command
        BY ElementOfSeq DEF TypeOK
      <4> QED BY <4>1 DEF Command, Views, NoView
    <3> QED BY <2>1, <2>2, <2>4, <3>1, <3>2, <3>3, Appended DEF NumberInv
  <2>6. OwnerInv'
    <3>1. cur' = views + 1 /\ slot # views + 1
      BY <2>1 DEF NumberInv
    <3>2. \A i \in 1..Len(ctl) : ctl[i].view # views + 1
      BY <2>1 DEF NumberInv
    <3>3. ctl # <<>> => Head(ctl).view # views + 1
      BY <2>1, Commands
    <3>4. ctl' # <<>> /\ ctl'[Len(ctl')].view = views + 1 /\ Len(ctl') - 1 = Len(ctl)
          /\ \A i \in 1..Len(ctl) : ctl'[i] = ctl[i]
          /\ (ctl # <<>> => Head(ctl') = Head(ctl))
      BY <2>2, <2>4, Appended
    <3> QED BY <3>1, <3>2, <3>3, <3>4 DEF OwnerInv
  <2>7. TypeOK'
    BY <2>1, <2>2, <2>4, Appended, ZenonT(60) DEF TypeOK
  <2>8. ctl' # <<>>
    BY <2>2, <2>4, Appended
  <2>9. ReaderInv'
    BY DEF ReaderInv, PausedOwes
  <2>10. ViewInv'
    BY <2>1, <2>3 DEF ViewInv
  <2>11. RunInv'
    BY <2>3 DEF RunInv, NextOffset
  <2>12. Accounted'
    BY <2>8 DEF Accounted, Rescue, InHand, Owed
  <2> QED BY <2>7, <2>9, <2>5, <2>6, <2>10, <2>11, <2>12 DEF IInv
<1>2. ASSUME NEW c \in Command, c.view = NoView, ctl' = Append(ctl, c), cur' = NoView,
             page' = "up" \/ (page' = page /\ page = "up"),
             UNCHANGED <<slot, mainPc, views>>
      PROVE  NumberInv' /\ OwnerInv' /\ ctl' \in Seq(Command) /\ ctl' # <<>>
  <2>1. /\ ctl' # <<>> /\ ctl'[Len(ctl')] = c /\ Len(ctl) \in Nat
        /\ Len(ctl') = Len(ctl) + 1
        /\ \A i \in 1..Len(ctl) : ctl'[i] = ctl[i]
        /\ (ctl # <<>> => Head(ctl') = Head(ctl))
        /\ ctl' \in Seq(Command)
    BY <1>2, Appended
  <2>2. views \in Nat
    BY DEF TypeOK
  <2>3. NumberInv'
    <3> SUFFICES ASSUME NEW i \in 1..Len(ctl')
                 PROVE  ctl'[i].view <= views
      BY <1>2, <2>2 DEF NumberInv, NoView
    <3>1. i \in 1..Len(ctl) \/ i = Len(ctl')
      BY <2>1
    <3> QED BY <1>2, <2>1, <2>2, <3>1 DEF NumberInv, NoView
  <2>4. OwnerInv'
    BY <1>2, <2>1 DEF OwnerInv
  <2> QED BY <2>1, <2>3, <2>4
<1>3. [op |-> "detach", view |-> NoView] \in Command
  BY DEF Command
<1>4. CASE RenderSweep
  <2> USE <1>4 DEF RenderSweep
  <2>1. NumberInv' /\ OwnerInv' /\ ctl' \in Seq(Command) /\ ctl' # <<>>
    BY <1>2, <1>3
  <2>2. TypeOK'
    BY <2>1 DEF TypeOK
  <2>3. ReaderInv'
    BY DEF ReaderInv, PausedOwes
  <2>4. NumberInv'
    BY <2>1 DEF NumberInv
  <2>5. OwnerInv'
    BY <2>1 DEF OwnerInv
  <2>6. ViewInv'
    BY DEF ViewInv
  <2>7. RunInv'
    BY DEF RunInv, NextOffset
  <2>8. Accounted'
    BY <2>1 DEF Accounted, Rescue, InHand, Owed
  <2> QED BY <2>2, <2>3, <2>4, <2>5, <2>6, <2>7, <2>8 DEF IInv
<1>5. CASE Dispose
  <2> USE <1>5 DEF Dispose, ForgetView
  <2>1. page = "up"
    BY DEF OwnerInv, TypeOK
  <2>2. NumberInv' /\ OwnerInv' /\ ctl' \in Seq(Command) /\ ctl' # <<>>
    BY <1>2, <1>3, <2>1
  <2>3. chan' = <<>> /\ queue' = <<>> /\ Gapless(<<>>)
    BY DEF Gapless
  <2>4. TypeOK'
    BY <2>2 DEF TypeOK, NoView, NoOffset
  <2>5. ReaderInv'
    BY DEF ReaderInv, PausedOwes
  <2>6. NumberInv'
    BY <2>2 DEF NumberInv
  <2>7. OwnerInv'
    BY <2>2 DEF OwnerInv
  <2>8. ViewInv'
    BY DEF ViewInv
  <2>9. RunInv'
    BY <2>3 DEF RunInv, NextOffset
  <2>10. Accounted'
    BY <2>2 DEF Accounted, Rescue, InHand, Owed
  <2> QED BY <2>4, <2>5, <2>6, <2>7, <2>8, <2>9, <2>10 DEF IInv
<1>6. CASE Reload
  <2>1. PICK left \in 0..flying : ForgetView(left)
    BY <1>6 DEF Reload
  <2>2. PICK k \in (IF mainPc = "idle" THEN 0 ELSE 1)..Len(ctl) : ctl' = SubSeq(ctl, 1, k)
    BY <1>6 DEF Reload
  <2>3. /\ page' = "loading" /\ reloads' = reloads + 1 /\ swept' = FALSE
        /\ UNCHANGED <<sessionVars, readerVars, slot, mainPc, views>>
    BY <1>6 DEF Reload
  <2> USE <2>1, <2>3 DEF ForgetView
  <2>4. /\ k \in Nat /\ k <= Len(ctl) /\ Len(ctl) \in Nat
        /\ mainPc = "reset" => k >= 1
        /\ \A i \in 1..Len(ctl) : ctl[i] \in Command
    BY <2>2, LenProperties, ElementOfSeq DEF TypeOK
  <2>5. /\ ctl' \in Seq(Command) /\ Len(ctl') = k
        /\ \A i \in 1..k : ctl'[i] = ctl[i]
    <3>1. \A i \in 1..k : ctl[i] \in Command
      BY <2>4
    <3>2. /\ ctl' \in Seq(Command) /\ Len(ctl') = IF 1 <= k THEN k - 1 + 1 ELSE 0
          /\ \A i \in 1..(k - 1 + 1) : ctl'[i] = ctl[1 + i - 1]
      BY <2>2, <2>4, <3>1, SubSeqProperties
    <3> QED BY <2>4, <3>2
  <2>6. mainPc = "reset" => ctl' # <<>> /\ ctl # <<>> /\ Head(ctl') = Head(ctl)
    BY <2>4, <2>5
  <2>7. chan' = <<>> /\ queue' = <<>> /\ Gapless(<<>>)
    BY DEF Gapless
  <2>8. stale' \in Nat
    BY DEF TypeOK
  <2>9. NumberInv'
    BY <2>4, <2>5 DEF NumberInv, NoView, TypeOK
  <2>10. OwnerInv'
    BY <2>6 DEF OwnerInv
  <2>11. TypeOK'
    <3>1. reloads' \in Nat
      BY DEF TypeOK
    <3>2. /\ page' \in {"loading", "up"} /\ cur' \in Views \cup {NoView}
          /\ swept' \in BOOLEAN /\ viewPc' \in {"none", "attaching", "attached"}
          /\ resp' \in Nat \cup {NoOffset} /\ endOffset' \in Nat /\ shown' \in Nat
          /\ unwritten' \in Nat /\ acc' \in Nat /\ flying' \in Nat
      OBVIOUS
    <3>3. chan' \in Seq(Frame) /\ queue' \in Seq(Frame)
      BY <2>7, EmptySeq
    <3>4. UNCHANGED <<sessionVars, readerVars, slot, mainPc, views>>
      OBVIOUS
    <3> QED BY ONLY <2>5, <2>8, <3>1, <3>2, <3>3, <3>4, IInv
            DEF IInv, TypeOK, sessionVars, readerVars
  <2>12. ReaderInv'
    BY DEF ReaderInv, PausedOwes
  <2>13. ViewInv'
    BY DEF ViewInv
  <2>14. RunInv'
    BY <2>7 DEF RunInv, NextOffset
  <2>15. Accounted'
    BY DEF Accounted, Rescue, InHand, Owed
  <2> QED BY <2>11, <2>12, <2>9, <2>10, <2>13, <2>14, <2>15 DEF IInv
<1> QED BY <1>1, <1>4, <1>5, <1>6

\* AckBatcher.add keeps what it is given, in acc or in an ack_output call.
LEMMA AddAckFacts ==
    ASSUME NEW a \in Nat, NEW fly \in Nat, AddAck(a, fly)
    PROVE  acc' \in Nat /\ flying' \in Nat /\ acc' + flying' = a + fly
BY DEF AddAck

\* The sums of a written frame and of an answered attach.
LEMMA Sums ==
    ASSUME NEW c \in Nat, NEW u \in Nat, NEW a \in Nat, NEW f \in Nat,
           NEW k \in Nat, NEW e \in Nat, NEW l \in Nat
    PROVE  /\ (u - k) + ((a + k) + f) = u + (a + f)
           /\ (c + 0) + ((u + l) + ((a + e) + f)) = (c + (e + l)) + (u + (a + f))
OBVIOUS

\* A task of the page moves bytes along: from the channel to the queue, to
\* the terminal, to the batcher, to an ack_output call.
LEMMA ViewStep ==
    ASSUME IInv, ViewTask \/ FlushTimer
    PROVE  IInv'
<1> USE DEF sessionVars, readerVars, mainVars, pageVars
<1>1. /\ chan \in Seq(Frame) /\ Gapless(chan) /\ queue \in Seq(Frame) /\ Gapless(queue)
      /\ unwritten \in Nat /\ acc \in Nat /\ flying \in Nat
      /\ Bytes(chan) \in Nat /\ Bytes(queue) \in Nat
  BY OwedNat DEF IInv, TypeOK, RunInv
<1>0. /\ unwritten \in Nat /\ acc \in Nat /\ flying \in Nat
      /\ Bytes(chan) \in Nat /\ Bytes(queue) \in Nat
  BY <1>1
<1>2. chan # <<>> =>
        /\ Head(chan) \in Frame /\ Head(chan).n \in Nat /\ Head(chan) = chan[1]
        /\ Tail(chan) \in Seq(Frame) /\ Gapless(Tail(chan))
        /\ Bytes(Tail(chan)) = Bytes(chan) - Head(chan).n
        /\ Tail(chan) # <<>> => /\ Tail(chan)[Len(Tail(chan))] = chan[Len(chan)]
                                /\ Tail(chan)[1].off = End(Head(chan))
        /\ Tail(chan) = <<>> => chan[Len(chan)] = Head(chan)
  BY <1>1, RunTail, FrameFacts
<1>3. ASSUME chan # <<>>, viewPc = "attached", chan' = Tail(chan),
             shown' \in Nat, unwritten' \in Nat, acc' \in Nat, flying' \in Nat,
             unwritten' + (acc' + flying') = (unwritten + (acc + flying)) + Head(chan).n,
             UNCHANGED <<sessionVars, readerVars, mainVars, pageVars, viewPc, resp,
                         endOffset, queue, stale>>
      PROVE  IInv'
  <2> USE <1>3 DEF IInv
  <2>1. Owed' = Owed
    <3>1. queue' = queue
      OBVIOUS
    <3>2. Bytes(chan') = Bytes(chan) - Head(chan).n /\ Head(chan).n \in Nat
      BY <1>2, <1>3
    <3>3. /\ unwritten' \in Nat /\ acc' \in Nat /\ flying' \in Nat
          /\ unwritten' + (acc' + flying') = (unwritten + (acc + flying)) + Head(chan).n
      BY <1>3
    <3> QED BY ONLY <1>0, <3>1, <3>2, <3>3 DEF Owed
  <2>2. queue = <<>>
    BY DEF ViewInv
  <2>3. TypeOK'
    BY <1>2 DEF TypeOK
  <2>4. ReaderInv'
    BY DEF ReaderInv, PausedOwes
  <2>5. NumberInv'
    BY DEF NumberInv
  <2>6. OwnerInv'
    BY DEF OwnerInv
  <2>7. ViewInv'
    BY DEF ViewInv
  <2>8. RunInv'
    BY <1>2, <2>2 DEF RunInv, NextOffset
  <2>9. Accounted'
    BY <2>1 DEF Accounted, Rescue, InHand
  <2> QED BY <2>3, <2>4, <2>5, <2>6, <2>7, <2>8, <2>9 DEF IInv
<1>4. CASE ReceiveEarly
  <2> USE <1>4 DEF ReceiveEarly, IInv
  <2>1. queue # <<>> => End(queue[Len(queue)]) = Head(chan).off
    BY <1>2 DEF RunInv
  <2>2. /\ queue' \in Seq(Frame) /\ Gapless(queue') /\ queue' # <<>>
        /\ Bytes(queue') = Bytes(queue) + Head(chan).n
        /\ queue'[Len(queue')] = Head(chan)
    BY <1>1, <1>2, <2>1, RunAppend
  <2>3. chan' = Tail(chan) /\ UNCHANGED <<unwritten, acc, flying>>
    OBVIOUS
  <2>4. Owed' = Owed
    BY ONLY <1>1, <1>2, <1>4, <2>2, <2>3 DEF Owed, ReceiveEarly
  <2>5. TypeOK'
    BY <1>2, <2>2 DEF TypeOK
  <2>6. ReaderInv'
    BY DEF ReaderInv, PausedOwes
  <2>7. NumberInv'
    BY DEF NumberInv
  <2>8. OwnerInv'
    BY DEF OwnerInv
  <2>9. ViewInv'
    BY DEF ViewInv
  <2>10. RunInv'
    BY <1>2, <2>2 DEF RunInv, NextOffset
  <2>11. Accounted'
    BY <2>4 DEF Accounted, Rescue, InHand
  <2> QED BY <2>5, <2>6, <2>7, <2>8, <2>9, <2>10, <2>11 DEF IInv
<1>5. CASE ReceiveKept
  <2>1. shown' \in Nat
    BY <1>2, <1>5, FrameFacts DEF ReceiveKept
  <2>2. /\ chan # <<>> /\ viewPc = "attached" /\ chan' = Tail(chan)
        /\ unwritten' = unwritten + Head(chan).n /\ acc' = acc /\ flying' = flying
        /\ UNCHANGED <<sessionVars, readerVars, mainVars, pageVars, viewPc, resp,
                       endOffset, queue, stale>>
    BY <1>5 DEF ReceiveKept
  <2>3. /\ unwritten' \in Nat /\ acc' \in Nat /\ flying' \in Nat
        /\ unwritten' + (acc' + flying') = (unwritten + (acc + flying)) + Head(chan).n
    <3>1. unwritten \in Nat /\ acc \in Nat /\ flying \in Nat /\ Head(chan).n \in Nat
      BY <1>1, <1>2, <2>2
    <3>2. unwritten' = unwritten + Head(chan).n /\ acc' = acc /\ flying' = flying
      BY <2>2
    <3> QED BY ONLY <3>1, <3>2
  <2> QED BY <1>3, <2>1, <2>2, <2>3
<1>6. CASE ReceiveDiscarded
  <2>1. /\ acc' \in Nat /\ flying' \in Nat
        /\ acc' + flying' = (acc + Head(chan).n) + flying
    BY <1>1, <1>2, <1>6, AddAckFacts DEF ReceiveDiscarded
  <2>2. shown \in Nat
    BY DEF IInv, TypeOK
  <2>3. /\ chan # <<>> /\ viewPc = "attached" /\ chan' = Tail(chan)
        /\ unwritten' = unwritten /\ shown' = shown
        /\ UNCHANGED <<sessionVars, readerVars, mainVars, pageVars, viewPc, resp,
                       endOffset, queue, stale>>
    BY <1>6 DEF ReceiveDiscarded
  <2>4. /\ unwritten' \in Nat /\ shown' \in Nat
        /\ unwritten' + (acc' + flying') = (unwritten + (acc + flying)) + Head(chan).n
    <3>1. unwritten' = unwritten /\ shown' = shown /\ Head(chan).n \in Nat
      BY <1>2, <2>3
    <3> QED BY ONLY <1>0, <2>1, <2>2, <3>1
  <2> QED BY <1>3, <2>1, <2>3, <2>4
<1>7. CASE Snapshot
  <2> DEFINE len == Len(queue)
             cut == Cardinality({i \in 1..len : queue[i].off < resp})
             early == Bytes(SubSeq(queue, 1, cut))
             late == Bytes(SubSeq(queue, cut + 1, len))
  <2>1. cut \in 0..len
    <3>1. len \in Nat
      BY <1>1, LenProperties
    <3>2. IsFiniteSet(1..len) /\ Cardinality(1..len) = len
      BY <3>1, FS_Interval, SMTT(30)
    <3>3. {i \in 1..len : queue[i].off < resp} \in SUBSET (1..len)
      OBVIOUS
    <3>4. cut \in Nat /\ cut <= len
      BY <3>2, <3>3, FS_Subset, FS_CardinalityType
    <3> QED BY <3>1, <3>4
  <2>2. early \in Nat /\ late \in Nat /\ early + late = Bytes(queue)
    BY <1>1, <2>1, RunSplit
  <2>3. /\ viewPc = "attaching" /\ resp # NoOffset /\ viewPc' = "attached"
        /\ endOffset' = resp /\ resp' = NoOffset /\ queue' = <<>>
        /\ shown' = IF cut = len THEN resp ELSE End(queue[len])
        /\ unwritten' = unwritten + late
        /\ AddAck(acc + early, flying)
        /\ UNCHANGED <<sessionVars, readerVars, mainVars, pageVars, chan, stale>>
    BY <1>7 DEF Snapshot
  <2>4. /\ acc' \in Nat /\ flying' \in Nat /\ acc' + flying' = (acc + early) + flying
        /\ unwritten' \in Nat
    BY <1>1, <2>2, <2>3, AddAckFacts, SMTT(30)
  <2>5. resp \in Nat /\ shown' \in Nat
    <3>1. resp \in Nat
      BY <2>3 DEF IInv, TypeOK
    <3>2. cut # len => queue[len] \in Frame
      BY <1>1, <2>1, ElementOfSeq
    <3> QED BY <2>3, <3>1, <3>2, FrameFacts
  <2> HIDE DEF cut, early, late
  <2>6. Owed' = Owed
    <3>1. Bytes(queue') = 0 /\ chan' = chan /\ unwritten' = unwritten + late
      BY <2>3 DEF Bytes
    <3>2. Owed' = (Bytes(chan) + 0) + ((unwritten + late) + ((acc + early) + flying))
      BY ONLY <2>4, <3>1 DEF Owed
    <3>3. (Bytes(chan) + 0) + ((unwritten + late) + ((acc + early) + flying))
            = (Bytes(chan) + (early + late)) + (unwritten + (acc + flying))
      BY ONLY <1>0, <2>2, Sums
    <3> QED BY ONLY <2>2, <3>2, <3>3 DEF Owed
  <2>7. queue' \in Seq(Frame) /\ Gapless(queue')
    BY <2>3, EmptySeq DEF Gapless
  <2> USE <2>3 DEF IInv
  <2>8. TypeOK'
    BY <2>4, <2>5, <2>7 DEF TypeOK
  <2>9. ReaderInv'
    BY DEF ReaderInv, PausedOwes
  <2>10. NumberInv'
    BY DEF NumberInv
  <2>11. OwnerInv'
    BY DEF OwnerInv
  <2>12. ViewInv'
    BY DEF ViewInv
  <2>13. RunInv'
    BY <2>7 DEF RunInv, NextOffset
  <2>14. Accounted'
    BY <2>6 DEF Accounted, Rescue, InHand
  <2> QED BY <2>8, <2>9, <2>10, <2>11, <2>12, <2>13, <2>14 DEF IInv
<1>8. ASSUME unwritten' \in Nat, acc' \in Nat, flying' \in Nat,
             unwritten' + (acc' + flying') = unwritten + (acc + flying),
             UNCHANGED <<sessionVars, readerVars, mainVars, pageVars, viewPc, resp,
                         endOffset, shown, chan, queue, stale>>
      PROVE  IInv'
  <2>1. Owed' = Owed
    <3>1. /\ chan' = chan /\ queue' = queue
          /\ unwritten' \in Nat /\ acc' \in Nat /\ flying' \in Nat
          /\ unwritten' + (acc' + flying') = unwritten + (acc + flying)
      BY <1>8
    <3> QED BY ONLY <1>0, <3>1 DEF Owed
  <2> USE <1>8 DEF IInv
  <2>2. TypeOK'
    BY DEF TypeOK
  <2>3. ReaderInv'
    BY DEF ReaderInv, PausedOwes
  <2>4. NumberInv'
    BY DEF NumberInv
  <2>5. OwnerInv'
    BY DEF OwnerInv
  <2>6. ViewInv'
    BY DEF ViewInv
  <2>7. RunInv'
    BY DEF RunInv, NextOffset
  <2>8. Accounted'
    BY <2>1 DEF Accounted, Rescue, InHand
  <2> QED BY <2>2, <2>3, <2>4, <2>5, <2>6, <2>7, <2>8 DEF IInv
<1>9. ASSUME NEW k \in 1..unwritten, Written(k)
      PROVE  IInv'
  <2>1. k \in Nat /\ k <= unwritten
    BY <1>1
  <2>2. acc' \in Nat /\ flying' \in Nat /\ acc' + flying' = (acc + k) + flying
    BY <1>1, <1>9, <2>1, AddAckFacts DEF Written
  <2>3. /\ unwritten' = unwritten - k
        /\ UNCHANGED <<sessionVars, readerVars, mainVars, pageVars, viewPc, resp,
                       endOffset, shown, chan, queue, stale>>
    BY <1>9 DEF Written
  <2>4. unwritten' \in Nat /\ unwritten' + (acc' + flying') = unwritten + (acc + flying)
    <3>1. unwritten' = unwritten - k
      BY <2>3
    <3>2. unwritten' \in Nat
      BY ONLY <1>0, <2>1, <3>1
    <3>3. unwritten' + (acc' + flying') = (unwritten - k) + ((acc + k) + flying)
      BY ONLY <2>2, <3>1
    <3>4. (unwritten - k) + ((acc + k) + flying) = unwritten + (acc + flying)
      BY ONLY <1>0, <2>1, Sums
    <3> QED BY <3>2, <3>3, <3>4
  <2> QED BY <1>8, <2>2, <2>3, <2>4
<1>10. CASE FlushTimer
  BY <1>1, <1>8, <1>10 DEF FlushTimer
<1> QED BY <1>4, <1>5, <1>6, <1>7, <1>9, <1>10 DEF ViewTask

-----------------------------------------------------------------------------
(***************************************************************************)
(* The drawing.  The snapshot ends at EndMark, between two frames: no      *)
(* frame under way straddles it, and none is between it and the first of   *)
(* them, which is at Front for the gate once the queue is judged.  From    *)
(* there on the drawing ends at the later of the two.                      *)
(***************************************************************************)
EndMark == IF viewPc = "attached" THEN endOffset ELSE resp
Front == IF chan = <<>> THEN NextOffset ELSE chan[1].off

\* Which frames of a run the gate discards, by their offset alone.
Aligned(run, end) == \A i \in 1..Len(run) : run[i].off < end => End(run[i]) <= end

Drawn ==
    viewPc # "none" /\ EndMark # NoOffset =>
        /\ EndMark <= bytesOut /\ (EndMark <= NextOffset \/ EndMark = bytesOut)
        /\ Aligned(queue, EndMark) /\ Aligned(chan, EndMark)
        /\ IF viewPc = "attaching"
           THEN (IF queue = <<>> THEN Front ELSE queue[1].off) <= EndMark
           ELSE shown = IF Front < EndMark THEN EndMark ELSE Front


LEMMA NextOffsetFacts ==
    ASSUME TypeOK, ReaderInv, RunInv
    PROVE  /\ NextOffset \in Nat /\ bytesOut \in Nat /\ NextOffset <= bytesOut
           /\ Front \in Nat /\ Front <= NextOffset
<1>1. NextOffset \in Nat /\ bytesOut \in Nat /\ NextOffset <= bytesOut
  BY DEF TypeOK, ReaderInv, NextOffset
<1>2. CASE chan = <<>>
  BY <1>1, <1>2 DEF Front
<1>3. CASE chan # <<>>
  <2>1. /\ chan \in Seq(Frame) /\ Len(chan) \in 1..Len(chan) /\ 1 \in 1..Len(chan)
        /\ chan[1] \in Frame /\ chan[Len(chan)] \in Frame
    BY <1>3, LenProperties, EmptySeq DEF TypeOK
  <2>2. chan[1].off \in Nat /\ End(chan[1]) \in Nat /\ chan[1].off < End(chan[1])
    BY <2>1, FrameFacts
  <2>3. End(chan[1]) <= End(chan[Len(chan)])
    <3>1. CASE Len(chan) = 1
      BY <2>1, <2>2, <3>1
    <3>2. CASE Len(chan) # 1
      <4>1. End(chan[1]) <= chan[Len(chan)].off
        <5>1. 1 < Len(chan)
          <6>1. Len(chan) \in Nat
            BY <2>1, LenProperties
          <6>2. \A l \in Nat : 1 \in 1..l /\ l # 1 => 1 < l
            OBVIOUS
          <6> QED BY <2>1, <3>2, <6>1, <6>2
        <5> QED BY <2>1, <5>1 DEF RunInv, Gapless
      <4>2. chan[Len(chan)].off \in Nat /\ End(chan[Len(chan)]) \in Nat
            /\ chan[Len(chan)].off < End(chan[Len(chan)])
        BY <2>1, FrameFacts
      <4> QED BY <2>2, <4>1, <4>2
    <3> QED BY <3>1, <3>2
  <2>4. End(chan[Len(chan)]) = NextOffset
    BY <1>3 DEF RunInv
  <2> QED BY <1>1, <1>3, <2>2, <2>3, <2>4 DEF Front
<1> QED BY <1>1, <1>2, <1>3

\* A step that moves neither the stream nor the gate.
LEMMA DrawnKept ==
    ASSUME Drawn, UNCHANGED <<viewPc, resp, endOffset, shown, chan, queue, bytesOut>>,
           NextOffset' = NextOffset
    PROVE  Drawn'
BY DEF Drawn, EndMark, Front, Aligned

\* Frames are aligned where a run grows and where it is cut.
LEMMA AlignedAppend ==
    ASSUME NEW run \in Seq(Frame), NEW f \in Frame, NEW end, Aligned(run, end),
           f.off < end => End(f) <= end
    PROVE  Aligned(Append(run, f), end)
<1> DEFINE new == Append(run, f)
<1>1. /\ Len(new) = Len(run) + 1 /\ Len(run) \in Nat /\ new[Len(new)] = f
      /\ \A i \in 1..Len(run) : new[i] = run[i]
  BY AppendProperties, LenProperties
<1> HIDE DEF new
<1>2. \A i \in 1..Len(new) : i \in 1..Len(run) \/ i = Len(new)
  BY <1>1
<1>3. Aligned(new, end)
  BY <1>1, <1>2 DEF Aligned
<1> QED BY <1>3 DEF new

LEMMA AlignedTail ==
    ASSUME NEW run \in Seq(Frame), run # <<>>, NEW end, Aligned(run, end)
    PROVE  Aligned(Tail(run), end)
<1> DEFINE new == Tail(run)
<1>1. /\ Len(new) = Len(run) - 1 /\ Len(run) \in Nat \ {0}
      /\ \A i \in 1..Len(new) : new[i] = run[i + 1]
  BY HeadTailProperties, LenProperties, EmptySeq
<1> HIDE DEF new
<1>2. \A i \in 1..Len(new) : i + 1 \in 1..Len(run)
  BY <1>1
<1>3. Aligned(new, end)
  BY <1>1, <1>2 DEF Aligned
<1> QED BY <1>3 DEF new

\* The reader moves the stream along, and the sink appends what it read.
LEMMA ReaderDraws ==
    ASSUME IInv, Drawn, Reader
    PROVE  Drawn'
<1> USE DEF sessionVars, readerVars, mainVars, pageVars, viewVars, IInv
<1>1. /\ NextOffset \in Nat /\ bytesOut \in Nat /\ NextOffset <= bytesOut
      /\ Front \in Nat /\ Front <= NextOffset
  BY NextOffsetFacts
<1>2. CASE ReaderCheck \/ ReaderEof \/ Rollback
  BY <1>2, DrawnKept DEF ReaderCheck, ReaderEof, Rollback, NextOffset
<1>3. ASSUME NEW n \in ChunkSizes, ReaderRead(n) PROVE Drawn'
  <2>1. /\ n \in Nat /\ bytesOut' = bytesOut + n /\ hand' = n
        /\ readerPc = "read" /\ readerPc' = "deliver"
    BY <1>3, PtyStreamConstants DEF ReaderRead
  <2>2. NextOffset = bytesOut /\ NextOffset' = bytesOut
    BY <1>1, <2>1 DEF NextOffset
  <2>3. UNCHANGED <<viewPc, resp, endOffset, shown, chan, queue>>
    BY <1>3 DEF ReaderRead
  <2>4. EndMark' = EndMark /\ EndMark \in Nat \cup {NoOffset} /\ Front' = Front
    BY <2>2, <2>3 DEF EndMark, Front, TypeOK
  <2> QED BY <1>1, <2>1, <2>2, <2>3, <2>4 DEF Drawn, Aligned
<1>4. CASE Deliver
  <2>1. /\ readerPc = "deliver" /\ readerPc' = "check" /\ bytesOut' = bytesOut
        /\ UNCHANGED <<viewPc, resp, endOffset, shown, queue, cur>>
    BY <1>4 DEF Deliver
  <2>2. NextOffset' = bytesOut /\ NextOffset = bytesOut - hand /\ hand \in 1..bytesOut
    BY <2>1 DEF NextOffset, ReaderInv
  <2>3. EndMark' = EndMark /\ EndMark \in Nat \cup {NoOffset}
    BY <2>1 DEF EndMark, TypeOK
  <2> SUFFICES ASSUME viewPc # "none", EndMark # NoOffset PROVE Drawn'
    BY <2>1, <2>3 DEF Drawn
  <2>4. slot = cur
    BY DEF ViewInv, EndMark
  <2> DEFINE f == [off |-> bytesOut - hand, n |-> hand]
  <2>5. f \in Frame /\ f.off = NextOffset /\ End(f) = bytesOut
    BY <1>1, <2>2 DEF Frame, End
  <2>6. chan' = Append(chan, f)
    BY <1>4, <2>4 DEF Deliver
  <2> HIDE DEF f
  <2>7. /\ EndMark <= bytesOut /\ (EndMark <= NextOffset \/ EndMark = bytesOut)
        /\ Aligned(queue, EndMark) /\ Aligned(chan, EndMark)
    BY DEF Drawn
  <2>8. chan \in Seq(Frame)
    BY DEF TypeOK
  <2>9. Aligned(chan', EndMark)
    <3>1. f.off < EndMark => End(f) <= EndMark
      BY <1>1, <2>3, <2>5, <2>7
    <3> QED BY <2>5, <2>6, <2>7, <2>8, <3>1, AlignedAppend
  <2>10. Front' = Front
    <3>1. chan' # <<>> /\ chan'[1] = IF chan = <<>> THEN f ELSE chan[1]
      <4>1. chan # <<>> => End(chan[Len(chan)]) = f.off
        BY <2>5 DEF RunInv
      <4> QED BY <2>5, <2>6, <2>8, <4>1, RunAppend DEF RunInv
    <3> QED BY <2>5, <3>1 DEF Front
  <2> QED BY <1>1, <2>1, <2>2, <2>3, <2>7, <2>9, <2>10 DEF Drawn, Aligned
<1>5. CASE Drop
  <2>2. viewPc = "none" \/ EndMark = NoOffset
    BY <1>5 DEF Drop, ViewInv, EndMark
  <2>3. UNCHANGED <<viewPc, resp, endOffset>>
    BY <1>5 DEF Drop
  <2> QED BY <2>2, <2>3 DEF Drawn, EndMark
<1> QED BY <1>2, <1>3, <1>4, <1>5 DEF Reader

\* The snapshot ends where the stream is when the account is reset.
LEMMA MainDraws ==
    ASSUME IInv, Drawn, MainThread
    PROVE  Drawn'
<1> USE DEF sessionVars, readerVars, mainVars, pageVars, viewVars, IInv
<1>1. /\ NextOffset \in Nat /\ bytesOut \in Nat /\ NextOffset <= bytesOut
      /\ Front \in Nat /\ Front <= NextOffset
  BY NextOffsetFacts
<1>2. CASE AttachSink \/ DetachSink \/ DetachReset
  BY <1>2, DrawnKept DEF AttachSink, DetachSink, DetachReset, NextOffset, Woken
<1>3. CASE Reattach
  <2>1. UNCHANGED <<viewPc, endOffset, shown, chan, queue, bytesOut>> /\ NextOffset' = NextOffset
    BY <1>3 DEF Reattach, NextOffset, Woken
  <2>2. CASE resp' = resp
    BY <2>1, <2>2, DrawnKept
  <2>3. CASE resp' # resp
    <3>1. resp' = bytesOut /\ ctl # <<>> /\ viewPc # "attached"
      BY <1>3, <2>3 DEF Reattach, ViewInv, OwnerInv
    <3>2. ASSUME NEW run \in Seq(Frame), NEW e \in Nat, Gapless(run), e <= bytesOut,
                 run # <<>> => End(run[Len(run)]) = e
          PROVE  \A i \in 1..Len(run) : End(run[i]) <= bytesOut
      <4> SUFFICES ASSUME NEW i \in 1..Len(run) PROVE End(run[i]) <= bytesOut
        OBVIOUS
      <4>1. Len(run) \in Nat /\ Len(run) \in 1..Len(run) /\ run # <<>>
        BY LenProperties, EmptySeq
      <4>2. run[i] \in Frame /\ run[Len(run)] \in Frame
        BY <4>1
      <4>3. /\ End(run[i]) \in Nat /\ End(run[Len(run)]) \in Nat /\ run[Len(run)].off \in Nat
            /\ run[Len(run)].off < End(run[Len(run)])
        BY <4>2, FrameFacts
      <4>4. CASE i = Len(run)
        BY <3>2, <4>1, <4>4
      <4>5. CASE i # Len(run)
        <5>1. End(run[i]) <= run[Len(run)].off
          BY <3>2, <4>1, <4>5 DEF Gapless
        <5> QED BY <1>1, <3>2, <4>1, <4>3, <5>1
      <4> QED BY <4>4, <4>5
    <3>3. Aligned(chan, bytesOut)
      BY <1>1, <3>2 DEF TypeOK, RunInv, Aligned
    <3>4. queue # <<>> => End(queue[Len(queue)]) = Front
      BY DEF RunInv, Front
    <3>5. Front <= bytesOut
      BY <1>1
    <3>6. \A i \in 1..Len(queue) : End(queue[i]) <= bytesOut
      BY <1>1, <3>2, <3>4, <3>5 DEF TypeOK, RunInv
    <3>7. queue # <<>> => queue[1].off <= bytesOut
      <4> SUFFICES ASSUME queue # <<>> PROVE queue[1].off <= bytesOut
        OBVIOUS
      <4>1. queue \in Seq(Frame) /\ 1 \in 1..Len(queue) /\ queue[1] \in Frame
        BY LenProperties, EmptySeq DEF TypeOK
      <4>2. queue[1].off \in Nat /\ End(queue[1]) \in Nat /\ queue[1].off < End(queue[1])
        BY <4>1, FrameFacts
      <4> QED BY <1>1, <3>6, <4>1, <4>2
    <3>8. Front' = Front /\ EndMark' = bytesOut
      BY <2>1, <3>1 DEF Front, EndMark
    <3>9. viewPc' \in {"none", "attaching"}
      BY <2>1, <3>1 DEF TypeOK
    <3>10. Aligned(queue, bytesOut)
      BY <3>6 DEF Aligned
    <3> QED BY <1>1, <2>1, <3>3, <3>5, <3>7, <3>8, <3>9, <3>10 DEF Drawn, Aligned
  <2> QED BY <2>2, <2>3
<1> QED BY <1>2, <1>3 DEF MainThread

\* A page that shows, sweeps, disposes or reloads has no view being drawn.
LEMMA PageDraws ==
    ASSUME IInv, Drawn, RenderShow \/ RenderSweep \/ Dispose \/ Reload
    PROVE  Drawn'
<1>1. CASE RenderShow
  <2>1. resp' = NoOffset /\ viewPc' = "attaching"
    BY <1>1 DEF RenderShow, IInv, ViewInv
  <2> QED BY <2>1 DEF Drawn, EndMark
<1>2. CASE RenderSweep
  BY <1>2, DrawnKept DEF RenderSweep, NextOffset, sessionVars, readerVars, viewVars
<1>3. CASE Dispose
  <2>1. viewPc' = "none"
    BY <1>3 DEF Dispose, ForgetView
  <2> QED BY <2>1 DEF Drawn
<1>4. CASE Reload
  <2>1. viewPc' = "none"
    BY <1>4 DEF Reload, ForgetView
  <2> QED BY <2>1 DEF Drawn
<1> QED BY <1>1, <1>2, <1>3, <1>4

\* What is judged before the attach response, and what the response keeps.
LEMMA SnapshotDraws ==
    ASSUME IInv, Drawn, Snapshot
    PROVE  Drawn'
<1> DEFINE len == Len(queue)
           judged == {i \in 1..len : queue[i].off < resp}
           cut == Cardinality(judged)
<1>1. /\ viewPc = "attaching" /\ resp # NoOffset /\ viewPc' = "attached"
      /\ endOffset' = resp /\ queue' = <<>>
      /\ shown' = IF cut = len THEN resp ELSE End(queue[len])
      /\ UNCHANGED <<bytesOut, hand, readerPc, chan>>
  BY DEF Snapshot, sessionVars, readerVars
<1>2. EndMark = resp /\ EndMark' = resp /\ NextOffset' = NextOffset /\ Front' = Front
  BY <1>1 DEF EndMark, NextOffset, Front
<1>3. /\ resp <= bytesOut /\ (resp <= NextOffset \/ resp = bytesOut)
      /\ Aligned(queue, resp) /\ Aligned(chan, resp)
      /\ (IF queue = <<>> THEN Front ELSE queue[1].off) <= resp
  BY <1>1, <1>2 DEF Drawn
<1>4. resp \in Nat /\ queue \in Seq(Frame) /\ len \in Nat /\ Front \in Nat
  BY <1>1, NextOffsetFacts, LenProperties DEF IInv, TypeOK
<1>5. queue # <<>> => /\ len \in 1..len /\ queue[len] \in Frame
                      /\ End(queue[len]) = Front
  BY <1>4, EmptySeq DEF IInv, RunInv, Front
<1>6. IsFiniteSet(1..len) /\ Cardinality(1..len) = len /\ judged \in SUBSET (1..len)
  <2>1. judged \in SUBSET (1..len)
    OBVIOUS
  <2>2. IsFiniteSet(1..len) /\ Cardinality(1..len) = len
    <3>1. 1 \in Int /\ len \in Int /\ (IF 1 > len THEN 0 ELSE len - 1 + 1) = len
      BY <1>4
    <3> QED BY <3>1, FS_Interval
  <2> QED BY <2>1, <2>2
<1> HIDE DEF cut, judged
<1>7. shown' = IF Front < resp THEN resp ELSE Front
  <2>1. CASE cut = len
    <3>1. judged = 1..len
      BY <1>6, <2>1, FS_Subset DEF cut
    <3>2. Front <= resp
      <4>1. CASE queue = <<>>
        BY <1>3, <4>1
      <4>2. CASE queue # <<>>
        <5>1. queue[len].off < resp
          BY <1>5, <3>1, <4>2 DEF judged
        <5> QED BY <1>3, <1>5, <4>2, <5>1 DEF Aligned
      <4> QED BY <4>1, <4>2
    <3> QED BY <1>1, <1>4, <2>1, <3>2
  <2>2. CASE cut # len
    <3>1. judged # 1..len
      BY <1>6, <2>2 DEF cut
    <3>2. PICK i \in 1..len : ~(queue[i].off < resp)
      BY <3>1 DEF judged
    <3>3. queue # <<>> /\ queue[i] \in Frame
      BY <1>4, <3>2, EmptySeq
    <3>4. queue[i].off <= queue[len].off
      <4>1. CASE i = len
        BY <1>5, <3>3, <4>1, FrameFacts
      <4>2. CASE i # len
        <5>1. End(queue[i]) <= queue[len].off
          BY <1>4, <1>5, <3>3, <4>2 DEF IInv, RunInv, Gapless
        <5> QED BY <1>5, <3>3, <5>1, FrameFacts
      <4> QED BY <4>1, <4>2
    <3>5. /\ queue[i].off \in Nat /\ queue[len].off \in Nat
          /\ End(queue[len]) \in Nat /\ queue[len].off < End(queue[len])
      BY <1>5, <3>3, FrameFacts
    <3>6. ~(Front < resp)
      BY <1>4, <1>5, <3>2, <3>3, <3>4, <3>5
    <3> QED BY <1>1, <1>5, <2>2, <3>3, <3>6
  <2> QED BY <2>1, <2>2
<1>8. queue' = <<>> /\ Len(<<>>) = 0
  BY <1>1
<1>9. Aligned(queue', resp)
  BY <1>8 DEF Aligned
<1>10. Aligned(chan', resp)
  BY <1>1, <1>3
<1> QED BY <1>1, <1>2, <1>3, <1>7, <1>9, <1>10 DEF Drawn

\* What the channel hands over once the gate is open.
LEMMA ViewDraws ==
    ASSUME IInv, Drawn, ViewTask \/ FlushTimer
    PROVE  Drawn'
<1> USE DEF sessionVars, readerVars
<1>1. chan \in Seq(Frame) /\ queue \in Seq(Frame) /\ Gapless(chan)
  BY DEF IInv, TypeOK, RunInv
<1>2. EndMark \in Nat \cup {NoOffset}
  BY DEF IInv, TypeOK, EndMark
<1>3. chan # <<>> =>
        /\ Head(chan) \in Frame /\ Head(chan) = chan[1] /\ Front = Head(chan).off
        /\ End(Head(chan)) = IF Tail(chan) = <<>> THEN NextOffset ELSE Tail(chan)[1].off
        /\ 1 \in 1..Len(chan)
  BY <1>1, RunTail, LenProperties, EmptySeq DEF IInv, RunInv, Front
<1>4. chan # <<>> => /\ Head(chan).off \in Nat /\ End(Head(chan)) \in Nat
                     /\ Head(chan).off < End(Head(chan))
  BY <1>3, FrameFacts
<1>5. ASSUME NEW e, Aligned(chan, e), chan # <<>>
      PROVE  /\ Aligned(Tail(chan), e)
             /\ Head(chan).off < e => End(Head(chan)) <= e
  BY <1>1, <1>3, <1>5, AlignedTail DEF Aligned
<1>6. ASSUME chan # <<>>, chan' = Tail(chan),
             UNCHANGED <<viewPc, resp, endOffset, bytesOut, hand, readerPc>>
      PROVE  EndMark' = EndMark /\ NextOffset' = NextOffset /\ Front' = End(Head(chan))
  BY <1>3, <1>6 DEF EndMark, NextOffset, Front
<1>7. CASE ReceiveEarly
  <2>1. /\ chan # <<>> /\ viewPc = "attaching" /\ chan' = Tail(chan)
        /\ queue' = Append(queue, Head(chan))
        /\ UNCHANGED <<viewPc, resp, endOffset, bytesOut, hand, readerPc>>
    BY <1>7 DEF ReceiveEarly
  <2>2. EndMark' = EndMark /\ NextOffset' = NextOffset
    BY <1>6, <2>1
  <2> SUFFICES ASSUME EndMark # NoOffset PROVE Drawn'
    BY <2>2 DEF Drawn
  <2>3. /\ EndMark <= bytesOut /\ (EndMark <= NextOffset \/ EndMark = bytesOut)
        /\ Aligned(queue, EndMark) /\ Aligned(chan, EndMark)
        /\ (IF queue = <<>> THEN Front ELSE queue[1].off) <= EndMark
    BY <2>1 DEF Drawn
  <2>4. Aligned(chan', EndMark) /\ Aligned(queue', EndMark)
    BY <1>1, <1>3, <1>5, <2>1, <2>3, AlignedAppend
  <2>5. queue' # <<>> /\ queue'[1] = IF queue = <<>> THEN Head(chan) ELSE queue[1]
    <3>1. queue # <<>> => End(queue[Len(queue)]) = Head(chan).off
      BY <1>3, <2>1 DEF IInv, RunInv
    <3> QED BY <1>1, <1>3, <2>1, <3>1, RunAppend DEF IInv, RunInv
  <2>6. queue'[1].off <= EndMark
    BY <1>3, <2>1, <2>3, <2>5
  <2> QED BY <2>1, <2>2, <2>3, <2>4, <2>5, <2>6 DEF Drawn
<1>8. ASSUME chan # <<>>, viewPc = "attached", chan' = Tail(chan),
             UNCHANGED <<viewPc, resp, endOffset, bytesOut, hand, readerPc, queue>>,
             shown' = IF Head(chan).off < endOffset THEN shown ELSE End(Head(chan))
      PROVE  Drawn'
  <2>1. EndMark = endOffset /\ endOffset \in Nat /\ EndMark # NoOffset
    BY <1>8 DEF EndMark, IInv, TypeOK, NoOffset
  <2>2. EndMark' = endOffset /\ NextOffset' = NextOffset /\ Front' = End(Head(chan))
    BY <1>6, <1>8, <2>1
  <2>3. /\ endOffset <= bytesOut /\ (endOffset <= NextOffset \/ endOffset = bytesOut)
        /\ Aligned(queue, endOffset) /\ Aligned(chan, endOffset)
        /\ shown = IF Head(chan).off < endOffset THEN endOffset ELSE Head(chan).off
    BY <1>3, <1>8, <2>1 DEF Drawn
  <2>4. /\ Aligned(chan', endOffset)
        /\ Head(chan).off < endOffset => End(Head(chan)) <= endOffset
    BY <1>5, <1>8, <2>3
  <2>5. shown' = IF End(Head(chan)) < endOffset THEN endOffset ELSE End(Head(chan))
    BY <1>4, <1>8, <2>1, <2>3, <2>4
  <2> HIDE DEF Aligned
  <2>6. Aligned(queue', endOffset)
    BY <1>8, <2>3
  <2> QED BY <1>8, <2>2, <2>3, <2>4, <2>5, <2>6 DEF Drawn
<1>9. CASE ReceiveKept
  <2>1. Head(chan).off >= endOffset /\ endOffset \in Nat /\ chan # <<>>
    BY <1>9 DEF ReceiveKept, IInv, TypeOK
  <2>2. ~(Head(chan).off < endOffset)
    BY <1>4, <2>1
  <2> QED BY <1>8, <1>9, <2>2 DEF ReceiveKept
<1>10. CASE ReceiveDiscarded
  BY <1>8, <1>10 DEF ReceiveDiscarded
<1>11. CASE Snapshot
  BY <1>11, SnapshotDraws
<1>12. ASSUME NEW k \in 1..unwritten, Written(k) PROVE Drawn'
  BY <1>12, DrawnKept DEF Written, NextOffset
<1>13. CASE FlushTimer
  BY <1>13, DrawnKept DEF FlushTimer, NextOffset
<1> QED BY <1>7, <1>9, <1>10, <1>11, <1>12, <1>13 DEF ViewTask

-----------------------------------------------------------------------------
(* The theorems                                                            *)

\* A fresh session with a loading page satisfies the invariant.
LEMMA InitInv == Init => IInv
<1> SUFFICES ASSUME Init PROVE IInv
  OBVIOUS
<1> USE DEF Init, NoViewData
<1>1. flow \in Flow /\ flow.pending = 0 /\ ~flow.paused
  BY DEF Flow, ResetFlow
<1>2. Gapless(<<>>) /\ Bytes(<<>>) = 0
  BY DEF Gapless, Bytes
<1>3. TypeOK
  <2>1. <<>> \in Seq(Command) /\ <<>> \in Seq(Frame)
    BY EmptySeq
  <2>2. 0 \in 0..MaxViews /\ NoOffset \in Nat \cup {NoOffset} /\ NoView \in Views \cup {NoView}
    BY PtyStreamConstants
  <2>3. killed \in BOOLEAN /\ masterOpen \in BOOLEAN /\ childAlive \in BOOLEAN /\ swept \in BOOLEAN
    OBVIOUS
  <2> QED BY <1>1, <2>1, <2>2, <2>3 DEF TypeOK
<1>4. ReaderInv /\ NumberInv /\ OwnerInv /\ ViewInv /\ RunInv
  BY <1>1, <1>2 DEF ReaderInv, PausedOwes, NumberInv, OwnerInv, ViewInv, RunInv, NoView, NoOffset
<1>5. Accounted
  BY DEF Accounted, Rescue
<1> QED BY <1>3, <1>4, <1>5 DEF IInv

\* Every step of every actor preserves it.
LEMMA NextInv == IInv /\ [Next]_vars => IInv'
<1> SUFFICES ASSUME IInv, [Next]_vars PROVE IInv'
  OBVIOUS
<1>1. CASE Next
  BY <1>1, ReaderStep, EndStep, MainStep, AckStep, PageStep, ViewStep DEF Next
<1>2. CASE UNCHANGED vars
  <2> USE <1>2 DEF IInv, vars, sessionVars, readerVars, mainVars, pageVars, viewVars
  <2>1. TypeOK'
    BY DEF TypeOK
  <2>2. ReaderInv'
    BY DEF ReaderInv, PausedOwes
  <2>3. NumberInv'
    BY DEF NumberInv
  <2>4. OwnerInv'
    BY DEF OwnerInv
  <2>5. ViewInv'
    BY DEF ViewInv
  <2>6. RunInv'
    BY DEF RunInv, NextOffset
  <2>7. Accounted'
    BY DEF Accounted, Rescue, InHand, Owed
  <2> QED BY <2>1, <2>2, <2>3, <2>4, <2>5, <2>6, <2>7 DEF IInv
<1> QED BY <1>1, <1>2

\* Nothing is drawn before a view is created.
LEMMA InitDrawn == Init => Drawn
BY DEF Init, NoViewData, Drawn

\* Every step of every actor leaves the drawing where the stream resumes.
LEMMA NextDrawn == IInv /\ Drawn /\ [Next]_vars => Drawn'
<1> SUFFICES ASSUME IInv, Drawn, [Next]_vars PROVE Drawn'
  OBVIOUS
<1>1. CASE ChildExit \/ Kill \/ CloseMaster
  BY <1>1, DrawnKept
     DEF ChildExit, Kill, CloseMaster, Woken, NextOffset, readerVars, viewVars
<1>2. ASSUME NEW k, AckBy(k) PROVE Drawn'
  BY <1>2, DrawnKept DEF AckBy, Woken, NextOffset
<1>3. CASE UNCHANGED vars
  BY <1>3, DrawnKept DEF vars, sessionVars, readerVars, viewVars, NextOffset
<1>4. CASE Reader \/ MainThread
  BY <1>4, ReaderDraws, MainDraws
<1>5. CASE RenderShow \/ RenderSweep \/ Dispose \/ Reload \/ ViewTask \/ FlushTimer
  BY <1>5, PageDraws, ViewDraws
<1> QED BY <1>1, <1>2, <1>3, <1>4, <1>5 DEF Next, Ack, StaleAck

\* The frames still to be judged, queued or in the channel, are aligned with
\* the end of the snapshot.
LEMMA Unstraddled ==
    ASSUME IInv, Drawn
    PROVE  NoStraddle
<1> SUFFICES ASSUME EndMark # NoOffset, viewPc # "none",
                    NEW i \in 1..Len(queue \o chan), (queue \o chan)[i].off < EndMark
             PROVE  End((queue \o chan)[i]) <= EndMark
  BY DEF NoStraddle, EndMark
<1>1. Aligned(queue, EndMark) /\ Aligned(chan, EndMark)
  BY DEF Drawn
<1>2. /\ queue \in Seq(Frame) /\ chan \in Seq(Frame)
      /\ Len(queue) \in Nat /\ Len(chan) \in Nat
  BY LenProperties DEF IInv, TypeOK
<1>3. /\ Len(queue \o chan) = Len(queue) + Len(chan)
      /\ (queue \o chan)[i] = IF i <= Len(queue) THEN queue[i] ELSE chan[i - Len(queue)]
  BY <1>2, ConcatProperties
<1>4. CASE i <= Len(queue)
  BY <1>1, <1>2, <1>3, <1>4 DEF Aligned
<1>5. CASE ~(i <= Len(queue))
  <2>1. i - Len(queue) \in 1..Len(chan)
    BY <1>2, <1>3, <1>5
  <2> QED BY <1>1, <1>3, <1>5, <2>1 DEF Aligned
<1> QED BY <1>4, <1>5

\* The invariant holds throughout every behaviour of the output path.
THEOREM Invariance == Spec => []IInv
BY InitInv, NextInv, PTL DEF Spec

\* Type correctness: in particular no counter of bytes, and no account, ever
\* goes below zero (flow.rs on_acked; ack-batcher.ts).
THEOREM TypeCorrect == Spec => []TypeOK
<1>1. IInv => TypeOK
  BY DEF IInv
<1> QED BY <1>1, Invariance, PTL

\* No byte charged to the flow account is forgotten by everybody (flow.rs;
\* session.rs reader_loop and reset_flow; attach-gate.ts).
THEOREM NoLeak == Spec => []Accounted
<1>1. IInv => Accounted
  BY DEF IInv
<1> QED BY <1>1, Invariance, PTL

\* A reader that backpressure put to sleep always has somebody who will wake
\* it (session.rs reader_loop; sink.rs detach; commands.rs detach_terminal).
THEOREM NoStrandedReader == Spec => []NeverStranded
<1>1. IInv => NeverStranded
  <2> SUFFICES ASSUME IInv, readerPc = "wait", ~Rescue
               PROVE  /\ slot = cur /\ cur # NoView
                      /\ 0 < flow.pending /\ flow.pending <= Owed
    BY DEF NeverStranded, IInv, ReaderInv
  <2>1. slot = cur /\ InHand = 0
    BY Settled DEF InHand
  <2>2. 0 < flow.pending
    BY DEF IInv, ReaderInv, PausedOwes
  <2>3. flow.pending <= 0 + (IF slot = NoView THEN 0 ELSE Owed)
    BY <2>1 DEF IInv, Accounted
  <2>4. flow.pending \in Nat /\ Owed \in Nat
    BY OwedNat DEF IInv, TypeOK, Flow
  <2> QED BY <2>1, <2>2, <2>3, <2>4
<1> QED BY <1>1, Invariance, PTL

\* A late detach or sweep never robs an attached view of its channel
\* (view-reconcile.ts; commands.rs detach_terminal).
THEOREM SlotIsKept == Spec => []AttachedHoldsSlot
<1>1. IInv => AttachedHoldsSlot
  BY DEF IInv, ViewInv, AttachedHoldsSlot
<1> QED BY <1>1, Invariance, PTL
\* The screen of an attached view is the stream: no byte is drawn twice and
\* none is lost between the snapshot and the frames, whatever the order in
\* which the response, the frames and the reader run (session.rs reattach;
\* attach-gate.ts onOutput and onSnapshot).
THEOREM ScreenIsTheStream == Spec => []StreamIntact
<1>1. IInv /\ Drawn => StreamIntact
  <2> SUFFICES ASSUME IInv, Drawn PROVE StreamIntact
    OBVIOUS
  <2>1. NoStraddle
    BY Unstraddled
  <2> SUFFICES ASSUME viewPc = "attached"
               PROVE  LET len == Len(chan)
                          kept == {i \in 1..len : chan[i].off >= endOffset}
                      IN /\ \A i \in 1..(len - 1) : chan[i + 1].off = End(chan[i])
                         /\ len > 0 => End(chan[len]) = NextOffset
                         /\ \A i \in kept : (\A j \in kept : i <= j) => chan[i].off = shown
                         /\ kept = {} => shown >= NextOffset
                         /\ shown <= bytesOut
    BY <2>1 DEF StreamIntact
  <2> DEFINE len == Len(chan)
             kept == {i \in 1..len : chan[i].off >= endOffset}
  <2>2. /\ chan \in Seq(Frame) /\ len \in Nat /\ endOffset \in Nat /\ Gapless(chan)
        /\ chan # <<>> => End(chan[len]) = NextOffset
    BY LenProperties DEF IInv, TypeOK, RunInv
  <2>3. /\ endOffset <= bytesOut /\ (endOffset <= NextOffset \/ endOffset = bytesOut)
        /\ Aligned(chan, endOffset)
        /\ shown = IF Front < endOffset THEN endOffset ELSE Front
    BY <2>2 DEF Drawn, EndMark, NoOffset
  <2>4. /\ NextOffset \in Nat /\ bytesOut \in Nat /\ NextOffset <= bytesOut
        /\ Front \in Nat /\ Front <= NextOffset
    BY NextOffsetFacts DEF IInv
  <2>5. \A i \in 1..len : /\ chan[i].off \in Nat /\ End(chan[i]) \in Nat
                          /\ chan[i].off < End(chan[i])
    BY <2>2, ElementOfSeq, FrameFacts
  <2>6. chan = <<>> <=> len = 0
    BY <2>2, EmptySeq
  <2>7. ASSUME NEW i \in 1..(len - 1) PROVE chan[i + 1].off = End(chan[i])
    BY <2>2, <2>7 DEF Gapless
  <2>8. len > 0 => End(chan[len]) = NextOffset
    BY <2>2, <2>6
  <2>9. ASSUME NEW i \in kept, \A j \in kept : i <= j PROVE chan[i].off = shown
    <3>1. i \in 1..len /\ chan # <<>> /\ Front = chan[1].off
      BY <2>2, <2>6 DEF Front
    <3>2. CASE i = 1
      BY <2>2, <2>3, <2>4, <3>1, <3>2
    <3>3. CASE i # 1
      <4>1. i - 1 \in 1..len /\ 1 \in 1..len /\ i - 1 < i
        BY <2>2, <3>1, <3>3
      <4>2. chan[i - 1].off < endOffset
        <5>1. i - 1 \notin kept
          BY <2>9, <4>1
        <5> QED BY <2>2, <2>5, <4>1, <5>1
      <4>3. End(chan[i - 1]) <= endOffset
        BY <2>3, <4>1, <4>2 DEF Aligned
      <4>4. End(chan[i - 1]) = chan[i].off
        <5>1. i = (i - 1) + 1
          BY <2>2, <3>1
        <5> QED BY <2>2, <3>1, <4>1, <5>1 DEF Gapless
      <4>5. chan[i].off = endOffset
        BY <2>2, <2>5, <3>1, <4>3, <4>4
      <4>6. chan[1].off < endOffset
        <5>1. 1 < i
          BY <2>2, <3>1, <3>3
        <5>2. End(chan[1]) <= chan[i].off
          BY <2>2, <3>1, <4>1, <5>1 DEF Gapless
        <5> QED BY <2>2, <2>5, <4>1, <4>5, <5>2, SMTT(60)
      <4> QED BY <2>3, <3>1, <4>5, <4>6
    <3> QED BY <3>2, <3>3
  <2>10. kept = {} => shown >= NextOffset
    <3> SUFFICES ASSUME kept = {} PROVE shown >= NextOffset
      OBVIOUS
    <3>1. CASE chan = <<>>
      BY <2>2, <2>3, <2>4, <3>1 DEF Front
    <3>2. CASE chan # <<>>
      <4>1. len \in 1..len /\ len \notin kept
        BY <2>2, <2>6, <3>2
      <4>2. chan[len].off < endOffset
        BY <2>2, <2>5, <4>1
      <4>3. NextOffset <= endOffset
        BY <2>2, <2>3, <3>2, <4>1, <4>2 DEF Aligned
      <4> QED BY <2>2, <2>3, <2>4, <4>3
    <3> QED BY <3>1, <3>2
  <2>11. shown <= bytesOut
    BY <2>2, <2>3, <2>4
  <2> QED BY <2>7, <2>8, <2>9, <2>10, <2>11
<1>2. Spec => [](IInv /\ Drawn)
  BY Invariance, InitDrawn, NextDrawn, PTL DEF Spec
<1> QED BY <1>1, <1>2, PTL
=============================================================================
