------------------------------ MODULE OscProofs -----------------------------
(***************************************************************************)
(* Proofs about what becomes of the OSC sequences the reader of a session  *)
(* recognises: a request goes to the pool of the agent channel             *)
(* (AgentChannel), an event goes to the model by way of the router         *)
(* (OscRouter).                                                            *)
(*                                                                         *)
(* The agent channel, for all tabs, calls and requests that the coding of  *)
(* words has room for, and any number of sessions.  A call makes each      *)
(* of its requests once, and a request waits in one place: in the output   *)
(* of the caller's session, then in the pool.  So tasks are counted as     *)
(* slots, and what a task found under the lock is about its own call.      *)
(* Whose session is whose never changes: a session that was the right one  *)
(* when the target was resolved is a right one, or closed, at the write.   *)
(* An answer is fixed under the lock and becomes visible by a rename.      *)
(*                                                                         *)
(* The router, for all sessions and bounds.  What is pending is newer than *)
(* what anybody has in hand, and as long as the worker and the exit path   *)
(* never had a batch each at one time, what is in hand is newer than what  *)
(* the tab shows.  So the last event of a field is found by asking the     *)
(* batch, the hands and the tab in this order.                             *)
(***************************************************************************)
EXTENDS AgentChannel, OscRouter, TLAPS, FiniteSetTheorems, SequenceTheorems

Parts == {"text", "enter", "query", "color"}
Stages == {"new", "text", "enter", "color", "mktemp", "rm", "query", "wait", "done", "gaveUp"}
Targets == Words \cup 2001..2099 \cup {0}
TaskStages == {"begin", "write", "create", "fill", "rename"}
Payloads == {Extension(w, f, l) : w \in Nat, f \in Nat, l \in Nat} \cup {<<49, 49, Semicolon, Question>>}
Files == [is : {"absent", "empty", "half", "whole"}, tabs : SUBSET Tabs, self : Tabs \cup {NoTab}]
CallSet == [stage : Stages, kind : {"none", "send", "literal", "ls", "color"}, from : 0..MaxSessions,
            target : Targets, text : {"short", "long"}, got : Files]
Entries == [call : Calls, part : Parts, payload : Payloads]
Events == {ParsePayload(p) : p \in Payloads}
TaskSet == [call : Calls, part : Parts, event : Events, from : Sessions,
            stage : TaskStages, to : 0..MaxSessions, answer : Files]
Typed == [call : Calls, part : Parts]

\* The types of what TypeOK leaves open.
Types ==
    /\ TypeOK
    /\ spawned \in 0..MaxSessions
    /\ call \in [Calls -> CallSet]
    /\ out \in [Sessions -> Seq(Entries)]
    /\ IsFiniteSet(tasks) /\ tasks \subseteq TaskSet
    /\ partial \in [Calls -> Files] /\ reply \in [Calls -> Files]
    /\ input \in [Sessions -> Seq(Typed)]

\* Whose a session is does not change, and a tab has its own.
Owners ==
    /\ \A t \in Tabs : session[t] # NoSession => session[t] \in 1..spawned /\ owner[session[t]] = t
    /\ \A s \in 1..spawned : owner[s] \in Tabs
    /\ \A c \in Calls : call[c].stage # "new" => call[c].from \in 1..spawned

\* The requests a call has made, each once, when it is at a stage.
Emitted(stage) ==
    CASE stage = "enter" -> {"text"}
      [] stage \in {"wait", "gaveUp"} -> {"query"}
      [] stage = "done" -> Parts
      [] OTHER -> {}
Made(r) == r.part \in Emitted(call[r.call].stage)
Same(r, q) == r.call = q.call /\ r.part = q.part

\* What is typed for a call, or the answer to its question, goes to session s.
Addressed(r, s) ==
    /\ s \in 1..spawned /\ call[r.call].stage # "new"
    /\ IF r.part = "color" THEN s = call[r.call].from
       ELSE /\ owner[s] # Caller(r.call) /\ WorkspaceOf[owner[s]] = WorkspaceOf[Caller(r.call)]
            /\ call[r.call].target \in Words \/ call[r.call].target = IdWord(owner[s])

\* The whole answer to a call.
Answers(c, f) ==
    /\ f.is = "whole" /\ f.self \in {Caller(c), NoTab}
    /\ \A t \in f.tabs : WorkspaceOf[t] = WorkspaceOf[Caller(c)]

\* A request waits in the output of its caller's session, once.
Waiting ==
    \A s \in Sessions : \A i \in 1..Len(out[s]) :
        LET r == out[s][i]
        IN  /\ Made(r) /\ s = call[r.call].from /\ r.payload = Payload(r.call, r.part)
            /\ \A j \in 1..Len(out[s]) : Same(r, out[s][j]) => i = j
            /\ \A k \in tasks : ~Same(r, k)

\* A task is of a request made once, and knows what that asked.
Working ==
    \A k \in tasks :
        /\ Made(k) /\ k.from = call[k.call].from /\ k.event = ParsePayload(Payload(k.call, k.part))
        /\ k.stage = "write" => Addressed(k, k.to)
        /\ k.stage \in {"create", "fill", "rename"} => k.part = "query" /\ Answers(k.call, k.answer)
        /\ k.stage = "rename" => partial[k.call] = k.answer
        /\ \A l \in tasks : Same(k, l) => k = l

Replies ==
    \A c \in Calls :
        /\ call[c].stage = "rm" \/ reply[c].is = "absent" \/ (call[c].stage # "new" /\ Answers(c, reply[c]))
        /\ call[c].got.is = "absent" \/ (call[c].stage # "new" /\ Answers(c, call[c].got))

Inputs == \A s \in Sessions : \A i \in 1..Len(input[s]) : Addressed(input[s][i], s)

IInv == Types /\ Owners /\ Waiting /\ Working /\ Replies /\ Inputs /\ SlotsCounted

-----------------------------------------------------------------------------
(* What the scanner makes of a request. *)

\* A set with one more element.
LEMMA OneMore ==
    ASSUME NEW S, IsFiniteSet(S), NEW x, x \notin S
    PROVE  IsFiniteSet(S \cup {x}) /\ Cardinality(S \cup {x}) = Cardinality(S) + 1
BY FS_AddElement

\* The fields of a payload of three semicolons.
LEMMA ExtensionCuts ==
    ASSUME NEW w, NEW f, NEW l, w # Semicolon, f # Semicolon, l # Semicolon
    PROVE  LET p == Extension(w, f, l)
           IN  /\ p \in Seq({OscWord.w777, Semicolon, w, f, l}) /\ Len(p) = 7
               /\ Cardinality(Cuts(p)) = 5
               /\ Cut(p, 0) = 0 /\ Cut(p, 1) = 2 /\ Cut(p, 2) = 4 /\ Cut(p, 3) = 6 /\ Cut(p, 4) = 8
<1> DEFINE p == Extension(w, f, l)
           Below(i) == {j \in Cuts(p) : j < i}
<1>1. p \in Seq({OscWord.w777, Semicolon, w, f, l}) /\ Len(p) = 7
  BY DEF Extension
<1>2. Cuts(p) = {0, 2, 4, 6, 8}
  BY <1>1 DEF Cuts, Extension, OscWord, Semicolon
<1>3. Below(0) = {} /\ Below(2) = {0} /\ Below(4) = {0, 2} /\ Below(6) = {0, 2, 4} /\ Below(8) = {0, 2, 4, 6}
  BY <1>2
<1>4. Cardinality(Below(0)) = 0
  BY <1>3, FS_EmptySet
<1>5. Cardinality(Below(2)) = 1 /\ IsFiniteSet({0})
  BY <1>3, FS_Singleton
<1>6. Cardinality(Below(4)) = 2 /\ IsFiniteSet({0, 2})
  <2>1. {0, 2} = {0} \cup {2} /\ 2 \notin {0}
    OBVIOUS
  <2> QED BY <1>3, <1>5, <2>1, OneMore
<1>7. Cardinality(Below(6)) = 3 /\ IsFiniteSet({0, 2, 4})
  <2>1. {0, 2, 4} = {0, 2} \cup {4} /\ 4 \notin {0, 2}
    OBVIOUS
  <2> QED BY <1>3, <1>6, <2>1, OneMore, SMTT(60)
<1>8. Cardinality(Below(8)) = 4 /\ IsFiniteSet({0, 2, 4, 6})
  <2>1. {0, 2, 4, 6} = {0, 2, 4} \cup {6} /\ 6 \notin {0, 2, 4}
    OBVIOUS
  <2> QED BY <1>3, <1>7, <2>1, OneMore
<1>9. Cardinality(Cuts(p)) = 5
  <2>1. {0, 2, 4, 6, 8} = {0, 2, 4, 6} \cup {8} /\ 8 \notin {0, 2, 4, 6}
    OBVIOUS
  <2> QED BY <1>2, <1>3, <1>8, <2>1, OneMore
<1>10. \A k \in 0..4, i \in Cuts(p) : Cardinality(Below(i)) = k <=> i = 2 * k
  BY <1>2, <1>4, <1>5, <1>6, <1>7, <1>8
<1>11. \A k \in 0..4 : 2 * k \in Cuts(p)
  BY <1>2
<1>12. ASSUME NEW k \in 0..4 PROVE Cut(p, k) = 2 * k
  BY <1>10, <1>11 DEF Cut
<1> QED BY <1>1, <1>9, <1>12

\* A send and a query of at least four fields are what their third field and
\* the rest say.
LEMMA SendExtension ==
    ASSUME NEW p, Len(Split(p)) = 4, Split(p)[2] = <<OscWord.send>>
    PROVE  ParseExtension(p) = [kind |-> "send", target |-> Split(p)[3], text |-> After(p, 3)]
<1>1. /\ <<OscWord.send>> # <<OscWord.notify>> /\ <<OscWord.send>> # <<OscWord.query>>
      /\ <<OscWord.send>> # <<OscWord.started>>
  BY DEF OscWord
<1>2. 2 <= Len(Split(p)) /\ 3 <= Len(Split(p)) /\ Len(Split(p)) >= 4
  OBVIOUS
<1> QED BY <1>1, <1>2, Zenon DEF ParseExtension

\* The same of a query.
LEMMA QueryExtension ==
    ASSUME NEW p, Len(Split(p)) = 4, Split(p)[2] = <<OscWord.query>>
    PROVE  ParseExtension(p) = [kind |-> "query", of |-> Split(p)[3], reply |-> After(p, 3)]
<1>1. /\ <<OscWord.query>> # <<OscWord.notify>> /\ <<OscWord.query>> # <<OscWord.send>>
      /\ <<OscWord.query>> # <<OscWord.started>>
  BY DEF OscWord
<1>2. 2 <= Len(Split(p)) /\ 3 <= Len(Split(p)) /\ Len(Split(p)) >= 4
  OBVIOUS
<1> QED BY <1>1, <1>2, Zenon DEF ParseExtension

\* A sequence of one element, and of two.
LEMMA OneLong ==
    ASSUME NEW S, NEW t \in Seq(S), Len(t) = 1
    PROVE  t = <<t[1]>>
<1> DEFINE u == <<t[1]>>
<1>1. u \in Seq(S) /\ Len(u) = 1 /\ u[1] = t[1]
  OBVIOUS
<1>2. \A i \in 1..1 : t[i] = u[i]
  BY <1>1
<1> HIDE DEF u
<1>3. t = u
  BY <1>1, <1>2, SeqEqual
<1> QED BY <1>3 DEF u

\* A sequence is its elements.
LEMMA TwoLong ==
    ASSUME NEW S, NEW t \in Seq(S), Len(t) = 2
    PROVE  t = <<t[1], t[2]>>
<1> DEFINE u == <<t[1], t[2]>>
<1>1. u \in Seq(S) /\ Len(u) = 2 /\ u[1] = t[1] /\ u[2] = t[2]
  BY SMTT(30)
<1>2. \A i \in 1..2 : t[i] = u[i]
  BY <1>1
<1> HIDE DEF u
<1>3. t = u
  BY <1>1, <1>2, SeqEqual
<1> QED BY <1>3 DEF u

\* One element of a sequence, taken out of it.
LEMMA OneOf ==
    ASSUME NEW S, NEW s \in Seq(S), NEW i \in 1..Len(s)
    PROVE  SubSeq(s, i, i) = <<s[i]>>
<1>1. s[i] \in S /\ i \in Int
  OBVIOUS
<1>2. SubSeq(s, i, i) \in Seq(S) /\ Len(SubSeq(s, i, i)) = 1
  BY <1>1, SubSeqProperties
<1>3. SubSeq(s, i, i)[1] = s[i]
  BY <1>1, SubSeqProperties
<1> QED BY <1>2, <1>3, OneLong

\* The fields of a request, as the scanner finds them.
LEMMA ExtensionFields ==
    ASSUME NEW w, NEW f, NEW l, w # Semicolon, f # Semicolon, l # Semicolon
    PROVE  LET p == Extension(w, f, l)
           IN  /\ Len(Split(p)) = 4
               /\ Split(p)[2] = <<w>> /\ Split(p)[3] = <<f>> /\ After(p, 3) = <<l>>
               /\ ParsePayload(p) = ParseExtension(p)
<1> DEFINE p == Extension(w, f, l)
           fields == Split(p)
<1>1. /\ p \in Seq({OscWord.w777, Semicolon, w, f, l}) /\ Len(p) = 7 /\ Cardinality(Cuts(p)) = 5
      /\ Cut(p, 0) = 0 /\ Cut(p, 1) = 2 /\ Cut(p, 2) = 4 /\ Cut(p, 3) = 6 /\ Cut(p, 4) = 8
  BY ExtensionCuts
<1>2. p[1] = OscWord.w777 /\ p[3] = w /\ p[5] = f /\ p[7] = l
  BY DEF Extension
<1>3. \A i \in 1..7 : SubSeq(p, i, i) = <<p[i]>>
  BY <1>1, OneOf
<1>4. Len(fields) = 4 /\ DOMAIN fields = 1..4
  BY <1>1 DEF Split
<1>5. fields[1] = <<OscWord.w777>> /\ fields[2] = <<w>> /\ fields[3] = <<f>>
  <2> HIDE DEF p
  <2>1. fields = [k \in 1..4 |-> SubSeq(p, Cut(p, k - 1) + 1, Cut(p, k) - 1)]
    BY <1>1 DEF Split
  <2> HIDE DEF fields
  <2>2. fields[1] = SubSeq(p, 1, 1)
    BY <1>1, <2>1
  <2>3. fields[2] = SubSeq(p, 3, 3)
    BY <1>1, <2>1
  <2>4. fields[3] = SubSeq(p, 5, 5)
    BY <1>1, <2>1
  <2> QED BY <1>2, <1>3, <2>2, <2>3, <2>4
<1>6. After(p, 3) = <<l>>
  BY <1>1, <1>2, <1>3 DEF After
<1>7. ParsePayload(p) = ParseExtension(p)
  <2>1. <<1777>> # <<48>> /\ <<1777>> # <<50>> /\ <<1777>> # <<55>> /\ <<1777>> # <<57>>
    OBVIOUS
  <2>2. <<1777>> # <<49, 48>> /\ <<1777>> # <<49, 49>>
    OBVIOUS
  <2>3. fields[1] = <<1777>> /\ OscWord.w777 = 1777
    BY <1>5 DEF OscWord
  <2> HIDE DEF p
  <2> QED BY <2>1, <2>2, <2>3 DEF ParsePayload
<1> QED BY <1>4, <1>5, <1>6, <1>7

\* A text or an Enter is read as a send to its target.
LEMMA ParsedSend ==
    ASSUME NEW f, NEW l, f # Semicolon, l # Semicolon
    PROVE  ParsePayload(Extension(OscWord.send, f, l)) = [kind |-> "send", target |-> <<f>>, text |-> <<l>>]
<1> DEFINE p == Extension(OscWord.send, f, l)
<1>1. OscWord.send # Semicolon
  BY DEF OscWord, Semicolon
<1>2. /\ Len(Split(p)) = 4
      /\ Split(p)[2] = <<OscWord.send>> /\ Split(p)[3] = <<f>> /\ After(p, 3) = <<l>>
      /\ ParsePayload(p) = ParseExtension(p)
  BY <1>1, ExtensionFields
<1> HIDE DEF p
<1>3. ParsePayload(p) = [kind |-> "send", target |-> <<f>>, text |-> <<l>>]
  BY <1>2, SendExtension
<1> QED BY <1>3 DEF p

\* A query is read as a query.
LEMMA ParsedQuery ==
    ASSUME NEW f, NEW l, f # Semicolon, l # Semicolon
    PROVE  ParsePayload(Extension(OscWord.query, f, l)) = [kind |-> "query", of |-> <<f>>, reply |-> <<l>>]
<1> DEFINE p == Extension(OscWord.query, f, l)
<1>1. OscWord.query # Semicolon
  BY DEF OscWord, Semicolon
<1>2. /\ Len(Split(p)) = 4
      /\ Split(p)[2] = <<OscWord.query>> /\ Split(p)[3] = <<f>> /\ After(p, 3) = <<l>>
      /\ ParsePayload(p) = ParseExtension(p)
  BY <1>1, ExtensionFields
<1> HIDE DEF p
<1>3. ParsePayload(p) = [kind |-> "query", of |-> <<f>>, reply |-> <<l>>]
  BY <1>2, QueryExtension
<1> QED BY <1>3 DEF p

\* A question for a colour is read as one.
LEMMA ParsedColor ==
    ParsePayload(<<49, 49, Semicolon, Question>>) = [kind |-> "color", code |-> <<49, 49>>]
<1> DEFINE p == <<49, 49, Semicolon, Question>>
           Below(i) == {j \in Cuts(p) : j < i}
<1>1. p \in Seq(Int) /\ Len(p) = 4 /\ p[1] = 49 /\ p[2] = 49 /\ p[4] = Question
  BY DEF Semicolon, Question
<1>2. Cuts(p) = {0, 3, 5}
  BY DEF Cuts, Semicolon, Question
<1> HIDE DEF p
<1>3. Below(0) = {} /\ Below(3) = {0} /\ Below(5) = {0, 3}
  BY <1>2
<1>4. Cardinality(Below(0)) = 0
  BY <1>3, FS_EmptySet
<1>5. Cardinality(Below(3)) = 1 /\ IsFiniteSet({0})
  BY <1>3, FS_Singleton
<1>6. Cardinality(Below(5)) = 2 /\ IsFiniteSet({0, 3})
  <2>1. {0, 3} = {0} \cup {3} /\ 3 \notin {0}
    OBVIOUS
  <2> QED BY <1>3, <1>5, <2>1, OneMore
<1>7. Cardinality(Cuts(p)) = 3
  <2>1. {0, 3, 5} = {0, 3} \cup {5} /\ 5 \notin {0, 3}
    OBVIOUS
  <2> QED BY <1>2, <1>3, <1>6, <2>1, OneMore
<1>8. \A i \in Cuts(p) : /\ Cardinality(Below(i)) = 0 <=> i = 0
                         /\ Cardinality(Below(i)) = 1 <=> i = 3
                         /\ Cardinality(Below(i)) = 2 <=> i = 5
  BY <1>2, <1>4, <1>5, <1>6
<1>9. Cut(p, 0) = 0 /\ Cut(p, 1) = 3 /\ Cut(p, 2) = 5
  BY <1>2, <1>8 DEF Cut
<1>10. SubSeq(p, 1, 2) = <<49, 49>> /\ SubSeq(p, 4, 4) = <<Question>>
  <2>1. /\ SubSeq(p, 1, 2) \in Seq(Int) /\ Len(SubSeq(p, 1, 2)) = 2
        /\ SubSeq(p, 1, 2)[1] = 49 /\ SubSeq(p, 1, 2)[2] = 49
    BY <1>1, SubSeqProperties
  <2>2. SubSeq(p, 1, 2) = <<49, 49>>
    BY <2>1, TwoLong
  <2>3. \A i \in 1..4 : SubSeq(p, i, i) = <<p[i]>>
    BY <1>1, OneOf, ZenonT(60)
  <2> QED BY <1>1, <2>2, <2>3
<1>11. Split(p)[1] = <<49, 49>> /\ Len(Split(p)) = 2
  <2>1. Split(p) = [k \in 1..2 |-> SubSeq(p, Cut(p, k - 1) + 1, Cut(p, k) - 1)]
    BY <1>7 DEF Split
  <2>2. Cut(p, 1 - 1) = 0 /\ Cut(p, 1) = 3
    BY <1>9
  <2>3. Split(p)[1] = SubSeq(p, 0 + 1, 3 - 1)
    BY <2>1, <2>2
  <2>4. Len(Split(p)) = 2
    BY <2>1
  <2> QED BY <1>10, <2>3, <2>4
<1>12. After(p, 1) = <<Question>>
  BY <1>1, <1>9, <1>10 DEF After
<1>13. <<49, 49>> # <<48>> /\ <<49, 49>> # <<50>> /\ <<49, 49>> # <<55>> /\ <<49, 49>> # <<57>>
  OBVIOUS
<1>14. ParsePayload(p) = [kind |-> "color", code |-> <<49, 49>>]
  BY <1>11, <1>12, <1>13 DEF ParsePayload
<1> QED BY <1>14 DEF p

\* What a request says is within the types.
LEMMA PayloadsTyped ==
    /\ \A w, f, l \in Nat : Extension(w, f, l) \in Payloads
    /\ <<49, 49, Semicolon, Question>> \in Payloads
BY DEF Payloads

\* What the reader makes of a request of a call, by its part.
LEMMA Understood ==
    ASSUME ChannelConstants, Types, NEW c \in Calls
    PROVE  /\ \A part \in {"text", "enter"} : /\ ParsePayload(Payload(c, part)).kind = "send"
                                              /\ ParsePayload(Payload(c, part)).target = <<call[c].target>>
           /\ ParsePayload(Payload(c, "query")).kind = "query"
           /\ ParsePayload(Payload(c, "color")).kind = "color"
           /\ \A part \in Parts : Payload(c, part) \in Payloads
<1>1. c \in 0..99 /\ call[c].target \in Targets
  BY DEF ChannelConstants, Types, CallSet
<1>2. call[c].target \in Nat /\ call[c].target # Semicolon
  <2>1. \A x \in Targets : x \in Nat /\ x # Semicolon
    BY DEF ChannelConstants, Targets, Semicolon
  <2> QED BY <1>1, <2>1
<1>3. /\ TextWord(c) \in Nat /\ TextWord(c) # Semicolon
      /\ PathWord(c) \in Nat /\ PathWord(c) # Semicolon
  BY <1>1 DEF TextWord, PathWord, Semicolon
<1>4. /\ EnterWord \in Nat /\ EnterWord # Semicolon /\ ListTabs \in Nat /\ ListTabs # Semicolon
      /\ OscWord.send \in Nat /\ OscWord.query \in Nat
  BY DEF EnterWord, ListTabs, OscWord, Semicolon
<1>5. Payload(c, "text") = Extension(OscWord.send, call[c].target, TextWord(c))
  BY DEF Payload
<1>6. Payload(c, "enter") = Extension(OscWord.send, call[c].target, EnterWord)
  BY DEF Payload
<1>7. Payload(c, "query") = Extension(OscWord.query, ListTabs, PathWord(c))
  BY DEF Payload
<1>8. Payload(c, "color") = <<49, 49, Semicolon, Question>>
  BY DEF Payload
<1>9. /\ ParsePayload(Payload(c, "text")).kind = "send"
      /\ ParsePayload(Payload(c, "text")).target = <<call[c].target>>
  <2>1. ParsePayload(Extension(OscWord.send, call[c].target, TextWord(c)))
          = [kind |-> "send", target |-> <<call[c].target>>, text |-> <<TextWord(c)>>]
    BY <1>2, <1>3, ParsedSend
  <2> QED BY <1>5, <2>1
<1>10. /\ ParsePayload(Payload(c, "enter")).kind = "send"
       /\ ParsePayload(Payload(c, "enter")).target = <<call[c].target>>
  <2>1. ParsePayload(Extension(OscWord.send, call[c].target, EnterWord))
          = [kind |-> "send", target |-> <<call[c].target>>, text |-> <<EnterWord>>]
    BY <1>2, <1>4, ParsedSend
  <2> QED BY <1>6, <2>1
<1>11. ParsePayload(Payload(c, "query")).kind = "query"
  <2>1. ParsePayload(Extension(OscWord.query, ListTabs, PathWord(c)))
          = [kind |-> "query", of |-> <<ListTabs>>, reply |-> <<PathWord(c)>>]
    BY <1>3, <1>4, ParsedQuery
  <2> QED BY <1>7, <2>1
<1>12. ParsePayload(Payload(c, "color")).kind = "color"
  BY <1>8, ParsedColor
<1>13. Payload(c, "text") \in Payloads
  BY <1>2, <1>3, <1>4, <1>5, PayloadsTyped
<1>14. Payload(c, "enter") \in Payloads
  BY <1>2, <1>4, <1>6, PayloadsTyped
<1>15. Payload(c, "query") \in Payloads
  BY <1>3, <1>4, <1>7, PayloadsTyped
<1>16. Payload(c, "color") \in Payloads
  BY <1>8, PayloadsTyped
<1> QED BY <1>9, <1>10, <1>11, <1>12, <1>13, <1>14, <1>15, <1>16 DEF Parts

-----------------------------------------------------------------------------
(* What no step takes back: whose a session is, what a call asks for and    *)
(* what it has sent.                                                        *)

Keeps ==
    /\ \A s \in 1..spawned : s \in 1..spawned' /\ owner'[s] = owner[s]
    /\ \A c \in Calls : call[c].stage # "new" =>
          /\ call'[c].stage # "new"
          /\ call'[c].from = call[c].from /\ call'[c].target = call[c].target
          /\ Emitted(call[c].stage) \subseteq Emitted(call'[c].stage)

\* A call that has not begun has made no request.
LEMMA NothingMade == Emitted("new") = {}
BY DEF Emitted

\* What a step keeps of the calls and owners it does not disturb.
LEMMA KeptFacts ==
    ASSUME Types, Owners, Keeps, NEW c \in Calls, call[c].stage # "new"
    PROVE  /\ Caller(c)' = Caller(c)
           /\ \A f : Answers(c, f) => Answers(c, f)'
           /\ \A part \in Parts : Payload(c, part)' = Payload(c, part)
           /\ \A r, s : r.call = c /\ Addressed(r, s) => Addressed(r, s)'
<1>1. Caller(c)' = Caller(c)
  BY DEF Caller, Keeps, Owners
<1>2. \A f : Answers(c, f) => Answers(c, f)'
  BY <1>1 DEF Answers
<1>3. \A part \in Parts : Payload(c, part)' = Payload(c, part)
  BY DEF Payload, Keeps, Parts
<1>4. ASSUME NEW r, NEW s, r.call = c, Addressed(r, s) PROVE Addressed(r, s)'
  BY <1>1, <1>4, SMTT(60) DEF Addressed, Keeps
<1> QED BY <1>1, <1>2, <1>3, <1>4

\* What is known of one waiting request.
Held(s, i) ==
    LET r == out[s][i]
    IN  /\ Made(r) /\ s = call[r.call].from /\ r.payload = Payload(r.call, r.part)
        /\ \A j \in 1..Len(out[s]) : Same(r, out[s][j]) => i = j
        /\ \A k \in tasks : ~Same(r, k)

\* A request that waits in an output is in order at the place it has now.
LEMMA HeldKept ==
    ASSUME Types, Owners, Keeps, NEW s \in Sessions, NEW i \in 1..Len(out[s]), Held(s, i),
           NEW r, r = out[s][i], NEW j \in 1..Len(out'[s]), out'[s][j] = r,
           \A m \in 1..Len(out'[s]) : Same(r, out'[s][m]) => j = m,
           \A l \in tasks' : ~Same(r, l)
    PROVE  Held(s, j)'
<1>1. r.call \in Calls /\ r.part \in Parts
  <2>1. out[s] \in Seq(Entries)
    BY DEF Types
  <2>2. r \in Entries
    BY <2>1
  <2> QED BY <2>2 DEF Entries
<1>2. Made(r) /\ s = call[r.call].from /\ r.payload = Payload(r.call, r.part)
  BY DEF Held
<1>3. call[r.call].stage # "new"
  BY <1>2, NothingMade, ZenonT(60) DEF Made
<1>4. Made(r)' /\ s = call'[r.call].from
  BY <1>1, <1>2, <1>3, ZenonT(60) DEF Made, Keeps
<1>5. r.payload = Payload(r.call, r.part)'
  BY <1>1, <1>2, <1>3, KeptFacts
<1> QED BY <1>4, <1>5, ZenonT(60) DEF Held, Same, Made, Payload

\* What waits, while outputs and tasks stay as they are.
LEMMA WaitingKept ==
    ASSUME Types, Owners, Keeps, Waiting, UNCHANGED out,
           \A l \in tasks' : \E k \in tasks : Same(k, l)
    PROVE  Waiting'
<1> SUFFICES ASSUME NEW s \in Sessions, NEW i \in 1..Len(out[s]) PROVE Held(s, i)'
  BY DEF Waiting, Held
<1>1. Held(s, i)
  BY DEF Waiting, Held
<1>2. \A l \in tasks' : ~Same(out[s][i], l)
  BY <1>1 DEF Held, Same
<1>3. \A m \in 1..Len(out[s]) : Same(out[s][i], out[s][m]) => i = m
  BY <1>1 DEF Held
<1> QED BY <1>1, <1>2, <1>3, HeldKept

\* What is known of one task, whatever the others are.
Sound(k) ==
    /\ Made(k) /\ k.from = call[k.call].from /\ k.event = ParsePayload(Payload(k.call, k.part))
    /\ k.stage = "write" => Addressed(k, k.to)
    /\ k.stage \in {"create", "fill", "rename"} => k.part = "query" /\ Answers(k.call, k.answer)
    /\ k.stage = "rename" => partial[k.call] = k.answer

\* An answer that was right stays right.
LEMMA SoundKept ==
    ASSUME Types, Owners, Keeps, NEW k \in TaskSet, Sound(k),
           k.stage = "rename" => partial'[k.call] = partial[k.call]
    PROVE  Sound(k)'
<1>1. k.call \in Calls /\ k.part \in Parts
  BY DEF TaskSet
<1>2. call[k.call].stage # "new"
  BY NothingMade DEF Made, Sound
<1>3. Made(k)' /\ k.from = call'[k.call].from
  BY <1>1, <1>2 DEF Made, Keeps, Sound
<1>4. k.event = ParsePayload(Payload(k.call, k.part)')
  BY <1>1, <1>2, KeptFacts DEF Sound
<1>5. k.stage = "write" => Addressed(k, k.to)'
  BY <1>1, <1>2, KeptFacts DEF Sound
<1>6. k.stage \in {"create", "fill", "rename"} => k.part = "query" /\ Answers(k.call, k.answer)'
  BY <1>1, <1>2, KeptFacts DEF Sound
<1>7. k.stage = "rename" => partial'[k.call] = k.answer
  BY DEF Sound
<1>8. ParsePayload(Payload(k.call, k.part)') = ParsePayload(Payload(k.call, k.part))'
  BY DEF ParsePayload, ParseExtension, Split, After, Cut, Cuts
<1> QED BY <1>3, <1>4, <1>5, <1>6, <1>7, <1>8 DEF Sound

\* What the tasks know, while the pool and its files stay as they are.
LEMMA WorkingKept ==
    ASSUME Types, Owners, Keeps, Working, UNCHANGED <<tasks, partial>>
    PROVE  Working'
<1>1. \A k \in tasks : k \in TaskSet /\ Sound(k)
  BY DEF Types, Working, Sound
<1>2. \A k \in tasks : Sound(k)'
  BY <1>1, SoundKept
<1>3. \A k, l \in tasks : Same(k, l) => k = l
  BY DEF Working
<1> QED BY <1>2, <1>3 DEF Working, Sound, Same

\* The files, while they stay as they are.
LEMMA RepliesKept ==
    ASSUME Types, Owners, Keeps, Replies, UNCHANGED reply,
           \A c \in Calls : call'[c].got = call[c].got \/ call'[c].got.is = "absent",
           \A c \in Calls : call[c].stage = "rm" => call'[c].stage = "rm"
    PROVE  Replies'
<1> SUFFICES ASSUME NEW c \in Calls
             PROVE  /\ (call[c].stage = "rm" \/ reply[c].is = "absent" \/ (call[c].stage # "new" /\ Answers(c, reply[c])))'
                    /\ (call[c].got.is = "absent" \/ (call[c].stage # "new" /\ Answers(c, call[c].got)))'
  BY DEF Replies
<1>1. /\ call[c].stage = "rm" \/ reply[c].is = "absent" \/ (call[c].stage # "new" /\ Answers(c, reply[c]))
      /\ call[c].got.is = "absent" \/ (call[c].stage # "new" /\ Answers(c, call[c].got))
  BY DEF Replies
<1>2. call[c].stage # "new" => call'[c].stage # "new"
  BY DEF Keeps
<1>3. call[c].stage # "new" /\ Answers(c, reply[c]) => Answers(c, reply[c])'
  <2>1. call[c].stage # "new" => Caller(c)' = Caller(c)
    BY KeptFacts
  <2> QED BY <2>1 DEF Answers
<1>4. call[c].stage # "new" /\ Answers(c, call[c].got) /\ call'[c].got = call[c].got => Answers(c, call[c].got)'
  <2>1. call[c].stage # "new" => Caller(c)' = Caller(c)
    BY KeptFacts
  <2> QED BY <2>1 DEF Answers
<1> QED BY <1>1, <1>2, <1>3, <1>4

\* What was typed, while nothing more is.
LEMMA InputsKept ==
    ASSUME Types, Owners, Keeps, Inputs, UNCHANGED input
    PROVE  Inputs'
<1> SUFFICES ASSUME NEW s \in Sessions, NEW i \in 1..Len(input[s]) PROVE Addressed(input[s][i], s)'
  BY DEF Inputs, Addressed, Caller
<1>1. input[s][i].call \in Calls /\ Addressed(input[s][i], s)
  <2>1. input[s] \in Seq(Typed)
    BY DEF Types
  <2>2. input[s][i] \in Typed
    BY <2>1
  <2> QED BY <2>2 DEF Typed, Inputs
<1>2. call[input[s][i].call].stage # "new"
  BY <1>1 DEF Addressed
<1> QED BY <1>1, <1>2, KeptFacts

\* The slots, while nobody counts.
LEMMA SlotsKept == ASSUME SlotsCounted, UNCHANGED <<inFlight, reader, tasks>> PROVE SlotsCounted'
BY DEF SlotsCounted

-----------------------------------------------------------------------------
(* The tabs change.                                                         *)

\* A step of the tabs alone: types and owners are all there is to show.
LEMMA TabStep ==
    ASSUME IInv, Keeps, Types', Owners', OnlyTabs
    PROVE  IInv'
<1> USE DEF IInv
<1>1. UNCHANGED <<call, out, reader, inFlight, tasks, partial, reply, input>>
  BY DEF OnlyTabs, fileVars
<1>2. Waiting'
  BY <1>1, WaitingKept DEF Same
<1>3. Working'
  BY <1>1, WorkingKept
<1>4. Replies'
  BY <1>1, RepliesKept
<1>5. Inputs'
  BY <1>1, InputsKept
<1>6. SlotsCounted'
  BY <1>1, SlotsKept
<1> QED BY <1>2, <1>3, <1>4, <1>5, <1>6

\* A step that leaves calls alone and owners keeps what is kept.
LEMMA TabsKeep ==
    ASSUME Types, UNCHANGED <<call, owner, spawned>>
    PROVE  Keeps
BY DEF Keeps

\* The owners after a step, from its three parts.
LEMMA OwnersNext ==
    ASSUME \A u \in Tabs : session'[u] # NoSession => session'[u] \in 1..spawned' /\ owner'[session'[u]] = u,
           \A s \in 1..spawned' : owner'[s] \in Tabs,
           \A c \in Calls : call'[c].stage # "new" => call'[c].from \in 1..spawned'
    PROVE  Owners'
BY Zenon DEF Owners

\* The owners, while sessions, tabs and calls stay as they are.
LEMMA OwnersKept ==
    ASSUME Owners, UNCHANGED <<owner, spawned, call>>,
           \A u \in Tabs : session'[u] = session[u] \/ session'[u] = NoSession
    PROVE  Owners'
<1>1. \A u \in Tabs : session'[u] # NoSession => session'[u] \in 1..spawned' /\ owner'[session'[u]] = u
  BY DEF Owners
<1>2. \A s \in 1..spawned' : owner'[s] \in Tabs
  BY DEF Owners
<1>3. \A c \in Calls : call'[c].stage # "new" => call'[c].from \in 1..spawned'
  BY DEF Owners
<1> QED BY <1>1, <1>2, <1>3, OwnersNext

LEMMA RenameStep ==
    ASSUME ChannelConstants, IInv, NEW t \in Tabs, NEW words \in SUBSET Words, Rename(t, words)
    PROVE  IInv'
<1>1. Types'
  BY DEF IInv, Types, TypeOK, Rename, OnlyTabs, fileVars
<1>2. Owners'
  BY OwnersKept DEF IInv, Rename, OnlyTabs
<1>3. Keeps
  BY TabsKeep DEF IInv, Rename, OnlyTabs
<1> QED BY <1>1, <1>2, <1>3, TabStep DEF Rename

LEMMA ShellEndsStep ==
    ASSUME ChannelConstants, IInv, NEW s \in Sessions, ShellEnds(s)
    PROVE  IInv'
<1>1. Types'
  BY DEF IInv, Types, TypeOK, ShellEnds, OnlyTabs, fileVars
<1>2. Owners'
  BY OwnersKept DEF IInv, ShellEnds, OnlyTabs
<1>3. Keeps
  BY TabsKeep DEF IInv, ShellEnds, OnlyTabs
<1> QED BY <1>1, <1>2, <1>3, TabStep DEF ShellEnds

LEMMA ExitAppliedStep ==
    ASSUME ChannelConstants, IInv, NEW t \in Tabs, ExitApplied(t)
    PROVE  IInv'
<1>1. Types'
  BY SMTT(60) DEF IInv, Types, TypeOK, ExitApplied, OnlyTabs, fileVars, NoSession, ChannelConstants
<1>2. Owners'
  BY OwnersKept DEF IInv, Types, TypeOK, ExitApplied, OnlyTabs
<1>3. Keeps
  BY TabsKeep DEF IInv, ExitApplied, OnlyTabs
<1> QED BY <1>1, <1>2, <1>3, TabStep DEF ExitApplied

LEMMA CloseTabStep ==
    ASSUME ChannelConstants, IInv, NEW t \in Tabs, CloseTab(t)
    PROVE  IInv'
<1>1. Types'
  <2>1. 0 \in 0..MaxSessions
    BY DEF ChannelConstants
  <2>2. TypeOK'
    <3>1. /\ session \in [Tabs -> 0..MaxSessions] /\ status \in [Tabs -> {"running", "exited", "closed"}]
          /\ session' = [session EXCEPT ![t] = 0] /\ status' = [status EXCEPT ![t] = "closed"]
      BY DEF IInv, Types, TypeOK, CloseTab, NoSession
    <3>2. session' \in [Tabs -> 0..MaxSessions] /\ status' \in [Tabs -> {"running", "exited", "closed"}]
      BY <2>1, <3>1
    <3>3. alive' \subseteq 1..spawned'
      <4>1. alive \subseteq 1..spawned /\ alive' \subseteq alive /\ spawned' = spawned
        BY DEF IInv, Types, TypeOK, CloseTab
      <4> QED BY <4>1
    <3> QED BY <3>2, <3>3 DEF IInv, Types, TypeOK, CloseTab, OnlyTabs
  <2>3. UNCHANGED <<spawned, call, out, tasks, partial, reply, input>>
    BY DEF CloseTab, OnlyTabs, fileVars
  <2> QED BY <2>2, <2>3 DEF IInv, Types
<1>2. Owners'
  BY OwnersKept DEF IInv, Types, TypeOK, CloseTab, OnlyTabs
<1>3. Keeps
  BY TabsKeep DEF IInv, CloseTab, OnlyTabs
<1> QED BY <1>1, <1>2, <1>3, TabStep DEF CloseTab

LEMMA RespawnStep ==
    ASSUME ChannelConstants, IInv, NEW t \in Tabs, Respawn(t)
    PROVE  IInv'
<1>0. /\ spawned \in Nat /\ spawned < MaxSessions /\ spawned' = spawned + 1 /\ MaxSessions \in Nat
      /\ spawned + 1 \in Sessions /\ 1..spawned \subseteq Sessions
  BY DEF IInv, Types, Respawn, ChannelConstants, Sessions
<1>1. Types'
  <2>1. /\ session' \in [Tabs -> 0..MaxSessions] /\ status' \in [Tabs -> {"running", "exited", "closed"}]
        /\ owner' \in [Sessions -> Tabs \cup {NoTab}] /\ alive' \subseteq 1..spawned'
    BY <1>0 DEF IInv, Types, TypeOK, Respawn
  <2>2. TypeOK'
    BY <1>0, <2>1 DEF IInv, Types, TypeOK, Respawn, OnlyTabs
  <2>3. spawned' \in 0..MaxSessions
    BY <1>0
  <2>4. UNCHANGED <<call, out, tasks, partial, reply, input>>
    BY DEF Respawn, OnlyTabs, fileVars
  <2> QED BY <2>2, <2>3, <2>4 DEF IInv, Types
<1>2. \A s \in 1..spawned : s \in 1..spawned' /\ owner'[s] = owner[s]
  BY <1>0 DEF IInv, Types, TypeOK, Respawn
<1>3. owner'[spawned'] = t /\ session' = [session EXCEPT ![t] = spawned']
  BY <1>0 DEF IInv, Types, TypeOK, Respawn
<1>4. Owners'
  <2>1. ASSUME NEW u \in Tabs, session'[u] # NoSession PROVE session'[u] \in 1..spawned' /\ owner'[session'[u]] = u
    <3>1. CASE u = t
      BY <1>0, <1>3, <3>1 DEF IInv, Types, TypeOK
    <3>2. CASE u # t
      <4>1. session'[u] = session[u]
        BY <1>3, <3>2 DEF IInv, Types, TypeOK
      <4>2. session[u] \in 1..spawned /\ owner[session[u]] = u
        BY <2>1, <4>1 DEF IInv, Owners
      <4> QED BY <1>2, <4>1, <4>2
    <3> QED BY <3>1, <3>2
  <2>2. \A s \in 1..spawned' : owner'[s] \in Tabs
    <3>1. \A s \in 1..spawned' : s \in 1..spawned \/ s = spawned'
      BY <1>0
    <3> QED BY <1>2, <1>3, <3>1 DEF IInv, Owners
  <2>3. \A c \in Calls : call'[c].stage # "new" => call'[c].from \in 1..spawned'
    BY <1>2 DEF IInv, Owners, Respawn, OnlyTabs
  <2>4. \A u \in Tabs : session'[u] # NoSession => session'[u] \in 1..spawned' /\ owner'[session'[u]] = u
    BY <2>1
  <2> QED BY <2>2, <2>3, <2>4, OwnersNext, Zenon
<1>5. Keeps
  BY <1>2 DEF Keeps, Respawn, OnlyTabs
<1> QED BY <1>1, <1>4, <1>5, TabStep DEF Respawn

-----------------------------------------------------------------------------
(* The caller goes on.                                                      *)

\* One call changes, and with it what has been sent to a session.
LEMMA CallStep ==
    ASSUME IInv, NEW c \in Calls, NEW k \in CallSet, call' = [call EXCEPT ![c] = k],
           UNCHANGED tabVars,
           call[c].stage # "new" =>
               /\ k.from = call[c].from /\ k.target = call[c].target
               /\ Emitted(call[c].stage) \subseteq Emitted(k.stage),
           k.stage # "new", k.from \in 1..spawned
    PROVE  /\ Keeps /\ Owners' /\ call' \in [Calls -> CallSet]
           /\ call'[c] = k /\ \A d \in Calls : d # c => call'[d] = call[d]
<1>1. call \in [Calls -> CallSet]
  BY DEF IInv, Types
<1>2. call' \in [Calls -> CallSet] /\ call'[c] = k /\ \A d \in Calls : d # c => call'[d] = call[d]
  BY <1>1
<1>3. UNCHANGED <<session, owner, spawned>>
  BY DEF tabVars
<1>4. Keeps
  <2>1. ASSUME NEW d \in Calls, call[d].stage # "new"
        PROVE  /\ call'[d].stage # "new"
               /\ call'[d].from = call[d].from /\ call'[d].target = call[d].target
               /\ Emitted(call[d].stage) \subseteq Emitted(call'[d].stage)
    BY <1>2, <2>1
  <2> QED BY <1>3, <2>1 DEF Keeps
<1>5. Owners'
  <2>1. \A d \in Calls : call'[d].stage # "new" => call'[d].from \in 1..spawned'
    BY <1>2, <1>3 DEF IInv, Owners
  <2>2. \A s \in 1..spawned' : owner'[s] \in Tabs
    BY <1>3 DEF IInv, Owners
  <2>3. \A u \in Tabs : session'[u] # NoSession => session'[u] \in 1..spawned' /\ owner'[session'[u]] = u
    BY <1>3 DEF IInv, Owners
  <2> QED BY <2>1, <2>2, <2>3, OwnersNext
<1> QED BY <1>2, <1>4, <1>5

\* A request of a call that has not made it.
LEMMA NotMade ==
    ASSUME IInv, NEW c \in Calls, NEW part, part \notin Emitted(call[c].stage)
    PROVE  LET r == [call |-> c, part |-> part, payload |-> Payload(c, part)]
           IN  /\ \A s \in Sessions : \A i \in 1..Len(out[s]) : ~Same(r, out[s][i]) /\ ~Same(out[s][i], r)
               /\ \A k \in tasks : ~Same(r, k)
BY DEF IInv, Waiting, Working, Same, Made

LEMMA EmitStep ==
    ASSUME ChannelConstants, IInv, NEW c \in Calls, NEW part \in Parts, NEW then \in Stages \ {"new"},
           Emit(c, part, then),
           Emitted(part) \subseteq Emitted(then), part \in Emitted(then), part \notin Emitted(part)
    PROVE  IInv'
<1> DEFINE from == call[c].from
           r == [call |-> c, part |-> part, payload |-> Payload(c, part)]
           k == [call[c] EXCEPT !.stage = then]
<1>1. /\ call[c].stage = part /\ part # "new" /\ from \in alive
      /\ out' = [out EXCEPT ![from] = Append(@, r)]
      /\ call' = [call EXCEPT ![c] = k]
      /\ UNCHANGED <<tabVars, reader, inFlight, tasks, partial, reply, input>>
  BY DEF Emit, Unchanged, fileVars, Parts
<1>2. call[c] \in CallSet /\ k \in CallSet /\ k.stage = then /\ k.from = from /\ k.target = call[c].target
      /\ k.got = call[c].got
  BY DEF IInv, Types, CallSet
<1>3. from \in 1..spawned /\ from \in Sessions
  BY <1>1 DEF IInv, Types, TypeOK, Sessions, ChannelConstants
<1> HIDE DEF k
<1>4. /\ Keeps /\ Owners' /\ call' \in [Calls -> CallSet]
      /\ call'[c] = k /\ \A d \in Calls : d # c => call'[d] = call[d]
  BY <1>1, <1>2, <1>3, CallStep
<1>5. Payload(c, part)' = Payload(c, part) /\ Payload(c, part) \in Payloads
  BY <1>1, <1>4, KeptFacts, Understood DEF IInv
<1>6. r \in Entries
  BY <1>5 DEF Entries
<1>7. out \in [Sessions -> Seq(Entries)]
  BY DEF IInv, Types
<1>8. /\ out' \in [Sessions -> Seq(Entries)] /\ out'[from] = Append(out[from], r)
      /\ \A s \in Sessions : s # from => out'[s] = out[s]
  BY <1>1, <1>3, <1>6, <1>7
<1>9. Types'
  BY <1>1, <1>4, <1>8 DEF IInv, Types, TypeOK, tabVars
<1>10. /\ \A s \in Sessions : \A i \in 1..Len(out[s]) : ~Same(r, out[s][i]) /\ ~Same(out[s][i], r)
       /\ \A l \in tasks : ~Same(r, l)
  BY <1>1, NotMade
<1>11. \A s \in Sessions : \A i \in 1..Len(out[s]) : Held(s, i)
  BY DEF IInv, Waiting, Held
<1>12. Waiting'
  <2> SUFFICES ASSUME NEW s \in Sessions, NEW i \in 1..Len(out'[s]) PROVE Held(s, i)'
    BY DEF Waiting, Held
  <2>1. CASE s # from
    <3>1. Held(s, i) /\ out'[s] = out[s] /\ i \in 1..Len(out[s])
      BY <1>8, <1>11, <2>1
    <3>2. \A m \in 1..Len(out'[s]) : Same(out[s][i], out'[s][m]) => i = m
      BY <3>1 DEF Held
    <3>3. \A l \in tasks' : ~Same(out[s][i], l)
      BY <1>1, <3>1 DEF Held
    <3> QED BY <1>4, <3>1, <3>2, <3>3, HeldKept DEF IInv
  <2>2. CASE s = from /\ i # Len(out'[s])
    <3>0. out[s] \in Seq(Entries) /\ out'[s] = Append(out[s], r)
      BY <1>7, <1>8, <2>2
    <3>1. /\ Len(out'[s]) = Len(out[s]) + 1 /\ Len(out[s]) \in Nat
          /\ i \in 1..Len(out[s]) /\ out'[s][i] = out[s][i]
          /\ \A m \in 1..Len(out'[s]) : IF m = Len(out'[s]) THEN out'[s][m] = r
                                        ELSE m \in 1..Len(out[s]) /\ out'[s][m] = out[s][m]
      <4> DEFINE was == out[s]  now == out'[s]
      <4>1. was \in Seq(Entries) /\ now = Append(was, r) /\ i \in 1..Len(now) /\ i # Len(now)
        BY <2>2, <3>0
      <4> HIDE DEF was, now, r
      <4>2. Len(now) = Len(was) + 1 /\ Len(was) \in Nat /\ i \in 1..Len(was)
        BY <4>1
      <4>3. \A m \in 1..Len(now) : IF m = Len(now) THEN now[m] = r ELSE m \in 1..Len(was) /\ now[m] = was[m]
        BY <4>1, <4>2
      <4> QED BY <4>1, <4>2, <4>3 DEF was, now
    <3>2. Held(s, i)
      BY <1>11, <3>1
    <3>3. \A m \in 1..Len(out'[s]) : Same(out[s][i], out'[s][m]) => i = m
      BY <1>10, <3>1, <3>2 DEF Held
    <3>4. \A l \in tasks' : ~Same(out[s][i], l)
      BY <1>1, <3>2 DEF Held
    <3> QED BY <1>4, <3>1, <3>2, <3>3, <3>4, HeldKept DEF IInv
  <2>3. CASE s = from /\ i = Len(out'[s])
    <3>0. out[s] \in Seq(Entries) /\ out'[s] = Append(out[s], r)
      BY <1>7, <1>8, <2>3
    <3>1. /\ out'[s][i] = r
          /\ \A m \in 1..Len(out'[s]) : m # i => m \in 1..Len(out[s]) /\ out'[s][m] = out[s][m]
      BY <2>3, <3>0, SMTT(60)
    <3>2. \A m \in 1..Len(out'[s]) : Same(r, out'[s][m]) => i = m
      BY <1>10, <3>1
    <3>3. Made(r)'
      BY <1>2, <1>4 DEF Made
    <3>4. s = call'[c].from
      BY <1>2, <1>4, <2>3
    <3>5. \A l \in tasks' : ~Same(r, l)
      BY <1>1, <1>10
    <3>6. r.call = c /\ r.part = part /\ r.payload = Payload(c, part)
      OBVIOUS
    <3> QED BY <1>5, <3>1, <3>2, <3>3, <3>4, <3>5, <3>6 DEF Held, Same, Made
  <2> QED BY <2>1, <2>2, <2>3
<1>13. Working' /\ Inputs' /\ SlotsCounted'
  BY <1>1, <1>4, WorkingKept, InputsKept, SlotsKept DEF IInv
<1>14. Replies'
  <2>1. \A d \in Calls : call'[d].got = call[d].got
    BY <1>2, <1>4
  <2>2. \A d \in Calls : call[d].stage = "rm" => call'[d].stage = "rm"
    BY <1>1, <1>4 DEF Parts
  <2> QED BY <1>1, <1>4, <2>1, <2>2, RepliesKept DEF IInv
<1> QED BY <1>4, <1>9, <1>12, <1>13, <1>14 DEF IInv

\* The requests made at each stage.
LEMMA EmittedAre ==
    /\ Emitted("text") = {} /\ Emitted("color") = {} /\ Emitted("query") = {} /\ Emitted("enter") = {"text"}
    /\ Emitted("mktemp") = {} /\ Emitted("rm") = {} /\ Emitted("wait") = {"query"} /\ Emitted("gaveUp") = {"query"}
    /\ Emitted("done") = Parts
BY DEF Emitted

\* The requests of a send or of a question for a colour.
LEMMA EmitSendStep ==
    ASSUME ChannelConstants, IInv, NEW c \in Calls, EmitSend(c)
    PROVE  IInv'
<1>1. CASE Emit(c, "text", "done")
  BY <1>1, EmitStep, EmittedAre DEF Parts, Stages
<1>2. CASE Emit(c, "text", "enter")
  BY <1>2, EmitStep, EmittedAre DEF Parts, Stages
<1>3. CASE Emit(c, "enter", "done")
  BY <1>3, EmitStep, EmittedAre DEF Parts, Stages
<1>4. CASE Emit(c, "color", "done")
  BY <1>4, EmitStep, EmittedAre DEF Parts, Stages
<1> QED BY <1>1, <1>2, <1>3, <1>4 DEF EmitSend

\* The steps of a call that send nothing.
LEMMA SilentStep ==
    ASSUME ChannelConstants, IInv, NEW c \in Calls, NEW k \in CallSet, call' = [call EXCEPT ![c] = k],
           UNCHANGED <<tabVars, out, reader, inFlight, tasks, partial, input>>,
           call[c].stage # "new" =>
               /\ k.from = call[c].from /\ k.target = call[c].target
               /\ Emitted(call[c].stage) \subseteq Emitted(k.stage),
           k.stage # "new", k.from \in 1..spawned,
           NEW f \in Files, reply' = [reply EXCEPT ![c] = f],
           f.is = "absent" \/ k.stage = "rm",
           k.got = call[c].got \/ k.got.is = "absent" \/ (call[c].stage # "new" /\ Answers(c, k.got))
    PROVE  IInv'
<1>1. /\ Keeps /\ Owners' /\ call' \in [Calls -> CallSet]
      /\ call'[c] = k /\ \A d \in Calls : d # c => call'[d] = call[d]
  BY CallStep
<1>2. reply' \in [Calls -> Files] /\ reply'[c] = f /\ \A d \in Calls : d # c => reply'[d] = reply[d]
  BY DEF IInv, Types
<1>3. Types'
  BY <1>1, <1>2 DEF IInv, Types, TypeOK, tabVars
<1>4. Waiting'
  BY <1>1, WaitingKept DEF IInv, Same
<1>5. Working' /\ Inputs' /\ SlotsCounted'
  BY <1>1, WorkingKept, InputsKept, SlotsKept DEF IInv
<1>6. ASSUME NEW d \in Calls
      PROVE  /\ (call[d].stage = "rm" \/ reply[d].is = "absent" \/ (call[d].stage # "new" /\ Answers(d, reply[d])))'
             /\ (call[d].got.is = "absent" \/ (call[d].stage # "new" /\ Answers(d, call[d].got)))'
  <2>1. \A g : call[d].stage # "new" /\ Answers(d, g) => call'[d].stage # "new" /\ Answers(d, g)'
    BY <1>1, KeptFacts DEF IInv, Keeps
  <2>2. /\ call[d].stage = "rm" \/ reply[d].is = "absent" \/ (call[d].stage # "new" /\ Answers(d, reply[d]))
        /\ call[d].got.is = "absent" \/ (call[d].stage # "new" /\ Answers(d, call[d].got))
    BY DEF IInv, Replies
  <2>3. CASE d # c
    <3>1. call'[d] = call[d] /\ reply'[d] = reply[d]
      BY <1>1, <1>2, <2>3
    <3> QED BY <2>1, <2>2, <3>1 DEF Answers
  <2>4. CASE d = c
    <3>1. call'[d] = k /\ reply'[d] = f
      BY <1>1, <1>2, <2>4, SMTT(60)
    <3> QED BY <2>1, <2>2, <2>4, <3>1 DEF Answers
  <2> QED BY <2>3, <2>4
<1>7. Replies'
  BY <1>6 DEF Replies, Answers, Caller
<1> QED BY <1>1, <1>3, <1>4, <1>5, <1>7 DEF IInv

\* The files that are not an answer.
LEMMA FilesTyped == \A is \in {"absent", "empty", "half", "whole"} : File(is) \in Files /\ File(is).is = is
BY DEF File, Files

LEMMA BeginStep ==
    ASSUME ChannelConstants, IInv, NEW c \in Calls, Begin(c)
    PROVE  IInv'
<1>1. PICK q \in Requests, s \in alive :
        call' = [call EXCEPT ![c] = [NoCall EXCEPT !.kind = q.kind, !.from = s, !.target = q.target, !.text = q.text,
                   !.stage = IF q.kind = "ls" THEN "mktemp" ELSE IF q.kind = "color" THEN "color" ELSE "text"]]
  BY DEF Begin
<1> DEFINE stage == IF q.kind = "ls" THEN "mktemp" ELSE IF q.kind = "color" THEN "color" ELSE "text"
           k == [NoCall EXCEPT !.kind = q.kind, !.from = s, !.target = q.target, !.text = q.text, !.stage = stage]
<1>2. s \in 1..spawned /\ spawned \in 0..MaxSessions /\ MaxSessions \in Nat
  BY DEF IInv, Types, TypeOK, ChannelConstants
<1>3. k = [stage |-> stage, kind |-> q.kind, from |-> s, target |-> q.target, text |-> q.text, got |-> File("absent")]
  <2> HIDE DEF stage
  <2> DEFINE none == File("absent")
  <2>1. k = [[stage |-> "new", kind |-> "none", from |-> NoSession, target |-> 0, text |-> "short", got |-> none]
               EXCEPT !.kind = q.kind, !.from = s, !.target = q.target, !.text = q.text, !.stage = stage]
    BY DEF NoCall
  <2> HIDE DEF none, k
  <2>2. k = [stage |-> stage, kind |-> q.kind, from |-> s, target |-> q.target, text |-> q.text, got |-> none]
    BY <2>1
  <2> QED BY <2>2 DEF none
<1>4. q.kind \in {"send", "literal", "ls", "color"} /\ q.target \in Targets /\ q.text \in {"short", "long"}
  BY DEF ChannelConstants, Targets
<1>5. s \in 0..MaxSessions
  BY <1>2
<1>6. stage \in Stages /\ stage # "new"
  BY DEF Stages
<1>7. k \in CallSet /\ k.stage # "new" /\ k.from = s /\ k.got.is = "absent"
  <2> HIDE DEF stage
  <2>1. [stage |-> stage, kind |-> q.kind, from |-> s, target |-> q.target, text |-> q.text,
         got |-> File("absent")] \in CallSet
    BY <1>4, <1>5, <1>6, FilesTyped DEF CallSet
  <2> HIDE DEF k
  <2> QED BY <1>3, <1>6, <2>1, FilesTyped
<1>8. call' = [call EXCEPT ![c] = k]
  BY <1>1
<1> HIDE DEF k
<1>9. call[c].stage = "new" /\ UNCHANGED <<tabVars, out, reader, inFlight, tasks, partial, reply, input>>
  BY DEF Begin, Unchanged, fileVars
<1>10. reply[c].is = "absent" /\ reply[c] \in Files /\ reply' = [reply EXCEPT ![c] = reply[c]]
  BY <1>9 DEF IInv, Types, Replies
<1> QED BY <1>2, <1>7, <1>8, <1>9, <1>10, SilentStep, ZenonT(60)

\* The steps of `mast ls`.
LEMMA ListStep ==
    ASSUME ChannelConstants, IInv, NEW c \in Calls, List(c)
    PROVE  IInv'
<1>1. call[c] \in CallSet /\ reply[c] \in Files /\ reply \in [Calls -> Files]
  BY DEF IInv, Types
<1>2. call[c].stage # "new" => call[c].from \in 1..spawned
  BY DEF IInv, Owners
<1>3. call[c].stage = "rm" \/ reply[c].is = "absent" \/ (call[c].stage # "new" /\ Answers(c, reply[c]))
  BY DEF IInv, Replies
<1>4. \A stage \in Stages : /\ [call[c] EXCEPT !.stage = stage] \in CallSet
                            /\ [call[c] EXCEPT !.stage = stage].stage = stage
                            /\ [call[c] EXCEPT !.stage = stage].from = call[c].from
                            /\ [call[c] EXCEPT !.stage = stage].target = call[c].target
                            /\ [call[c] EXCEPT !.stage = stage].got = call[c].got
  BY <1>1 DEF CallSet
<1>5. CASE Mktemp(c)
  <2> DEFINE k == [call[c] EXCEPT !.stage = "rm"]
  <2>1. k \in CallSet /\ k.stage = "rm" /\ k.from = call[c].from /\ k.target = call[c].target /\ k.got = call[c].got
    BY <1>4 DEF Stages
  <2>2. /\ call' = [call EXCEPT ![c] = k] /\ reply' = [reply EXCEPT ![c] = File("empty")]
        /\ UNCHANGED <<tabVars, out, reader, inFlight, tasks, partial, input>> /\ call[c].stage = "mktemp"
    BY <1>5 DEF Mktemp, Unchanged
  <2> HIDE DEF k
  <2> QED BY <1>2, <2>1, <2>2, SilentStep, FilesTyped, EmittedAre
<1>6. CASE RmPlaceholder(c)
  <2> DEFINE k == [call[c] EXCEPT !.stage = "query"]
  <2>1. k \in CallSet /\ k.stage = "query" /\ k.from = call[c].from /\ k.target = call[c].target /\ k.got = call[c].got
    BY <1>4 DEF Stages
  <2>2. /\ call' = [call EXCEPT ![c] = k] /\ reply' = [reply EXCEPT ![c] = File("absent")]
        /\ UNCHANGED <<tabVars, out, reader, inFlight, tasks, partial, input>> /\ call[c].stage = "rm"
    BY <1>6 DEF RmPlaceholder, Unchanged
  <2> HIDE DEF k
  <2> QED BY <1>2, <2>1, <2>2, SilentStep, FilesTyped, EmittedAre
<1>7. CASE Emit(c, "query", "wait")
  BY <1>7, EmitStep, EmittedAre DEF Parts, Stages
<1>8. CASE TakeReply(c)
  <2> DEFINE k == [call[c] EXCEPT !.stage = "done", !.got = reply[c]]
  <2>1. k \in CallSet /\ k.stage = "done" /\ k.from = call[c].from /\ k.target = call[c].target /\ k.got = reply[c]
    BY <1>1 DEF Stages, CallSet
  <2>2. /\ call' = [call EXCEPT ![c] = k] /\ reply' = [reply EXCEPT ![c] = File("absent")]
        /\ UNCHANGED <<tabVars, out, reader, inFlight, tasks, partial, input>> /\ call[c].stage = "wait"
        /\ reply[c].is # "absent"
    BY <1>8 DEF TakeReply, Unchanged
  <2>3. Answers(c, k.got)
    BY <1>3, <2>1, <2>2
  <2>4. Emitted("wait") \subseteq Emitted("done")
    BY EmittedAre DEF Parts
  <2> HIDE DEF k
  <2> QED BY <1>2, <2>1, <2>2, <2>3, <2>4, SilentStep, FilesTyped
<1>9. CASE GiveUp(c)
  <2> DEFINE k == [call[c] EXCEPT !.stage = "gaveUp"]
  <2>1. k \in CallSet /\ k.stage = "gaveUp" /\ k.from = call[c].from /\ k.target = call[c].target /\ k.got = call[c].got
    BY <1>4 DEF Stages
  <2>2. /\ call' = [call EXCEPT ![c] = k] /\ UNCHANGED reply
        /\ UNCHANGED <<tabVars, out, reader, inFlight, tasks, partial, input>> /\ call[c].stage = "wait"
        /\ reply[c].is = "absent"
    BY <1>9 DEF GiveUp, Unchanged, fileVars
  <2>3. reply' = [reply EXCEPT ![c] = reply[c]]
    BY <1>1, <2>2
  <2> HIDE DEF k
  <2> QED BY <1>1, <1>2, <2>1, <2>2, <2>3, SilentStep, EmittedAre, ZenonT(60)
<1> QED BY <1>5, <1>6, <1>7, <1>8, <1>9 DEF List

-----------------------------------------------------------------------------
(* The readers and the pool.                                                *)

Refused == {s \in Sessions : reader[s] = "refused"}

\* The readers that have a count to take back are finitely many.
LEMMA RefusedFinite ==
    ASSUME ChannelConstants
    PROVE  IsFiniteSet(Refused) /\ Cardinality(Refused) \in Nat
<1>1. IsFiniteSet(Sessions)
  BY FS_Interval DEF Sessions, ChannelConstants
<1>2. Refused \subseteq Sessions
  BY DEF Refused
<1> QED BY <1>1, <1>2, FS_Subset, FS_CardinalityType

\* SlotsCounted, in the terms of the lemmas that follow.
LEMMA SlotsAre == SlotsCounted <=> /\ Cardinality(tasks) <= MaxInFlight
                                   /\ inFlight = Cardinality(tasks) + Cardinality(Refused)
BY DEF SlotsCounted, Refused

\* A step that leaves tabs and calls alone keeps what is kept.
LEMMA AppKeeps ==
    ASSUME IInv, UNCHANGED <<tabVars, call>>
    PROVE  Keeps /\ Owners'
<1>1. UNCHANGED <<session, owner, spawned>>
  BY DEF tabVars
<1>2. Keeps
  BY <1>1, TabsKeep DEF IInv
<1>3. Owners'
  BY <1>1, OwnersKept DEF IInv
<1> QED BY <1>2, <1>3

LEMMA TakeBackStep ==
    ASSUME ChannelConstants, IInv, NEW s \in Sessions, TakeBack(s)
    PROVE  IInv'
<1>1. /\ reader[s] = "refused" /\ reader' = [reader EXCEPT ![s] = "idle"] /\ inFlight' = inFlight - 1
      /\ UNCHANGED <<tabVars, call, out, tasks, partial, reply, input>>
  BY DEF TakeBack, fileVars
<1>2. reader \in [Sessions -> {"idle", "refused"}] /\ reader' \in [Sessions -> {"idle", "refused"}]
  BY <1>1 DEF IInv, Types, TypeOK
<1>3. s \in Refused /\ Refused' = Refused \ {s}
  BY <1>1, <1>2 DEF Refused
<1>4. IsFiniteSet(Refused) /\ Cardinality(Refused) \in Nat
  BY RefusedFinite
<1>5. Cardinality(Refused') = Cardinality(Refused) - 1
  BY <1>3, <1>4, FS_RemoveElement
<1>6. Cardinality(tasks) \in Nat /\ IsFiniteSet(tasks)
  BY FS_CardinalityType DEF IInv, Types
<1>7. Cardinality(Refused) # 0
  BY <1>3, <1>4, FS_EmptySet
<1>8. SlotsCounted'
  <2>1. Cardinality(tasks) <= MaxInFlight /\ inFlight = Cardinality(tasks) + Cardinality(Refused)
    BY SlotsAre DEF IInv
  <2>2. Cardinality(tasks) <= MaxInFlight /\ inFlight' = Cardinality(tasks) + Cardinality(Refused')
    BY <1>1, <1>4, <1>5, <1>6, <2>1
  <2> QED BY <1>1, <2>2 DEF SlotsCounted, Refused
<1>9. inFlight' \in Nat
  <2>1. inFlight = Cardinality(tasks) + Cardinality(Refused)
    BY SlotsAre DEF IInv
  <2> QED BY <1>1, <1>4, <1>6, <1>7, <2>1
<1>10. Types'
  BY <1>1, <1>2, <1>9 DEF IInv, Types, TypeOK, tabVars
<1>11. Keeps /\ Owners'
  BY <1>1, AppKeeps
<1>12. Waiting'
  BY <1>1, <1>11, WaitingKept DEF IInv, Same
<1>13. Working' /\ Inputs' /\ Replies'
  BY <1>1, <1>11, WorkingKept, InputsKept, RepliesKept DEF IInv
<1> QED BY <1>8, <1>10, <1>11, <1>12, <1>13 DEF IInv

\* The task of a request that waits: nobody else has it.
LEMMA ReadRequestStep ==
    ASSUME ChannelConstants, IInv, NEW s \in Sessions, ReadRequest(s)
    PROVE  IInv'
<1>0. out \in [Sessions -> Seq(Entries)] /\ reader \in [Sessions -> {"idle", "refused"}]
  BY DEF IInv, Types, TypeOK
<1>1. /\ out[s] # <<>> /\ reader[s] = "idle" /\ out' = [out EXCEPT ![s] = Tail(@)]
      /\ inFlight' = inFlight + 1
      /\ UNCHANGED <<tabVars, call, partial, reply, input>>
  BY DEF ReadRequest, Acquire, fileVars
<1>2. PICK r : r = out[s][1]
  OBVIOUS
<1>3. PICK k : k = Task(r, s)
  OBVIOUS
<1>4. \/ inFlight < MaxInFlight /\ tasks' = tasks \cup {k} /\ UNCHANGED reader
      \/ reader' = [reader EXCEPT ![s] = "refused"] /\ UNCHANGED tasks
  <2>1. Head(out[s]) = r
    BY <1>2
  <2> QED BY <1>3, <2>1 DEF ReadRequest, Acquire
<1>5. out[s] \in Seq(Entries) /\ Len(out[s]) >= 1 /\ r \in Entries
  BY <1>0, <1>1, <1>2
<1>6. Held(s, 1)
  BY <1>5 DEF IInv, Waiting, Held
<1>7. Made(r) /\ s = call[r.call].from /\ r.payload = Payload(r.call, r.part)
      /\ (\A j \in 1..Len(out[s]) : Same(r, out[s][j]) => 1 = j)
      /\ (\A l \in tasks : ~Same(r, l))
  BY <1>2, <1>6 DEF Held
<1>8. k.call = r.call /\ k.part = r.part /\ k.from = s /\ k.stage = "begin" /\ k.event = ParsePayload(r.payload)
  BY <1>3 DEF Task
<1>9. k \in TaskSet
  <2>1. r.call \in Calls /\ r.part \in Parts /\ ParsePayload(r.payload) \in Events
    BY <1>5 DEF Entries, Events
  <2>2. NoSession \in 0..MaxSessions /\ File("absent") \in Files /\ "begin" \in TaskStages
    BY FilesTyped DEF NoSession, TaskStages, ChannelConstants
  <2> HIDE DEF Events, Files, TaskStages
  <2> QED BY <1>3, <2>1, <2>2 DEF Task, TaskSet
<1>10. Keeps /\ Owners'
  BY <1>1, AppKeeps
<1>11. k \notin tasks
  BY <1>7, <1>8 DEF Same
<1>12. IsFiniteSet(tasks) /\ Cardinality(tasks) \in Nat /\ IsFiniteSet(Refused) /\ Cardinality(Refused) \in Nat
  BY RefusedFinite, FS_CardinalityType DEF IInv, Types
<1>13. Cardinality(tasks) <= MaxInFlight /\ inFlight = Cardinality(tasks) + Cardinality(Refused)
  BY SlotsAre DEF IInv
<1>14. SlotsCounted' /\ inFlight' \in Nat /\ IsFiniteSet(tasks') /\ reader' \in [Sessions -> {"idle", "refused"}]
  <2>0. MaxInFlight \in Nat
    BY DEF ChannelConstants
  <2>1. CASE inFlight < MaxInFlight /\ tasks' = tasks \cup {k} /\ UNCHANGED reader
    <3>1. IsFiniteSet(tasks') /\ Cardinality(tasks') = Cardinality(tasks) + 1 /\ Refused' = Refused
      BY <1>11, <1>12, <2>1, FS_AddElement DEF Refused
    <3>2. Cardinality(tasks') <= MaxInFlight /\ inFlight' = Cardinality(tasks') + Cardinality(Refused')
      BY <1>1, <1>12, <1>13, <2>0, <2>1, <3>1
    <3>3. SlotsCounted'
      BY <3>2 DEF SlotsCounted, Refused
    <3>4. inFlight' \in Nat
      BY <1>1, <1>12, <1>13
    <3> QED BY <1>0, <2>1, <3>1, <3>3, <3>4
  <2>2. CASE reader' = [reader EXCEPT ![s] = "refused"] /\ UNCHANGED tasks
    <3>1. s \notin Refused /\ Refused' = Refused \cup {s}
      BY <1>0, <1>1, <2>2 DEF Refused
    <3>2. Cardinality(Refused') = Cardinality(Refused) + 1
      BY <1>12, <3>1, FS_AddElement
    <3>3. Cardinality(tasks) <= MaxInFlight /\ inFlight' = Cardinality(tasks) + Cardinality(Refused')
      BY <1>1, <1>12, <1>13, <3>2
    <3>4. SlotsCounted'
      BY <2>2, <3>3 DEF SlotsCounted, Refused
    <3>5. inFlight' \in Nat
      BY <1>1, <1>12, <1>13
    <3>6. reader' \in [Sessions -> {"idle", "refused"}]
      BY <1>0, <2>2
    <3> QED BY <1>12, <2>2, <3>4, <3>5, <3>6
  <2> QED BY <1>4, <2>1, <2>2
<1>15. out' \in [Sessions -> Seq(Entries)] /\ out'[s] = Tail(out[s]) /\ \A u \in Sessions : u # s => out'[u] = out[u]
  BY <1>0, <1>1, <1>5
<1>16. tasks' \subseteq TaskSet
  BY <1>4, <1>9 DEF IInv, Types
<1>17. Types'
  BY <1>1, <1>14, <1>15, <1>16 DEF IInv, Types, TypeOK, tabVars
<1>18. Waiting'
  <2> SUFFICES ASSUME NEW u \in Sessions, NEW j \in 1..Len(out'[u]) PROVE Held(u, j)'
    BY DEF Waiting, Held
  <2>1. PICK i \in 1..Len(out[u]) :
          /\ out[u][i] = out'[u][j] /\ (u = s => i # 1)
          /\ \A m \in 1..Len(out'[u]) : \E n \in 1..Len(out[u]) : out[u][n] = out'[u][m] /\ (n = i => m = j)
    <3>1. CASE u # s
      <4>1. out'[u] = out[u]
        BY <1>15, <3>1
      <4> QED BY <3>1, <4>1
    <3>2. CASE u = s
      <4> DEFINE was == out[s]  now == out'[s]
      <4>1. was \in Seq(Entries) /\ now = Tail(was) /\ Len(was) >= 1
        BY <1>5, <1>15
      <4> HIDE DEF was, now
      <4>2. Len(now) = Len(was) - 1 /\ Len(was) \in Nat /\ \A m \in 1..Len(now) : now[m] = was[m + 1]
        BY <4>1
      <4>3. j + 1 \in 1..Len(was) /\ was[j + 1] = now[j] /\ j + 1 # 1
        BY <3>2, <4>2 DEF now
      <4>4. \A m \in 1..Len(now) : m + 1 \in 1..Len(was) /\ was[m + 1] = now[m] /\ (m + 1 = j + 1 => m = j)
        BY <3>2, <4>2 DEF now
      <4> QED BY <3>2, <4>3, <4>4 DEF was, now
    <3> QED BY <3>1, <3>2
  <2>2. PICK q : q = out[u][i]
    OBVIOUS
  <2>3. Held(u, i)
    BY DEF IInv, Waiting, Held
  <2>4. \A m \in 1..Len(out'[u]) : Same(q, out'[u][m]) => j = m
    <3>1. \A n \in 1..Len(out[u]) : Same(q, out[u][n]) => i = n
      BY <2>2, <2>3 DEF Held
    <3> QED BY <2>1, <3>1
  <2>5. \A l \in tasks' : ~Same(q, l)
    <3>1. \A l \in tasks : ~Same(q, l)
      BY <2>2, <2>3 DEF Held
    <3>2. ~Same(q, k)
      <4>1. ASSUME Same(q, k) PROVE FALSE
        <5>1. Same(r, q) /\ Same(q, r)
          BY <1>8, <4>1 DEF Same
        <5>2. u = s
          <6>1. u = call[q.call].from
            BY <2>2, <2>3 DEF Held
          <6> QED BY <1>7, <5>1, <6>1 DEF Same
        <5>3. i = 1
          BY <1>7, <2>2, <5>1, <5>2
        <5> QED BY <2>1, <5>2, <5>3
      <4> QED BY <4>1
    <3> QED BY <1>4, <3>1, <3>2
  <2> QED BY <1>10, <2>1, <2>2, <2>3, <2>4, <2>5, HeldKept DEF IInv
<1>19. Working'
  <2>1. Sound(k)'
    <3>1. Sound(k)
      BY <1>7, <1>8 DEF Sound, Made
    <3> QED BY <1>1, <1>9, <1>10, <3>1, SoundKept DEF IInv
  <2>2. \A l \in tasks : Sound(l)'
    <3>1. \A l \in tasks : l \in TaskSet /\ Sound(l)
      BY DEF IInv, Types, Working, Sound
    <3> QED BY <1>1, <1>10, <3>1, SoundKept DEF IInv
  <2>3. \A l, m \in tasks : Same(l, m) => l = m
    BY DEF IInv, Working
  <2>4. \A l \in tasks : ~Same(k, l) /\ ~Same(l, k)
    BY <1>7, <1>8 DEF Same
  <2>5. \A l \in tasks' : Sound(l)' /\ \A m \in tasks' : Same(l, m) => l = m
    BY <1>4, <2>1, <2>2, <2>3, <2>4
  <2> QED BY <2>5 DEF Working, Sound, Same
<1>20. Inputs' /\ Replies'
  BY <1>1, <1>10, InputsKept, RepliesKept DEF IInv
<1> QED BY <1>10, <1>14, <1>17, <1>18, <1>19, <1>20 DEF IInv

\* The tasks but one, when that one goes on and only the file of its query
\* may change.
LEMMA OthersKept ==
    ASSUME ChannelConstants, IInv, NEW k \in tasks, UNCHANGED <<tabVars, call, out, reader>>,
           \A d \in Calls : partial'[d] = partial[d] \/ (d = k.call /\ k.part = "query")
    PROVE  /\ Keeps /\ Owners'
           /\ k \in TaskSet /\ Sound(k)
           /\ IsFiniteSet(tasks) /\ Cardinality(tasks) \in Nat /\ Cardinality(tasks) >= 1
           /\ Cardinality(Refused) \in Nat /\ Refused' = Refused
           /\ inFlight = Cardinality(tasks) + Cardinality(Refused) /\ Cardinality(tasks) <= MaxInFlight
           /\ \A l \in tasks \ {k} : Sound(l)' /\ ~Same(k, l) /\ ~Same(l, k)
           /\ \A l, m \in tasks : Same(l, m) => l = m
<1>1. Keeps /\ Owners'
  BY AppKeeps
<1>2. tasks \subseteq TaskSet /\ IsFiniteSet(tasks) /\ \A l \in tasks : Sound(l)
  BY DEF IInv, Types, Working, Sound
<1>3. Cardinality(tasks) \in Nat /\ Cardinality(tasks) # 0
  BY <1>2, FS_CardinalityType, FS_EmptySet
<1>4. \A l, m \in tasks : Same(l, m) => l = m
  BY DEF IInv, Working
<1>5. ASSUME NEW l \in tasks, l # k PROVE Sound(l)'
  <2>1. l \in TaskSet /\ l.call \in Calls /\ Sound(l)
    BY <1>2 DEF TaskSet
  <2>2. l.stage = "rename" => partial'[l.call] = partial[l.call]
    BY <1>4, <1>5, <2>1 DEF Sound, Same
  <2> QED BY <1>1, <2>1, <2>2, SoundKept DEF IInv
<1>6. \A l \in tasks \ {k} : ~Same(k, l) /\ ~Same(l, k)
  BY <1>4
<1>7. Cardinality(Refused) \in Nat /\ Refused' = Refused
  BY RefusedFinite DEF Refused
<1>8. inFlight = Cardinality(tasks) + Cardinality(Refused) /\ Cardinality(tasks) <= MaxInFlight
  BY SlotsAre DEF IInv
<1> QED BY <1>1, <1>2, <1>3, <1>4, <1>5, <1>6, <1>7, <1>8

LEMMA EndsStep ==
    ASSUME ChannelConstants, IInv, NEW k \in tasks, UNCHANGED <<tabVars, call, out, reader>>, Ends(k),
           \A d \in Calls : partial'[d] = partial[d] \/ (d = k.call /\ k.part = "query"),
           partial' \in [Calls -> Files], reply' \in [Calls -> Files],
           input' \in [Sessions -> Seq(Typed)], Replies', Inputs'
    PROVE  IInv'
<1>1. /\ Keeps /\ Owners'
      /\ IsFiniteSet(tasks) /\ Cardinality(tasks) \in Nat /\ Cardinality(tasks) >= 1
      /\ Cardinality(Refused) \in Nat /\ Refused' = Refused
      /\ inFlight = Cardinality(tasks) + Cardinality(Refused) /\ Cardinality(tasks) <= MaxInFlight
      /\ \A l \in tasks \ {k} : Sound(l)' /\ ~Same(k, l) /\ ~Same(l, k)
      /\ \A l, m \in tasks : Same(l, m) => l = m
  BY OthersKept
<1>2. tasks' = tasks \ {k} /\ inFlight' = inFlight - 1
  BY DEF Ends
<1>3. IsFiniteSet(tasks') /\ Cardinality(tasks') = Cardinality(tasks) - 1
  BY <1>1, <1>2, FS_RemoveElement
<1>4. /\ Cardinality(tasks') <= MaxInFlight /\ inFlight' = Cardinality(tasks') + Cardinality(Refused')
      /\ inFlight' \in Nat
  <2>1. MaxInFlight \in Nat
    BY DEF ChannelConstants
  <2> QED BY <1>1, <1>2, <1>3, <2>1
<1>5. SlotsCounted'
  BY <1>4 DEF SlotsCounted, Refused
<1>6. Types'
  BY <1>2, <1>3, <1>4 DEF IInv, Types, TypeOK, tabVars
<1>7. Waiting'
  BY <1>1, <1>2, WaitingKept DEF IInv, Same
<1>8. Working'
  BY <1>1, <1>2 DEF Working, Sound, Same
<1> QED BY <1>1, <1>5, <1>6, <1>7, <1>8 DEF IInv

LEMMA BecomesStep ==
    ASSUME ChannelConstants, IInv, NEW k \in tasks, UNCHANGED <<tabVars, call, out, reader>>,
           NEW then \in TaskSet, Becomes(k, then), then.call = k.call, then.part = k.part, Sound(then)',
           \A d \in Calls : partial'[d] = partial[d] \/ (d = k.call /\ k.part = "query"),
           partial' \in [Calls -> Files], UNCHANGED <<reply, input>>
    PROVE  IInv'
<1>1. /\ Keeps /\ Owners'
      /\ IsFiniteSet(tasks) /\ Cardinality(tasks) \in Nat /\ Cardinality(tasks) >= 1
      /\ Cardinality(Refused) \in Nat /\ Refused' = Refused
      /\ inFlight = Cardinality(tasks) + Cardinality(Refused) /\ Cardinality(tasks) <= MaxInFlight
      /\ \A l \in tasks \ {k} : Sound(l)' /\ ~Same(k, l) /\ ~Same(l, k)
      /\ \A l, m \in tasks : Same(l, m) => l = m
  BY OthersKept
<1>2. tasks' = (tasks \ {k}) \cup {then} /\ UNCHANGED inFlight
  BY DEF Becomes
<1>3. \A l \in tasks \ {k} : ~Same(then, l) /\ ~Same(l, then)
  BY <1>1 DEF Same
<1>4. then \notin tasks \ {k}
  BY <1>3 DEF Same
<1>5. IsFiniteSet(tasks \ {k}) /\ Cardinality(tasks \ {k}) = Cardinality(tasks) - 1
  BY <1>1, FS_RemoveElement
<1>6. IsFiniteSet(tasks') /\ Cardinality(tasks') = Cardinality(tasks)
  <2>1. IsFiniteSet(tasks') /\ Cardinality(tasks') = Cardinality(tasks \ {k}) + 1
    BY <1>2, <1>4, <1>5, FS_AddElement
  <2> QED BY <1>1, <1>5, <2>1
<1>7. SlotsCounted'
  BY <1>1, <1>2, <1>6 DEF SlotsCounted, Refused
<1>8. Types'
  BY <1>2, <1>6 DEF IInv, Types, TypeOK, tabVars
<1>9. Waiting'
  <2>1. \A l \in tasks' : \E m \in tasks : Same(m, l)
    BY <1>2 DEF Same
  <2> QED BY <1>1, <2>1, WaitingKept DEF IInv
<1>10. Working'
  <2>1. \A l \in tasks' : Sound(l)' /\ \A m \in tasks' : Same(l, m) => l = m
    BY <1>1, <1>2, <1>3
  <2> QED BY <2>1 DEF Working, Sound, Same
<1>11. Inputs' /\ Replies'
  BY <1>1, InputsKept, RepliesKept DEF IInv
<1> QED BY <1>1, <1>7, <1>8, <1>9, <1>10, <1>11 DEF IInv

\* What the pool knows of a task by the kind of its event.
LEMMA TaskKinds ==
    ASSUME ChannelConstants, IInv, NEW k \in tasks
    PROVE  /\ k \in TaskSet /\ k.call \in Calls /\ k.part \in Parts /\ Sound(k)
           /\ call[k.call].stage # "new" /\ k.from = call[k.call].from /\ k.from \in 1..spawned
           /\ k.event.kind = "color" <=> k.part = "color"
           /\ k.event.kind = "query" <=> k.part = "query"
           /\ k.event.kind = "send" => k.part \in {"text", "enter"} /\ k.event.target = <<call[k.call].target>>
<1>1. k \in TaskSet /\ Sound(k)
  BY DEF IInv, Types, Working, Sound
<1>2. k.call \in Calls /\ k.part \in Parts
  BY <1>1 DEF TaskSet
<1>3. call[k.call].stage # "new" /\ k.from = call[k.call].from /\ k.event = ParsePayload(Payload(k.call, k.part))
  BY <1>1, NothingMade DEF Sound, Made
<1>4. k.from \in 1..spawned
  BY <1>2, <1>3 DEF IInv, Owners
<1>5. /\ k.part \in {"text", "enter"} => k.event.kind = "send" /\ k.event.target = <<call[k.call].target>>
      /\ k.part = "query" => k.event.kind = "query"
      /\ k.part = "color" => k.event.kind = "color"
  BY <1>2, <1>3, Understood DEF IInv
<1>6. k.part \in {"text", "enter"} \/ k.part = "query" \/ k.part = "color"
  BY <1>2 DEF Parts
<1> QED BY <1>1, <1>2, <1>3, <1>4, <1>5, <1>6

\* A task that goes on is still of its request.
LEMMA GoesOn ==
    ASSUME IInv, Keeps, NEW k \in TaskSet, Sound(k), NEW then \in TaskSet,
           then.call = k.call, then.part = k.part, then.from = k.from, then.event = k.event,
           then.stage = "write" => Addressed(then, then.to),
           then.stage \in {"create", "fill", "rename"} => then.part = "query" /\ Answers(then.call, then.answer),
           then.stage = "rename" => partial'[then.call] = then.answer
    PROVE  Sound(then)'
<1>1. then.call \in Calls /\ then.part \in Parts
  BY DEF TaskSet
<1>2. Made(then) /\ then.from = call[then.call].from
  BY DEF Sound, Made
<1>3. call[then.call].stage # "new"
  BY <1>2, NothingMade DEF Made
<1>4. Made(then)' /\ then.from = call'[then.call].from
  BY <1>1, <1>2, <1>3 DEF Made, Keeps
<1>5. then.event = ParsePayload(Payload(then.call, then.part)')
  BY <1>1, <1>3, KeptFacts DEF IInv, Sound
<1>6. then.stage = "write" => Addressed(then, then.to)'
  BY <1>1, <1>3, KeptFacts DEF IInv
<1>7. then.stage \in {"create", "fill", "rename"} => then.part = "query" /\ Answers(then.call, then.answer)'
  BY <1>1, <1>3, KeptFacts DEF IInv
<1>8. ParsePayload(Payload(then.call, then.part)') = ParsePayload(Payload(then.call, then.part))'
  BY DEF ParsePayload, ParseExtension, Split, After, Cut, Cuts
<1> QED BY <1>4, <1>5, <1>6, <1>7, <1>8 DEF Sound

LEMMA AnswerColorStep ==
    ASSUME ChannelConstants, IInv, NEW k \in tasks, AnswerColor(k)
    PROVE  IInv'
<1>1. k.event.kind = "color" /\ UNCHANGED <<tabVars, call, out, reader, partial, reply, input>>
  BY DEF AnswerColor, fileVars
<1>2. PICK then : then = [k EXCEPT !.stage = "write", !.to = k.from]
  OBVIOUS
<1>3. Becomes(k, then)
  BY <1>2 DEF AnswerColor
<1>4. /\ k \in TaskSet /\ k.call \in Calls /\ Sound(k) /\ call[k.call].stage # "new"
      /\ k.from = call[k.call].from /\ k.from \in 1..spawned /\ k.part = "color"
  BY <1>1, TaskKinds
<1>5. k.from \in 0..MaxSessions
  BY <1>4 DEF IInv, Types, ChannelConstants
<1>6. /\ then \in TaskSet /\ then.call = k.call /\ then.part = k.part /\ then.from = k.from /\ then.event = k.event
      /\ then.stage = "write" /\ then.to = k.from
  BY <1>2, <1>4, <1>5 DEF TaskSet, TaskStages
<1>7. Addressed(then, then.to)
  BY <1>4, <1>6 DEF Addressed
<1>8. Keeps
  BY <1>1, AppKeeps
<1>9. Sound(then)'
  BY <1>4, <1>6, <1>7, <1>8, GoesOn
<1>10. partial' \in [Calls -> Files]
  BY <1>1 DEF IInv, Types
<1> QED BY <1>1, <1>3, <1>6, <1>9, <1>10, BecomesStep

\* resolve_send_target: what it finds is not the caller's tab, and is in the
\* caller's workspace.
LEMMA ResolvedIs ==
    ASSUME ChannelConstants, IInv, NEW s \in 1..spawned, NEW target \in Targets, Resolve(s, target) # NoSession
    PROVE  LET to == Resolve(s, target)
           IN  /\ to \in 1..spawned /\ owner[to] # owner[s] /\ WorkspaceOf[owner[to]] = WorkspaceOf[owner[s]]
               /\ target \in Words \/ target = IdWord(owner[to])
<1> DEFINE found == Matches(s, target)
           t == CHOOSE u \in found : TRUE
<1>1. Cardinality(found) = 1 /\ Resolve(s, target) = session[t]
  BY DEF Resolve
<1>2. found # {}
  BY <1>1, FS_EmptySet
<1>3. t \in found
  BY <1>2
<1> HIDE DEF t, found
<1>4. t \in Tabs /\ Reachable(s, t) /\ (target = IdWord(t) \/ target \in title[t])
  BY <1>3 DEF found, Matches
<1>5. title[t] \subseteq Words
  BY <1>4 DEF IInv, Types, TypeOK
<1>6. session[t] # NoSession /\ session[t] # s
  BY <1>4 DEF Reachable
<1>7. PICK h \in Tabs : session[h] = s /\ WorkspaceOf[h] = WorkspaceOf[t]
  BY <1>4 DEF Reachable, Holders
<1>8. session[t] \in 1..spawned /\ owner[session[t]] = t
  BY <1>4, <1>6 DEF IInv, Owners
<1>9. owner[s] = h
  <2>1. spawned \in Int
    BY DEF IInv, Types, ChannelConstants
  <2>2. s # NoSession
    BY <2>1 DEF NoSession
  <2> QED BY <1>7, <2>2 DEF IInv, Owners
<1>10. h # t
  BY <1>6, <1>7
<1> QED BY <1>1, <1>4, <1>5, <1>7, <1>8, <1>9, <1>10

LEMMA ResolveTaskStep ==
    ASSUME ChannelConstants, IInv, NEW k \in tasks, ResolveTask(k)
    PROVE  IInv'
<1>1. k.event.kind = "send" /\ UNCHANGED <<tabVars, call, out, reader, partial, reply, input>>
  BY DEF ResolveTask, fileVars
<1>2. /\ k \in TaskSet /\ k.call \in Calls /\ Sound(k) /\ call[k.call].stage # "new"
      /\ k.from = call[k.call].from /\ k.from \in 1..spawned
      /\ k.part \in {"text", "enter"} /\ k.event.target = <<call[k.call].target>>
  BY <1>1, TaskKinds
<1>3. PICK target \in Targets : target = call[k.call].target
  BY <1>2 DEF IInv, Types, CallSet
<1>4. PICK to : to = Resolve(k.from, target)
  OBVIOUS
<1>5. Head(k.event.target) = target
  BY <1>2, <1>3
<1>6. Keeps
  BY <1>1, AppKeeps
<1>7. /\ partial' \in [Calls -> Files] /\ reply' \in [Calls -> Files] /\ input' \in [Sessions -> Seq(Typed)]
      /\ Inputs' /\ Replies'
  BY <1>1, <1>6, InputsKept, RepliesKept DEF IInv, Types
<1>8. CASE Ends(k)
  BY <1>1, <1>7, <1>8, EndsStep
<1>9. CASE to # NoSession /\ Becomes(k, [k EXCEPT !.stage = "write", !.to = to])
  <2>1. PICK then : then = [k EXCEPT !.stage = "write", !.to = to]
    OBVIOUS
  <2>2. /\ to \in 1..spawned /\ owner[to] # owner[k.from] /\ WorkspaceOf[owner[to]] = WorkspaceOf[owner[k.from]]
        /\ target \in Words \/ target = IdWord(owner[to])
    BY <1>2, <1>4, <1>9, ResolvedIs
  <2>3. to \in 0..MaxSessions
    BY <2>2 DEF IInv, Types, ChannelConstants
  <2>4. /\ then \in TaskSet /\ then.call = k.call /\ then.part = k.part /\ then.from = k.from
        /\ then.event = k.event /\ then.stage = "write" /\ then.to = to
    BY <1>2, <2>1, <2>3 DEF TaskSet, TaskStages
  <2>5. Addressed(then, then.to)
    BY <1>2, <1>3, <2>2, <2>4 DEF Addressed, Caller
  <2>6. Sound(then)'
    BY <1>2, <1>6, <2>4, <2>5, GoesOn
  <2>7. Becomes(k, then)
    BY <1>9, <2>1
  <2> QED BY <1>1, <1>7, <2>4, <2>6, <2>7, BecomesStep
<1> QED BY <1>4, <1>5, <1>8, <1>9 DEF ResolveTask

LEMMA WriteTaskStep ==
    ASSUME ChannelConstants, IInv, NEW k \in tasks, WriteTask(k)
    PROVE  IInv'
<1>1. /\ k.stage = "write" /\ input' = Written(k) /\ Ends(k)
      /\ UNCHANGED <<tabVars, call, out, reader, partial, reply>>
  BY DEF WriteTask, fileVars
<1>2. k \in TaskSet /\ k.call \in Calls /\ k.part \in Parts /\ Sound(k) /\ call[k.call].stage # "new"
  BY TaskKinds
<1>3. Addressed(k, k.to)
  BY <1>1, <1>2 DEF Sound
<1>4. Keeps
  BY <1>1, AppKeeps
<1>5. Replies' /\ partial' \in [Calls -> Files] /\ reply' \in [Calls -> Files]
  BY <1>1, <1>4, RepliesKept DEF IInv, Types
<1>6. PICK r : r = [call |-> k.call, part |-> k.part]
  OBVIOUS
<1>7. r \in Typed /\ r.call = k.call /\ r.part = k.part
  BY <1>2, <1>6 DEF Typed
<1>8. k.to \in Sessions
  BY <1>3 DEF Addressed, IInv, Types, ChannelConstants, Sessions
<1>9. input \in [Sessions -> Seq(Typed)] /\ \A s \in Sessions : \A i \in 1..Len(input[s]) : Addressed(input[s][i], s)
  BY DEF IInv, Types, Inputs
<1>10. input' = input \/ input' = [input EXCEPT ![k.to] = Append(@, r)]
  BY <1>1, <1>6 DEF Written
<1>11. input' \in [Sessions -> Seq(Typed)]
  <2>1. CASE input' = input
    BY <1>9, <2>1
  <2>2. CASE input' = [input EXCEPT ![k.to] = Append(@, r)]
    <3>1. Append(input[k.to], r) \in Seq(Typed)
      BY <1>7, <1>8, <1>9
    <3>2. PICK more \in Seq(Typed) : more = Append(input[k.to], r)
      BY <3>1
    <3>3. input' = [input EXCEPT ![k.to] = more]
      BY <2>2, <3>2
    <3> QED BY <1>8, <1>9, <3>3
  <2> QED BY <1>10, <2>1, <2>2
<1>12. ASSUME NEW s \in Sessions, NEW i \in 1..Len(input'[s]) PROVE Addressed(input'[s][i], s)
  <2>1. CASE input' = input
    BY <1>9, <2>1
  <2>2. CASE input' = [input EXCEPT ![k.to] = Append(@, r)] /\ s # k.to
    <3>1. input'[s] = input[s]
      BY <1>9, <2>2
    <3> QED BY <1>9, <3>1
  <2>3. CASE input' = [input EXCEPT ![k.to] = Append(@, r)] /\ s = k.to
    <3>1. input[s] \in Seq(Typed) /\ input'[s] = Append(input[s], r)
      BY <1>8, <1>9, <2>3
    <3>2. \/ i \in 1..Len(input[s]) /\ input'[s][i] = input[s][i]
          \/ input'[s][i] = r
      BY <3>1, <1>7
    <3>3. Addressed(r, s)
      BY <1>3, <1>7, <2>3 DEF Addressed
    <3> QED BY <1>9, <3>2, <3>3
  <2> QED BY <1>10, <2>1, <2>2, <2>3
<1>13. Inputs'
  <2> SUFFICES ASSUME NEW s \in Sessions, NEW i \in 1..Len(input'[s]) PROVE Addressed(input[s][i], s)'
    BY DEF Inputs, Addressed, Caller
  <2>1. PICK q : q = input'[s][i]
    OBVIOUS
  <2>2. Addressed(q, s)
    BY <1>12, <2>1
  <2>3. q.call \in Calls
    <3>1. input'[s] \in Seq(Typed)
      BY <1>11
    <3>2. q \in Typed
      BY <2>1, <3>1
    <3> QED BY <3>2 DEF Typed
  <2>4. call[q.call].stage # "new"
    BY <2>2 DEF Addressed
  <2>5. Addressed(q, s)'
    BY <1>4, <2>2, <2>3, <2>4, KeptFacts DEF IInv
  <2> QED BY <2>1, <2>5 DEF Addressed, Caller
<1> QED BY <1>1, <1>5, <1>11, <1>13, EndsStep

\* list_tabs: the caller's own tab, or none, and tabs of its workspace.
LEMMA ListingIs ==
    ASSUME ChannelConstants, IInv, NEW c \in Calls, call[c].stage # "new"
    PROVE  Listing(call[c].from) \in Files /\ Answers(c, Listing(call[c].from))
<1> DEFINE s == call[c].from
           self == SelfTab(s)
           tabs == {t \in Tabs : status[t] # "closed" /\ self # NoTab /\ WorkspaceOf[t] = WorkspaceOf[self]}
<1>1. s \in 1..spawned
  BY DEF IInv, Owners
<1>2. s # NoSession
  <2>1. spawned \in Int
    BY DEF IInv, Types, ChannelConstants
  <2> QED BY <1>1, <2>1 DEF NoSession
<1>3. \A h \in Holders(s) : h \in Tabs /\ h = Caller(c)
  BY <1>2 DEF Holders, Caller, IInv, Owners
<1>4. self \in Tabs \cup {NoTab} /\ self \in {Caller(c), NoTab}
  <2>1. CASE Holders(s) = {}
    BY <2>1 DEF SelfTab
  <2>2. CASE Holders(s) # {}
    BY <1>3, <2>2 DEF SelfTab
  <2> QED BY <2>1, <2>2
<1>5. Listing(s) = [is |-> "whole", self |-> self, tabs |-> tabs]
  BY DEF Listing
<1> HIDE DEF self
<1>6. tabs \subseteq Tabs /\ \A t \in tabs : WorkspaceOf[t] = WorkspaceOf[Caller(c)]
  BY <1>4
<1> HIDE DEF tabs
<1>7. [is |-> "whole", self |-> self, tabs |-> tabs] \in Files
  BY <1>4, <1>6 DEF Files
<1>8. Answers(c, [is |-> "whole", self |-> self, tabs |-> tabs])
  BY <1>4, <1>6 DEF Answers
<1> QED BY <1>5, <1>7, <1>8

LEMMA AnswerTaskStep ==
    ASSUME ChannelConstants, IInv, NEW k \in tasks, AnswerTask(k)
    PROVE  IInv'
<1>1. k.event.kind = "query" /\ UNCHANGED <<tabVars, call, out, reader, partial, reply, input>>
  BY DEF AnswerTask, fileVars
<1>2. /\ k \in TaskSet /\ k.call \in Calls /\ Sound(k) /\ call[k.call].stage # "new"
      /\ k.from = call[k.call].from /\ k.part = "query"
  BY <1>1, TaskKinds
<1>3. Keeps
  BY <1>1, AppKeeps
<1>4. /\ partial' \in [Calls -> Files] /\ reply' \in [Calls -> Files] /\ input' \in [Sessions -> Seq(Typed)]
      /\ Inputs' /\ Replies'
  BY <1>1, <1>3, InputsKept, RepliesKept DEF IInv, Types
<1>5. PICK f : f = Listing(k.from)
  OBVIOUS
<1>6. f \in Files /\ Answers(k.call, f)
  BY <1>2, <1>5, ListingIs
<1>7. CASE Ends(k)
  BY <1>1, <1>4, <1>7, EndsStep
<1>8. CASE Becomes(k, [k EXCEPT !.stage = "create", !.answer = f])
  <2>1. PICK then : then = [k EXCEPT !.stage = "create", !.answer = f]
    OBVIOUS
  <2>2. /\ then \in TaskSet /\ then.call = k.call /\ then.part = k.part /\ then.from = k.from
        /\ then.event = k.event /\ then.stage = "create" /\ then.answer = f
    BY <1>2, <1>6, <2>1 DEF TaskSet, TaskStages
  <2>3. Sound(then)'
    BY <1>2, <1>3, <1>6, <2>2, GoesOn
  <2>4. Becomes(k, then)
    BY <1>8, <2>1
  <2> QED BY <1>1, <1>4, <2>2, <2>3, <2>4, BecomesStep
<1> QED BY <1>5, <1>7, <1>8 DEF AnswerTask

\* The steps of writing a reply: each of a task of a query.
LEMMA WriterIs ==
    ASSUME ChannelConstants, IInv, NEW k \in tasks, k.stage \in {"create", "fill", "rename"}
    PROVE  /\ k \in TaskSet /\ k.call \in Calls /\ Sound(k) /\ call[k.call].stage # "new"
           /\ k.part = "query" /\ k.answer \in Files /\ Answers(k.call, k.answer)
           /\ \A then : then = [k EXCEPT !.stage = "fill"] \/ then = [k EXCEPT !.stage = "rename"] =>
                /\ then \in TaskSet /\ then.call = k.call /\ then.part = k.part /\ then.from = k.from
                /\ then.event = k.event /\ then.answer = k.answer
<1>1. k \in TaskSet /\ k.call \in Calls /\ Sound(k) /\ call[k.call].stage # "new"
  BY TaskKinds
<1>2. k.part = "query" /\ k.answer \in Files /\ Answers(k.call, k.answer)
  BY <1>1 DEF Sound, TaskSet
<1>3. ASSUME NEW then, then = [k EXCEPT !.stage = "fill"] \/ then = [k EXCEPT !.stage = "rename"]
      PROVE  /\ then \in TaskSet /\ then.call = k.call /\ then.part = k.part /\ then.from = k.from
             /\ then.event = k.event /\ then.answer = k.answer
  BY <1>1, <1>3 DEF TaskSet, TaskStages
<1> QED BY <1>1, <1>2, <1>3

LEMMA CreateReplyStep ==
    ASSUME ChannelConstants, IInv, NEW k \in tasks, CreateReply(k)
    PROVE  IInv'
<1>1. /\ k.stage = "create" /\ partial' = [partial EXCEPT ![k.call] = File("half")]
      /\ UNCHANGED <<tabVars, call, out, reader, reply, input>>
  BY DEF CreateReply
<1>2. PICK then : then = [k EXCEPT !.stage = "fill"]
  OBVIOUS
<1>3. Becomes(k, then)
  BY <1>2 DEF CreateReply
<1>4. /\ k \in TaskSet /\ k.call \in Calls /\ Sound(k) /\ k.part = "query" /\ Answers(k.call, k.answer)
      /\ then \in TaskSet /\ then.call = k.call /\ then.part = k.part /\ then.from = k.from
      /\ then.event = k.event /\ then.answer = k.answer
  BY <1>1, <1>2, WriterIs
<1>5. then.stage = "fill"
  BY <1>2, <1>4 DEF TaskSet
<1>6. partial \in [Calls -> Files]
  BY DEF IInv, Types
<1>7. partial' \in [Calls -> Files] /\ \A d \in Calls : partial'[d] = partial[d] \/ d = k.call
  BY <1>1, <1>4, <1>6, FilesTyped
<1>8. Sound(then)'
  <2>1. Keeps
    BY <1>1, AppKeeps
  <2> QED BY <1>4, <1>5, <2>1, GoesOn
<1> QED BY <1>1, <1>3, <1>4, <1>7, <1>8, BecomesStep

LEMMA FillReplyStep ==
    ASSUME ChannelConstants, IInv, NEW k \in tasks, FillReply(k)
    PROVE  IInv'
<1>1. k.stage = "fill" /\ UNCHANGED <<tabVars, call, out, reader, reply, input>>
  BY DEF FillReply
<1>2. PICK then : then = [k EXCEPT !.stage = "rename"]
  OBVIOUS
<1>3. /\ k \in TaskSet /\ k.call \in Calls /\ Sound(k) /\ k.part = "query" /\ Answers(k.call, k.answer)
      /\ k.answer \in Files
      /\ then \in TaskSet /\ then.call = k.call /\ then.part = k.part /\ then.from = k.from
      /\ then.event = k.event /\ then.answer = k.answer
  BY <1>1, <1>2, WriterIs
<1>4. partial \in [Calls -> Files]
  BY DEF IInv, Types
<1>5. Keeps
  BY <1>1, AppKeeps
<1>6. CASE partial' = [partial EXCEPT ![k.call] = k.answer] /\ Becomes(k, then)
  <2>1. then.stage = "rename"
    BY <1>2, <1>3 DEF TaskSet
  <2>2. /\ partial' \in [Calls -> Files] /\ partial'[k.call] = k.answer
        /\ \A d \in Calls : partial'[d] = partial[d] \/ d = k.call
    BY <1>3, <1>4, <1>6
  <2>3. Sound(then)'
    BY <1>3, <1>5, <2>1, <2>2, GoesOn
  <2> QED BY <1>1, <1>3, <1>6, <2>2, <2>3, BecomesStep
<1>7. CASE UNCHANGED partial /\ Ends(k)
  <2>1. /\ partial' \in [Calls -> Files] /\ reply' \in [Calls -> Files] /\ input' \in [Sessions -> Seq(Typed)]
        /\ Inputs' /\ Replies'
    BY <1>1, <1>5, <1>7, InputsKept, RepliesKept DEF IInv, Types
  <2> QED BY <1>1, <1>7, <2>1, EndsStep
<1> QED BY <1>2, <1>6, <1>7 DEF FillReply

LEMMA RenameReplyStep ==
    ASSUME ChannelConstants, IInv, NEW k \in tasks, RenameReply(k)
    PROVE  IInv'
<1>1. /\ k.stage = "rename" /\ partial' = [partial EXCEPT ![k.call] = File("absent")] /\ Ends(k)
      /\ reply' = [reply EXCEPT ![k.call] = partial[k.call]] \/ UNCHANGED reply
      /\ UNCHANGED <<tabVars, call, out, reader, input>>
  BY DEF RenameReply
<1>2. /\ k \in TaskSet /\ k.call \in Calls /\ Sound(k) /\ k.part = "query" /\ Answers(k.call, k.answer)
      /\ k.answer \in Files /\ call[k.call].stage # "new"
  BY <1>1, WriterIs
<1>3. partial[k.call] = k.answer
  BY <1>1, <1>2 DEF Sound
<1>4. partial \in [Calls -> Files] /\ reply \in [Calls -> Files] /\ input \in [Sessions -> Seq(Typed)]
  BY DEF IInv, Types
<1>5. partial' \in [Calls -> Files] /\ \A d \in Calls : partial'[d] = partial[d] \/ d = k.call
  BY <1>1, <1>2, <1>4, FilesTyped
<1>6. reply' \in [Calls -> Files] /\ \A d \in Calls : reply'[d] = reply[d] \/ (d = k.call /\ reply'[d] = k.answer)
  BY <1>1, <1>2, <1>3, <1>4
<1>7. Keeps
  BY <1>1, AppKeeps
<1>8. Inputs'
  BY <1>1, <1>7, InputsKept DEF IInv
<1>9. ASSUME NEW d \in Calls
      PROVE  /\ (call[d].stage = "rm" \/ reply[d].is = "absent" \/ (call[d].stage # "new" /\ Answers(d, reply[d])))'
             /\ (call[d].got.is = "absent" \/ (call[d].stage # "new" /\ Answers(d, call[d].got)))'
  <2>1. call'[d] = call[d] /\ Caller(d)' = Caller(d)
    BY <1>1 DEF Caller, tabVars
  <2>2. /\ call[d].stage = "rm" \/ reply[d].is = "absent" \/ (call[d].stage # "new" /\ Answers(d, reply[d]))
        /\ call[d].got.is = "absent" \/ (call[d].stage # "new" /\ Answers(d, call[d].got))
    BY DEF IInv, Replies
  <2> QED BY <1>2, <1>6, <2>1, <2>2 DEF Answers
<1>10. Replies'
  BY <1>9 DEF Replies, Answers, Caller
<1> QED BY <1>1, <1>2, <1>4, <1>5, <1>6, <1>8, <1>10, EndsStep

-----------------------------------------------------------------------------
(* The invariant, and what follows.                                         *)

\* In the initial states nothing has been asked, and a tab has its own session.
LEMMA InitInv == ChannelConstants /\ Init => IInv
<1> SUFFICES ASSUME ChannelConstants, Init PROVE IInv
  OBVIOUS
<1>1. /\ Tabs \subseteq 1..99 /\ IsFiniteSet(Tabs) /\ MaxSessions \in Nat /\ Cardinality(Tabs) <= MaxSessions
      /\ MaxInFlight \in Nat /\ Titles \in [Tabs -> SUBSET Words]
  BY DEF ChannelConstants
<1>2. PICK n \in Nat : n = Cardinality(Tabs)
  BY <1>1, FS_CardinalityType
<1>3. /\ session \in [Tabs -> 1..n] /\ \A t, u \in Tabs : t < u <=> session[t] < session[u]
      /\ spawned = n /\ n <= MaxSessions
  BY <1>1, <1>2 DEF Init
<1>4. \A t, u \in Tabs : session[t] = session[u] => t = u
  <2> SUFFICES ASSUME NEW t \in Tabs, NEW u \in Tabs, session[t] = session[u] PROVE t = u
    OBVIOUS
  <2>1. t \in Int /\ u \in Int /\ session[t] \in Int /\ session[u] \in Int
    BY <1>1, <1>3
  <2>2. ~(t < u) /\ ~(u < t)
    BY <1>3, <2>1
  <2> QED BY <2>1, <2>2
<1>5. \A s \in 1..n : \E t \in Tabs : session[t] = s
  <2>1. IsFiniteSet(1..n) /\ Cardinality(1..n) = n
    BY FS_Interval
  <2>2. session \in Injection(Tabs, 1..n)
    BY <1>3, <1>4 DEF Injection, IsInjective
  <2>3. session \in Surjection(Tabs, 1..n)
    BY <1>2, <2>1, <2>2, FS_Injection
  <2> QED BY <2>3 DEF Surjection
<1>6. /\ owner = [s \in Sessions |-> IF Holders(s) = {} THEN NoTab ELSE CHOOSE t \in Holders(s) : TRUE]
      /\ status = [t \in Tabs |-> "running"] /\ title = Titles /\ alive = 1..spawned
      /\ call = [c \in Calls |-> NoCall] /\ out = [s \in Sessions |-> <<>>]
      /\ reader = [s \in Sessions |-> "idle"] /\ inFlight = 0 /\ tasks = {}
      /\ partial = [c \in Calls |-> File("absent")] /\ reply = [c \in Calls |-> File("absent")]
      /\ input = [s \in Sessions |-> <<>>]
  BY <1>2, <1>3 DEF Init
<1>7. \A s \in Sessions : \A t \in Holders(s) : t \in Tabs /\ owner[s] = t
  BY <1>4, <1>6 DEF Holders
<1>8. \A s \in 1..n : s \in Sessions /\ owner[s] \in Tabs
  <2> SUFFICES ASSUME NEW s \in 1..n PROVE s \in Sessions /\ owner[s] \in Tabs
    OBVIOUS
  <2>1. s \in Sessions
    BY <1>1, <1>3 DEF Sessions
  <2>2. PICK t \in Tabs : session[t] = s
    BY <1>5
  <2>3. t \in Holders(s)
    BY <2>2 DEF Holders
  <2> QED BY <1>7, <2>1, <2>3
<1>9. owner \in [Sessions -> Tabs \cup {NoTab}]
  BY <1>6 DEF Holders
<1>10. NoCall \in CallSet /\ NoCall.stage = "new" /\ NoCall.got.is = "absent"
  <2>1. NoSession \in 0..MaxSessions /\ 0 \in Targets /\ "new" \in Stages
    BY <1>1 DEF NoSession, Targets, Stages
  <2> QED BY <2>1, FilesTyped DEF NoCall, CallSet
<1>11. TypeOK
  <2>1. session \in [Tabs -> 0..MaxSessions]
    BY <1>1, <1>3
  <2>2. title \in [Tabs -> SUBSET Words]
    BY <1>1, <1>6
  <2>3. inFlight \in Nat /\ reader \in [Sessions -> {"idle", "refused"}]
        /\ status \in [Tabs -> {"running", "exited", "closed"}] /\ alive \subseteq 1..spawned
    BY <1>6
  <2> QED BY <1>9, <2>1, <2>2, <2>3 DEF TypeOK
<1>12. Types
  <2>1. spawned \in 0..MaxSessions
    BY <1>1, <1>3
  <2>2. call \in [Calls -> CallSet] /\ partial \in [Calls -> Files] /\ reply \in [Calls -> Files]
    BY <1>6, <1>10, FilesTyped
  <2>3. out \in [Sessions -> Seq(Entries)] /\ input \in [Sessions -> Seq(Typed)]
    BY <1>6
  <2>4. IsFiniteSet(tasks) /\ tasks \subseteq TaskSet
    BY <1>6, FS_EmptySet
  <2> QED BY <1>11, <2>1, <2>2, <2>3, <2>4 DEF Types
<1>13. Owners
  <2>1. \A t \in Tabs : session[t] # NoSession => session[t] \in 1..spawned /\ owner[session[t]] = t
    <3> SUFFICES ASSUME NEW t \in Tabs PROVE session[t] \in 1..spawned /\ owner[session[t]] = t
      OBVIOUS
    <3>1. session[t] \in 1..n /\ t \in Holders(session[t])
      BY <1>3 DEF Holders
    <3> QED BY <1>3, <1>7, <1>8, <3>1
  <2>2. \A s \in 1..spawned : owner[s] \in Tabs
    BY <1>3, <1>8
  <2>3. \A c \in Calls : call[c].stage = "new"
    BY <1>6, <1>10
  <2> QED BY <2>1, <2>2, <2>3 DEF Owners
<1>14. Waiting /\ Inputs
  <2>1. \A s \in Sessions : Len(out[s]) = 0 /\ Len(input[s]) = 0
    BY <1>6
  <2> QED BY <2>1 DEF Waiting, Inputs
<1>15. Working
  BY <1>6 DEF Working
<1>16. Replies
  BY <1>6, <1>10, FilesTyped DEF Replies
<1>17. SlotsCounted
  <2>1. Refused = {}
    BY <1>6 DEF Refused
  <2>2. Cardinality(tasks) = 0 /\ Cardinality(Refused) = 0
    BY <1>6, <2>1, FS_EmptySet
  <2> QED BY <1>1, <1>6, <2>2 DEF SlotsCounted, Refused
<1> QED BY <1>12, <1>13, <1>14, <1>15, <1>16, <1>17 DEF IInv

\* The step of the induction, one case per action.
LEMMA NextInv == ChannelConstants /\ IInv /\ [Next]_vars => IInv'
<1> SUFFICES ASSUME ChannelConstants, IInv, [Next]_vars PROVE IInv'
  OBVIOUS
<1>1. CASE TabChanges
  BY <1>1, RenameStep, ExitAppliedStep, RespawnStep, CloseTabStep DEF TabChanges
<1>2. CASE \E s \in Sessions : ShellEnds(s) \/ ReadRequest(s) \/ TakeBack(s)
  BY <1>2, ShellEndsStep, ReadRequestStep, TakeBackStep
<1>3. CASE \E c \in Calls : Begin(c) \/ EmitSend(c) \/ List(c)
  BY <1>3, BeginStep, EmitSendStep, ListStep
<1>4. CASE Pool
  BY <1>4, AnswerColorStep, ResolveTaskStep, WriteTaskStep, AnswerTaskStep,
     CreateReplyStep, FillReplyStep, RenameReplyStep DEF Pool
<1>5. CASE UNCHANGED vars
  <2>1. UNCHANGED <<tabVars, call, out, reader, inFlight, tasks, partial, reply, input>>
    BY <1>5 DEF vars, fileVars
  <2>2. Types'
    BY <2>1 DEF IInv, Types, TypeOK, tabVars
  <2>3. Keeps /\ Owners'
    BY <2>1, AppKeeps
  <2>4. OnlyTabs
    BY <2>1 DEF OnlyTabs, fileVars
  <2> QED BY <2>2, <2>3, <2>4, TabStep
<1> QED BY <1>1, <1>2, <1>3, <1>4, <1>5 DEF Next

\* The inductive invariant of the agent channel.
THEOREM ChannelInvariant == Spec => []IInv
<1>1. ChannelConstants
  BY ChannelAssumption
<1>2. Init => IInv
  BY <1>1, InitInv
<1>3. IInv /\ [Next]_vars => IInv'
  BY <1>1, NextInv
<1> QED BY <1>2, <1>3, PTL DEF Spec

\* The pool never holds more requests than MAX_IN_FLIGHT, and IN_FLIGHT
\* counts them and the readers that are about to take one back, however the
\* counting, the dropping and the ends of tasks interleave
\* (acquire_in_flight, InFlightGuard).
THEOREM SlotsAreCounted == Spec => []SlotsCounted
<1>2. Spec => []IInv
  BY ChannelInvariant
<1>3. IInv => SlotsCounted
  BY DEF IInv
<1> QED BY <1>2, <1>3, PTL

\* A send types only into a tab of the caller's workspace that is not its own,
\* whatever ends, starts or closes between the request and the write
\* (resolve_send_target, deliver_send); a colour is told to who asked.
THEOREM SendsStayInside == Spec => []ReachesOnlyTheAddressed
<1>2. Spec => []IInv
  BY ChannelInvariant
<1>3. IInv => ReachesOnlyTheAddressed
  <2> SUFFICES ASSUME IInv PROVE ReachesOnlyTheAddressed
    OBVIOUS
  <2>1. \A s \in Sessions : input[s] \in Seq(Typed)
    BY DEF IInv, Types
  <2>2. \A s \in Sessions : DOMAIN input[s] = 1..Len(input[s])
    BY <2>1
  <2> QED BY <2>2 DEF IInv, Inputs, Addressed, ReachesOnlyTheAddressed
<1> QED BY <1>2, <1>3, PTL

\* The answer `mast ls` reads is whole and to its own request, although the
\* name of the file was another file's before and is written by a pool in
\* which nothing orders the tasks (cmd_ls, write_reply_file).
THEOREM AnswersAreWhole == Spec => []AnswerIsWhole
<1>2. Spec => []IInv
  BY ChannelInvariant
<1>3. IInv => AnswerIsWhole
  BY DEF IInv, Replies, Answers, AnswerIsWhole
<1> QED BY <1>2, <1>3, PTL
-----------------------------------------------------------------------------
(* The router. *)

\* A history of events of one session and field, as far as it matters: in the
\* batch, else in a hand, else in the tab.
Newest(s, f) == IF batch[s][f] # 0 THEN batch[s][f]
                ELSE IF hand[s][f] # 0 THEN hand[s][f]
                ELSE IF exitHand[s][f] # 0 THEN exitHand[s][f]
                ELSE model[s][f]

\* The types the other conjuncts need.
RouterTypes ==
    /\ life \in [Shells -> {"none", "starting", "live", "ended"}]
    /\ model \in Deltas /\ batch \in Deltas /\ hand \in Deltas /\ exitHand \in Deltas
    /\ pushed \in Deltas

\* Who has a batch in hand, and when.
Hands ==
    /\ workerPc # "apply" => hand = Nothing
    /\ exitPc # "apply" => exitHand = Nothing
    /\ crossed \/ hand = Nothing \/ exitHand = Nothing
    /\ crossed \in BOOLEAN /\ (exitPc = "running" => ~crossed)

\* What a session that no tab has yet has printed is still in the batch or in a
\* hand, and before the spawn there is nothing.
Unborn ==
    \A s \in Shells, f \in Fields :
        /\ life[s] \in {"none", "starting"} => model[s][f] = 0
        /\ life[s] = "none" => pushed[s][f] = 0

Fresh ==
    crossed \/ \A s \in Shells, f \in Fields :
        life[s] # "ended" => pushed[s][f] = Newest(s, f)

\* Once the exit path has begun, what had been pushed by then is in its hand or
\* in the tab, and what the worker takes is newer.
Due ==
    /\ due \in Deltas /\ saved \in Deltas
    /\ \A s \in Shells, f \in Fields :
        /\ life[s] = "none" => due[s][f] = 0
        /\ exitPc # "running" /\ ~crossed /\ life[s] # "ended" =>
            /\ due[s][f] <= pushed[s][f]
            /\ batch[s][f] # 0 => due[s][f] <= batch[s][f]
            /\ hand[s][f] # 0 => due[s][f] <= hand[s][f]
            /\ exitPc = "apply" => IF exitHand[s][f] # 0 THEN due[s][f] <= exitHand[s][f]
                                                         ELSE due[s][f] <= model[s][f]
            /\ exitPc = "save" => due[s][f] <= model[s][f]
            /\ exitPc = "saved" => due[s][f] <= saved[s][f]
    /\ exitPc \in {"running", "apply", "save", "saved"}

RouterInv == RouterTypes /\ Hands /\ Unborn /\ Fresh /\ DeadTabIsQuiet /\ Due
-----------------------------------------------------------------------------
USE DEF Fields

\* The empty batch.
LEMMA NothingIsEmpty ==
    /\ Nothing \in Deltas
    /\ \A s \in Shells, f \in Fields : Nothing[s][f] = 0
BY DEF Nothing, Deltas

\* What applying deltas does, field by field.
LEMMA Applied ==
    ASSUME NEW deltas, deltas \in Deltas, model \in Deltas, Apply(deltas)
    PROVE  /\ model' \in Deltas
           /\ \A s \in Shells, f \in Fields :
                model'[s][f] = IF life[s] = "live" /\ deltas[s][f] # 0
                               THEN deltas[s][f] ELSE model[s][f]
BY DEF Apply, Deltas

\* In the initial states nothing has been pushed.
LEMMA RouterInitInv == RouterInit => RouterInv
BY NothingIsEmpty DEF RouterInit, RouterInv, RouterTypes, Hands, Unborn, Fresh, Newest, DeadTabIsQuiet, Due

\* The types.
LEMMA RouterTypesStep ==
    ASSUME RouterInv, [RouterNext]_routerVars
    PROVE  RouterTypes'
<1> USE DEF RouterInv, RouterTypes, lifeVars, workerVars, exitVars
<1>1. ASSUME NEW s \in Shells, SpawnBegins(s) \/ SpawnEnds(s)
      PROVE  RouterTypes'
  BY <1>1 DEF SpawnBegins, SpawnEnds
<1>9. ASSUME NEW s \in Shells, SessionEnds(s)
      PROVE  RouterTypes'
  <2>1. model' \in Deltas
    BY <1>9 DEF SessionEnds, Deltas
  <2> QED BY <2>1, <1>9 DEF SessionEnds
<1>2. ASSUME NEW s \in Shells, NEW f \in Fields, Push(s, f)
      PROVE  RouterTypes'
  BY <1>2 DEF Push, Deltas
<1>3. CASE PushNothing \/ Close
  BY <1>3 DEF PushNothing, Close
<1>4. CASE WorkerSleep \/ WorkerLeave \/ WorkerCollect \/ WorkerTake
  BY <1>4, NothingIsEmpty DEF WorkerSleep, WorkerLeave, WorkerCollect, WorkerTake
<1>5. CASE WorkerApply
  BY <1>5, NothingIsEmpty, Applied DEF WorkerApply
<1>6. CASE ExitTake \/ ExitSave
  BY <1>6, NothingIsEmpty DEF ExitTake, ExitSave
<1>7. CASE ExitApply
  BY <1>7, NothingIsEmpty, Applied DEF ExitApply
<1>8. CASE UNCHANGED routerVars
  BY <1>8 DEF routerVars
<1> QED BY <1>1, <1>2, <1>3, <1>4, <1>5, <1>6, <1>7, <1>8, <1>9 DEF RouterNext, Worker, Exit

\* Who has a batch, and when.
LEMMA HandsStep ==
    ASSUME RouterInv, [RouterNext]_routerVars
    PROVE  Hands'
<1> USE DEF RouterInv, Hands
<1>1. ASSUME NEW s \in Shells, SpawnBegins(s) \/ SpawnEnds(s) \/ SessionEnds(s)
      PROVE  Hands'
  BY <1>1 DEF SpawnBegins, SpawnEnds, SessionEnds, workerVars, exitVars, Nothing
<1>2. ASSUME NEW s \in Shells, NEW f \in Fields, Push(s, f)
      PROVE  Hands'
  BY <1>2 DEF Push, Notified, exitVars, Nothing
<1>3. CASE PushNothing \/ Close
  BY <1>3 DEF PushNothing, Close, Notified, exitVars, Nothing
<1>4. CASE WorkerSleep \/ WorkerLeave \/ WorkerCollect
  BY <1>4 DEF WorkerSleep, WorkerLeave, WorkerCollect, exitVars, Nothing
<1>7. CASE WorkerTake \/ WorkerApply
  <2>1. Nothing' = Nothing
    BY DEF Nothing
  <2>2. CASE WorkerTake
    BY <2>1, <2>2 DEF WorkerTake
  <2>3. CASE WorkerApply
    BY <2>1, <2>3 DEF WorkerApply, exitVars
  <2> QED BY <1>7, <2>2, <2>3
<1>5. CASE ExitTake \/ ExitApply \/ ExitSave
  BY <1>5 DEF ExitTake, ExitApply, ExitSave, workerVars, Nothing
<1>6. CASE UNCHANGED routerVars
  BY <1>6 DEF routerVars, workerVars, exitVars, Nothing
<1> QED BY <1>1, <1>2, <1>3, <1>4, <1>5, <1>6, <1>7 DEF RouterNext, Worker, Exit

\* The tabs and their sessions.
LEMMA TabsStep ==
    ASSUME RouterInv, [RouterNext]_routerVars
    PROVE  Unborn' /\ DeadTabIsQuiet'
<1> USE DEF RouterInv, Unborn, DeadTabIsQuiet
<1>1. ASSUME NEW s \in Shells, SpawnBegins(s) \/ SpawnEnds(s) \/ SessionEnds(s)
      PROVE  Unborn' /\ DeadTabIsQuiet'
  BY <1>1, ZenonT(60) DEF SpawnBegins, SpawnEnds, SessionEnds, RouterTypes, Deltas
<1>2. ASSUME NEW s \in Shells, NEW f \in Fields, Push(s, f)
      PROVE  Unborn' /\ DeadTabIsQuiet'
  BY <1>2 DEF Push, lifeVars, RouterTypes, Deltas
<1>3. CASE PushNothing \/ Close
  BY <1>3 DEF PushNothing, Close, lifeVars
<1>4. CASE WorkerSleep \/ WorkerLeave \/ WorkerCollect \/ WorkerTake
  BY <1>4 DEF WorkerSleep, WorkerLeave, WorkerCollect, WorkerTake, lifeVars
<1>5. CASE WorkerApply
  BY <1>5, Applied DEF WorkerApply, RouterTypes
<1>6. CASE ExitTake \/ ExitSave
  BY <1>6 DEF ExitTake, ExitSave, lifeVars
<1>7. CASE ExitApply
  BY <1>7, Applied DEF ExitApply, RouterTypes
<1>8. CASE UNCHANGED routerVars
  BY <1>8 DEF routerVars, lifeVars
<1> QED BY <1>1, <1>2, <1>3, <1>4, <1>5, <1>6, <1>7, <1>8 DEF RouterNext, Worker, Exit

\* No step hides an event behind an older one.
LEMMA FreshStep ==
    ASSUME RouterInv, [RouterNext]_routerVars
    PROVE  Fresh'
<1> USE DEF RouterInv, RouterTypes
<1>0. SUFFICES ASSUME ~crossed', NEW s \in Shells, NEW f \in Fields, life'[s] # "ended"
               PROVE  pushed'[s][f] = Newest(s, f)'
  BY DEF Fresh
<1>a. /\ batch[s][f] \in Nat /\ hand[s][f] \in Nat /\ exitHand[s][f] \in Nat
      /\ model[s][f] \in Nat /\ pushed[s][f] \in Nat
  BY DEF Deltas
<1>b. ASSUME ~crossed, life[s] # "ended"
      PROVE  pushed[s][f] = Newest(s, f)
  BY <1>b DEF Fresh
<1>1. ASSUME NEW r \in Shells, SpawnBegins(r) \/ SpawnEnds(r) \/ SessionEnds(r)
      PROVE  pushed'[s][f] = Newest(s, f)'
  BY <1>0, <1>1, <1>b DEF SpawnBegins, SpawnEnds, SessionEnds, workerVars, exitVars, Newest, Deltas
<1>2. ASSUME NEW r \in Shells, NEW g \in Fields, Push(r, g)
      PROVE  pushed'[s][f] = Newest(s, f)'
  <2>1. ~crossed /\ life' = life /\ hand' = hand /\ exitHand' = exitHand /\ model' = model
    BY <1>0, <1>2 DEF Push, exitVars, lifeVars
  <2>2. CASE r = s /\ g = f
    <3>1. pushed'[s][f] = pushed[s][f] + 1 /\ batch'[s][f] = pushed[s][f] + 1
      BY <1>2, <2>2 DEF Push, Deltas
    <3> QED BY <3>1, <1>a DEF Newest
  <2>3. CASE ~(r = s /\ g = f)
    <3>1. pushed'[s][f] = pushed[s][f] /\ batch'[s][f] = batch[s][f]
      BY <1>2, <2>3 DEF Push, Deltas
    <3> QED BY <3>1, <2>1, <1>0, <1>b DEF Newest
  <2> QED BY <2>2, <2>3
<1>3. CASE PushNothing \/ Close
  BY <1>0, <1>3, <1>b DEF PushNothing, Close, lifeVars, exitVars, Newest
<1>4. CASE WorkerSleep \/ WorkerLeave \/ WorkerCollect
  BY <1>0, <1>4, <1>b DEF WorkerSleep, WorkerLeave, WorkerCollect, lifeVars, exitVars, Newest
<1>5. CASE WorkerTake
  <2>1. hand = Nothing /\ exitHand = Nothing /\ ~crossed
    BY <1>0, <1>5 DEF WorkerTake, Hands
  <2> QED BY <2>1, <1>0, <1>5, <1>b, NothingIsEmpty DEF WorkerTake, lifeVars, Newest
<1>6. CASE WorkerApply
  <2>1. ~crossed /\ life[s] # "ended" /\ pushed' = pushed /\ batch' = batch
        /\ exitHand' = exitHand /\ hand' = Nothing
    BY <1>0, <1>6 DEF WorkerApply, exitVars
  <2>2. model'[s][f] = IF life[s] = "live" /\ hand[s][f] # 0 THEN hand[s][f] ELSE model[s][f]
    BY <1>6, Applied DEF WorkerApply
  <2>3. hand[s][f] # 0 => life[s] = "live" /\ exitHand[s][f] = 0
    <3> SUFFICES ASSUME hand[s][f] # 0
                 PROVE  life[s] = "live" /\ exitHand[s][f] = 0
      OBVIOUS
    <3>1. hand # Nothing /\ exitHand = Nothing
      BY <2>1, NothingIsEmpty DEF Hands
    <3>2. life[s] # "starting"
      BY <1>6, <3>1 DEF WorkerApply, LockFree
    <3>3. life[s] # "none"
      BY <1>b, <2>1, <1>a DEF Unborn, Newest
    <3> QED BY <3>1, <3>2, <3>3, <2>1, NothingIsEmpty
  <2> QED BY <2>1, <2>2, <2>3, <1>a, <1>b, NothingIsEmpty DEF Newest
<1>7. CASE ExitTake
  <2>1. hand = Nothing /\ exitHand = Nothing /\ ~crossed
    BY <1>0, <1>7 DEF ExitTake, Hands
  <2> QED BY <2>1, <1>0, <1>7, <1>b, NothingIsEmpty DEF ExitTake, lifeVars, workerVars, Newest
<1>8. CASE ExitApply
  <2>1. ~crossed /\ life[s] # "ended" /\ pushed' = pushed /\ batch' = batch
        /\ hand' = hand /\ exitHand' = Nothing
    BY <1>0, <1>8 DEF ExitApply, workerVars
  <2>2. model'[s][f] = IF life[s] = "live" /\ exitHand[s][f] # 0
                       THEN exitHand[s][f] ELSE model[s][f]
    BY <1>8, Applied DEF ExitApply
  <2>3. exitHand[s][f] # 0 => life[s] = "live" /\ hand[s][f] = 0
    <3> SUFFICES ASSUME exitHand[s][f] # 0
                 PROVE  life[s] = "live" /\ hand[s][f] = 0
      OBVIOUS
    <3>1. exitHand # Nothing /\ hand = Nothing
      BY <2>1, NothingIsEmpty DEF Hands
    <3>2. life[s] # "starting"
      BY <1>8, <3>1 DEF ExitApply, LockFree
    <3>3. life[s] # "none"
      BY <1>b, <2>1, <1>a DEF Unborn, Newest
    <3> QED BY <3>1, <3>2, <3>3, <2>1, NothingIsEmpty
  <2> QED BY <2>1, <2>2, <2>3, <1>a, <1>b, NothingIsEmpty DEF Newest
<1>9. CASE ExitSave
  BY <1>0, <1>9, <1>b DEF ExitSave, lifeVars, workerVars, Newest
<1>10. CASE UNCHANGED routerVars
  BY <1>0, <1>10, <1>b, SMTT(60) DEF routerVars, lifeVars, workerVars, exitVars, Newest
<1> QED BY <1>1, <1>2, <1>3, <1>4, <1>5, <1>6, <1>7, <1>8, <1>9, <1>10 DEF RouterNext, Worker, Exit

\* What the exit path owes stays within reach until it is saved.
LEMMA DueStep ==
    ASSUME RouterInv, [RouterNext]_routerVars
    PROVE  Due'
<1> USE DEF RouterInv, RouterTypes, Due
<1>a. \A s \in Shells, f \in Fields :
        /\ batch[s][f] \in Nat /\ hand[s][f] \in Nat /\ exitHand[s][f] \in Nat /\ saved[s][f] \in Nat
        /\ model[s][f] \in Nat /\ pushed[s][f] \in Nat /\ due[s][f] \in Nat
  BY DEF Deltas
<1>1. ASSUME NEW r \in Shells, SpawnBegins(r) \/ SpawnEnds(r)
      PROVE  Due'
  BY <1>1, <1>a DEF SpawnBegins, SpawnEnds, workerVars, exitVars
<1>2. ASSUME NEW r \in Shells, SessionEnds(r)
      PROVE  Due'
  <2>1. \A s \in Shells, f \in Fields : life'[s] # "ended" => s # r /\ model'[s][f] = model[s][f]
    BY <1>2 DEF SessionEnds, Deltas
  <2> QED BY <1>2, <2>1, <1>a DEF SessionEnds, workerVars, exitVars
<1>3. ASSUME NEW r \in Shells, NEW g \in Fields, Push(r, g)
      PROVE  Due'
  <2>1. \A s \in Shells, f \in Fields :
          /\ pushed'[s][f] \in {pushed[s][f], pushed[s][f] + 1}
          /\ batch'[s][f] = batch[s][f] \/ batch'[s][f] = pushed[s][f] + 1
    BY <1>3 DEF Push, Deltas
  <2> QED BY <1>3, <2>1, <1>a DEF Push, lifeVars, exitVars
<1>4. CASE PushNothing \/ Close \/ WorkerSleep \/ WorkerLeave \/ WorkerCollect
  BY <1>4 DEF PushNothing, Close, WorkerSleep, WorkerLeave, WorkerCollect, lifeVars, exitVars
<1>5. CASE WorkerTake
  BY <1>5, NothingIsEmpty, ZenonT(60) DEF WorkerTake, lifeVars
<1>6. CASE WorkerApply
  <2>1. \A s \in Shells, f \in Fields :
          model'[s][f] = IF life[s] = "live" /\ hand[s][f] # 0 THEN hand[s][f] ELSE model[s][f]
    BY <1>6, Applied DEF WorkerApply
  <2>2. \A s \in Shells, f \in Fields : hand'[s][f] = 0
    BY <1>6, NothingIsEmpty DEF WorkerApply
  <2>3. ASSUME ~crossed, exitPc = "apply", NEW s \in Shells, NEW f \in Fields, hand[s][f] # 0
        PROVE  exitHand[s][f] = 0
    BY <2>3, NothingIsEmpty DEF Hands
  <2> QED BY <1>6, <2>1, <2>2, <2>3, <1>a DEF WorkerApply, exitVars
<1>7. CASE ExitTake
  <2>1. ASSUME NEW s \in Shells, NEW f \in Fields, ~crossed', life[s] # "ended"
        PROVE  /\ hand[s][f] = 0
               /\ pushed[s][f] = IF batch[s][f] # 0 THEN batch[s][f] ELSE model[s][f]
    <3>1. hand = Nothing /\ exitHand = Nothing /\ ~crossed
      BY <1>7, <2>1 DEF ExitTake, Hands
    <3> QED BY <2>1, <3>1, NothingIsEmpty DEF Fresh, Newest
  <2> QED BY <1>7, <2>1, <1>a, NothingIsEmpty DEF ExitTake, lifeVars, workerVars, Unborn
<1>8. CASE ExitApply
  <2>1. \A s \in Shells, f \in Fields :
          model'[s][f] = IF life[s] = "live" /\ exitHand[s][f] # 0 THEN exitHand[s][f] ELSE model[s][f]
    BY <1>8, Applied DEF ExitApply
  <2>2. \A s \in Shells, f \in Fields : exitHand[s][f] # 0 => life[s] # "starting"
    BY <1>8, NothingIsEmpty DEF ExitApply, LockFree
  <2> QED BY <1>8, <2>1, <2>2, <1>a DEF ExitApply, workerVars
<1>9. CASE ExitSave
  BY <1>9 DEF ExitSave, lifeVars, workerVars
<1>10. CASE UNCHANGED routerVars
  BY <1>10 DEF routerVars, lifeVars, workerVars, exitVars
<1> QED BY <1>1, <1>2, <1>3, <1>4, <1>5, <1>6, <1>7, <1>8, <1>9, <1>10 DEF RouterNext, Worker, Exit

\* The inductive invariant.
THEOREM RouterInvariant == RouterSpec => []RouterInv
<1>1. RouterInv /\ [RouterNext]_routerVars => RouterInv'
  BY RouterTypesStep, HandsStep, TabsStep, FreshStep, DueStep DEF RouterInv
<1> QED BY <1>1, RouterInitInv, PTL DEF RouterSpec

\* No event is lost between the reader and the tab, unless the exit path crosses
\* the worker (router.rs push, worker_loop, flush_now).
THEOREM NoEventLost == RouterSpec => []NothingLost
<1>1. RouterInv => NothingLost
  BY DEF RouterInv, Fresh, Newest, NothingLost
<1> QED BY <1>1, RouterInvariant, PTL

\* A batch that comes after the exit of a shell does not bring its status back
\* (events.rs apply_osc, SessionExited).
THEOREM DeadTabsStayQuiet == RouterSpec => []DeadTabIsQuiet
<1>1. RouterInv => DeadTabIsQuiet
  BY DEF RouterInv
<1> QED BY <1>1, RouterInvariant, PTL

\* An orderly exit persists what was pushed before it began (flush_now, then the
\* flush of the saver), unless the worker had a batch in hand.
THEOREM ExitPersists == RouterSpec => []PersistedUnlessCrossed
<1>1. RouterInv => PersistedUnlessCrossed
  BY DEF RouterInv, Due, PersistedUnlessCrossed
<1> QED BY <1>1, RouterInvariant, PTL
=============================================================================
