---------------------------- MODULE RemoteProofs ----------------------------
(***************************************************************************)
(* Proofs about the remote surface: about RemoteScreen, what the phone     *)
(* shows, asks and types, for every size of the buffer and of the reads,   *)
(* every number of shells, inputs and lost requests; and about             *)
(* RemoteServer, for every number of connections, addresses and starts,    *)
(* and every limit.                                                        *)
(*                                                                         *)
(* The screen.  A buffer holds the end of what its session wrote, and the  *)
(* mode all of it has set (Holds); the page has drawn a stretch of that    *)
(* stream up to the offset it asks from (Drawn); and an answer that still  *)
(* counts either stands for itself or goes on at that offset (Fits).  That *)
(* concatenation and modes do what is said of them is by induction, in the *)
(* form of a least number for which it would fail.                         *)
(*                                                                         *)
(* The inputs.  An item leaves the page once, and an Enter leaves when the *)
(* shell has read its text.                                                *)
(*                                                                         *)
(* The server.  A step moves at most one connection into the set of those  *)
(* a thread works on or out of it, except the end of the process, which    *)
(* empties it; the counter follows.  The token a phone was given is the    *)
(* one in the file, or revoked, from the moment the server compares with   *)
(* it.  What the limiter remembers of an address is told by the newest     *)
(* failure it recorded, in whatever order the threads get its lock.        *)
(***************************************************************************)
EXTENDS RemoteScreen, RemoteServer, TLAPS, FiniteSetTheorems, SequenceTheorems, WellFoundedInduction

-----------------------------------------------------------------------------
(* Numbers.  The natural numbers are well ordered: induction is the least  *)
(* number for which a claim fails.                                         *)

\* A set of natural numbers that is not empty has a least element.
LEMMA Least ==
    ASSUME NEW T, T \subseteq Nat, T # {}
    PROVE  \E x \in T : \A y \in T : x <= y
<1> DEFINE Less == OpToRel(<, Nat)
<1>1. IsWellFoundedOn(Less, Nat)
  BY NatLessThanWellFounded DEF OpToRel
<1>2. \A x, y \in Nat : <<x, y>> \in Less <=> x < y
  BY DEF OpToRel
<1> HIDE DEF Less
<1>3. PICK x \in T : \A y \in T : ~(<<y, x>> \in Less)
  BY <1>1, WFMin
<1>4. \A y \in T : ~(y < x)
  BY <1>2, <1>3
<1> QED BY <1>4

\* A bounded one has a greatest element.
LEMMA Greatest ==
    ASSUME NEW n \in Nat, NEW T, T \subseteq 0..n, T # {}
    PROVE  \E x \in T : \A y \in T : y <= x
<1> DEFINE U == {n - x : x \in T}
<1>0. \A x \in T : n - x \in Nat
  OBVIOUS
<1>1. U \subseteq Nat /\ U # {}
  BY <1>0
<1>2. PICK u \in U : \A y \in U : u <= y
  BY <1>1, Least
<1>3. PICK x \in T : u = n - x
  BY <1>2
<1>4. \A y \in T : n - x <= n - y
  BY <1>2, <1>3
<1> QED BY <1>4

\* What holds of 0 and of the successor of each holds of all.
LEMMA Induction ==
    ASSUME NEW S, 0 \in S, \A n \in Nat : n \in S => n + 1 \in S
    PROVE  Nat \subseteq S
<1> SUFFICES ASSUME Nat \ S # {} PROVE FALSE
  OBVIOUS
<1>1. PICK x \in Nat \ S : \A y \in Nat \ S : x <= y
  BY Least
<1>2. x - 1 \in Nat /\ x - 1 < x
  BY <1>1
<1>3. x - 1 \in S
  BY <1>1, <1>2
<1>4. (x - 1) + 1 \in S
  BY <1>2, <1>3
<1> QED BY <1>1, <1>4

-----------------------------------------------------------------------------
(* The concatenation of sequences of bytes. *)

Byte == Nat \X Nat

\* f[i] is the concatenation of the first i sequences of s.
Flat(f, s) ==
    /\ f \in [0..Len(s) -> Seq(Byte)]
    /\ f[0] = <<>>
    /\ \A i \in 1..Len(s) : f[i] = f[i - 1] \o s[i]

\* There is a function that gives the concatenation of the first i sequences.
LEMMA FlatExists ==
    ASSUME NEW s \in Seq(Seq(Byte))
    PROVE  \E f : Flat(f, s)
<1> DEFINE n == Len(s)
           Upto(f, m) == /\ f \in [0..m -> Seq(Byte)] /\ f[0] = <<>>
                         /\ \A i \in 1..m : f[i] = f[i - 1] \o s[i]
           S == {m \in Nat : m <= n => \E f : Upto(f, m)}
<1>1. 0 \in S
  <2>1. Upto([i \in 0..0 |-> <<>>], 0)
    OBVIOUS
  <2> QED BY <2>1
<1>2. ASSUME NEW m \in Nat, m \in S PROVE m + 1 \in S
  <2> SUFFICES ASSUME m + 1 <= n PROVE \E f : Upto(f, m + 1)
    <3> HIDE DEF Upto, n
    <3> QED OBVIOUS
  <2>1. n \in Nat /\ m <= n /\ m + 1 \in 1..n /\ s[m + 1] \in Seq(Byte)
    OBVIOUS
  <2>2. PICK f : Upto(f, m)
    BY <1>2, <2>1
  <2> DEFINE e == f[m] \o s[m + 1]
             g == [i \in 0..(m + 1) |-> IF i <= m THEN f[i] ELSE e]
  <2>3. f[m] \in Seq(Byte) /\ e \in Seq(Byte)
    BY <2>1, <2>2
  <2> HIDE DEF e
  <2>4. g \in [0..(m + 1) -> Seq(Byte)] /\ g[0] = <<>>
    BY <2>2, <2>3
  <2>5. ASSUME NEW i \in 1..(m + 1) PROVE g[i] = g[i - 1] \o s[i]
    <3>1. CASE i <= m
      <4>1. i \in 1..m /\ i - 1 \in 0..(m + 1) /\ i - 1 <= m /\ i \in 0..(m + 1)
        BY <3>1
      <4>2. g[i] = f[i] /\ g[i - 1] = f[i - 1]
        BY <3>1, <4>1
      <4>3. f[i] = f[i - 1] \o s[i]
        BY <2>2, <4>1
      <4> HIDE DEF g
      <4> QED BY <4>2, <4>3
    <3>2. CASE i = m + 1
      <4>1. i \in 0..(m + 1) /\ ~(i <= m) /\ i - 1 = m /\ m \in 0..(m + 1)
        BY <3>2
      <4>2. g[i] = e /\ g[m] = f[m]
        BY <4>1
      <4> HIDE DEF g
      <4> QED BY <3>2, <4>1, <4>2 DEF e
    <3>3. i <= m \/ i = m + 1
      OBVIOUS
    <3> HIDE DEF g
    <3> QED BY <3>1, <3>2, <3>3
  <2> HIDE DEF g
  <2>6. Upto(g, m + 1)
    BY <2>4, <2>5
  <2> QED BY <2>6
<1>3. n \in S /\ n \in Nat
  <2> HIDE DEF S
  <2>1. n \in Nat
    OBVIOUS
  <2> QED BY <1>1, <1>2, <2>1, Induction
<1>4. PICK f : Upto(f, n)
  <2> HIDE DEF Upto
  <2> QED BY <1>3
<1> QED BY <1>4 DEF Flat

\* FlattenSeq, a fold over the indices, is its last value.
LEMMA FlattenIs ==
    ASSUME NEW s \in Seq(Seq(Byte)), NEW f, Flat(f, s)
    PROVE  FlattenSeq(s) = f[Len(s)] /\ FlattenSeq(s) \in Seq(Byte)
<1> DEFINE n == Len(s)
<1>0. n \in Nat /\ f[n] \in Seq(Byte)
  BY DEF Flat
<1>a. f[0] = <<>> /\ \A i \in 1..n : f[i] = f[i - 1] \o s[i]
  BY DEF Flat
<1>b. 1 \in 1..n => f[1] = s[1]
  <2> SUFFICES ASSUME 1 \in 1..n PROVE f[1] = s[1]
    OBVIOUS
  <2>1. f[1] = f[1 - 1] \o s[1]
    BY <1>a, Zenon
  <2>2. 1 - 1 = 0 /\ s[1] \in Seq(Byte)
    OBVIOUS
  <2>3. f[1] = <<>> \o s[1]
    <3> HIDE DEF n
    <3> QED BY <1>a, <2>1, <2>2
  <2>4. \A x \in Seq(Byte) : <<>> \o x = x
    OBVIOUS
  <2> QED BY <2>2, <2>3, <2>4
<1>1. CASE n = 0
  <2>1. s = <<>>
    BY <1>1
  <2> QED BY <1>0, <1>1, <2>1 DEF FlattenSeq, Flat
<1>2. CASE n # 0
  <2> DEFINE Rec(g) == g = [i \in 1..n |-> IF i = 1 THEN s[i] ELSE g[i - 1] \o s[i]]
             h == [i \in 1..n |-> f[i]]
             c == CHOOSE g : Rec(g)
  <2>1. Rec(h)
    <3> SUFFICES ASSUME NEW i \in 1..n PROVE f[i] = IF i = 1 THEN s[i] ELSE h[i - 1] \o s[i]
      OBVIOUS
    <3>1. f[i] = f[i - 1] \o s[i]
      BY <1>a
    <3>2. CASE i = 1
      BY <1>b, <3>2
    <3>3. CASE i # 1
      <4>1. i - 1 \in 1..n
        BY <1>0, <3>3
      <4> QED BY <3>1, <3>3, <4>1
    <3> QED BY <3>2, <3>3
  <2>2. FlattenSeq(s) = c[n]
    BY <1>2 DEF FlattenSeq
  <2>3. Rec(c)
    <3> HIDE DEF h
    <3> QED BY <2>1
  <2> HIDE DEF c
  <2> DEFINE S == {m \in Nat : m \in 1..n => c[m] = f[m]}
  <2>4. 0 \in S
    OBVIOUS
  <2>5. ASSUME NEW m \in Nat, m \in S PROVE m + 1 \in S
    <3> SUFFICES ASSUME m + 1 \in 1..n PROVE c[m + 1] = f[m + 1]
      OBVIOUS
    <3>1. c[m + 1] = IF m + 1 = 1 THEN s[m + 1] ELSE c[(m + 1) - 1] \o s[m + 1]
      BY <2>3
    <3>a. f[m + 1] = f[(m + 1) - 1] \o s[m + 1]
      BY <1>a, Zenon
    <3>2. f[m + 1] = f[(m + 1) - 1] \o s[m + 1] /\ (m + 1) - 1 = m
      BY <3>a
    <3>3. CASE m = 0
      BY <1>b, <3>1, <3>3
    <3>4. CASE m # 0
      <4>1. m \in 1..n /\ m + 1 # 1
        BY <1>0, <3>4
      <4>2. c[m] = f[m]
        BY <2>5, <4>1
      <4>3. c[m + 1] = c[m] \o s[m + 1]
        BY <3>1, <3>2, <4>1
      <4> QED BY <3>2, <4>2, <4>3
    <3> QED BY <3>3, <3>4
  <2>6. n \in S
    <3> HIDE DEF S
    <3> QED BY <1>0, <2>4, <2>5, Induction
  <2>7. n \in 1..n
    BY <1>0, <1>2
  <2> QED BY <1>0, <2>2, <2>6, <2>7
<1> QED BY <1>1, <1>2

\* One more sequence goes to the end of the concatenation.
LEMMA FlattenAppend ==
    ASSUME NEW s \in Seq(Seq(Byte)), NEW x \in Seq(Byte)
    PROVE  FlattenSeq(Append(s, x)) = FlattenSeq(s) \o x
<1> DEFINE n == Len(s)
           t == Append(s, x)
<1>1. PICK f : Flat(f, s)
  BY FlatExists
<1>2. n \in Nat /\ FlattenSeq(s) = f[n] /\ f[n] \in Seq(Byte)
  <2>1. FlattenSeq(s) = f[Len(s)]
    BY <1>1, FlattenIs
  <2>2. f \in [0..Len(s) -> Seq(Byte)] /\ Len(s) \in 0..Len(s)
    BY <1>1 DEF Flat
  <2> QED BY <2>1, <2>2, SMTT(60)
<1> DEFINE e == f[n] \o x
           g == [i \in 0..(n + 1) |-> IF i <= n THEN f[i] ELSE e]
<1>3. e \in Seq(Byte)
  BY <1>2
<1>4. /\ t \in Seq(Seq(Byte)) /\ Len(t) = n + 1
      /\ \A i \in 1..n : t[i] = s[i]
      /\ t[n + 1] = x
  OBVIOUS
<1> HIDE DEF t, e
<1>5. g \in [0..(n + 1) -> Seq(Byte)] /\ g[0] = <<>> /\ g[n + 1] = e
  BY <1>1, <1>2, <1>3 DEF Flat
<1>6. ASSUME NEW i \in 1..(n + 1) PROVE g[i] = g[i - 1] \o t[i]
  <2>1. CASE i <= n
    <3>1. i \in 1..n /\ i - 1 <= n /\ i \in 0..(n + 1) /\ i - 1 \in 0..(n + 1)
      BY <1>2, <2>1
    <3>2. g[i] = f[i] /\ g[i - 1] = f[i - 1]
      BY <2>1, <3>1
    <3>3. f[i] = f[i - 1] \o s[i]
      BY <1>1, <3>1, Zenon DEF Flat
    <3> HIDE DEF g
    <3> QED BY <1>4, <3>1, <3>2, <3>3
  <2>2. CASE i = n + 1
    <3>1. g[i] = e /\ i - 1 = n /\ g[n] = f[n] /\ t[i] = x
      BY <1>2, <1>4, <2>2
    <3> HIDE DEF g
    <3> QED BY <3>1 DEF e
  <2>3. i <= n \/ i = n + 1
    BY <1>2
  <2> HIDE DEF g
  <2> QED BY <2>1, <2>2, <2>3
<1> HIDE DEF g
<1>7. Flat(g, t)
  BY <1>4, <1>5, <1>6 DEF Flat
<1>8. FlattenSeq(t) = g[n + 1]
  BY <1>4, <1>7, FlattenIs
<1> QED BY <1>2, <1>5, <1>8 DEF e, t

\* The last sequences make up the end of the concatenation.
LEMMA FlattenSuffix ==
    ASSUME NEW s \in Seq(Seq(Byte)), NEW k \in 0..Len(s), NEW t, t = SubSeq(s, k + 1, Len(s))
    PROVE  /\ t \in Seq(Seq(Byte)) /\ FlattenSeq(t) \in Seq(Byte)
           /\ \E p \in Seq(Byte) : FlattenSeq(s) = p \o FlattenSeq(t)
<1> DEFINE n == Len(s)
           m == n - k
<1>1. PICK f : Flat(f, s)
  BY FlatExists
<1>2. /\ n \in Nat /\ k \in Nat /\ m \in Nat /\ k + m = n
      /\ FlattenSeq(s) = f[n] /\ f[k] \in Seq(Byte)
  BY <1>1, FlattenIs DEF Flat
<1>3. /\ t \in Seq(Seq(Byte)) /\ Len(t) = m
      /\ \A i \in 1..m : t[i] = s[k + i]
  OBVIOUS
<1>4. PICK g : Flat(g, t)
  BY <1>3, FlatExists
<1>5. FlattenSeq(t) = g[m] /\ FlattenSeq(t) \in Seq(Byte)
  BY <1>3, <1>4, FlattenIs
<1> HIDE DEF m, n
<1> DEFINE S == {i \in Nat : i <= m => f[k + i] = f[k] \o g[i]}
<1>6. 0 \in S
  <2>1. k + 0 = k /\ g[0] = <<>>
    BY <1>2, <1>4 DEF Flat
  <2>2. f[k] \o <<>> = f[k]
    BY <1>2
  <2> QED BY <2>1, <2>2
<1>7. ASSUME NEW i \in Nat, i \in S PROVE i + 1 \in S
  <2>0. i + 1 \in Nat
    OBVIOUS
  <2> SUFFICES ASSUME i + 1 <= m PROVE f[k + (i + 1)] = f[k] \o g[i + 1]
    BY <2>0, Zenon
  <2>1. i <= m /\ i + 1 \in 1..m /\ k + (i + 1) \in 1..n /\ i \in 0..m
    BY <1>2
  <2>2. f[k + i] = f[k] \o g[i]
    BY <1>7, <2>1
  <2>3. f[k + (i + 1)] = f[(k + (i + 1)) - 1] \o s[k + (i + 1)]
    BY <1>1, <2>1, Zenon DEF Flat, n
  <2>4. g[i + 1] = g[(i + 1) - 1] \o t[i + 1]
    BY <1>3, <1>4, <2>1, Zenon DEF Flat
  <2>5. (k + (i + 1)) - 1 = k + i /\ (i + 1) - 1 = i
    BY <1>2
  <2>6. t[i + 1] = s[k + (i + 1)]
    BY <1>3, <2>1
  <2>7. g[i] \in Seq(Byte) /\ t[i + 1] \in Seq(Byte)
    <3>1. g \in [0..m -> Seq(Byte)]
      BY <1>3, <1>4 DEF Flat
    <3>2. t[i + 1] \in Seq(Byte)
      BY <1>3, <2>1
    <3> QED BY <2>1, <3>1, <3>2
  <2>8. (f[k] \o g[i]) \o t[i + 1] = f[k] \o (g[i] \o t[i + 1])
    <3> DEFINE a == f[k]
               b == g[i]
               c == t[i + 1]
    <3>1. a \in Seq(Byte) /\ b \in Seq(Byte) /\ c \in Seq(Byte)
      BY <1>2, <2>7
    <3> HIDE DEF a, b, c
    <3>2. (a \o b) \o c = a \o (b \o c)
      BY <3>1, ConcatAssociative, SMTT(60)
    <3> QED BY <3>2 DEF a, b, c
  <2>9. f[k + (i + 1)] = f[k + i] \o t[i + 1]
    BY <2>3, <2>5, <2>6
  <2>10. g[i + 1] = g[i] \o t[i + 1]
    BY <2>4, <2>5
  <2> QED BY <2>2, <2>8, <2>9, <2>10
<1>8. f[n] = f[k] \o g[m]
  <2>1. m \in S
    <3> HIDE DEF S
    <3> QED BY <1>2, <1>6, <1>7, Induction
  <2>2. m <= m
    BY <1>2
  <2>3. f[k + m] = f[k] \o g[m]
    BY <2>1, <2>2, Zenon
  <2> QED BY <1>2, <2>3
<1> QED BY <1>2, <1>3, <1>5, <1>8

-----------------------------------------------------------------------------
(* What a session writes. *)

\* A stretch of the stream of s: its length and its bytes.
LEMMA BytesAre ==
    ASSUME NEW s \in Nat, NEW a \in Nat, NEW b \in Nat, a <= b
    PROVE  /\ Bytes(s, a, b) \in Seq(Byte) /\ Len(Bytes(s, a, b)) = b - a
           /\ DOMAIN Bytes(s, a, b) = 1..(b - a)
           /\ \A i \in 1..(b - a) : Bytes(s, a, b)[i] = <<s, a + i - 1>>
<1> DEFINE w == Bytes(s, a, b)
           n == b - a
<1>1. n \in Nat /\ w = [i \in 1..n |-> <<s, a + i - 1>>]
  BY DEF Bytes
<1>2. \A i \in 1..n : <<s, a + i - 1>> \in Byte
  BY DEF Byte
<1> HIDE DEF w, n
<1>3. w \in Seq(Byte) /\ Len(w) = n
  <2>1. w \in [1..n -> Byte]
    BY <1>1, <1>2
  <2>2. w \in Seq(Byte)
    BY <1>1, <2>1, SeqDef
  <2>3. DOMAIN w = 1..n /\ DOMAIN w = 1..Len(w) /\ Len(w) \in Nat /\ n \in Nat
    BY <1>1, <2>1, <2>2, LenProperties
  <2>4. Len(w) <= n
    <3>1. Len(w) = 0 \/ Len(w) \in DOMAIN w
      BY <2>3
    <3> QED BY <2>3, <3>1
  <2>5. n <= Len(w)
    <3>1. n = 0 \/ n \in DOMAIN w
      BY <2>3
    <3> QED BY <2>3, <3>1
  <2> QED BY <2>2, <2>3, <2>4, <2>5
<1> QED BY <1>1, <1>3 DEF w, n

\* A stretch from an offset to itself has no byte.
LEMMA BytesEmpty ==
    ASSUME NEW s, NEW a \in Nat
    PROVE  Bytes(s, a, a) = <<>>
BY DEF Bytes

\* Two stretches that meet are one.
LEMMA BytesJoin ==
    ASSUME NEW s \in Nat, NEW a \in Nat, NEW b \in Nat, NEW c \in Nat, a <= b, b <= c
    PROVE  Bytes(s, a, b) \o Bytes(s, b, c) = Bytes(s, a, c)
<1> DEFINE u == Bytes(s, a, b)
           v == Bytes(s, b, c)
           w == Bytes(s, a, c)
<1>1. /\ u \in Seq(Byte) /\ Len(u) = b - a /\ v \in Seq(Byte) /\ Len(v) = c - b
      /\ w \in Seq(Byte) /\ Len(w) = c - a
      /\ \A i \in 1..(b - a) : u[i] = <<s, a + i - 1>>
      /\ \A i \in 1..(c - b) : v[i] = <<s, b + i - 1>>
      /\ \A i \in 1..(c - a) : w[i] = <<s, a + i - 1>>
  <2>1. a <= c
    OBVIOUS
  <2>2. /\ u \in Seq(Byte) /\ Len(u) = b - a
        /\ \A i \in 1..(b - a) : u[i] = <<s, a + i - 1>>
    BY BytesAre, ZenonT(60)
  <2>3. /\ v \in Seq(Byte) /\ Len(v) = c - b
        /\ \A i \in 1..(c - b) : v[i] = <<s, b + i - 1>>
    BY BytesAre, ZenonT(60)
  <2>4. /\ w \in Seq(Byte) /\ Len(w) = c - a
        /\ \A i \in 1..(c - a) : w[i] = <<s, a + i - 1>>
    BY <2>1, BytesAre, ZenonT(60)
  <2> QED BY <2>2, <2>3, <2>4
<1> HIDE DEF u, v, w
<1>2. u \o v \in Seq(Byte) /\ Len(u \o v) = c - a
  <2>1. u \o v \in Seq(Byte) /\ Len(u \o v) = Len(u) + Len(v)
    BY <1>1, ConcatProperties
  <2> QED BY <1>1, <2>1
<1>3. ASSUME NEW i \in 1..(c - a) PROVE (u \o v)[i] = w[i]
  <2>0. (u \o v)[i] = IF i <= b - a THEN u[i] ELSE v[i - (b - a)]
    <3>1. i \in 1..(Len(u) + Len(v))
      BY <1>1
    <3>2. (u \o v)[i] = IF i <= Len(u) THEN u[i] ELSE v[i - Len(u)]
      BY <1>1, <3>1, ConcatProperties
    <3> QED BY <1>1, <3>2
  <2>1. CASE i <= b - a
    <3>1. i \in 1..(b - a) /\ i \in 1..(c - a)
      BY <2>1
    <3>2. (u \o v)[i] = u[i]
      BY <2>0, <2>1
    <3>3. u[i] = <<s, a + i - 1>> /\ w[i] = <<s, a + i - 1>>
      BY <1>1, <3>1
    <3> QED BY <3>2, <3>3
  <2>2. CASE ~(i <= b - a)
    <3>1. i - (b - a) \in 1..(c - b) /\ b + (i - (b - a)) - 1 = a + i - 1
      BY <2>2
    <3>2. (u \o v)[i] = v[i - (b - a)]
      BY <2>0, <2>2
    <3> QED BY <1>1, <3>1, <3>2
  <2> QED BY <2>1, <2>2
<1> QED BY <1>1, <1>2, <1>3, SeqEqual DEF u, v, w

\* Without its first bytes.
LEMMA BytesRest ==
    ASSUME NEW s \in Nat, NEW a \in Nat, NEW b \in Nat, a <= b, NEW j \in 0..(b - a)
    PROVE  SubSeq(Bytes(s, a, b), j + 1, b - a) = Bytes(s, a + j, b)
<1> DEFINE u == Bytes(s, a, b)
           v == Bytes(s, a + j, b)
           w == SubSeq(u, j + 1, b - a)
<1>1. /\ u \in Seq(Byte) /\ Len(u) = b - a
      /\ v \in Seq(Byte) /\ Len(v) = b - (a + j)
      /\ \A i \in 1..(b - a) : u[i] = <<s, a + i - 1>>
      /\ \A i \in 1..(b - (a + j)) : v[i] = <<s, (a + j) + i - 1>>
  <2>1. a + j \in Nat /\ a + j <= b
    OBVIOUS
  <2> HIDE DEF u
  <2>2. /\ v \in Seq(Byte) /\ Len(v) = b - (a + j)
        /\ \A i \in 1..(b - (a + j)) : v[i] = <<s, (a + j) + i - 1>>
    BY <2>1, BytesAre, ZenonT(60)
  <2> HIDE DEF v
  <2>3. /\ u \in Seq(Byte) /\ Len(u) = b - a
        /\ \A i \in 1..(b - a) : u[i] = <<s, a + i - 1>>
    BY BytesAre DEF u
  <2> QED BY <2>2, <2>3
<1> HIDE DEF u, v
<1>2. /\ w \in Seq(Byte) /\ Len(w) = b - (a + j)
      /\ \A i \in 1..(b - (a + j)) : w[i] = u[j + i]
  <2>1. j \in Nat /\ a + j \in Nat /\ b - a \in Nat /\ b - (a + j) \in Nat
        /\ (b - a) - (j + 1) + 1 = b - (a + j) /\ j + 1 <= b - a + 1
    OBVIOUS
  <2>2. w \in Seq(Byte)
    BY <1>1, <2>1
  <2>3. Len(w) = b - (a + j)
    BY <1>1, <2>1
  <2>4. ASSUME NEW i \in 1..(b - (a + j)) PROVE w[i] = u[j + i]
    <3>1. j + 1 + i - 1 = j + i
      BY <2>1
    <3> QED BY <1>1, <2>1, <3>1
  <2> QED BY <2>2, <2>3, <2>4
<1> HIDE DEF w
<1>3. ASSUME NEW i \in 1..(b - (a + j)) PROVE w[i] = v[i]
  <2>1. j + i \in 1..(b - a) /\ a + (j + i) - 1 = (a + j) + i - 1
    OBVIOUS
  <2> QED BY <1>1, <1>2, <2>1
<1> QED BY <1>1, <1>2, <1>3, SeqEqual DEF u, v, w

\* q ends a stretch of the stream that goes from i to j.
IsEnd(q, s, i, j) == Len(q) <= j - i /\ q = Bytes(s, j - Len(q), j)
\* p and q make up w.
AreParts(p, q, w) == p \in Seq(Byte) /\ q \in Seq(Byte) /\ w = p \o q

\* What ends a stretch of the stream is its end.
LEMMA BytesSuffix ==
    ASSUME NEW s \in Nat, NEW a \in Nat, NEW b \in Nat, a <= b,
           NEW p, NEW q, AreParts(p, q, Bytes(s, a, b))
    PROVE  IsEnd(q, s, a, b)
<1>0. p \in Seq(Byte) /\ q \in Seq(Byte) /\ Bytes(s, a, b) = p \o q
  BY DEF AreParts
<1> DEFINE n == Len(p)
           w == Bytes(s, a, b)
<1>1. w \in Seq(Byte) /\ Len(w) = b - a /\ w = p \o q /\ n \in Nat /\ Len(q) \in Nat
  <2>1. w \in Seq(Byte) /\ Len(w) = b - a
    BY BytesAre
  <2>2. w = p \o q
    BY <1>0
  <2> HIDE DEF w
  <2> QED BY <1>0, <2>1, <2>2, LenProperties
<1>2. b - a = n + Len(q) /\ n \in 0..(b - a) /\ b - Len(q) = a + n
  BY <1>1
<1>3. SubSeq(w, n + 1, b - a) = Bytes(s, a + n, b)
  BY <1>2, BytesRest
<1> HIDE DEF w
<1>4. SubSeq(w, n + 1, Len(w)) = q
  <2> DEFINE v == SubSeq(w, n + 1, Len(w))
  <2>1. /\ v \in Seq(Byte) /\ Len(v) = Len(q)
        /\ \A i \in 1..Len(q) : v[i] = w[n + i] /\ w[n + i] = q[i]
    BY <1>0, <1>1, <1>2, SMTT(60)
  <2> HIDE DEF v
  <2>2. v = q
    BY <1>0, <2>1, SeqEqual
  <2> QED BY <2>2 DEF v
<1>5. q = Bytes(s, a + n, b)
  BY <1>1, <1>3, <1>4
<1>6. a + n = b - Len(q) /\ Len(q) <= b - a
  BY <1>1, <1>2
<1> HIDE DEF n
<1> QED BY <1>5, <1>6 DEF IsEnd

-----------------------------------------------------------------------------
(* The mode. *)

\* The offsets from a up to b at which a mode is switched.
Setting(a, b) == {o \in a..(b - 1) : o \in ModeOn \cup ModeOff}

\* Where a mode is switched at all, one switch is the last.
LEMMA LastSetting ==
    ASSUME NEW a \in Nat, NEW b \in Nat, Setting(a, b) # {}
    PROVE  \E o \in Setting(a, b) : \A p \in Setting(a, b) : p <= o
<1>1. Setting(a, b) \subseteq 0..b
  BY DEF Setting
<1> QED BY <1>1, Greatest

\* The mode is what the last switch of a stretch set, or what it was.
LEMMA ModeIs ==
    ASSUME NEW s \in Nat, NEW a \in Nat, NEW b \in Nat, a <= b, NEW m
    PROVE  /\ Setting(a, b) = {} => ModeAfter(m, Bytes(s, a, b)) = m
           /\ \A o \in Setting(a, b) : (\A p \in Setting(a, b) : p <= o) =>
                ModeAfter(m, Bytes(s, a, b)) = (o \in ModeOn)
<1> DEFINE w == Bytes(s, a, b)
           sets == {i \in DOMAIN w : w[i][2] \in ModeOn \cup ModeOff}
           IsLast(i) == i \in sets /\ \A j \in sets : j <= i
           last == CHOOSE i \in sets : \A j \in sets : j <= i
<1>1. ModeAfter(m, w) = IF sets = {} THEN m ELSE w[last][2] \in ModeOn
  BY DEF ModeAfter
<1>2. DOMAIN w = 1..(b - a) /\ \A i \in 1..(b - a) : w[i] = <<s, a + i - 1>>
  BY BytesAre
<1> HIDE DEF w
<1>3. sets = {i \in 1..(b - a) : a + i - 1 \in ModeOn \cup ModeOff}
  BY <1>2
<1>4. \A i \in sets : a + i - 1 \in Setting(a, b) /\ w[i][2] = a + i - 1 /\ i \in 1..(b - a)
  BY <1>2, <1>3 DEF Setting
<1>5. \A o \in Setting(a, b) : (o - a) + 1 \in sets /\ o \in Int
  <2> SUFFICES ASSUME NEW o \in Setting(a, b) PROVE (o - a) + 1 \in sets /\ o \in Int
    OBVIOUS
  <2>1. o \in a..(b - 1) /\ o \in ModeOn \cup ModeOff
    BY DEF Setting
  <2>2. (o - a) + 1 \in 1..(b - a) /\ a + ((o - a) + 1) - 1 = o
    BY <2>1
  <2> HIDE DEF sets
  <2> QED BY <1>3, <2>1, <2>2
<1> HIDE DEF sets
<1>6. Setting(a, b) = {} => sets = {}
  BY <1>4
<1>7. ASSUME NEW o \in Setting(a, b), \A p \in Setting(a, b) : p <= o
      PROVE  ModeAfter(m, w) = (o \in ModeOn)
  <2> DEFINE k == (o - a) + 1
  <2>1. k \in sets /\ o \in Int
    BY <1>5
  <2>2. \A j \in sets : j <= k
    BY <1>4, <1>7, <2>1
  <2> HIDE DEF k
  <2>3. last \in sets /\ \A j \in sets : j <= last
    BY <2>1, <2>2
  <2> HIDE DEF last
  <2>4. last = k
    BY <1>4, <2>1, <2>2, <2>3
  <2>5. w[last][2] = o
    <3>1. w[k][2] = a + k - 1 /\ a + k - 1 = o
      BY <1>4, <2>1 DEF k
    <3> QED BY <2>4, <3>1
  <2>6. sets # {}
    BY <2>1
  <2> QED BY <1>1, <2>5, <2>6
<1> QED BY <1>1, <1>6, <1>7 DEF w

\* The mode after two stretches is the mode after both.
LEMMA ModeChain ==
    ASSUME NEW s \in Nat, NEW a \in Nat, NEW b \in Nat, NEW c \in Nat, a <= b, b <= c, NEW m
    PROVE  ModeAfter(ModeAfter(m, Bytes(s, a, b)), Bytes(s, b, c)) = ModeAfter(m, Bytes(s, a, c))
<1>0. a <= c
  OBVIOUS
<1>1. CASE Setting(b, c) = {}
  <2>1. ModeAfter(ModeAfter(m, Bytes(s, a, b)), Bytes(s, b, c)) = ModeAfter(m, Bytes(s, a, b))
    BY <1>1, ModeIs
  <2>2. Setting(a, c) = Setting(a, b)
    BY <1>1 DEF Setting
  <2>3. CASE Setting(a, b) = {}
    <3>1. ModeAfter(m, Bytes(s, a, b)) = m
      BY <2>3, ModeIs
    <3>2. ModeAfter(m, Bytes(s, a, c)) = m
      BY <1>0, <2>2, <2>3, ModeIs
    <3> QED BY <2>1, <3>1, <3>2
  <2>4. CASE Setting(a, b) # {}
    <3>1. PICK o \in Setting(a, b) : \A p \in Setting(a, b) : p <= o
      BY <2>4, LastSetting
    <3>2. ModeAfter(m, Bytes(s, a, b)) = (o \in ModeOn)
      BY <3>1, ModeIs
    <3>3. ModeAfter(m, Bytes(s, a, c)) = (o \in ModeOn)
      BY <1>0, <2>2, <3>1, ModeIs
    <3> QED BY <2>1, <3>2, <3>3
  <2> QED BY <2>3, <2>4
<1>2. CASE Setting(b, c) # {}
  <2>1. PICK o \in Setting(b, c) : \A p \in Setting(b, c) : p <= o
    BY <1>2, LastSetting
  <2>2. o \in Setting(a, c) /\ \A p \in Setting(a, c) : p <= o
    BY <2>1 DEF Setting
  <2>3. ModeAfter(m, Bytes(s, a, c)) = (o \in ModeOn)
    BY <1>0, <2>2, ModeIs
  <2>4. ModeAfter(ModeAfter(m, Bytes(s, a, b)), Bytes(s, b, c)) = (o \in ModeOn)
    BY <2>1, ModeIs
  <2> QED BY <2>3, <2>4
<1> QED BY <1>1, <1>2

\* A terminal in the mode of a stream stays in it when it reads the end of
\* the stream once more.
LEMMA ModeAgain ==
    ASSUME NEW s \in Nat, NEW a \in Nat, NEW b \in Nat, a <= b, NEW m
    PROVE  ModeAfter(ModeAfter(m, Bytes(s, 0, b)), Bytes(s, a, b)) = ModeAfter(m, Bytes(s, 0, b))
<1>0. 0 \in Nat /\ 0 <= b
  OBVIOUS
<1>1. CASE Setting(a, b) = {}
  BY <1>1, ModeIs
<1>2. CASE Setting(a, b) # {}
  <2>1. PICK o \in Setting(a, b) : \A p \in Setting(a, b) : p <= o
    BY <1>2, LastSetting
  <2>2. o \in Setting(0, b) /\ \A p \in Setting(0, b) : p <= o
    BY <2>1 DEF Setting
  <2>3. ModeAfter(m, Bytes(s, 0, b)) = (o \in ModeOn)
    BY <1>0, <2>2, ModeIs
  <2>4. ModeAfter(ModeAfter(m, Bytes(s, 0, b)), Bytes(s, a, b)) = (o \in ModeOn)
    BY <2>1, ModeIs
  <2> QED BY <2>3, <2>4
<1> QED BY <1>1, <1>2

\* A mode stays on or off.
LEMMA ModeBoolean ==
    ASSUME NEW s \in Nat, NEW a \in Nat, NEW b \in Nat, a <= b, NEW m \in BOOLEAN
    PROVE  ModeAfter(m, Bytes(s, a, b)) \in BOOLEAN
<1>1. CASE Setting(a, b) = {}
  BY <1>1, ModeIs
<1>2. CASE Setting(a, b) # {}
  <2>1. PICK o \in Setting(a, b) : \A p \in Setting(a, b) : p <= o
    BY <1>2, LastSetting
  <2>2. ModeAfter(m, Bytes(s, a, b)) = (o \in ModeOn)
    BY <2>1, ModeIs
  <2> QED BY <2>2
<1> QED BY <1>1, <1>2

-----------------------------------------------------------------------------
(* The buffer. *)

\* What a terminal is in that has read the first b bytes.
ModeAt(s, b) == ModeAfter(FALSE, Bytes(s, 0, b))

Streams == [chunks : Seq(Seq(Byte)), out : Nat, evicted : BOOLEAN, mode : BOOLEAN]

\* The buffer holds the end of what session s wrote, and knows its mode.
Holds(st, s) ==
    /\ st \in Streams
    /\ Held(st) \in Seq(Byte) /\ Retained(st) <= st.out
    /\ Held(st) = Bytes(s, st.out - Retained(st), st.out)
    /\ st.mode = ModeAt(s, st.out)

\* A buffer without chunks holds the end of any stream.
LEMMA EmptyHolds ==
    ASSUME NEW st \in Streams, st.chunks = <<>>, NEW s \in Nat, st.mode = ModeAt(s, st.out)
    PROVE  Holds(st, s)
<1>1. Held(st) = <<>>
  BY DEF Held, FlattenSeq
<1>2. Retained(st) = 0
  BY <1>1 DEF Retained
<1>3. st.out \in Nat /\ st.out - 0 = st.out
  BY DEF Streams
<1>4. Bytes(s, st.out, st.out) = <<>>
  BY <1>3, BytesEmpty
<1> QED BY <1>1, <1>2, <1>3, <1>4 DEF Holds

\* So does the buffer of a session that has written nothing.
LEMMA NoStreamHolds ==
    ASSUME NEW s \in Nat
    PROVE  Holds(NoStream, s)
<1>1. NoStream \in Streams /\ NoStream.chunks = <<>> /\ NoStream.out = 0 /\ NoStream.mode = FALSE
  BY DEF NoStream, Streams
<1>2. ModeAt(s, 0) = FALSE
  <2> DEFINE m == FALSE
  <2> HIDE DEF m
  <2>1. Setting(0, 0) = {}
    BY DEF Setting
  <2>2. 0 \in Nat /\ 0 <= 0
    OBVIOUS
  <2>3. ModeAfter(m, Bytes(s, 0, 0)) = m
    BY <2>1, <2>2, ModeIs
  <2> QED BY <2>3 DEF ModeAt, m
<1> QED BY <1>1, <1>2, EmptyHolds

\* And one that is cleared (ReplayBuffer::clear).
LEMMA ClearedHolds ==
    ASSUME NEW s \in Nat, NEW st, Holds(st, s), NEW new, new = Cleared(st)
    PROVE  Holds(new, s) /\ new.out = st.out
<1>1. /\ new \in Streams /\ new.chunks = <<>> /\ new.out = st.out /\ new.mode = st.mode
  <2>1. st \in Streams
    BY DEF Holds
  <2>2. <<>> \in Seq(Seq(Byte)) /\ new = [st EXCEPT !.chunks = <<>>]
    BY DEF Cleared
  <2> QED BY <2>1, <2>2 DEF Streams
<1> QED BY <1>1, EmptyHolds DEF Holds

\* What is left of a sequence when its first elements are dropped.
IsRest(t, all) == \E k \in 0..Len(all) : t = SubSeq(all, k + 1, Len(all))

\* What eviction leaves are the last chunks.
LEMMA EvictedIs ==
    ASSUME NEW chunks \in Seq(Seq(Byte))
    PROVE  /\ Evicted(chunks).dropped \in BOOLEAN
           /\ IsRest(Evicted(chunks).rest, chunks)
<1> DEFINE n == Len(chunks)
           fits == {k \in 0..n : Len(FlattenSeq(SubSeq(chunks, k + 1, n))) <= Cap}
           dropped == CHOOSE k \in fits : \A j \in fits : k <= j
<1>0. Evicted(chunks) = [rest |-> SubSeq(chunks, dropped + 1, n), dropped |-> dropped > 0]
  BY DEF Evicted
<1>1. n \in fits
  <2>1. SubSeq(chunks, n + 1, n) = <<>> /\ n \in 0..n
    OBVIOUS
  <2>2. FlattenSeq(<<>>) = <<>>
    BY DEF FlattenSeq
  <2>3. FlattenSeq(SubSeq(chunks, n + 1, n)) = <<>>
    BY <2>1, <2>2
  <2>4. Len(<<>>) = 0 /\ 0 <= Cap
    BY BufferAssumption
  <2>5. Len(FlattenSeq(SubSeq(chunks, n + 1, n))) <= Cap
    BY <2>3, <2>4, Zenon
  <2> QED BY <2>1, <2>5
<1>2. fits \subseteq 0..n /\ fits \subseteq Nat
  OBVIOUS
<1> HIDE DEF fits
<1>3. \E k \in fits : \A j \in fits : k <= j
  BY <1>1, <1>2, Least
<1>4. dropped \in fits
  BY <1>3
<1> HIDE DEF dropped
<1> QED BY <1>0, <1>2, <1>4 DEF IsRest

\* The last chunks of a stretch are the end of it.
LEMMA FlattenEnds ==
    ASSUME NEW s \in Nat, NEW i \in Nat, NEW j \in Nat, i <= j, NEW all \in Seq(Seq(Byte)),
           FlattenSeq(all) = Bytes(s, i, j), NEW t, IsRest(t, all)
    PROVE  t \in Seq(Seq(Byte)) /\ FlattenSeq(t) \in Seq(Byte) /\ IsEnd(FlattenSeq(t), s, i, j)
<1> DEFINE w == FlattenSeq(all)
           q == FlattenSeq(t)
<1>1. PICK k \in 0..Len(all) : t = SubSeq(all, k + 1, Len(all))
  BY DEF IsRest
<1>2. PICK p \in Seq(Byte) : w = p \o q
  BY <1>1, FlattenSuffix
<1>3. t \in Seq(Seq(Byte)) /\ q \in Seq(Byte)
  BY <1>1, FlattenSuffix
<1> HIDE DEF q
<1>4. AreParts(p, q, Bytes(s, i, j))
  BY <1>2, <1>3 DEF AreParts
<1>5. IsEnd(q, s, i, j)
  BY <1>4, BytesSuffix
<1> QED BY <1>3, <1>5 DEF q

\* A read is appended, older chunks are evicted, and the modes are followed.
LEMMA PushHolds ==
    ASSUME NEW s \in Nat, NEW st, Holds(st, s), NEW n \in Nat, NEW new, new = Push(st, s, n)
    PROVE  Holds(new, s) /\ new.out = st.out + n
<1> DEFINE from == st.out - Retained(st)
           upto == st.out
           end == st.out + n
           chunk == Bytes(s, upto, end)
           all == Append(st.chunks, chunk)
           kept == Evicted(all)
<1>1. /\ from \in Nat /\ upto \in Nat /\ end \in Nat /\ from <= upto /\ upto <= end /\ from <= end
      /\ st.chunks \in Seq(Seq(Byte)) /\ st.evicted \in BOOLEAN /\ st.mode \in BOOLEAN
      /\ Held(st) = Bytes(s, from, upto)
  BY DEF Holds, Streams, Retained
<1>2. chunk \in Seq(Byte)
  BY <1>1, BytesAre
<1>3. new = [chunks |-> kept.rest, out |-> end, evicted |-> st.evicted \/ kept.dropped,
             mode |-> ModeAfter(st.mode, chunk)]
  BY DEF Push
<1> HIDE DEF from, end, upto
<1>4. FlattenSeq(all) = Bytes(s, from, end)
  <2>1. FlattenSeq(all) = FlattenSeq(st.chunks) \o chunk
    BY <1>1, <1>2, FlattenAppend
  <2>2. FlattenSeq(st.chunks) = Bytes(s, from, upto)
    BY <1>1 DEF Held
  <2>3. Bytes(s, from, upto) \o Bytes(s, upto, end) = Bytes(s, from, end)
    <3>1. from \in Nat /\ upto \in Nat /\ end \in Nat /\ from <= upto /\ upto <= end
      BY <1>1
    <3> HIDE DEF chunk
    <3> QED BY <3>1, BytesJoin, ZenonT(60)
  <2> QED BY <2>1, <2>2, <2>3
<1>5. all \in Seq(Seq(Byte))
  BY <1>1, <1>2
<1> HIDE DEF all, chunk
<1>6. kept.dropped \in BOOLEAN
  BY <1>5, EvictedIs
<1>7. IsRest(kept.rest, all)
  BY <1>5, EvictedIs
<1> DEFINE rest == FlattenSeq(kept.rest)
<1> HIDE DEF kept
<1>8. kept.rest \in Seq(Seq(Byte)) /\ rest \in Seq(Byte) /\ IsEnd(rest, s, from, end)
  BY <1>1, <1>4, <1>5, <1>7, FlattenEnds
<1> HIDE DEF rest
<1>9. Len(rest) <= end - from /\ rest = Bytes(s, end - Len(rest), end)
  BY <1>8 DEF IsEnd
<1>10. ModeAfter(st.mode, chunk) = ModeAt(s, end) /\ ModeAt(s, end) \in BOOLEAN
  <2>1. st.mode = ModeAfter(FALSE, Bytes(s, 0, upto))
    BY DEF Holds, ModeAt, upto
  <2>2. ModeAfter(ModeAfter(FALSE, Bytes(s, 0, upto)), Bytes(s, upto, end)) = ModeAfter(FALSE, Bytes(s, 0, end))
    <3> DEFINE m == FALSE
    <3>1. 0 \in Nat /\ 0 <= upto /\ upto \in Nat /\ end \in Nat /\ upto <= end
      BY <1>1
    <3> HIDE DEF m
    <3>2. ModeAfter(ModeAfter(m, Bytes(s, 0, upto)), Bytes(s, upto, end)) = ModeAfter(m, Bytes(s, 0, end))
      BY <3>1, ModeChain
    <3> QED BY <3>2 DEF m
  <2>3. ModeAfter(FALSE, Bytes(s, 0, end)) \in BOOLEAN
    <3>1. 0 \in Nat /\ 0 <= end /\ FALSE \in BOOLEAN
      BY <1>1
    <3> QED BY <1>1, <3>1, ModeBoolean, Zenon
  <2> QED BY <2>1, <2>2, <2>3 DEF ModeAt, chunk
<1>11. new \in Streams /\ new.out = end /\ new.chunks = kept.rest /\ new.mode = ModeAt(s, end)
  BY <1>1, <1>3, <1>6, <1>8, <1>10 DEF Streams
<1>12. Held(new) = rest /\ Retained(new) = Len(rest)
  BY <1>11 DEF Held, Retained, rest
<1>13. Len(rest) <= end
  <2>1. Len(rest) \in Nat
    BY <1>8
  <2> QED BY <1>1, <1>9, <2>1
<1> QED BY <1>8, <1>9, <1>11, <1>12, <1>13 DEF Holds, end

\* What a terminal is given that starts afresh ends where the stream ends.
LEMMA SnapshotIs ==
    ASSUME NEW s \in Nat, NEW st, Holds(st, s)
    PROVE  \E a \in 0..st.out : Snapshot(st) = Bytes(s, a, st.out)
<1> DEFINE held == Held(st)
           n == Len(held)
           b == st.out
           ends == {i \in DOMAIN held : i <= Window /\ held[i][2] \in Lines}
           first == CHOOSE i \in ends : \A j \in ends : i <= j
<1>1. /\ held \in Seq(Byte) /\ n \in Nat /\ b \in Nat /\ n <= b /\ b - n \in 0..b
      /\ held = Bytes(s, b - n, b)
  BY DEF Holds, Retained, Streams
<1>2. Snapshot(st) = IF st.evicted /\ ends # {} /\ first < n THEN SubSeq(held, first + 1, n) ELSE held
  BY DEF Snapshot
<1>3. ends \subseteq 1..n
  <2>1. DOMAIN held = 1..n
    BY <1>1, LenProperties
  <2> QED BY <2>1
<1> HIDE DEF held, n, b, ends
<1>4. CASE ends # {} /\ first < n /\ Snapshot(st) = SubSeq(held, first + 1, n)
  <2>1. ends \subseteq Nat
    BY <1>1, <1>3
  <2>2. \E i \in ends : \A j \in ends : i <= j
    BY <1>4, <2>1, Least
  <2>3. first \in ends
    BY <2>2
  <2> HIDE DEF first
  <2>4. first \in 0..(b - (b - n)) /\ b - (b - n) = n /\ b - n \in Nat /\ b - n <= b
    BY <1>1, <1>3, <2>3
  <2>5. SubSeq(Bytes(s, b - n, b), first + 1, b - (b - n)) = Bytes(s, (b - n) + first, b)
    BY <1>1, <2>4, BytesRest
  <2>6. (b - n) + first \in 0..b
    BY <1>1, <1>3, <2>3
  <2> QED BY <1>1, <1>4, <2>4, <2>5, <2>6 DEF b
<1>5. CASE Snapshot(st) = held
  BY <1>1, <1>5 DEF b
<1> QED BY <1>2, <1>4, <1>5

\* screen_since answers with a fresh screen, or what follows the offset.
LEMMA ScreenSinceIs ==
    ASSUME NEW s \in Nat, NEW st, Holds(st, s), NEW since \in Nat \cup {NoOffset}, since <= st.out,
           NEW got, got = ScreenSince(st, since)
    PROVE  /\ DOMAIN got = {"end", "reset", "mode", "bytes"}
           /\ got.end = st.out /\ got.reset \in BOOLEAN
           /\ got.reset => /\ got.mode = ModeAt(s, st.out)
                           /\ \E a \in 0..st.out : got.bytes = Bytes(s, a, st.out)
           /\ ~got.reset => since \in Nat /\ got.bytes = Bytes(s, since, st.out)
<1> DEFINE n == Retained(st)
           b == st.out
<1>1. /\ n \in Nat /\ b \in Nat /\ n <= b /\ Held(st) = Bytes(s, b - n, b) /\ RetainedStart(st) = b - n
      /\ b - n \in Nat /\ b - n <= b
  BY DEF Holds, Retained, Streams, RetainedStart
<1>2. CASE since = b \/ (RetainedStart(st) <= since /\ since < b)
  <2>1. got = [end |-> b, reset |-> FALSE, mode |-> FALSE, bytes |-> BytesFrom(st, since - (b - n))]
    BY <1>1, <1>2 DEF ScreenSince
  <2>2. since \in Nat /\ since - (b - n) \in 0..(b - (b - n)) /\ b - (b - n) = n
        /\ (b - n) + (since - (b - n)) = since
    BY <1>1, <1>2 DEF NoOffset
  <2>3. BytesFrom(st, since - (b - n)) = SubSeq(Held(st), (since - (b - n)) + 1, n)
    BY DEF BytesFrom
  <2> HIDE DEF n, b
  <2>4. SubSeq(Bytes(s, b - n, b), (since - (b - n)) + 1, b - (b - n)) = Bytes(s, (b - n) + (since - (b - n)), b)
    BY <1>1, <2>2, BytesRest, ZenonT(60)
  <2>5. BytesFrom(st, since - (b - n)) = Bytes(s, since, b)
    BY <1>1, <2>2, <2>3, <2>4
  <2>6. /\ DOMAIN got = {"end", "reset", "mode", "bytes"}
        /\ got.end = b /\ got.reset = FALSE /\ got.bytes = Bytes(s, since, b)
    BY <2>1, <2>5
  <2> QED BY <2>2, <2>6 DEF b
<1>3. CASE ~(since = b \/ (RetainedStart(st) <= since /\ since < b))
  <2>1. got = [end |-> b, reset |-> TRUE, mode |-> st.mode, bytes |-> Snapshot(st)]
    BY <1>3 DEF ScreenSince, Preamble
  <2>2. /\ DOMAIN got = {"end", "reset", "mode", "bytes"}
        /\ got.end = b /\ got.reset = TRUE /\ got.mode = st.mode /\ got.bytes = Snapshot(st)
    BY <2>1
  <2> QED BY <2>2, SnapshotIs DEF Holds
<1> QED BY <1>2, <1>3
Keys == {"text", "enter", "key"}
Items == [id : Nat, key : Keys, text : Nat]
PostStages == {"idle", "waiting", "delay", "answered"}
PollStages == {"idle", "sent", "found", "answered"}
Schedules == [running : BOOLEAN, visible : BOOLEAN, dead : BOOLEAN, paused : BOOLEAN,
              timer : BOOLEAN, wake : BOOLEAN, again : BOOLEAN]
ReadItems == [item : Items, session : Sessions]

\* The types of what the inputs and the schedule need.
InputTypes ==
    /\ tab \in [session : 0..MaxSession, started : 0..MaxSession, gone : BOOLEAN, size : Nat]
    /\ typed \in Seq(ReadItems) /\ queue \in Seq(Items)
    /\ inputs \in Nat /\ box \in Nat
    /\ post = NoPost \/ post \in [stage : {"waiting", "delay"}, item : Items]
                     \/ post \in [stage : {"answered"}, item : Items, code : Nat]
    /\ \A r \in requests : /\ DOMAIN r = {"item", "session", "found"}
                           /\ r.item \in Items /\ r.found \in BOOLEAN
                           /\ r.found => r.session \in Sessions

\* The schedule is alive, and a pause has not a timer of its own without being
\* one.
Alive(s, stage) ==
    /\ CanRun(s) => (s.timer <=> stage = "idle")
    /\ s.timer => CanRun(s)
    /\ s.running /\ s.paused => s.wake
    /\ s.wake => s.paused

HasStage(p) == "stage" \in DOMAIN p /\ p.stage \in PollStages

Live == sched \in Schedules /\ HasStage(poll) /\ Alive(sched, poll.stage)

\* An item that a shell has read, or that is on its way to one.
Read(i) == \E k \in 1..Len(typed) : typed[k].item = i
Left(i) == Read(i) \/ \E r \in requests : r.item = i

\* Every item leaves the page once, and is read once.
Once ==
    /\ \A j, k \in 1..Len(typed) : typed[j].item = typed[k].item => j = k
    /\ \A r \in requests : ~Read(r.item)
    /\ \A r, q \in requests : r.item = q.item => r = q
    /\ \A j, k \in 1..Len(queue) : queue[j] = queue[k] => j = k
    /\ \A k \in 1..Len(queue) : ~Left(queue[k])
    /\ post.stage = "delay" => ~Left(post.item) /\ \A k \in 1..Len(queue) : queue[k] # post.item
    /\ post.stage = "idle" => queue = <<>>

\* An item was made by a use of a control.
Made ==
    /\ \A k \in 1..Len(typed) : typed[k].item.id <= inputs
    /\ \A r \in requests : r.item.id <= inputs
    /\ \A k \in 1..Len(queue) : queue[k].id <= inputs
    /\ post.stage # "idle" => post.item.id <= inputs

\* The text of Send number id has been read.
TextRead(id) == \E k \in 1..Len(typed) : typed[k].item.key = "text" /\ typed[k].item.id = id

\* An Enter waits behind its text, and leaves when that has been read.
Ordered ==
    /\ \A k \in 1..Len(typed) : typed[k].item.key = "enter" =>
         \E j \in 1..(k - 1) : typed[j].item.key = "text" /\ typed[j].item.id = typed[k].item.id
    /\ \A r \in requests : r.item.key = "enter" => TextRead(r.item.id)
    /\ \A k \in 1..Len(queue) : queue[k].key = "enter" =>
         IF k = 1 THEN /\ post.stage \in {"waiting", "answered"}
                       /\ post.item.key = "text" /\ post.item.id = queue[1].id
                  ELSE queue[k - 1].key = "text" /\ queue[k - 1].id = queue[k].id
    /\ post.stage # "idle" /\ post.item.key = "enter" => TextRead(post.item.id)
    /\ post.stage = "answered" /\ post.code = 200 => Read(post.item)

Inputs == InputTypes /\ Once /\ Made /\ Ordered
-----------------------------------------------------------------------------
(* The schedule. *)

\* A pause and its timer.
Pauses(s) == (s.running /\ s.paused => s.wake) /\ (s.wake => s.paused)

\* A poll is sent, or none is allowed.
LEMMA FiredAlive ==
    ASSUME NEW s \in Schedules, NEW v, ~s.timer, Pauses(s), NEW f, f = Fired(s, v)
    PROVE  f.sched \in Schedules /\ HasStage(f.poll) /\ Alive(f.sched, f.poll.stage)
<1>1. CASE CanRun(s)
  <2> DEFINE t == [s EXCEPT !.timer = FALSE]
             p == [stage |-> "sent", query |-> ScreenQuery(v.at), current |-> TRUE]
  <2>1. f.sched = t /\ f.poll = p
    BY <1>1 DEF Fired
  <2>2. t \in Schedules /\ t = s
    BY DEF Schedules
  <2>3. HasStage(p) /\ p.stage = "sent"
    BY DEF HasStage, PollStages
  <2> QED BY <2>1, <2>2, <2>3 DEF Alive, Pauses
<1>2. CASE ~CanRun(s)
  <2>1. f.sched = s /\ f.poll = Idle
    BY <1>2 DEF Fired
  <2>2. HasStage(Idle) /\ Idle.stage = "idle"
    BY DEF Idle, HasStage, PollStages
  <2> QED BY <1>2, <2>1, <2>2 DEF Alive, Pauses
<1> QED BY <1>1, <1>2

\* None is sent while one is in flight.
LEMMA FireAlive ==
    ASSUME NEW s \in Schedules, NEW v, NEW p, HasStage(p), ~s.timer, Pauses(s), NEW f, f = Fire(s, v, p)
    PROVE  f.sched \in Schedules /\ HasStage(f.poll) /\ Alive(f.sched, f.poll.stage)
<1>1. CASE p.stage = "idle"
  BY <1>1, FiredAlive DEF Fire
<1>2. CASE p.stage # "idle"
  BY <1>2 DEF Fire, Alive, Pauses
<1> QED BY <1>1, <1>2

\* A poll that is wanted now is sent, or remembered while one is in flight.
LEMMA PollNowAlive ==
    ASSUME NEW s \in Schedules, NEW v, NEW p, HasStage(p), Alive(s, p.stage), NEW f, f = PollNow(s, v, p)
    PROVE  f.sched \in Schedules /\ HasStage(f.poll) /\ Alive(f.sched, f.poll.stage)
<1>1. CASE CanRun(s) /\ p.stage # "idle"
  <2> DEFINE t == [s EXCEPT !.again = TRUE]
  <2>1. f.sched = t /\ f.poll = p
    BY <1>1 DEF PollNow
  <2>2. /\ t \in Schedules /\ t.running = s.running /\ t.visible = s.visible /\ t.dead = s.dead
        /\ t.paused = s.paused /\ t.timer = s.timer /\ t.wake = s.wake
    BY DEF Schedules
  <2> HIDE DEF t
  <2> QED BY <2>1, <2>2 DEF Alive, CanRun
<1>2. CASE ~CanRun(s)
  <2>1. ~s.timer
    BY <1>2 DEF Alive
  <2> QED BY <1>2, <2>1, FireAlive DEF PollNow, Alive, Pauses
<1>3. CASE CanRun(s) /\ p.stage = "idle"
  <2>1. f = Fired(s, v)
    BY <1>3 DEF PollNow, Fire
  <2> DEFINE t == [s EXCEPT !.timer = FALSE]
             q == [stage |-> "sent", query |-> ScreenQuery(v.at), current |-> TRUE]
  <2>2. f.sched = t /\ f.poll = q
    BY <1>3, <2>1 DEF Fired
  <2>3. /\ t \in Schedules /\ t.running = s.running /\ t.visible = s.visible /\ t.dead = s.dead
        /\ t.paused = s.paused /\ t.timer = FALSE /\ t.wake = s.wake
    BY DEF Schedules
  <2>4. HasStage(q) /\ q.stage = "sent"
    BY DEF HasStage, PollStages
  <2> HIDE DEF t, q
  <2> QED BY <1>3, <2>2, <2>3, <2>4 DEF Alive, CanRun
<1> QED BY <1>1, <1>2, <1>3

\* A status of 401 stops the schedule, one of 429 pauses it (noteStatus).
LEMMA StatusAlive ==
    ASSUME NEW s \in Schedules, NEW stage, Alive(s, stage), NEW code, NEW f, f = NoteStatus(s, code)
    PROVE  f \in Schedules /\ Alive(f, stage)
<1>1. CASE code = 401
  <2>1. f = [[s EXCEPT !.running = FALSE, !.timer = FALSE, !.wake = FALSE] EXCEPT !.dead = TRUE]
    BY <1>1 DEF NoteStatus, Stopped
  <2>2. f \in Schedules /\ ~f.running /\ ~f.timer /\ ~f.wake
    BY <2>1 DEF Schedules
  <2> QED BY <2>2 DEF Alive, CanRun
<1>2. CASE code = 429
  <2>1. f = [s EXCEPT !.paused = TRUE, !.timer = FALSE, !.wake = TRUE]
    BY <1>2 DEF NoteStatus
  <2>2. f \in Schedules /\ f.paused /\ ~f.timer /\ f.wake
    BY <2>1 DEF Schedules
  <2> QED BY <2>2 DEF Alive, CanRun
<1>3. CASE code \notin {401, 429}
  BY <1>3 DEF NoteStatus
<1> QED BY <1>1, <1>2, <1>3

\* After a poll the next one follows at once, or its timer is set.
LEMMA SettledAlive ==
    ASSUME NEW s \in Schedules, NEW v, Alive(s, "answered"), NEW f, f = SettledPoll(s, v)
    PROVE  f.sched \in Schedules /\ HasStage(f.poll) /\ Alive(f.sched, f.poll.stage)
<1> DEFINE t == [s EXCEPT !.again = FALSE]
<1>1. /\ t \in Schedules /\ t.running = s.running /\ t.visible = s.visible /\ t.dead = s.dead
      /\ t.paused = s.paused /\ t.timer = s.timer /\ t.wake = s.wake
  BY DEF Schedules
<1>2. ~s.timer /\ Pauses(s)
  BY DEF Alive, Pauses
<1>3. ~t.timer /\ Pauses(t)
  BY <1>1, <1>2 DEF Pauses
<1>4. CASE s.again
  <2>1. f = Fired(t, v)
    BY <1>4 DEF SettledPoll
  <2> HIDE DEF t
  <2> QED BY <1>1, <1>3, <2>1, FiredAlive
<1>5. CASE ~s.again
  <2>1. f.sched = Arm(t) /\ f.poll = Idle
    BY <1>5 DEF SettledPoll
  <2> HIDE DEF t
  <2> DEFINE u == [t EXCEPT !.timer = CanRun(t)]
  <2>2. CanRun(t) \in BOOLEAN
    BY <1>1 DEF CanRun, Schedules
  <2>3. /\ u \in Schedules /\ u.running = t.running /\ u.visible = t.visible /\ u.dead = t.dead
        /\ u.paused = t.paused /\ u.timer = CanRun(t) /\ u.wake = t.wake
    BY <1>1, <2>2 DEF Schedules
  <2>4. f.sched = u
    BY <2>1 DEF Arm
  <2>5. HasStage(Idle) /\ Idle.stage = "idle"
    BY DEF Idle, HasStage, PollStages
  <2>6. CanRun(u) = CanRun(t)
    BY <2>3 DEF CanRun
  <2> HIDE DEF u
  <2> QED BY <1>3, <2>1, <2>3, <2>4, <2>5, <2>6 DEF Alive, Pauses
<1> QED BY <1>4, <1>5

\* What is in flight stays in flight when its answer no longer counts.
LEMMA ResetStage ==
    ASSUME NEW v, NEW p, HasStage(p), NEW q, q \in {ResetPoll(v, p), Overtaken(p)}
    PROVE  HasStage(q) /\ q.stage = p.stage
<1>1. CASE q = p
  BY <1>1
<1>2. CASE q = [p EXCEPT !.current = FALSE]
  BY <1>2 DEF HasStage
<1> QED BY <1>1, <1>2 DEF ResetPoll, Overtaken

\* The error of an input is noted by the schedule.
LEMMA FailsLive ==
    ASSUME Live, NEW item, NEW code, Fails(item, code)
    PROVE  Live'
<1>1. sched' = NoteStatus(sched, code)
  BY DEF Fails
<1>2. sched' \in Schedules /\ Alive(sched', poll.stage)
  BY <1>1, StatusAlive DEF Live
<1>3. HasStage(poll') /\ poll'.stage = poll.stage
  BY ResetStage DEF Fails, Live
<1> QED BY <1>2, <1>3 DEF Live

\* A poll goes from one stage of its flight to the next.
LEMMA InFlight ==
    ASSUME Live, poll.stage # "idle", sched' = sched, HasStage(poll'), poll'.stage # "idle"
    PROVE  Live'
BY DEF Live, Alive

\* Every step leaves the schedule a poll, a timer or a reason for neither.
LEMMA LiveStep ==
    ASSUME Live, [Next]_vars
    PROVE  Live'
<1>1. ASSUME UNCHANGED <<sched, poll>>
      PROVE  Live'
  BY <1>1 DEF Live
<1>2. CASE Desktop
  BY <1>1, <1>2 DEF Desktop, DesktopOnly, ShellEnds, Output, TabLetsGo, Restart, CloseTab, Resize, Unpair
<1>3. CASE PollArrives \/ PollAnswered \/ PollFails
  <2>1. sched' = sched /\ poll.stage # "idle"
    BY <1>3 DEF PollArrives, PollAnswered, PollFails
  <2>2. HasStage(poll') /\ poll'.stage # "idle"
    BY <1>3 DEF PollArrives, PollAnswered, PollFails, TooMany, Lost, HasStage, PollStages
  <2> QED BY <2>1, <2>2, InFlight
<1>4. CASE PollSettles
  <2>1. PICK code, v :
          /\ poll.stage = "answered"
          /\ \/ sched' = SettledPoll(sched, v).sched /\ poll' = SettledPoll(sched, v).poll
             \/ /\ sched' = SettledPoll(NoteStatus(sched, code), v).sched
                /\ poll' = SettledPoll(NoteStatus(sched, code), v).poll
    BY <1>4 DEF PollSettles
  <2>2. NoteStatus(sched, code) \in Schedules /\ Alive(NoteStatus(sched, code), "answered")
    BY <2>1, StatusAlive DEF Live
  <2>3. sched \in Schedules /\ Alive(sched, "answered")
    BY <2>1 DEF Live
  <2>4. sched' \in Schedules /\ HasStage(poll') /\ Alive(sched', poll'.stage)
    BY <2>1, <2>2, <2>3, SettledAlive
  <2> QED BY <2>4 DEF Live
<1>5. CASE PollDue
  <2> DEFINE t == [sched EXCEPT !.timer = FALSE]
  <2>1. sched' = Fire(t, view, poll).sched /\ poll' = Fire(t, view, poll).poll
    BY <1>5 DEF PollDue
  <2>2. t \in Schedules /\ ~t.timer /\ Pauses(t)
    BY DEF Schedules, Live, Alive, Pauses
  <2> HIDE DEF t
  <2>3. sched' \in Schedules /\ HasStage(poll') /\ Alive(sched', poll'.stage)
    BY <2>1, <2>2, FireAlive DEF Live
  <2> QED BY <2>3 DEF Live
<1>6. CASE PauseEnds
  <2> DEFINE t == [sched EXCEPT !.wake = FALSE, !.paused = FALSE]
  <2>1. sched.wake /\ sched' = Fire(t, view, poll).sched /\ poll' = Fire(t, view, poll).poll
    BY <1>6 DEF PauseEnds
  <2>2. ~sched.timer
    BY <2>1 DEF Live, Alive, CanRun
  <2>3. t \in Schedules /\ ~t.timer /\ Pauses(t)
    BY <2>2 DEF Schedules, Live, Pauses
  <2> HIDE DEF t
  <2>4. sched' \in Schedules /\ HasStage(poll') /\ Alive(sched', poll'.stage)
    BY <2>1, <2>3, FireAlive DEF Live
  <2> QED BY <2>4 DEF Live
<1>7. CASE FirstWritten \/ PostFails \/ \E r \in requests : PostArrives(r) \/ PostWritten(r)
  BY <1>1, <1>7 DEF FirstWritten, PostFails, PostArrives, PostWritten
<1>8. CASE PostSucceeded \/ PostFailed \/ DelayEnds
  <2>1. \/ UNCHANGED <<sched, poll>>
        \/ \E item, code : Fails(item, code)
        \/ sched' = PollNow(sched, view, poll).sched /\ poll' = PollNow(sched, view, poll).poll
    BY <1>8 DEF PostSucceeded, PostFailed, DelayEnds
  <2>2. ASSUME sched' = PollNow(sched, view, poll).sched, poll' = PollNow(sched, view, poll).poll
        PROVE  Live'
    <3>1. sched' \in Schedules /\ HasStage(poll') /\ Alive(sched', poll'.stage)
      BY <2>2, PollNowAlive DEF Live
    <3> QED BY <3>1 DEF Live
  <2> QED BY <1>1, <2>1, <2>2, FailsLive
<1>9. ASSUME NEW visible \in BOOLEAN, SetVisible(visible)
      PROVE  Live'
  <2> DEFINE t == [sched EXCEPT !.visible = visible, !.timer = visible /\ @]
  <2>1. /\ sched.visible # visible
        /\ visible => sched' = Fire(t, view, poll).sched /\ poll' = Fire(t, view, poll).poll
        /\ ~visible => sched' = t /\ poll' = poll
    BY <1>9 DEF SetVisible
  <2>2. visible => ~sched.timer
    BY <2>1 DEF Live, Alive, CanRun, Schedules
  <2>3. t \in Schedules /\ ~t.timer /\ Pauses(t) /\ t.visible = visible
    BY <2>2 DEF Schedules, Live, Alive, Pauses
  <2> HIDE DEF t
  <2>4. CASE visible
    <3>1. sched' \in Schedules /\ HasStage(poll') /\ Alive(sched', poll'.stage)
      BY <2>1, <2>3, <2>4, FireAlive DEF Live
    <3> QED BY <3>1 DEF Live
  <2>5. CASE ~visible
    BY <2>1, <2>3, <2>5 DEF Live, Alive, Pauses, CanRun
  <2> QED BY <2>4, <2>5
<1>10. CASE Refresh
  <2>1. PICK v, q : /\ q = ResetPoll(view, poll)
                    /\ sched' = PollNow(sched, v, q).sched /\ poll' = PollNow(sched, v, q).poll
    BY <1>10 DEF Refresh
  <2>2. HasStage(q) /\ q.stage = poll.stage
    BY <2>1, ResetStage DEF Live
  <2>3. sched' \in Schedules /\ HasStage(poll') /\ Alive(sched', poll'.stage)
    BY <2>1, <2>2, PollNowAlive DEF Live
  <2> QED BY <2>3 DEF Live
<1>11. CASE Dispose
  <2>1. sched' = Stopped(sched) /\ poll' = Overtaken(poll)
    BY <1>11 DEF Dispose
  <2>2. sched' \in Schedules /\ ~sched'.running /\ ~sched'.timer /\ ~sched'.wake
    BY <2>1 DEF Stopped, Schedules, Live
  <2>3. HasStage(poll') /\ poll'.stage = poll.stage
    BY <2>1, ResetStage DEF Live
  <2> QED BY <2>2, <2>3 DEF Live, Alive, CanRun
<1>12. CASE Type \/ Send \/ PressKey
  BY <1>1, <1>12 DEF Type, Send, PressKey, Uses
<1>13. CASE UNCHANGED vars
  BY <1>1, <1>13 DEF vars
<1> QED BY <1>2, <1>3, <1>4, <1>5, <1>6, <1>7, <1>8, <1>9, <1>10, <1>11, <1>12, <1>13
        DEF Next, Polling, Posting, User

-----------------------------------------------------------------------------
(* The inputs. *)

\* Inputs have the number of the use that made them, and their kind.
LEMMA ItemsTyped ==
    ASSUME NEW n \in Nat, NEW b \in Nat
    PROVE  /\ TextItem(n, b) \in Items /\ EnterItem(n) \in Items /\ KeyItem(n) \in Items
           /\ TextItem(n, b).id = n /\ EnterItem(n).id = n /\ KeyItem(n).id = n
           /\ TextItem(n, b).key = "text" /\ EnterItem(n).key = "enter" /\ KeyItem(n).key = "key"
BY DEF TextItem, EnterItem, KeyItem, Items, Keys

\* What an input under way looks like, in the queue and on the desktop.
LEMMA PostTyped ==
    ASSUME NEW i \in Items
    PROVE  /\ Waiting(i) \in [stage : {"waiting", "delay"}, item : Items]
           /\ Waiting(i).stage = "waiting" /\ Waiting(i).item = i
           /\ Request(i).item = i /\ Request(i).found = FALSE
           /\ DOMAIN Request(i) = {"item", "session", "found"}
BY DEF Waiting, Request

\* What is under way, and what is not.
LEMMA PostIs ==
    ASSUME InputTypes
    PROVE  /\ post.stage \in PostStages
           /\ post.stage # "idle" => post.item \in Items
           /\ post.stage = "idle" => post = NoPost
           /\ post.stage = "answered" => post.code \in Nat
BY DEF InputTypes, NoPost, PostStages

\* What was read and what is queued are inputs.
LEMMA ElementsTyped ==
    ASSUME InputTypes
    PROVE  /\ \A k \in 1..Len(typed) : /\ typed[k] \in ReadItems /\ typed[k].item \in Items
                                     /\ typed[k].item.id \in Nat
           /\ \A k \in 1..Len(queue) : queue[k] \in Items /\ queue[k].id \in Nat
<1>1. \A k \in 1..Len(typed) : typed[k] \in ReadItems
  BY DEF InputTypes
<1>2. \A k \in 1..Len(queue) : queue[k] \in Items
  BY DEF InputTypes
<1> QED BY <1>1, <1>2 DEF ReadItems, Items

\* What no use of a control has made is nowhere.
LEMMA FreshIs ==
    ASSUME Inputs, NEW i \in Items, i.id = inputs + 1
    PROVE  ~Left(i) /\ \A k \in 1..Len(queue) : queue[k] # i
<1>1. inputs + 1 > inputs
  BY DEF Inputs, InputTypes
<1>2. \A k \in 1..Len(typed) : typed[k].item.id \in Nat
  BY ElementsTyped DEF Inputs
<1> QED BY <1>1, <1>2, SMTT(60) DEF Inputs, Made, Left, Read, InputTypes, Items

\* Nothing that matters to the inputs happens.
LEMMA InputsKept ==
    ASSUME Inputs, UNCHANGED <<typed, queue, inputs, post, requests>>, box' \in Nat,
           tab' \in [session : 0..MaxSession, started : 0..MaxSession, gone : BOOLEAN, size : Nat]
    PROVE  Inputs'
<1>1. InputTypes'
  BY DEF Inputs, InputTypes
<1>2. Once'
  BY DEF Inputs, Once, Left, Read
<1>3. Made'
  BY DEF Inputs, Made
<1>4. Ordered'
  BY DEF Inputs, Ordered, Read, TextRead
<1> QED BY <1>1, <1>2, <1>3, <1>4 DEF Inputs

\* The queue is emptied, and perhaps nothing is under way any more.
LEMMA Emptied ==
    ASSUME Inputs, UNCHANGED <<typed, inputs, requests, tab>>, queue' = <<>>, box' \in Nat,
           post' = post \/ post' = NoPost
    PROVE  Inputs'
<1>0. Len(queue') = 0 /\ queue' \in Seq(Items)
  OBVIOUS
<1>1. InputTypes'
  BY <1>0 DEF Inputs, InputTypes
<1>2. Once'
  BY <1>0 DEF Inputs, Once, Left, Read, NoPost
<1>3. Made'
  BY <1>0 DEF Inputs, Made, NoPost
<1>4. Ordered'
  BY <1>0, SMTT(60) DEF Inputs, Ordered, Read, TextRead, NoPost
<1> QED BY <1>1, <1>2, <1>3, <1>4 DEF Inputs

\* An input that fails takes the rest of the queue with it (reportInputError).
LEMMA FailsStep ==
    ASSUME Inputs, NEW item \in Items, NEW code, Fails(item, code), UNCHANGED <<typed, inputs, tab>>
    PROVE  Inputs'
<1>1. item.text \in Nat
  BY DEF Items
<1>2. box' \in Nat
  BY <1>1 DEF Fails, Inputs, InputTypes
<1> QED BY <1>2, Emptied DEF Fails

\* The page hears of a request, or not: the item under way stays the same, and
\* a request that is answered 200 has been read.
LEMMA HeardStep ==
    ASSUME Inputs, UNCHANGED <<typed, queue, inputs, box, tab>>, NEW code \in Nat,
           \/ post' = post
           \/ /\ post.stage \in {"waiting", "answered"}
              /\ post' = [stage |-> "answered", item |-> post.item, code |-> code]
              /\ code = 200 => Read(post.item),
           requests' \subseteq requests
    PROVE  Inputs'
<1> USE DEF Inputs
<1>1. /\ post'.stage # "idle" <=> post.stage # "idle"
      /\ post.stage # "idle" => post'.item = post.item
      /\ post'.stage = "delay" <=> post.stage = "delay"
      /\ post.stage \in {"waiting", "answered"} => post'.stage \in {"waiting", "answered"}
      /\ post'.stage = "answered" /\ post'.code = 200 => Read(post.item)
  BY PostIs DEF Ordered, PostStages
<1>2. InputTypes'
  BY PostIs DEF InputTypes
<1>3. Once'
  BY <1>1 DEF Once, Left, Read
<1>4. Made'
  BY <1>1 DEF Made
<1>5. Ordered'
  BY <1>1 DEF Ordered, Read, TextRead
<1> QED BY <1>2, <1>3, <1>4, <1>5

\* An answer reaches the page, or is not waited for any more.
LEMMA AnsweredIs ==
    ASSUME Inputs, NEW r \in requests, NEW code, Answered(r, code)
    PROVE  \/ post' = post
           \/ /\ post.stage \in {"waiting", "answered"} /\ post.item = r.item
              /\ post' = [stage |-> "answered", item |-> post.item, code |-> code]
<1>1. r.item \in Items
  BY DEF Inputs, InputTypes
<1> QED BY <1>1, PostTyped, ZenonT(60) DEF Answered

\* The desktop looks up the session of a request, or refuses.
LEMMA PostArrivesStep ==
    ASSUME Inputs, NEW r \in requests, PostArrives(r)
    PROVE  Inputs'
<1> USE DEF Inputs
<1>1. UNCHANGED <<typed, queue, inputs, box, tab>>
  BY DEF PostArrives, desktopVars
<1>2. ASSUME NEW code \in Nat, code # 0, code # 200, requests' = requests \ {r}, Answered(r, code)
      PROVE  Inputs'
  BY <1>1, <1>2, AnsweredIs, HeardStep
<1>3. ASSUME r.session = tab.session, tab.session # 0,
             requests' = (requests \ {r}) \cup {[r EXCEPT !.found = TRUE]}, post' = post
      PROVE  Inputs'
  <2> DEFINE q == [r EXCEPT !.found = TRUE]
  <2>1. /\ DOMAIN q = {"item", "session", "found"} /\ q.item = r.item /\ q.session = r.session
        /\ q.found = TRUE /\ r.item \in Items
    BY DEF InputTypes
  <2>2. q.session \in Sessions
    BY <1>3, <2>1 DEF InputTypes, Sessions
  <2>3. requests' = (requests \ {r}) \cup {q}
    BY <1>3
  <2> HIDE DEF q
  <2>4. InputTypes'
    BY <1>1, <1>3, <2>1, <2>2, <2>3 DEF InputTypes
  <2>5. \A i : Read(i)' <=> Read(i)
    BY <1>1 DEF Read
  <2>6. \A i : Left(i)' <=> Left(i)
    BY <2>1, <2>3, <2>5 DEF Left
  <2>7. Once'
    BY <1>1, <1>3, <2>1, <2>3, <2>5, <2>6 DEF Once
  <2>8. Made'
    BY <1>1, <1>3, <2>1, <2>3 DEF Made
  <2>9. Ordered'
    BY <1>1, <1>3, <2>1, <2>3, <2>5 DEF Ordered, TextRead
  <2> QED BY <2>4, <2>7, <2>8, <2>9
<1>4. Refusal \in {0, 401, 404, 409} /\ (Refusal = 0 => tab.session # 0)
  BY DEF Refusal
<1> QED BY <1>2, <1>3, <1>4 DEF PostArrives

\* The shell reads an input.
LEMMA PostWrittenStep ==
    ASSUME Inputs, NEW r \in requests, PostWritten(r)
    PROVE  Inputs'
<1> USE DEF Inputs
<1>1. UNCHANGED <<queue, inputs, box, tab>> /\ requests' = requests \ {r}
  BY DEF PostWritten
<1>2. CASE r.session \in dead
  BY <1>1, <1>2, AnsweredIs, HeardStep DEF PostWritten
<1>3. CASE r.session \notin dead
  <2> DEFINE e == [item |-> r.item, session |-> r.session]
             n == Len(typed)
  <2>1. Answered(r, 200) /\ typed' = Append(typed, e)
    BY <1>3 DEF PostWritten
  <2>2. e \in ReadItems /\ e.item = r.item /\ r.item \in Items
    BY DEF PostWritten, InputTypes, ReadItems
  <2>3. /\ typed' \in Seq(ReadItems) /\ Len(typed') = n + 1 /\ n \in Nat
        /\ \A k \in 1..n : typed'[k] = typed[k]
        /\ typed'[n + 1] = e
    BY <2>1, <2>2 DEF InputTypes
  <2> HIDE DEF e
  <2>4. /\ \A i : Read(i)' <=> Read(i) \/ i = r.item
        /\ \A id : TextRead(id) => TextRead(id)'
    BY <2>2, <2>3 DEF Read, TextRead
  <2>5. \A i : Left(i)' => Left(i)
    BY <1>1, <2>4 DEF Left
  <2>6. /\ post'.stage # "idle" <=> post.stage # "idle"
        /\ post.stage # "idle" => post'.item = post.item
        /\ post'.stage = "delay" <=> post.stage = "delay"
        /\ post.stage \in {"waiting", "answered"} => post'.stage \in {"waiting", "answered"}
        /\ post'.stage = "answered" /\ post'.code = 200 => Read(post.item)'
    BY <2>1, <2>4, AnsweredIs, PostIs DEF Ordered, PostStages
  <2>7. InputTypes'
    BY <1>1, <2>1, <2>3, AnsweredIs, PostIs DEF InputTypes
  <2>8. Once'
    <3>1. \A j, k \in 1..Len(typed') : typed'[j].item = typed'[k].item => j = k
      BY <2>2, <2>3 DEF Once, Read
    <3>2. \A q \in requests' : ~Read(q.item)'
      BY <1>1, <2>4 DEF Once
    <3> QED BY <1>1, <2>5, <2>6, <3>1, <3>2 DEF Once
  <2>9. Made'
    BY <1>1, <2>2, <2>3, <2>6 DEF Made
  <2>10. Ordered'
    <3>1. \A k \in 1..Len(typed') : typed'[k].item.key = "enter" =>
            \E j \in 1..(k - 1) : typed'[j].item.key = "text" /\ typed'[j].item.id = typed'[k].item.id
      <4> SUFFICES ASSUME NEW k \in 1..(n + 1), typed'[k].item.key = "enter"
                   PROVE  \E j \in 1..(k - 1) :
                            typed'[j].item.key = "text" /\ typed'[j].item.id = typed'[k].item.id
        BY <2>3
      <4>1. CASE k \in 1..n
        <5>1. typed'[k] = typed[k]
          BY <2>3, <4>1
        <5>2. PICK j \in 1..(k - 1) : typed[j].item.key = "text" /\ typed[j].item.id = typed[k].item.id
          BY <4>1, <5>1 DEF Ordered
        <5>3. j \in 1..n /\ typed'[j] = typed[j]
          BY <2>3, <4>1, <5>2
        <5> QED BY <5>1, <5>2, <5>3
      <4>2. CASE k = n + 1
        <5>1. PICK j \in 1..n : typed[j].item.key = "text" /\ typed[j].item.id = r.item.id
          BY <2>2, <2>3, <4>2 DEF Ordered, TextRead
        <5>2. typed'[j] = typed[j] /\ j \in 1..(k - 1)
          BY <2>3, <4>2, <5>1
        <5> QED BY <2>2, <2>3, <4>2, <5>1, <5>2
      <4> QED BY <2>3, <4>1, <4>2
    <3>2. \A q \in requests' : q.item.key = "enter" => TextRead(q.item.id)'
      BY <1>1, <2>4 DEF Ordered
    <3>3. \A k \in 1..Len(queue') : queue'[k].key = "enter" =>
            IF k = 1 THEN /\ post'.stage \in {"waiting", "answered"}
                          /\ post'.item.key = "text" /\ post'.item.id = queue'[1].id
                     ELSE queue'[k - 1].key = "text" /\ queue'[k - 1].id = queue'[k].id
      BY <1>1, <2>6 DEF Ordered
    <3>4. post'.stage # "idle" /\ post'.item.key = "enter" => TextRead(post.item.id)'
      BY <2>4, <2>6 DEF Ordered
    <3> QED BY <2>6, <3>1, <3>2, <3>3, <3>4 DEF Ordered
  <2> QED BY <2>7, <2>8, <2>9, <2>10
<1> QED BY <1>2, <1>3

\* A request is refused or lost, before or after it was read.
LEMMA PostFailsStep ==
    ASSUME Inputs, PostFails
    PROVE  Inputs'
<1>1. PICK code \in {0, 429} :
        /\ post.stage \in {"waiting", "answered"} /\ requests' \subseteq requests
        /\ post' = [stage |-> "answered", item |-> post.item, code |-> code]
  BY DEF PostFails
<1>2. UNCHANGED <<typed, queue, inputs, box, tab>>
  BY DEF PostFails, desktopVars
<1> QED BY <1>1, <1>2, HeardStep

\* What waits behind an item of key `key` and number `id` in a queue.
Behind(q, may, id) ==
    \A k \in 1..Len(q) : q[k].key = "enter" =>
        IF k = 1 THEN may /\ id = q[1].id
                 ELSE q[k - 1].key = "text" /\ q[k - 1].id = q[k].id

\* An item leaves the page.
LEMMA LeavesStep ==
    ASSUME Inputs, NEW i \in Items, Posts(i), ~Left(i), UNCHANGED <<typed, tab>>, box' \in Nat,
           inputs' \in Nat, inputs <= inputs', i.id <= inputs',
           NEW q \in Seq(Items), queue' = q,
           \A k \in 1..Len(q) : q[k] # i /\ ~Left(q[k]) /\ q[k].id <= inputs',
           \A j, k \in 1..Len(q) : q[j] = q[k] => j = k,
           i.key = "enter" => TextRead(i.id),
           Behind(q, i.key = "text", i.id)
    PROVE  Inputs'
<1> USE DEF Inputs
<1>1. post' = Waiting(i) /\ requests' = requests \cup {Request(i)}
  BY DEF Posts
<1>2. post'.stage = "waiting" /\ post'.item = i
  BY <1>1, PostTyped
<1>3. InputTypes'
  <2>1. post' \in [stage : {"waiting", "delay"}, item : Items]
    BY <1>1, PostTyped
  <2>2. /\ DOMAIN Request(i) = {"item", "session", "found"}
        /\ Request(i).item \in Items /\ Request(i).found = FALSE
    BY PostTyped
  <2>3. \A r \in requests' : /\ DOMAIN r = {"item", "session", "found"}
                             /\ r.item \in Items /\ r.found \in BOOLEAN
                             /\ r.found => r.session \in Sessions
    BY <1>1, <2>2 DEF InputTypes
  <2> QED BY <2>1, <2>3 DEF InputTypes
<1>4. /\ \A x : Read(x)' <=> Read(x)
      /\ \A id : TextRead(id)' <=> TextRead(id)
  BY DEF Read, TextRead
<1>5. \A x : Left(x)' <=> Left(x) \/ x = i
  BY <1>1, <1>4, PostTyped, ZenonT(60) DEF Left
<1>9. \A r \in requests' : \/ r \in requests /\ r.item # i
                           \/ r = Request(i) /\ r.item = i
  <2>1. Request(i).item = i
    BY PostTyped
  <2>2. \A r \in requests : r.item # i
    BY DEF Left
  <2> QED BY <1>1, <2>1, <2>2
<1>6. Once'
  <2>1. \A r \in requests' : ~Read(r.item)'
    BY <1>4, <1>9 DEF Once, Left
  <2>2. \A r, p \in requests' : r.item = p.item => r = p
    BY <1>9 DEF Once
  <2> QED BY <1>2, <1>5, <2>1, <2>2 DEF Once
<1>7. Made'
  <2>1. \A k \in 1..Len(typed') : typed'[k].item.id <= inputs'
    BY ElementsTyped DEF Made, InputTypes
  <2>2. \A r \in requests' : r.item.id <= inputs'
    <3> SUFFICES ASSUME NEW r \in requests' PROVE r.item.id <= inputs'
      OBVIOUS
    <3>1. CASE r \in requests
      <4>1. r.item.id \in Nat /\ r.item.id <= inputs /\ inputs \in Nat
        BY <3>1 DEF Made, InputTypes, Items
      <4> QED BY <4>1
    <3> QED BY <1>9, <3>1
  <2> QED BY <1>2, <2>1, <2>2 DEF Made
<1>8. Ordered'
  <2>1. \A r \in requests' : r.item.key = "enter" => TextRead(r.item.id)'
    BY <1>1, <1>4, PostTyped, ZenonT(60) DEF Ordered
  <2> QED BY <1>2, <1>4, <2>1 DEF Ordered, Behind
<1> QED BY <1>3, <1>6, <1>7, <1>8

\* What a use of a control puts in the queue.
NewItems(items) ==
    /\ items \in Seq(Items) /\ items # <<>> /\ items[1].key # "enter"
    /\ \A k \in 1..Len(items) : items[k].id = inputs + 1
    /\ \A j, k \in 1..Len(items) : items[j] = items[k] => j = k
    /\ \A k \in 2..Len(items) : items[k].key = "enter" => items[k - 1].key = "text"

\* A use of a control adds its inputs to the queue, and the first may go.
LEMMA PushedStep ==
    ASSUME Inputs, NEW items, NewItems(items), Pushed(items), inputs' = inputs + 1,
           UNCHANGED <<typed, tab>>, box' \in Nat
    PROVE  Inputs'
<1> USE DEF Inputs
<1>1. /\ items \in Seq(Items) /\ Len(items) \in Nat /\ Len(items) >= 1 /\ items[1] \in Items
      /\ \A k \in 1..Len(items) : items[k] \in Items /\ items[k].id = inputs + 1
      /\ \A k \in 1..Len(items) : ~Left(items[k]) /\ \A j \in 1..Len(queue) : queue[j] # items[k]
  BY FreshIs DEF NewItems
<1>2. inputs' \in Nat /\ inputs <= inputs' /\ inputs \in Nat
  BY DEF InputTypes
<1>3. CASE post.stage = "idle"
  <2>1. queue = <<>> /\ Posts(items[1]) /\ queue' = queue \o Tail(items)
    BY <1>1, <1>3 DEF Once, Pushed
  <2> DEFINE q == Tail(items)
  <2>2. /\ q \in Seq(Items) /\ queue' = q /\ Len(q) = Len(items) - 1
        /\ \A k \in 1..Len(q) : q[k] = items[k + 1] /\ k + 1 \in 1..Len(items)
    BY <1>1, <2>1
  <2> HIDE DEF q
  <2>3. \A k \in 1..Len(q) : q[k] # items[1] /\ ~Left(q[k]) /\ q[k].id <= inputs'
    <3> SUFFICES ASSUME NEW k \in 1..Len(q) PROVE q[k] # items[1] /\ ~Left(q[k]) /\ q[k].id <= inputs'
      OBVIOUS
    <3>1. k + 1 \in 1..Len(items) /\ q[k] = items[k + 1] /\ k + 1 # 1 /\ 1 \in 1..Len(items)
      BY <1>1, <2>2
    <3>2. q[k] # items[1]
      BY <3>1 DEF NewItems
    <3>3. q[k].id = inputs + 1 /\ ~Left(q[k])
      BY <1>1, <3>1
    <3> QED BY <1>2, <3>2, <3>3
  <2>4. \A j, k \in 1..Len(q) : q[j] = q[k] => j = k
    BY <1>1, <2>2, SMTT(60) DEF NewItems
  <2>5. Behind(q, items[1].key = "text", items[1].id)
    <3> SUFFICES ASSUME NEW k \in 1..Len(q), q[k].key = "enter"
                 PROVE  IF k = 1 THEN items[1].key = "text" /\ items[1].id = q[1].id
                                 ELSE q[k - 1].key = "text" /\ q[k - 1].id = q[k].id
      BY DEF Behind
    <3>1. k + 1 \in 2..Len(items) /\ q[k] = items[k + 1] /\ (k + 1) - 1 = k
      BY <1>1, <2>2
    <3>2. items[k].key = "text" /\ items[k].id = items[k + 1].id
      BY <1>1, <3>1 DEF NewItems
    <3>3. k # 1 => q[k - 1] = items[k]
      BY <1>1, <2>2
    <3> QED BY <3>1, <3>2, <3>3
  <2>6. /\ items[1] \in Items /\ ~Left(items[1]) /\ items[1].id <= inputs' /\ items[1].key # "enter"
    BY <1>1, <1>2 DEF NewItems
  <2> QED BY <1>2, <2>1, <2>2, <2>3, <2>4, <2>5, <2>6, LeavesStep
<1>4. CASE post.stage # "idle"
  <2> DEFINE n == Len(queue)
             q == queue \o items
  <2>1. queue' = q /\ UNCHANGED <<post, requests>>
    BY <1>4 DEF Pushed
  <2>2. /\ n \in Nat /\ q \in Seq(Items) /\ Len(q) = n + Len(items)
        /\ \A k \in 1..n : q[k] = queue[k]
        /\ \A k \in 1..Len(items) : q[n + k] = items[k]
    BY <1>1 DEF InputTypes
  <2> HIDE DEF q, n
  <2>3. \A k \in 1..Len(q) : k \in 1..n \/ (k - n \in 1..Len(items) /\ q[k] = items[k - n])
    BY <1>1, <2>2
  <2>4. InputTypes'
    BY <1>2, <2>1, <2>2 DEF InputTypes
  <2>5. /\ \A x : Read(x)' <=> Read(x)
        /\ \A x : Left(x)' <=> Left(x)
        /\ \A id : TextRead(id)' <=> TextRead(id)
    BY <2>1 DEF Read, Left, TextRead
  <2>6. \A j, k \in 1..Len(q) : q[j] = q[k] => j = k
    <3>1. ASSUME NEW j \in 1..Len(q), NEW k \in 1..Len(q), q[j] = q[k], j \in 1..n
          PROVE  j = k
      <4>1. k \in 1..n
        <5>1. q[j] = queue[j] /\ j \in 1..Len(queue)
          BY <2>2, <3>1 DEF n
        <5>2. CASE k - n \in 1..Len(items) /\ q[k] = items[k - n]
          BY <1>1, <3>1, <5>1, <5>2
        <5> QED BY <2>3, <5>2
      <4> QED BY <2>2, <3>1, <4>1 DEF Once, n
    <3>2. ASSUME NEW j \in 1..Len(q), NEW k \in 1..Len(q), q[j] = q[k], j \notin 1..n, k \notin 1..n
          PROVE  j = k
      <4>1. j - n \in 1..Len(items) /\ k - n \in 1..Len(items) /\ items[j - n] = items[k - n]
        BY <2>3, <3>2
      <4>2. j - n = k - n
        BY <4>1 DEF NewItems
      <4> QED BY <2>2, <3>2, <4>2
    <3> QED BY <3>1, <3>2
  <2>7. \A k \in 1..Len(q) : ~Left(q[k])
    BY <1>1, <2>2, <2>3 DEF Once, n
  <2>8. post.stage = "delay" => \A k \in 1..Len(q) : q[k] # post.item
    <3>1. post.item \in Items /\ post.item.id <= inputs
      BY <1>4, PostIs DEF Made
    <3>2. \A k \in 1..Len(items) : items[k] # post.item
      BY <1>1, <1>2, <3>1
    <3>3. post.stage = "delay" => \A k \in 1..n : queue[k] # post.item
      BY DEF Once, n
    <3> QED BY <2>2, <2>3, <3>2, <3>3
  <2>9. Once'
    BY <1>4, <2>1, <2>5, <2>6, <2>7, <2>8 DEF Once
  <2>10. Made'
    <3>1. \A k \in 1..Len(q) : q[k].id <= inputs'
      <4> SUFFICES ASSUME NEW k \in 1..Len(q) PROVE q[k].id <= inputs'
        OBVIOUS
      <4>1. CASE k \in 1..n
        BY <1>2, <2>2, <4>1, ElementsTyped DEF Made, n
      <4>2. CASE k - n \in 1..Len(items) /\ q[k] = items[k - n]
        BY <1>1, <1>2, <4>2
      <4> QED BY <2>3, <4>1, <4>2
    <3>2. \A k \in 1..Len(typed') : typed'[k].item.id <= inputs'
      BY <1>2, ElementsTyped DEF Made
    <3>3. \A r \in requests' : r.item.id <= inputs'
      BY <1>2, <2>1 DEF Made, InputTypes, Items
    <3>4. post'.item.id <= inputs'
      BY <1>2, <1>4, <2>1, PostIs DEF Made, Items
    <3> QED BY <2>1, <3>1, <3>2, <3>3, <3>4 DEF Made
  <2>11. Ordered'
    <3>1. ASSUME NEW k \in 1..Len(q), q[k].key = "enter"
          PROVE  IF k = 1 THEN /\ post.stage \in {"waiting", "answered"}
                               /\ post.item.key = "text" /\ post.item.id = q[1].id
                          ELSE q[k - 1].key = "text" /\ q[k - 1].id = q[k].id
      <4>1. CASE k \in 1..n
        <5>1. q[k] = queue[k] /\ (k # 1 => q[k - 1] = queue[k - 1])
          BY <2>2, <4>1
        <5> QED BY <3>1, <4>1, <5>1 DEF Ordered, n
      <4>2. CASE k - n \in 1..Len(items) /\ q[k] = items[k - n]
        <5>1. k - n \in 2..Len(items)
          BY <1>1, <2>2, <3>1, <4>2 DEF NewItems
        <5>a. (k - n) - 1 \in 1..Len(items) /\ k - 1 = n + ((k - n) - 1)
          BY <1>1, <2>2, <5>1
        <5>b. q[n + ((k - n) - 1)] = items[(k - n) - 1]
          BY <2>2, <5>a
        <5>2. /\ (k - n) - 1 \in 1..Len(items) /\ k - 1 = n + ((k - n) - 1)
              /\ q[k - 1] = items[(k - n) - 1]
          BY <5>a, <5>b
        <5>3. items[(k - n) - 1].key = "text"
          BY <3>1, <4>2, <5>1 DEF NewItems
        <5>4. q[k - 1].id = q[k].id
          BY <1>1, <4>2, <5>2
        <5>5. k # 1
          BY <2>2, <5>1
        <5> QED BY <5>2, <5>3, <5>4, <5>5
      <4> QED BY <2>3, <4>1, <4>2
    <3> QED BY <1>4, <2>1, <2>5, <3>1 DEF Ordered
  <2> QED BY <2>4, <2>9, <2>10, <2>11
<1> QED BY <1>3, <1>4

\* The head of the queue, and what stays behind it.
LEMMA HeadIs ==
    ASSUME Inputs, queue # <<>>, NEW q, q = Tail(queue)
    PROVE  /\ Head(queue) = queue[1] /\ queue[1] \in Items /\ 1 \in 1..Len(queue)
           /\ ~Left(queue[1]) /\ queue[1].id <= inputs
           /\ q \in Seq(Items)
           /\ \A k \in 1..Len(q) : q[k] # queue[1] /\ ~Left(q[k]) /\ q[k].id <= inputs
           /\ \A j, k \in 1..Len(q) : q[j] = q[k] => j = k
           /\ Behind(q, queue[1].key = "text", queue[1].id)
<1> USE DEF Inputs
<1>1. queue \in Seq(Items) /\ Len(queue) \in Nat /\ Len(queue) >= 1
  BY DEF InputTypes
<1>2. /\ q \in Seq(Items) /\ Len(q) = Len(queue) - 1
      /\ \A k \in 1..Len(q) : q[k] = queue[k + 1] /\ k + 1 \in 1..Len(queue) /\ k + 1 # 1
  BY <1>1
<1>3. Head(queue) = queue[1] /\ 1 \in 1..Len(queue) /\ queue[1] \in Items
  BY <1>1
<1>4. ~Left(queue[1]) /\ queue[1].id <= inputs
  BY <1>3 DEF Once, Made
<1>5. \A k \in 1..Len(q) : q[k] # queue[1] /\ ~Left(q[k]) /\ q[k].id <= inputs
  BY <1>2, <1>3 DEF Once, Made
<1>6. \A j, k \in 1..Len(q) : q[j] = q[k] => j = k
  <2> SUFFICES ASSUME NEW j \in 1..Len(q), NEW k \in 1..Len(q), q[j] = q[k]
               PROVE  j = k
    OBVIOUS
  <2>1. j + 1 = k + 1
    BY <1>2 DEF Once
  <2> QED BY <2>1
<1>7. Behind(q, queue[1].key = "text", queue[1].id)
  <2> SUFFICES ASSUME NEW k \in 1..Len(q), q[k].key = "enter"
               PROVE  IF k = 1 THEN queue[1].key = "text" /\ queue[1].id = q[1].id
                               ELSE q[k - 1].key = "text" /\ q[k - 1].id = q[k].id
    BY DEF Behind
  <2>1. k + 1 \in 1..Len(queue) /\ q[k] = queue[k + 1] /\ k + 1 # 1 /\ (k + 1) - 1 = k
    BY <1>2
  <2>2. queue[k].key = "text" /\ queue[k].id = queue[k + 1].id
    BY <2>1 DEF Ordered
  <2>3. k # 1 => k - 1 \in 1..Len(q) /\ q[k - 1] = queue[(k - 1) + 1] /\ (k - 1) + 1 = k
    BY <1>2
  <2> QED BY <2>1, <2>2, <2>3
<1> QED BY <1>2, <1>3, <1>4, <1>5, <1>6, <1>7

\* An input succeeded, and the next one leaves, or waits first (pump).
LEMMA PostSucceededStep ==
    ASSUME Inputs, PostSucceeded
    PROVE  Inputs'
<1> USE DEF Inputs
<1>1. /\ post.stage = "answered" /\ post.code = 200
      /\ UNCHANGED <<typed, inputs, tab>> /\ inputs \in Nat /\ box \in Nat
  BY DEF PostSucceeded, desktopVars, InputTypes
<1>2. CASE /\ queue = <<>> /\ post' = NoPost /\ UNCHANGED <<queue, requests, box>>
  BY <1>1, <1>2, Emptied
<1>3. ASSUME queue # <<>>, queue' = Tail(queue), UNCHANGED <<requests, box>>, Head(queue).key = "enter",
             post' = [stage |-> "delay", item |-> Head(queue)]
      PROVE  Inputs'
  <2> DEFINE i == queue[1]
             q == Tail(queue)
  <2>0. /\ Head(queue) = i /\ i \in Items /\ 1 \in 1..Len(queue) /\ ~Left(i) /\ i.id <= inputs
        /\ q \in Seq(Items)
        /\ \A k \in 1..Len(q) : q[k] # i /\ ~Left(q[k]) /\ q[k].id <= inputs
        /\ \A j, k \in 1..Len(q) : q[j] = q[k] => j = k
        /\ Behind(q, i.key = "text", i.id)
    BY <1>3, HeadIs
  <2>1. post'.stage = "delay" /\ post'.item = i /\ i.key = "enter"
    BY <1>3, <2>0
  <2>2. post' \in [stage : {"waiting", "delay"}, item : Items]
    BY <1>3, <2>0
  <2>3. post.item.key = "text" /\ post.item.id = i.id /\ Read(post.item)
    BY <1>1, <2>0, <2>1 DEF Ordered
  <2>4. TextRead(i.id)
    BY <2>3 DEF Read, TextRead
  <2>5. queue' = q
    BY <1>3
  <2> HIDE DEF i, q
  <2>6. /\ \A x : Read(x)' <=> Read(x)
        /\ \A x : Left(x)' <=> Left(x)
        /\ \A id : TextRead(id)' <=> TextRead(id)
    BY <1>1, <1>3 DEF Read, Left, TextRead
  <2>7. InputTypes'
    BY <1>1, <1>3, <2>0, <2>2, <2>5 DEF InputTypes
  <2>8. Once'
    BY <1>1, <1>3, <2>0, <2>1, <2>5, <2>6 DEF Once
  <2>9. Made'
    BY <1>1, <1>3, <2>0, <2>1, <2>5 DEF Made
  <2>10. Ordered'
    BY <1>1, <1>3, <2>0, <2>1, <2>4, <2>5, <2>6 DEF Ordered, Behind
  <2> QED BY <2>7, <2>8, <2>9, <2>10
<1>4. ASSUME queue # <<>>, queue' = Tail(queue), box' = box, Head(queue).key # "enter", Posts(Head(queue))
      PROVE  Inputs'
  <2> DEFINE i == queue[1]
             q == Tail(queue)
  <2>1. /\ Head(queue) = i /\ i \in Items /\ ~Left(i) /\ i.id <= inputs
        /\ q \in Seq(Items)
        /\ \A k \in 1..Len(q) : q[k] # i /\ ~Left(q[k]) /\ q[k].id <= inputs
        /\ \A j, k \in 1..Len(q) : q[j] = q[k] => j = k
        /\ Behind(q, i.key = "text", i.id)
    BY <1>4, HeadIs
  <2>2. queue' = q /\ Posts(i) /\ i.key # "enter" /\ box' \in Nat
    BY <1>1, <1>4, <2>1
  <2>3. inputs' \in Nat /\ inputs <= inputs' /\ i.id <= inputs'
        /\ \A k \in 1..Len(q) : q[k] # i /\ ~Left(q[k]) /\ q[k].id <= inputs'
    BY <1>1, <2>1
  <2> HIDE DEF i, q
  <2> QED BY <1>1, <2>1, <2>2, <2>3, LeavesStep
<1>5. ASSUME queue # <<>>, Fails(Head(queue), 0)
      PROVE  Inputs'
  <2>1. Head(queue) \in Items
    BY <1>5, HeadIs
  <2> QED BY <1>1, <1>5, <2>1, FailsStep
<1> QED BY <1>2, <1>3, <1>4, <1>5 DEF PostSucceeded

\* An input failed.
LEMMA PostFailedStep ==
    ASSUME Inputs, PostFailed
    PROVE  Inputs'
<1>1. post.stage = "answered" /\ Fails(post.item, post.code) /\ UNCHANGED <<typed, inputs, tab>>
  BY DEF PostFailed, desktopVars
<1>2. post.item \in Items
  BY <1>1, PostIs DEF Inputs
<1> QED BY <1>1, <1>2, FailsStep

\* The pause before an Enter ends.
LEMMA DelayEndsStep ==
    ASSUME Inputs, DelayEnds
    PROVE  Inputs'
<1> USE DEF Inputs
<1>1. post.stage = "delay" /\ UNCHANGED <<typed, inputs, tab>> /\ inputs \in Nat /\ box \in Nat
  BY DEF DelayEnds, desktopVars, InputTypes
<1>2. post.item \in Items
  BY <1>1, PostIs
<1>3. ASSUME Posts(post.item), UNCHANGED <<queue, box>>
      PROVE  Inputs'
  <2>1. ~Left(post.item) /\ post.item.id <= inputs
    BY <1>1 DEF Once, Made
  <2>2. queue \in Seq(Items)
    BY DEF InputTypes
  <2>3. \A k \in 1..Len(queue) : queue[k] # post.item /\ ~Left(queue[k]) /\ queue[k].id <= inputs
    BY <1>1 DEF Once, Made
  <2>4. \A j, k \in 1..Len(queue) : queue[j] = queue[k] => j = k
    BY DEF Once
  <2>5. post.item.key = "enter" => TextRead(post.item.id)
    BY <1>1 DEF Ordered
  <2>6. Behind(queue, post.item.key = "text", post.item.id)
    BY <1>1 DEF Ordered, Behind
  <2> QED BY <1>1, <1>2, <1>3, <2>1, <2>2, <2>3, <2>4, <2>5, <2>6, LeavesStep
<1>4. ASSUME Fails(post.item, 0)
      PROVE  Inputs'
  BY <1>1, <1>2, <1>4, FailsStep
<1> QED BY <1>3, <1>4 DEF DelayEnds

\* The text and the Enter of a Send, and a key alone.
LEMMA SendItems ==
    ASSUME Inputs, NEW t \in Nat
    PROVE  NewItems(<<TextItem(inputs + 1, t), EnterItem(inputs + 1)>>)
<1> DEFINE n == inputs + 1
           a == TextItem(n, t)
           b == EnterItem(n)
           items == <<a, b>>
<1>1. n \in Nat
  BY DEF Inputs, InputTypes
<1>2. a \in Items /\ b \in Items /\ a.id = n /\ b.id = n /\ a.key = "text" /\ b.key = "enter"
  BY <1>1, ItemsTyped
<1> HIDE DEF n, a, b
<1>3. items \in Seq(Items) /\ items # <<>> /\ Len(items) = 2 /\ items[1] = a /\ items[2] = b
  BY <1>2
<1> HIDE DEF items
<1>4. NewItems(items)
  BY <1>2, <1>3 DEF NewItems, n
<1> QED BY <1>4 DEF items, a, b, n

\* A key is one input.
LEMMA KeyItems ==
    ASSUME Inputs
    PROVE  NewItems(<<KeyItem(inputs + 1)>>)
<1> DEFINE n == inputs + 1
           a == KeyItem(n)
           items == <<a>>
<1>1. n \in Nat
  BY DEF Inputs, InputTypes
<1>2. a \in Items /\ a.id = n /\ a.key = "key"
  BY <1>1, ItemsTyped
<1> HIDE DEF n, a
<1>3. items \in Seq(Items) /\ items # <<>> /\ Len(items) = 1 /\ items[1] = a
  BY <1>2
<1> HIDE DEF items
<1>4. NewItems(items)
  BY <1>2, <1>3 DEF NewItems, n
<1> QED BY <1>4 DEF items, a, n

\* The user types, sends or presses a key.
LEMMA UserStep ==
    ASSUME Inputs, Type \/ Send \/ PressKey
    PROVE  Inputs'
<1> USE DEF Inputs
<1>1. /\ inputs' = inputs + 1 /\ inputs' \in Nat /\ inputs \in Nat /\ UNCHANGED <<typed, tab>> /\ box \in Nat
  BY DEF Type, Send, PressKey, Uses, desktopVars, InputTypes
<1>2. CASE Type
  <2>1. UNCHANGED <<queue, post, requests>> /\ box' \in Nat
    BY <1>1, <1>2 DEF Type
  <2>2. InputTypes'
    BY <1>1, <2>1 DEF InputTypes
  <2>3. Once'
    BY <1>1, <2>1 DEF Once, Left, Read
  <2>4. Made'
    <3>1. \A i \in Items : i.id <= inputs => i.id <= inputs'
      BY <1>1 DEF Items
    <3>2. post.stage # "idle" => post.item \in Items
      BY PostIs
    <3>3. \A r \in requests : r.item \in Items
      BY DEF InputTypes
    <3> QED BY <1>1, <2>1, <3>1, <3>2, <3>3, ElementsTyped DEF Made
  <2>5. Ordered'
    BY <1>1, <2>1, SMTT(60) DEF Ordered, Read, TextRead
  <2> QED BY <2>2, <2>3, <2>4, <2>5
<1>3. CASE Send
  <2>1. Pushed(<<TextItem(inputs + 1, box), EnterItem(inputs + 1)>>) /\ box' = 0
    BY <1>1, <1>3 DEF Send
  <2>2. NewItems(<<TextItem(inputs + 1, box), EnterItem(inputs + 1)>>)
    BY <1>1, SendItems
  <2> QED BY <1>1, <2>1, <2>2, PushedStep
<1>4. CASE PressKey
  <2>1. Pushed(<<KeyItem(inputs + 1)>>) /\ box' = box
    BY <1>1, <1>4 DEF PressKey
  <2> QED BY <1>1, <2>1, KeyItems, PushedStep
<1> QED BY <1>2, <1>3, <1>4

\* Every step keeps what is known of the inputs.
LEMMA InputsStep ==
    ASSUME Inputs, [Next]_vars
    PROVE  Inputs'
<1> DEFINE Tabs == [session : 0..MaxSession, started : 0..MaxSession, gone : BOOLEAN, size : Nat]
<1>0. tab \in Tabs /\ box \in Nat
  BY DEF Inputs, InputTypes
<1>1. CASE Desktop
  <2>1. UNCHANGED <<typed, queue, inputs, post, requests, box>>
    BY <1>1 DEF Desktop, DesktopOnly, ShellEnds, Output, TabLetsGo, Restart, CloseTab, Resize, Unpair, inputVars
  <2>2. tab' \in Tabs
    <3>1. \/ tab' = tab
          \/ tab' = [tab EXCEPT !.session = 0]
          \/ tab.started < MaxSession /\ tab' = [tab EXCEPT !.session = tab.started + 1, !.started = @ + 1]
          \/ tab' = [tab EXCEPT !.session = 0, !.gone = TRUE]
          \/ tab' = [tab EXCEPT !.size = @ + 1]
      BY <1>1 DEF Desktop, ShellEnds, Output, TabLetsGo, Restart, CloseTab, Resize, Unpair
    <3>2. MaxSession \in Nat
      BY RemoteAssumption
    <3>3. /\ 0 \in 0..MaxSession /\ TRUE \in BOOLEAN /\ tab.size + 1 \in Nat
          /\ tab.started < MaxSession => tab.started + 1 \in 0..MaxSession
      BY <1>0, <3>2
    <3>4. CASE tab.started < MaxSession /\ tab' = [tab EXCEPT !.session = tab.started + 1, !.started = @ + 1]
      BY <1>0, <3>3, <3>4
    <3>5. CASE tab' = [tab EXCEPT !.size = @ + 1]
      BY <1>0, <3>3, <3>5
    <3>6. CASE tab' = [tab EXCEPT !.session = 0] \/ tab' = [tab EXCEPT !.session = 0, !.gone = TRUE]
      BY <1>0, <3>3, <3>6
    <3> QED BY <1>0, <3>1, <3>4, <3>5, <3>6
  <2> QED BY <1>0, <2>1, <2>2, InputsKept
<1>2. CASE \/ Polling \/ PollFails \/ Refresh \/ UNCHANGED vars
           \/ \E visible \in BOOLEAN : SetVisible(visible)
  <2>1. UNCHANGED <<typed, queue, inputs, post, requests, box, tab>>
    BY <1>2 DEF Polling, PollArrives, PollAnswered, PollSettles, FirstWritten, PollDue, PauseEnds,
                PollFails, Refresh, SetVisible, PhoneScreen, inputVars, desktopVars, vars
  <2> QED BY <1>0, <2>1, InputsKept
<1>3. CASE Dispose
  <2>1. UNCHANGED <<typed, inputs, requests, box, post, tab>> /\ queue' = <<>>
    BY <1>3 DEF Dispose, desktopVars
  <2> QED BY <1>0, <2>1, Emptied
<1> QED BY <1>1, <1>2, <1>3, PostArrivesStep, PostWrittenStep, PostSucceededStep, PostFailedStep,
           DelayEndsStep, PostFailsStep, UserStep
        DEF Next, Posting, User

-----------------------------------------------------------------------------
(* What the page shows. *)

Ats == [phase : {"full", "ready"}, since : Nat, session : 0..MaxSession, size : Nat]
Terms == [state : {"none", "opening", "ready"}, shown : Seq(Byte), mode : BOOLEAN]

\* The buffer of every session holds the end of what its shell has written.
Buffers(b) == DOMAIN b = Sessions /\ \A s \in Sessions : Holds(b[s], s)

\* The terminal has drawn what its session wrote, up to where the next poll
\* asks from.
Drawn(b, at, term) ==
    /\ at.session \in Sessions /\ at.since <= b[at.session].out
    /\ \E a \in 0..at.since : term.shown = Bytes(at.session, a, at.since)
    /\ term.mode = ModeAt(at.session, at.since)

\* An answer that resets stands for itself; a delta goes on where the page is.
Fits(b, at, got) ==
    /\ got.session \in Sessions /\ got.size \in Nat /\ got.reset \in BOOLEAN
    /\ got.end \in Nat /\ got.end <= b[got.session].out
    /\ got.reset => /\ \E a \in 0..got.end : got.bytes = Bytes(got.session, a, got.end)
                    /\ got.mode = ModeAt(got.session, got.end)
    /\ ~got.reset => /\ at.phase = "ready" /\ at.session = got.session /\ at.since <= got.end
                     /\ got.bytes = Bytes(at.session, at.since, got.end)

\* A poll whose answer still counts was asked from where the page is.
Asked(b, at, p) ==
    /\ p.stage # "idle" => "current" \in DOMAIN p
    /\ p.stage # "idle" /\ p.current =>
         /\ p.stage \in {"sent", "found"} => p.query = ScreenQuery(at)
         /\ p.stage = "found" => p.session \in Sessions
         /\ p.stage = "answered" /\ p.code = 200 => Fits(b, at, p.got)

Follows(b, at, term) ==
    /\ at \in Ats /\ term \in Terms
    /\ at.phase = "ready" <=> term.state # "none"
    /\ at.phase = "ready" => Drawn(b, at, term)

Shown(b, v, p) ==
    /\ DOMAIN v = {"open", "at", "term"} /\ v.open \in BOOLEAN
    /\ v.open => Follows(b, v.at, v.term) /\ Asked(b, v.at, p)

Screen == Buffers(stream) /\ Shown(stream, view, poll)

\* The streams only grow.
Grown(b, new) == \A s \in Sessions : b[s].out <= new[s].out

\* Offsets are numbers.
LEMMA OutIs ==
    ASSUME NEW b, Buffers(b), NEW s \in Sessions
    PROVE  b[s].out \in Nat /\ s \in Nat
BY RemoteAssumption DEF Buffers, Holds, Streams, Sessions

\* What was drawn stays what the stream has up to an offset.
LEMMA DrawnGrows ==
    ASSUME NEW b, NEW new, Buffers(b), Buffers(new), Grown(b, new), NEW at \in Ats, NEW term, Drawn(b, at, term)
    PROVE  Drawn(new, at, term)
<1>1. /\ at.session \in Sessions /\ at.since \in Nat /\ at.since <= b[at.session].out
      /\ b[at.session].out <= new[at.session].out
      /\ b[at.session].out \in Nat /\ new[at.session].out \in Nat
  BY OutIs DEF Drawn, Grown, Ats
<1>2. at.since <= new[at.session].out
  BY <1>1
<1> QED BY <1>1, <1>2 DEF Drawn

\* So does what an answer says.
LEMMA FitsGrows ==
    ASSUME NEW b, NEW new, Buffers(b), Buffers(new), Grown(b, new), NEW at, NEW got, Fits(b, at, got)
    PROVE  Fits(new, at, got)
<1>1. /\ got.session \in Sessions /\ got.end \in Nat /\ got.end <= b[got.session].out
      /\ b[got.session].out <= new[got.session].out
      /\ b[got.session].out \in Nat /\ new[got.session].out \in Nat
  BY OutIs DEF Fits, Grown
<1>2. got.end <= new[got.session].out
  BY <1>1
<1> QED BY <1>1, <1>2 DEF Fits

\* And both together.
LEMMA ShownGrows ==
    ASSUME NEW b, NEW new, Buffers(b), Buffers(new), Grown(b, new), NEW v, NEW p, Shown(b, v, p)
    PROVE  Shown(new, v, p)
BY DrawnGrows, FitsGrows DEF Shown, Follows, Asked

\* What is in flight after the schedule was asked for a poll.
NextPoll(q, p, at) ==
    \/ q = p
    \/ q = Idle
    \/ q = [stage |-> "sent", query |-> ScreenQuery(at), current |-> TRUE]

\* The schedule starts a poll from the offset of the view, or starts none.
LEMMA PollIs ==
    ASSUME NEW s, NEW v, NEW p
    PROVE  /\ NextPoll(Fire(s, v, p).poll, p, v.at)
           /\ NextPoll(PollNow(s, v, p).poll, p, v.at)
           /\ NextPoll(SettledPoll(s, v).poll, Idle, v.at)
BY DEF NextPoll, Fire, Fired, PollNow, SettledPoll

\* No request, no wrong answer.
LEMMA AskedIdle ==
    ASSUME NEW b, NEW at
    PROVE  Asked(b, at, Idle)
BY DEF Asked, Idle

\* A new request asks from where the page is.
LEMMA AskedNext ==
    ASSUME NEW b, NEW at, NEW p, Asked(b, at, p), NEW q, NextPoll(q, p, at)
    PROVE  Asked(b, at, q)
<1>1. CASE q = [stage |-> "sent", query |-> ScreenQuery(at), current |-> TRUE]
  BY <1>1 DEF Asked
<1> QED BY <1>1, AskedIdle DEF NextPoll

\* An answer that no longer counts fits everywhere.
LEMMA AskedOvertaken ==
    ASSUME NEW b, NEW at, NEW p, HasStage(p), Asked(b, at, p), NEW other, NEW q, q = Overtaken(p)
    PROVE  Asked(b, other, q)
<1>1. CASE p.stage = "idle"
  BY <1>1 DEF Asked, Overtaken
<1>2. CASE p.stage # "idle"
  <2>1. q = [p EXCEPT !.current = FALSE] /\ "current" \in DOMAIN p
    BY <1>2 DEF Overtaken, Asked
  <2>2. q.stage = p.stage /\ q.current = FALSE /\ "current" \in DOMAIN q
    BY <2>1 DEF HasStage
  <2> QED BY <1>2, <2>2 DEF Asked
<1> QED BY <1>1, <1>2

\* A view that has drawn nothing shows nothing wrong.
LEMMA NothingDrawn ==
    ASSUME NEW b
    PROVE  Follows(b, InitialView, NoTerm)
<1>1. InitialView \in Ats /\ InitialView.phase = "full"
  <2>1. MaxSession \in Nat
    BY RemoteAssumption
  <2> QED BY <2>1 DEF InitialView, Ats
<1>2. NoTerm \in Terms /\ NoTerm.state = "none"
  BY DEF NoTerm, Terms
<1> QED BY <1>1, <1>2 DEF Follows

\* A terminal that is dropped is asked for from the start (resetToFull).
LEMMA ResetShown ==
    ASSUME NEW b, NEW v, NEW p, HasStage(p), Shown(b, v, p)
    PROVE  Shown(b, ResetView(v), ResetPoll(v, p))
<1>1. CASE v.term.state = "none"
  BY <1>1 DEF ResetView, ResetPoll
<1>2. CASE v.term.state # "none"
  <2>1. ResetView(v) = [v EXCEPT !.at = InitialView, !.term = NoTerm] /\ ResetPoll(v, p) = Overtaken(p)
    BY <1>2 DEF ResetView, ResetPoll
  <2>2. /\ DOMAIN ResetView(v) = {"open", "at", "term"} /\ ResetView(v).open = v.open
        /\ ResetView(v).at = InitialView /\ ResetView(v).term = NoTerm
    BY <2>1 DEF Shown
  <2>3. v.open => Asked(b, InitialView, Overtaken(p))
    BY AskedOvertaken DEF Shown
  <2> QED BY <2>1, <2>2, <2>3, NothingDrawn DEF Shown
<1> QED BY <1>1, <1>2

\* One buffer changes, and has not fewer bytes behind it.
LEMMA OneBuffer ==
    ASSUME Buffers(stream), NEW s \in Sessions, NEW new, Holds(new, s), stream[s].out <= new.out,
           stream' = [stream EXCEPT ![s] = new]
    PROVE  Buffers(stream') /\ Grown(stream, stream')
<1>1. /\ DOMAIN stream' = Sessions /\ stream'[s] = new
      /\ \A t \in Sessions : t # s => stream'[t] = stream[t]
  BY DEF Buffers
<1>2. \A t \in Sessions : Holds(stream'[t], t)
  BY <1>1 DEF Buffers
<1>3. ASSUME NEW t \in Sessions
      PROVE  stream[t].out <= stream'[t].out
  <2>1. stream[t].out \in Nat
    BY OutIs
  <2>2. CASE t = s
    BY <1>1, <2>2
  <2>3. CASE t # s
    <3>1. stream'[t].out = stream[t].out
      BY <1>1, <2>3
    <3> QED BY <2>1, <3>1
  <2> QED BY <2>2, <2>3
<1> QED BY <1>1, <1>2, <1>3 DEF Buffers, Grown

\* Every step leaves the buffers the ends of their streams, which only grow.
LEMMA BuffersStep ==
    ASSUME Buffers(stream), [Next]_vars
    PROVE  Buffers(stream') /\ Grown(stream, stream')
<1>1. CASE UNCHANGED stream
  <2>1. ASSUME NEW s \in Sessions PROVE stream[s].out <= stream[s].out
    <3>1. stream[s].out \in Nat
      BY OutIs
    <3> QED BY <3>1
  <2> QED BY <1>1, <2>1 DEF Grown
<1>2. ASSUME NEW s \in Sessions, NEW n \in Nat, stream' = [stream EXCEPT ![s] = Push(@, s, n)]
      PROVE  Buffers(stream') /\ Grown(stream, stream')
  <2> DEFINE new == Push(stream[s], s, n)
  <2>1. s \in Nat /\ Holds(stream[s], s) /\ stream[s].out \in Nat
    BY OutIs DEF Buffers
  <2>2. Holds(new, s) /\ new.out = stream[s].out + n
    BY <2>1, PushHolds
  <2>3. stream' = [stream EXCEPT ![s] = new]
    BY <1>2
  <2> HIDE DEF new
  <2>4. stream[s].out <= new.out
    BY <2>1, <2>2
  <2> QED BY <2>2, <2>3, <2>4, OneBuffer
<1>3. ASSUME NEW s \in Sessions, stream' = [stream EXCEPT ![s] = Cleared(@)]
      PROVE  Buffers(stream') /\ Grown(stream, stream')
  <2> DEFINE new == Cleared(stream[s])
  <2>1. s \in Nat /\ Holds(stream[s], s) /\ stream[s].out \in Nat
    BY OutIs DEF Buffers
  <2>2. Holds(new, s) /\ new.out = stream[s].out
    BY <2>1, ClearedHolds
  <2>3. stream' = [stream EXCEPT ![s] = new]
    BY <1>3
  <2> HIDE DEF new
  <2>4. stream[s].out <= new.out
    BY <2>1, <2>2
  <2> QED BY <2>2, <2>3, <2>4, OneBuffer
<1>4. Chunks \subseteq Nat
  BY RemoteAssumption
<1>5. CASE Desktop
  BY <1>1, <1>2, <1>3, <1>4, <1>5
    , SMTT(60) DEF Desktop, ShellEnds, Output, TabLetsGo, Restart, CloseTab, Resize, Unpair
<1>6. CASE Polling \/ Posting \/ PollFails \/ PostFails \/ User \/ UNCHANGED vars
  BY <1>1, <1>6 DEF Polling, PollArrives, PollAnswered, PollSettles, FirstWritten, PollDue, PauseEnds,
     Posting, PostArrives, PostWritten, PostSucceeded, PostFailed, DelayEnds, PollFails, PostFails,
     User, SetVisible, Refresh, Dispose, Type, Send, PressKey, Uses, PhoneScreen, desktopVars, vars
<1> QED BY <1>5, <1>6 DEF Next

\* What the desktop answers to a poll that was asked from where the page is.
LEMMA AnswerFits ==
    ASSUME NEW b, Buffers(b), NEW at \in Ats,
           at.phase = "ready" => at.session \in Sessions /\ at.since <= b[at.session].out,
           NEW s \in Sessions, NEW n \in Nat, NEW got,
           got = Reply(s, n, ScreenSince(b[s], TrustedSince(ScreenQuery(at), s)))
    PROVE  Fits(b, at, got)
<1> DEFINE since == TrustedSince(ScreenQuery(at), s)
           screen == ScreenSince(b[s], since)
           st == b[s]
<1>1. Holds(st, s) /\ s \in Nat /\ s # 0 /\ st.out \in Nat /\ NoOffset \notin Nat /\ NoOffset <= st.out
  <2>1. Holds(st, s) /\ s \in Nat /\ st.out \in Nat
    BY OutIs DEF Buffers
  <2>2. s # 0
    BY <2>1, RemoteAssumption DEF Sessions
  <2>3. NoOffset \notin Nat /\ \A i \in Nat : NoOffset <= i
    BY DEF NoOffset
  <2> HIDE DEF st
  <2> QED BY <2>1, <2>2, <2>3
<1>2. \/ since = NoOffset
      \/ at.phase = "ready" /\ at.session = s /\ since = at.since /\ since \in Nat /\ since <= st.out
  BY <1>1 DEF TrustedSince, ScreenQuery, Ats
<1>3. since \in Nat \cup {NoOffset} /\ since <= st.out
  BY <1>1, <1>2
<1> HIDE DEF since
<1>4. /\ DOMAIN screen = {"end", "reset", "mode", "bytes"}
      /\ screen.end = st.out /\ screen.reset \in BOOLEAN
      /\ screen.reset => /\ screen.mode = ModeAt(s, st.out)
                         /\ \E a \in 0..st.out : screen.bytes = Bytes(s, a, st.out)
      /\ ~screen.reset => since \in Nat /\ screen.bytes = Bytes(s, since, st.out)
  BY <1>1, <1>3, ScreenSinceIs
<1>5. got = Reply(s, n, screen)
  BY DEF since
<1> HIDE DEF screen, st
<1>6. /\ got.size = n /\ got.session = s /\ got.end = screen.end /\ got.reset = screen.reset
      /\ got.mode = screen.mode /\ got.bytes = screen.bytes
  BY <1>5 DEF Reply
<1>7. ~got.reset => at.phase = "ready" /\ at.session = s /\ since = at.since /\ at.since <= st.out
  BY <1>1, <1>2, <1>4, <1>6
<1>8. got.reset => /\ \E a \in 0..got.end : got.bytes = Bytes(s, a, got.end)
                   /\ got.mode = ModeAt(s, got.end)
  BY <1>4, <1>6
<1>9. ~got.reset => got.bytes = Bytes(at.session, at.since, got.end)
  BY <1>4, <1>6, <1>7
<1>10. got.end \in Nat /\ got.end <= b[got.session].out /\ got.end = st.out
  BY <1>1, <1>4, <1>6 DEF st
<1> QED BY <1>4, <1>6, <1>7, <1>8, <1>9, <1>10 DEF Fits

\* The page applies an answer that fits.
LEMMA AppliedFollows ==
    ASSUME NEW b, Buffers(b), NEW at, NEW term, Follows(b, at, term), NEW got, Fits(b, at, got)
    PROVE  Follows(b, NextRequest(at, got), TermAfter(at, term, got))
<1> DEFINE s == got.session
           e == got.end
           next == NextRequest(at, got)
           redrawn == TermAfter(at, term, got)
<1>0. /\ at \in Ats /\ term \in Terms /\ at.since \in Nat /\ at.phase \in {"full", "ready"}
      /\ s \in Sessions /\ s \in Nat /\ s \in 0..MaxSession /\ e \in Nat /\ got.size \in Nat
      /\ got.reset \in BOOLEAN /\ e <= b[s].out /\ term.shown \in Seq(Byte) /\ term.mode \in BOOLEAN
  BY OutIs DEF Follows, Fits, Ats, Terms, Sessions
<1>m. 0 \in Nat /\ 0 <= e /\ FALSE \in BOOLEAN
  BY <1>0
<1>1. CASE at.phase = "full" /\ got.reset
  <2>1. /\ next = [phase |-> "ready", since |-> e, session |-> s, size |-> got.size]
        /\ redrawn = [state |-> "opening", shown |-> got.bytes, mode |-> ModeAfter(got.mode, got.bytes)]
    BY <1>1 DEF NextRequest, TermAfter
  <2>2. PICK a \in 0..e : got.bytes = Bytes(s, a, e)
    BY <1>1 DEF Fits
  <2>3. a \in Nat /\ a <= e /\ got.bytes \in Seq(Byte)
    <3> HIDE DEF s, e
    <3>1. a \in Nat /\ a <= e
      BY <1>0
    <3> QED BY <1>0, <2>2, <3>1, BytesAre
  <2>4. ModeAfter(got.mode, got.bytes) = ModeAt(s, e) /\ ModeAt(s, e) \in BOOLEAN
    <3> DEFINE m == FALSE
    <3>1. got.mode = ModeAfter(m, Bytes(s, 0, e))
      BY <1>1 DEF Fits, ModeAt
    <3>2. ModeAt(s, e) = ModeAfter(m, Bytes(s, 0, e)) /\ m \in BOOLEAN
      BY DEF ModeAt
    <3> HIDE DEF m, s, e
    <3>3. ModeAfter(ModeAfter(m, Bytes(s, 0, e)), Bytes(s, a, e)) = ModeAfter(m, Bytes(s, 0, e))
      BY <1>0, <2>3, ModeAgain
    <3>4. ModeAfter(m, Bytes(s, 0, e)) \in BOOLEAN
      BY <1>0, <1>m, <3>2, ModeBoolean
    <3> QED BY <2>2, <3>1, <3>2, <3>3, <3>4
  <2> HIDE DEF next, redrawn
  <2>5. next \in Ats /\ next.phase = "ready" /\ next.session = s /\ next.since = e
    BY <1>0, <2>1 DEF Ats
  <2>6. redrawn \in Terms /\ redrawn.state # "none" /\ redrawn.shown = got.bytes /\ redrawn.mode = ModeAt(s, e)
    BY <2>1, <2>3, <2>4 DEF Terms
  <2>7. Drawn(b, next, redrawn)
    BY <1>0, <2>2, <2>5, <2>6 DEF Drawn
  <2> QED BY <2>5, <2>6, <2>7 DEF Follows, next, redrawn
<1>2. CASE at.phase = "full" /\ ~got.reset
  BY <1>2 DEF NextRequest, TermAfter
<1>3. CASE at.phase # "full" /\ NeedsRecreate(at, got)
  <2>1. next = InitialView /\ redrawn = NoTerm
    BY <1>3 DEF NextRequest, TermAfter
  <2> QED BY <2>1, NothingDrawn
<1>4. CASE at.phase # "full" /\ ~NeedsRecreate(at, got)
  <2>1. /\ next = [at EXCEPT !.since = e]
        /\ redrawn = [term EXCEPT !.shown = term.shown \o got.bytes, !.mode = ModeAfter(term.mode, got.bytes)]
    BY <1>4 DEF NextRequest, TermAfter
  <2>2. at.phase = "ready" /\ term.state # "none" /\ Drawn(b, at, term) /\ ~got.reset
    BY <1>0, <1>4 DEF Follows, NeedsRecreate
  <2>3. at.session = s /\ at.since <= e /\ got.bytes = Bytes(s, at.since, e)
    BY <2>2 DEF Fits
  <2>4. PICK a \in 0..at.since : term.shown = Bytes(s, a, at.since)
    BY <2>2, <2>3 DEF Drawn
  <2> DEFINE f == at.since
  <2>a. term.mode = ModeAt(s, f)
    BY <2>2, <2>3 DEF Drawn
  <2>5. a \in Nat /\ f \in Nat /\ a <= f /\ f <= e /\ a \in 0..e
    BY <1>0, <2>3, <2>4
  <2> HIDE DEF s, e, f
  <2>6. term.shown \o got.bytes = Bytes(s, a, e) /\ term.shown \o got.bytes \in Seq(Byte)
    <3>1. Bytes(s, a, f) \o Bytes(s, f, e) = Bytes(s, a, e)
      BY <1>0, <2>5, BytesJoin, ZenonT(60)
    <3>2. a <= e
      BY <1>0, <2>5
    <3>3. Bytes(s, a, e) \in Seq(Byte)
      BY <1>0, <2>5, <3>2, BytesAre
    <3>4. term.shown = Bytes(s, a, f) /\ got.bytes = Bytes(s, f, e)
      BY <2>3, <2>4 DEF f
    <3> QED BY <3>1, <3>3, <3>4
  <2>7. ModeAfter(term.mode, got.bytes) = ModeAt(s, e) /\ ModeAt(s, e) \in BOOLEAN
    <3> DEFINE m == FALSE
    <3>1. term.mode = ModeAfter(m, Bytes(s, 0, f))
      BY <2>a DEF ModeAt
    <3>2. ModeAt(s, e) = ModeAfter(m, Bytes(s, 0, e)) /\ m \in BOOLEAN
      BY DEF ModeAt
    <3>3. got.bytes = Bytes(s, f, e)
      BY <2>3 DEF f
    <3> HIDE DEF m
    <3>4. 0 <= f
      BY <2>5
    <3>5. ModeAfter(ModeAfter(m, Bytes(s, 0, f)), Bytes(s, f, e)) = ModeAfter(m, Bytes(s, 0, e))
      BY <1>0, <1>m, <2>5, <3>4, ModeChain
    <3>6. ModeAfter(m, Bytes(s, 0, e)) \in BOOLEAN
      BY <1>0, <1>m, <3>2, ModeBoolean
    <3> QED BY <3>1, <3>2, <3>3, <3>5, <3>6
  <2> HIDE DEF next, redrawn
  <2>8. next \in Ats /\ next.phase = "ready" /\ next.session = s /\ next.since = e
    BY <1>0, <2>1, <2>2, <2>3 DEF Ats
  <2> DEFINE text == term.shown \o got.bytes
             mode == ModeAfter(term.mode, got.bytes)
  <2>9. text \in Seq(Byte) /\ mode \in BOOLEAN /\ redrawn = [term EXCEPT !.shown = text, !.mode = mode]
    BY <2>1, <2>6, <2>7
  <2> HIDE DEF text, mode
  <2>10. redrawn \in Terms /\ redrawn.state # "none" /\ redrawn.shown = text /\ redrawn.mode = mode
    BY <1>0, <2>2, <2>9 DEF Terms
  <2>11. redrawn.shown = Bytes(s, a, e) /\ redrawn.mode = ModeAt(s, e)
    BY <2>6, <2>7, <2>10 DEF text, mode
  <2>12. Drawn(b, next, redrawn)
    BY <1>0, <2>5, <2>8, <2>11 DEF Drawn
  <2> QED BY <2>8, <2>10, <2>12 DEF Follows, next, redrawn
<1> QED BY <1>0, <1>1, <1>2, <1>3, <1>4

\* The schedule may start a poll.
LEMMA ShownNext ==
    ASSUME NEW b, NEW v, NEW p, Shown(b, v, p), NEW q, NextPoll(q, p, v.at)
    PROVE  Shown(b, v, q)
BY AskedNext DEF Shown

\* A request of the page reaches the desktop, is answered, or fails.
LEMMA AnsweredShown ==
    ASSUME Screen, Live, InputTypes, PollArrives \/ PollAnswered \/ PollFails
    PROVE  Shown(stream', view', poll')
<1>1. UNCHANGED <<stream, view>> /\ poll.stage # "idle"
  BY DEF PollArrives, PollAnswered, PollFails, desktopVars
<1> SUFFICES ASSUME view.open PROVE Asked(stream, view.at, poll')
  BY <1>1 DEF Screen, Shown
<1>2. /\ "current" \in DOMAIN poll /\ Follows(stream, view.at, view.term)
      /\ poll.current =>
           /\ poll.stage \in {"sent", "found"} => poll.query = ScreenQuery(view.at)
           /\ poll.stage = "found" => poll.session \in Sessions
  BY <1>1 DEF Screen, Shown, Asked
<1>3. ASSUME NEW code, code # 200, poll' = [stage |-> "answered", code |-> code, current |-> poll.current]
      PROVE  Asked(stream, view.at, poll')
  BY <1>3 DEF Asked
<1>4. CASE PollArrives
  <2>1. Refusal \in {0, 401, 404, 409} /\ (Refusal = 0 => tab.session \in Sessions)
    BY RemoteAssumption DEF Refusal, InputTypes, Sessions
  <2>2. CASE Refusal # 0
    BY <1>3, <1>4, <2>1, <2>2 DEF PollArrives
  <2>3. CASE Refusal = 0
    <3>1. /\ poll.stage = "sent"
          /\ poll' = [stage |-> "found", session |-> tab.session, query |-> poll.query,
                      current |-> poll.current]
      BY <1>4, <2>3 DEF PollArrives
    <3> QED BY <1>2, <2>1, <2>3, <3>1 DEF Asked
  <2> QED BY <2>2, <2>3
<1>5. CASE PollAnswered
  <2> DEFINE got == Reply(poll.session, tab.size,
                          ScreenSince(stream[poll.session], TrustedSince(poll.query, poll.session)))
  <2>1. poll.stage = "found" /\ poll' = [stage |-> "answered", code |-> 200, current |-> poll.current, got |-> got]
    BY <1>5 DEF PollAnswered
  <2>2. ASSUME poll.current PROVE Fits(stream, view.at, got)
    <3>1. poll.query = ScreenQuery(view.at) /\ poll.session \in Sessions
      BY <1>2, <2>1, <2>2
    <3>2. /\ view.at \in Ats /\ tab.size \in Nat /\ Buffers(stream)
          /\ view.at.phase = "ready" => view.at.session \in Sessions
                                        /\ view.at.since <= stream[view.at.session].out
      BY <1>2 DEF Follows, Drawn, InputTypes, Screen
    <3> DEFINE s == poll.session
               n == tab.size
               at == view.at
               answer == Reply(s, n, ScreenSince(stream[s], TrustedSince(ScreenQuery(at), s)))
    <3>3. got = answer
      BY <3>1
    <3> HIDE DEF got
    <3>4. Fits(stream, at, answer)
      <4>1. s \in Sessions /\ n \in Nat /\ at \in Ats
        BY <3>1, <3>2
      <4> HIDE DEF s, n
      <4> QED BY <3>2, <4>1, AnswerFits
    <3> QED BY <3>3, <3>4
  <2> HIDE DEF got
  <2> QED BY <2>1, <2>2 DEF Asked
<1>6. CASE PollFails
  <2>1. poll' = TooMany(poll) \/ poll' = Lost(poll)
    BY <1>6 DEF PollFails
  <2> QED BY <1>3, <2>1 DEF TooMany, Lost
<1> QED BY <1>4, <1>5, <1>6

\* The answer is applied, or dropped, and the schedule goes on.
LEMMA SettlesShown ==
    ASSUME Screen, Live, PollSettles
    PROVE  Shown(stream', view', poll')
<1> DEFINE applies == poll.current /\ poll.code = 200
           applied == [view EXCEPT !.at = NextRequest(view.at, poll.got),
                                   !.term = TermAfter(view.at, view.term, poll.got)]
<1>1. /\ poll.stage = "answered" /\ stream' = stream /\ HasStage(poll)
      /\ \E s : poll' = SettledPoll(s, view').poll
      /\ \/ applies /\ view' = applied
         \/ view' = ResetView(view)
         \/ view' = view
  BY DEF PollSettles, PhoneScreen, desktopVars, Live
<1>2. NextPoll(poll', Idle, view'.at)
  BY <1>1, PollIs
<1>3. Shown(stream, view', Idle)
  <2>1. Shown(stream, view, Idle)
    BY AskedIdle DEF Screen, Shown
  <2>2. CASE view' = view
    BY <2>1, <2>2
  <2>3. CASE view' = ResetView(view)
    <3>1. HasStage(Idle) /\ ResetPoll(view, Idle) = Idle
      BY DEF HasStage, Idle, PollStages, ResetPoll, Overtaken
    <3> QED BY <2>1, <2>3, <3>1, ResetShown
  <2>4. CASE applies /\ view' = applied
    <3>1. /\ DOMAIN view' = {"open", "at", "term"} /\ view'.open = view.open /\ view.open \in BOOLEAN
          /\ view'.at = NextRequest(view.at, poll.got)
          /\ view'.term = TermAfter(view.at, view.term, poll.got)
      BY <2>4 DEF Screen, Shown
    <3>2. view.open => Follows(stream, view.at, view.term) /\ Fits(stream, view.at, poll.got)
      BY <1>1, <2>4 DEF Screen, Shown, Asked
    <3>3. view.open => Follows(stream, view'.at, view'.term)
      BY <3>1, <3>2, AppliedFollows DEF Screen
    <3> QED BY <3>1, <3>3, AskedIdle DEF Shown
  <2> QED BY <1>1, <2>2, <2>3, <2>4
<1> QED BY <1>1, <1>2, <1>3, ShownNext

\* Every step keeps what the page shows a piece of the stream.
LEMMA ShownStep ==
    ASSUME Screen, Live, InputTypes, [Next]_vars
    PROVE  Shown(stream', view', poll')
<1>0. /\ Shown(stream, view, poll) /\ HasStage(poll)
      /\ DOMAIN view = {"open", "at", "term"}
  BY DEF Screen, Shown, Live
<1>1. ASSUME UNCHANGED <<view, poll>>
      PROVE  Shown(stream', view', poll')
  <2>1. Buffers(stream) /\ Buffers(stream') /\ Grown(stream, stream')
    BY BuffersStep DEF Screen
  <2> QED BY <1>0, <1>1, <2>1, ShownGrows
<1>2. ASSUME UNCHANGED <<stream, view>>, NextPoll(poll', poll, view.at)
      PROVE  Shown(stream', view', poll')
  BY <1>0, <1>2, ShownNext
<1>3. ASSUME stream' = stream, view' = ResetView(view), poll' = ResetPoll(view, poll)
      PROVE  Shown(stream', view', poll')
  BY <1>0, <1>3, ResetShown
<1>4. CASE Desktop
  BY <1>1, <1>4 DEF Desktop, DesktopOnly, ShellEnds, Output, TabLetsGo, Restart, CloseTab, Resize, Unpair
<1>5. CASE FirstWritten
  <2>1. /\ view.term.state = "opening" /\ view' = [view EXCEPT !.term.state = "ready"]
        /\ UNCHANGED <<stream, poll>>
    BY <1>5 DEF FirstWritten, PhoneScreen, desktopVars
  <2> DEFINE t == [view.term EXCEPT !.state = "ready"]
  <2>2. /\ DOMAIN view' = {"open", "at", "term"} /\ view'.open = view.open /\ view'.at = view.at
        /\ view'.term = t
    BY <1>0, <2>1
  <2>3. ASSUME view.open PROVE Follows(stream, view.at, t)
    <3>1. Follows(stream, view.at, view.term) /\ view.term \in Terms
      BY <1>0, <2>3 DEF Shown, Follows
    <3>2. t \in Terms /\ t.state = "ready" /\ t.shown = view.term.shown /\ t.mode = view.term.mode
      BY <3>1 DEF Terms
    <3> HIDE DEF t
    <3> QED BY <2>1, <3>1, <3>2 DEF Follows, Drawn
  <2> HIDE DEF t
  <2> QED BY <1>0, <2>1, <2>2, <2>3 DEF Shown
<1>6. CASE PollDue \/ PauseEnds \/ \E visible \in BOOLEAN : SetVisible(visible)
  <2>1. /\ UNCHANGED <<stream, view>>
        /\ poll' = poll \/ \E s : poll' = Fire(s, view, poll).poll
    BY <1>6 DEF PollDue, PauseEnds, SetVisible, PhoneScreen, desktopVars
  <2>2. NextPoll(poll', poll, view.at)
    BY <2>1, PollIs DEF NextPoll
  <2> QED BY <1>2, <2>1, <2>2
<1>7. CASE Refresh
  <2>1. /\ stream' = stream /\ view' = ResetView(view)
        /\ poll' = PollNow(sched, view', ResetPoll(view, poll)).poll
    BY <1>7 DEF Refresh, PhoneScreen, desktopVars
  <2>2. Shown(stream, view', ResetPoll(view, poll))
    BY <1>0, <2>1, ResetShown
  <2>3. NextPoll(poll', ResetPoll(view, poll), view'.at)
    BY <2>1, PollIs
  <2> QED BY <2>1, <2>2, <2>3, ShownNext
<1>8. CASE Dispose
  <2>1. stream' = stream /\ view' = [view EXCEPT !.open = FALSE, !.term = NoTerm]
    BY <1>8 DEF Dispose, desktopVars
  <2>2. DOMAIN view' = {"open", "at", "term"} /\ view'.open = FALSE
    BY <1>0, <2>1
  <2> QED BY <2>2 DEF Shown
<1>9. ASSUME NEW item, NEW code, Fails(item, code), stream' = stream
      PROVE  Shown(stream', view', poll')
  BY <1>1, <1>3, <1>9 DEF Fails
<1>10. CASE PostSucceeded \/ PostFailed \/ DelayEnds
  <2>1. /\ stream' = stream
        /\ \/ UNCHANGED <<view, poll>>
           \/ view' = view /\ \E s : poll' = PollNow(s, view, poll).poll
           \/ \E item, code : Fails(item, code)
    BY <1>10 DEF PostSucceeded, PostFailed, DelayEnds, desktopVars
  <2>2. ASSUME view' = view, NEW s, poll' = PollNow(s, view, poll).poll
        PROVE  Shown(stream', view', poll')
    <3>1. NextPoll(poll', poll, view.at)
      BY <2>2, PollIs
    <3> QED BY <1>2, <2>1, <2>2, <3>1
  <2> QED BY <1>1, <1>9, <2>1, <2>2
<1>11. CASE \/ PostFails \/ Type \/ Send \/ PressKey \/ UNCHANGED vars
            \/ \E r \in requests : PostArrives(r) \/ PostWritten(r)
  BY <1>1, <1>11 DEF PostFails, Type, Send, PressKey, Uses, PostArrives, PostWritten, vars
<1> QED BY <1>4, <1>5, <1>6, <1>7, <1>8, <1>10, <1>11, AnsweredShown, SettlesShown
        DEF Next, Polling, Posting, User

-----------------------------------------------------------------------------
(* The theorems. *)

ScreenInv == Live /\ Inputs /\ Screen

\* The tab is opened (openTab).
LEMMA ScreenInit == Init => ScreenInv
<1> SUFFICES ASSUME Init PROVE ScreenInv
  OBVIOUS
<1>1. NoSchedule \in Schedules /\ ~NoSchedule.timer /\ Pauses(NoSchedule) /\ CanRun(NoSchedule)
  BY DEF NoSchedule, Schedules, Pauses, CanRun
<1>2. Fired(NoSchedule, NewView).sched = NoSchedule
  <2>1. [NoSchedule EXCEPT !.timer = FALSE] = NoSchedule
    BY <1>1 DEF Schedules
  <2> QED BY <1>1, <2>1 DEF Fired
<1>3. Live
  BY <1>1, <1>2, FiredAlive DEF Init, Live
<1>4. Len(typed) = 0 /\ Len(queue) = 0 /\ typed \in Seq(ReadItems) /\ queue \in Seq(Items)
  BY DEF Init
<1>5. InputTypes
  BY <1>4, RemoteAssumption DEF Init, InputTypes
<1>6. Once /\ Made /\ Ordered
  BY <1>4 DEF Init, Once, Made, Ordered, NoPost
<1>7. Buffers(stream)
  <2>1. DOMAIN stream = Sessions /\ \A s \in Sessions : stream[s] = NoStream /\ s \in Nat
    BY RemoteAssumption DEF Init, Sessions
  <2> QED BY <2>1, NoStreamHolds DEF Buffers
<1>8. Shown(stream, view, poll)
  <2>1. /\ DOMAIN view = {"open", "at", "term"} /\ view.open = TRUE
        /\ view.at = InitialView /\ view.term = NoTerm
    BY DEF Init, NewView
  <2>2. NextPoll(poll, Idle, view.at)
    BY DEF Init, Fired, NextPoll
  <2>3. Asked(stream, view.at, poll)
    BY <2>2, AskedIdle, AskedNext
  <2> QED BY <2>1, <2>3, NothingDrawn DEF Shown
<1> QED BY <1>3, <1>5, <1>6, <1>7, <1>8 DEF ScreenInv, Inputs, Screen

\* The invariant is inductive.
LEMMA ScreenNext == ScreenInv /\ [Next]_vars => ScreenInv'
<1> SUFFICES ASSUME ScreenInv, [Next]_vars PROVE ScreenInv'
  OBVIOUS
<1>1. Buffers(stream) /\ InputTypes
  BY DEF ScreenInv, Screen, Inputs
<1>2. Screen'
  BY <1>1, BuffersStep, ShownStep DEF ScreenInv, Screen
<1> QED BY <1>2, LiveStep, InputsStep DEF ScreenInv

\* The inductive invariant of the page and its desktop: the schedule (Live), the
\* inputs that left the page (Inputs), and the buffers of the sessions with what
\* the page has drawn and asked of them (Screen).
THEOREM ScreenInvariant == Spec => []ScreenInv
BY ScreenInit, ScreenNext, PTL DEF Spec

\* A view that may poll has a poll in flight or a timer that starts one, never
\* both, and a pause has the timer that ends it: poller.ts clears and sets its
\* two timers so, whatever the answers, the errors and the user do.
THEOREM ScheduleStaysAlive == Spec => []ScheduleAlive
<1>1. ScreenInv => ScheduleAlive
  BY DEF ScreenInv, Live, Alive, ScheduleAlive
<1> QED BY <1>1, ScreenInvariant, PTL

\* No shell reads the Enter of a Send without having read its text, and none
\* reads an input twice: input-queue.ts sends one input at a time, and sends
\* nothing more of a queue once an input has failed.
THEOREM EntersFollowTexts == Spec => []EnterAfterText
<1>1. ASSUME ScreenInv PROVE EnterAfterText
  <2>1. DOMAIN typed = 1..Len(typed) /\ Len(typed) \in Nat
    BY <1>1 DEF ScreenInv, Inputs, InputTypes
  <2> SUFFICES ASSUME NEW k \in 1..Len(typed)
               PROVE  /\ typed[k].item.key = "enter" =>
                           \E j \in 1..(k - 1) : typed[j].item.key = "text"
                                                 /\ typed[j].item.id = typed[k].item.id
                      /\ \A j \in 1..(k - 1) : typed[j].item # typed[k].item
    BY <2>1 DEF EnterAfterText
  <2>2. \A j \in 1..(k - 1) : j \in 1..Len(typed) /\ j # k
    BY <2>1
  <2> QED BY <1>1, <2>2 DEF ScreenInv, Inputs, Once, Ordered
<1> QED BY <1>1, ScreenInvariant, PTL

\* What the page shows is an unbroken end of what one session has written up
\* to the offset of the next request, in the mode that stream has set: through
\* screen (handlers.rs), screen_since (session.rs), nextRequest (protocol.ts)
\* and apply (tab-view.ts), for every size of the buffer and of the reads,
\* with shells replaced and answers lost or late.
THEOREM ScreensFollow == Spec => []ScreenFollows
<1>1. ASSUME ScreenInv PROVE ScreenFollows
  <2> SUFFICES ASSUME view.open, view.at.phase = "ready"
               PROVE  LET shown == view.term.shown
                      IN  /\ view.at.since <= stream[view.at.session].out
                          /\ shown = Bytes(view.at.session, view.at.since - Len(shown), view.at.since)
                          /\ view.term.mode = ModeAfter(FALSE, Bytes(view.at.session, 0, view.at.since))
    BY <1>1 DEF ScreenInv, Screen, Shown, Follows, ScreenFollows
  <2> DEFINE s == view.at.session
             e == view.at.since
             shown == view.term.shown
  <2>1. /\ s \in Sessions /\ s \in Nat /\ e \in Nat /\ e <= stream[s].out
        /\ view.term.mode = ModeAfter(FALSE, Bytes(s, 0, e))
    <3>1. view.at \in Ats /\ Drawn(stream, view.at, view.term)
      BY <1>1 DEF ScreenInv, Screen, Shown, Follows
    <3>2. s \in Sessions /\ e \in Nat /\ e <= stream[s].out
      BY <3>1 DEF Drawn, Ats
    <3>3. s \in Nat
      BY <3>2, RemoteAssumption DEF Sessions
    <3> QED BY <3>1, <3>2, <3>3 DEF Drawn, ModeAt
  <2>2. PICK a \in 0..e : shown = Bytes(s, a, e)
    BY <1>1 DEF ScreenInv, Screen, Shown, Follows, Drawn
  <2>3. Len(shown) = e - a /\ e - Len(shown) = a
    <3> HIDE DEF s, e
    <3>1. a \in Nat /\ a <= e
      BY <2>1
    <3>2. Len(shown) = e - a
      BY <2>1, <2>2, <3>1, BytesAre
    <3> QED BY <2>1, <3>1, <3>2
  <2> QED BY <2>1, <2>2, <2>3
<1> QED BY <1>1, ScreenInvariant, PTL

-----------------------------------------------------------------------------
(***************************************************************************)
(* The server.                                                             *)
(***************************************************************************)
Stages == {"none", "backlog", "closed"} \cup Running

Conn ==
    {r \in [stage : Stages, ip : Addresses \cup {"none"}, route : Routes \cup {"none"},
            token : Int, at : Int] :
        r.stage \notin {"none", "closed"} => r.ip \in Addresses}

ServerTypes ==
    /\ conn \in [Conns -> Conn] /\ conns \in Nat
    /\ now \in Int /\ phoneToken \in Int /\ token \in Int
    /\ file \in Int /\ tmp \in Int /\ drawn \in Nat

Counted == conns = Cardinality(Threads) /\ conns <= MaxConnections

\* Nobody but the server's own start writes the file, and only where there is
\* none.
Tokens ==
    /\ phoneToken \in {NoToken, file} \cup revoked
    /\ app \in {"write", "rename"} => file = NoToken
    /\ app = "rename" => tmp = token
    /\ app \in {"bind", "on"} => file = token \/ (file = NoToken /\ token \in revoked)

ServerInv == ServerTypes /\ Counted /\ Tokens

Requests(c) == Accept(c) \/ Thread(c) \/ Others(c)
Service == Boot \/ Quit \/ PowerCut \/ DeleteToken \/ Pair \/ Stop \/ AcceptStops \/ Tick
-----------------------------------------------------------------------------
USE DEF Stages, Running

\* Connections can be counted.
LEMMA ThreadsFinite == IsFiniteSet(Threads)
BY RemoteServerAssumption, FS_Subset DEF Threads

\* A slot without connection, and one whose connection was closed.
LEMMA NoConnTyped == NoConn \in Conn /\ Closed \in Conn
BY DEF NoConn, Closed, Conn, NoToken

\* A connection that is accepted.
LEMMA NewConn ==
    ASSUME NEW p \in Addresses, NEW r \in Routes, NEW t \in Int
    PROVE  LET n == [NoConn EXCEPT !.stage = "backlog", !.ip = p, !.route = r, !.token = t]
           IN  n \in Conn /\ n.stage = "backlog"
<1> DEFINE a == [NoConn EXCEPT !.ip = p]
           b == [a EXCEPT !.route = r]
           m == [b EXCEPT !.token = t]
           n == [m EXCEPT !.stage = "backlog"]
<1>1. a \in Conn /\ a.ip = p
  BY NoConnTyped DEF Conn, NoConn
<1> HIDE DEF a
<1>2. b \in Conn /\ b.ip = p
  BY <1>1 DEF Conn
<1> HIDE DEF b
<1>3. m \in Conn /\ m.ip = p
  BY <1>2 DEF Conn
<1> HIDE DEF m
<1>4. n \in Conn /\ n.stage = "backlog"
  BY <1>3 DEF Conn
<1>5. n = [NoConn EXCEPT !.stage = "backlog", !.ip = p, !.route = r, !.token = t]
  BY DEF NoConn, a, b, m
<1> QED BY <1>4, <1>5

\* Before the first start.
LEMMA ServerInvInit == ServerInit => ServerInv
<1> SUFFICES ASSUME ServerInit PROVE ServerInv
  OBVIOUS
<1>1. Threads = {}
  BY DEF ServerInit, Threads, NoConns, NoConn
<1>2. Counted
  BY <1>1, FS_EmptySet, RemoteServerAssumption DEF ServerInit, Counted
<1>3. ServerTypes
  BY NoConnTyped DEF ServerInit, ServerTypes, NoConns, NoToken
<1>4. Tokens
  BY DEF ServerInit, Tokens
<1> QED BY <1>2, <1>3, <1>4 DEF ServerInv

\* The three ways a step may change the threads.
LEMMA Unmoved ==
    ASSUME Counted, Threads' = Threads, UNCHANGED conns
    PROVE  Counted'
BY DEF Counted

\* A thread begins.
LEMMA Begun ==
    ASSUME ServerTypes, Counted, NEW c \in Conns, c \notin Threads, Threads' = Threads \cup {c},
           conns < MaxConnections, conns' = conns + 1
    PROVE  Counted'
<1>1. Cardinality(Threads') = Cardinality(Threads) + 1
  BY ThreadsFinite, FS_AddElement
<1> QED BY <1>1, RemoteServerAssumption DEF Counted, ServerTypes

\* A thread ends (ConnGuard).
LEMMA Ended ==
    ASSUME ServerTypes, Counted, NEW c \in Conns, c \in Threads, Threads' = Threads \ {c}, conns' = conns - 1
    PROVE  Counted' /\ conns' \in Nat
<1>1. Cardinality(Threads') = Cardinality(Threads) - 1
  BY ThreadsFinite, FS_RemoveElement
<1>2. conns # 0
  BY ThreadsFinite, FS_EmptySet DEF Counted
<1> QED BY <1>1, <1>2, RemoteServerAssumption DEF Counted, ServerTypes

\* A thread ends, or goes on.
LEMMA EndsStep ==
    ASSUME ServerTypes, Counted, NEW c \in Conns, conn[c].stage \in Running, Ends(c)
    PROVE  Counted' /\ conns' \in Nat /\ conn' \in [Conns -> Conn]
<1>1. conn' \in [Conns -> Conn]
  BY NoConnTyped DEF ServerTypes, Ends
<1>2. \A d \in Conns : conn'[d] = IF d = c THEN Closed ELSE conn[d]
  BY DEF ServerTypes, Ends
<1>3. Closed.stage \notin Running
  BY DEF Closed, NoConn
<1>4. c \in Threads /\ Threads' = Threads \ {c}
  BY <1>2, <1>3 DEF Threads
<1> QED BY <1>1, <1>4, Ended DEF Ends

\* A thread goes to its next stage.
LEMMA GoesStep ==
    ASSUME ServerTypes, Counted, NEW c \in Conns, conn[c].stage \in Running,
           NEW stage \in Running, Goes(c, stage)
    PROVE  Counted' /\ conns' \in Nat /\ conn' \in [Conns -> Conn]
<1>1. conn' \in [Conns -> Conn]
  BY DEF ServerTypes, Goes, Conn
<1>2. \A d \in Conns : conn'[d].stage = IF d = c THEN stage ELSE conn[d].stage
  BY DEF ServerTypes, Goes, Conn
<1>3. Threads' = Threads
  BY <1>2 DEF Threads
<1> QED BY <1>1, <1>3, Unmoved DEF Goes, ServerTypes

\* What a connection does touches neither the token nor its file.
LEMMA RequestStep ==
    ASSUME ServerInv, NEW c \in Conns, Requests(c)
    PROVE  ServerInv'
<1> USE DEF ServerInv
<1>1. UNCHANGED tokenVars /\ UNCHANGED now
  BY DEF Requests, Accept, Thread, Others, FirstCheck, HeadLate, SecondCheck, Failure, Handle, BodyLate,
         Connect, HeadRefused, HeadArrives, BodyArrives, Written, Panic, Step
<1>2. Tokens'
  BY <1>1 DEF Tokens, tokenVars
<1> SUFFICES Counted' /\ conns' \in Nat /\ conn' \in [Conns -> Conn]
  BY <1>1, <1>2 DEF ServerTypes, tokenVars
<1>3. CASE Connect(c)
  <2>1. PICK n \in Conn : n.stage = "backlog" /\ conn' = [conn EXCEPT ![c] = n]
    <3>1. PICK p \in Addresses, r \in Routes :
            conn' = [conn EXCEPT ![c] = [NoConn EXCEPT !.stage = "backlog", !.ip = p, !.route = r,
                                           !.token = IF NeedsAuth(r) THEN phoneToken ELSE NoToken]]
      BY <1>3 DEF Connect
    <3>2. (IF NeedsAuth(r) THEN phoneToken ELSE NoToken) \in Int
      BY DEF ServerTypes, NoToken
    <3> DEFINE n == [NoConn EXCEPT !.stage = "backlog", !.ip = p, !.route = r,
                       !.token = IF NeedsAuth(r) THEN phoneToken ELSE NoToken]
    <3>3. n \in Conn /\ n.stage = "backlog"
      BY <3>2, NewConn
    <3> HIDE DEF n
    <3>4. conn' = [conn EXCEPT ![c] = n]
      BY <3>1 DEF n
    <3> QED BY <3>3, <3>4
  <2>2. Threads' = Threads /\ conn' \in [Conns -> Conn]
    BY <1>3, <2>1 DEF Connect, Threads, ServerTypes
  <2> QED BY <1>3, <2>2, Unmoved DEF Connect, ServerTypes
<1>4. CASE Accept(c)
  <2>1. conn[c].stage = "backlog"
    BY <1>4 DEF Accept, First
  <2>2. CASE conns < MaxConnections /\ conn' = [conn EXCEPT ![c].stage = "first"] /\ conns' = conns + 1
    <3>1. conn' \in [Conns -> Conn]
      <4> DEFINE r == [conn[c] EXCEPT !.stage = "first"]
      <4>1. conn[c] \in Conn
        BY DEF ServerTypes
      <4>2. r \in Conn
        BY <2>1, <4>1 DEF Conn
      <4> HIDE DEF r
      <4> QED BY <2>2, <4>2 DEF ServerTypes, r
    <3>2. \A d \in Conns : conn'[d].stage = IF d = c THEN "first" ELSE conn[d].stage
      BY <2>2 DEF ServerTypes, Conn
    <3>3. c \notin Threads /\ Threads' = Threads \cup {c}
      BY <2>1, <3>2 DEF Threads
    <3> QED BY <2>2, <3>1, <3>3, Begun DEF ServerTypes
  <2>3. CASE conn' = [conn EXCEPT ![c] = Closed] /\ UNCHANGED conns
    <3>1. conn' \in [Conns -> Conn]
      BY <2>3, NoConnTyped DEF ServerTypes
    <3>2. \A d \in Conns : conn'[d] = IF d = c THEN Closed ELSE conn[d]
      BY <2>3 DEF ServerTypes
    <3>3. Closed.stage \notin Running
      BY DEF Closed, NoConn
    <3>4. Threads' = Threads
      BY <2>1, <3>2, <3>3 DEF Threads
    <3> QED BY <2>3, <3>1, <3>4, Unmoved DEF ServerTypes
  <2> QED BY <1>4, <2>2, <2>3 DEF Accept
<1>5. CASE Thread(c)
  <2>1. CASE FirstCheck(c)
    BY <2>1, EndsStep, GoesStep DEF FirstCheck
  <2>2. CASE HeadLate(c)
    BY <2>2, EndsStep DEF HeadLate
  <2>3. CASE SecondCheck(c)
    <3>1. CASE Ends(c)
      BY <2>3, <3>1, EndsStep DEF SecondCheck
    <3>2. CASE Goes(c, "handler")
      BY <2>3, <3>2, GoesStep DEF SecondCheck
    <3>3. CASE conn' = [conn EXCEPT ![c].stage = "failure", ![c].at = now] /\ UNCHANGED conns
      <4>1. conn' \in [Conns -> Conn]
        <5> DEFINE r == [conn[c] EXCEPT !.stage = "failure"]
                   q == [r EXCEPT !.at = now]
        <5>1. conn[c] \in Conn /\ conn[c].stage = "second" /\ now \in Int
          BY <2>3 DEF ServerTypes, SecondCheck
        <5>2. r \in Conn
          BY <5>1 DEF Conn
        <5> HIDE DEF r
        <5>3. q \in Conn
          BY <5>1, <5>2 DEF Conn
        <5>4. conn' = [conn EXCEPT ![c] = q]
          BY <3>3 DEF q, r
        <5> HIDE DEF q
        <5> QED BY <5>3, <5>4 DEF ServerTypes
      <4>2. \A d \in Conns : conn'[d].stage = IF d = c THEN "failure" ELSE conn[d].stage
        BY <3>3 DEF ServerTypes, Conn
      <4>3. Threads' = Threads
        BY <2>3, <4>2 DEF Threads, SecondCheck
      <4> QED BY <3>3, <4>1, <4>3, Unmoved DEF ServerTypes
    <3> QED BY <2>3, <3>1, <3>2, <3>3 DEF SecondCheck
  <2>4. CASE Failure(c)
    BY <2>4, EndsStep DEF Failure
  <2>5. CASE Handle(c)
    BY <2>5, EndsStep, GoesStep DEF Handle
  <2>6. CASE BodyLate(c)
    BY <2>6, EndsStep DEF BodyLate
  <2> QED BY <1>5, <2>1, <2>2, <2>3, <2>4, <2>5, <2>6 DEF Thread
<1>6. CASE HeadRefused(c)
  BY <1>6, EndsStep DEF HeadRefused
<1>7. CASE HeadArrives(c)
  BY <1>7, EndsStep, GoesStep DEF HeadArrives
<1>8. CASE BodyArrives(c)
  BY <1>8, GoesStep DEF BodyArrives
<1>9. CASE Written(c) \/ Panic(c)
  BY <1>9, EndsStep DEF Written, Panic
<1> QED BY <1>3, <1>4, <1>5, <1>6, <1>7, <1>8, <1>9, SMTT(60) DEF Requests, Others

\* The start and the end of the application, the user, and the accepting thread.
LEMMA ServiceStep ==
    ASSUME ServerInv, Service
    PROVE  ServerInv'
<1> USE DEF ServerInv
<1>1. CASE Boot \/ DeleteToken \/ Pair \/ Stop \/ Tick
  <2>1. UNCHANGED connVars
    BY <1>1 DEF Boot, Start, LoadToken, WriteToken, RenameToken, Serve, DeleteToken, Pair, Stop, Tick,
                ServerOff
  <2>2. Counted'
    BY <2>1 DEF Counted, Threads, connVars
  <2>3. ServerTypes'
    BY <1>1, <2>1 DEF ServerTypes, connVars, Boot, Start, LoadToken, WriteToken, RenameToken, Serve, DeleteToken,
                      Pair, Stop, Tick, ServerOff, tokenVars, NoToken, Torn
  <2>4. CASE Boot
    BY <2>2, <2>3, <2>4 DEF Tokens, Boot, Start, LoadToken, WriteToken, RenameToken, Serve, NoToken, Torn
  <2>5. CASE DeleteToken \/ Pair \/ Stop \/ Tick
    BY <2>2, <2>3, <2>5 DEF Tokens, DeleteToken, Pair, Stop, Tick, tokenVars, ServerOff
  <2> QED BY <1>1, <2>2, <2>3, <2>4, <2>5
<1>2. CASE Quit \/ PowerCut
  <2>1. conn' = NoConns /\ conns' = 0 /\ now' = 0
    BY <1>2 DEF Quit, PowerCut, ServerEnds
  <2>2. Threads' = {}
    BY <2>1 DEF Threads, NoConns, NoConn
  <2>3. Counted'
    BY <2>1, <2>2, FS_EmptySet, RemoteServerAssumption DEF Counted
  <2>4. ServerTypes'
    BY <1>2, <2>1, NoConnTyped DEF ServerTypes, NoConns, Quit, PowerCut, NoToken, Torn
  <2>5. Tokens'
    BY <1>2 DEF Tokens, Quit, PowerCut
  <2> QED BY <2>3, <2>4, <2>5
<1>3. CASE AcceptStops
  <2>1. \A c \in Conns : conn'[c] = IF conn[c].stage = "backlog" THEN Closed ELSE conn[c]
    BY <1>3 DEF AcceptStops
  <2>2. conn' \in [Conns -> Conn]
    BY <1>3, <2>1, NoConnTyped DEF AcceptStops, ServerTypes
  <2>3. Closed.stage \notin Running
    BY DEF Closed, NoConn
  <2>4. Threads' = Threads
    BY <2>1, <2>3 DEF Threads
  <2>5. Counted'
    BY <1>3, <2>4, Unmoved DEF AcceptStops
  <2> QED BY <1>3, <2>2, <2>5 DEF AcceptStops, ServerTypes, Tokens, tokenVars
<1> QED BY <1>1, <1>2, <1>3 DEF Service

-----------------------------------------------------------------------------
(***************************************************************************)
(* The limiter.  Failures come to it out of order, so its time is that of  *)
(* the newest one it recorded, m: what lasts at m of those answered 401 is *)
(* in its list.  When the newest was answered 429, the list holds too many *)
(* that last at m, and does so until a failure comes that is newer still:  *)
(* a late one is answered 429 as well.                                     *)
(***************************************************************************)
Fail == [by : Conns, at : Int]
Entry == [known : BOOLEAN, failures : SUBSET Fail, until : Int, seen : Int]
Failed == {p \in Addresses : told[p] # {}}

Few(T) ==
    \A t \in Int : (\A f \in T : f.at <= t) => Cardinality(InWindow(T, t)) <= MaxFailures

Remembers(F, T, m) ==
    /\ \A f \in T : f.at <= m
    /\ InWindow(T, m) \subseteq F
    /\ (\E f \in T : f.at = m) \/ Cardinality(InWindow(F, m)) > MaxFailures

Remembered(p) ==
    /\ entry[p].known <=> told[p] # {}
    /\ told[p] # {} => Few(told[p]) /\ \E m \in Int : Remembers(entry[p].failures, told[p], m)

Limits ==
    /\ entry \in [Addresses -> Entry] /\ told \in [Addresses -> SUBSET Fail]
    /\ \A p \in Addresses :
          /\ IsFiniteSet(entry[p].failures)
          /\ ~entry[p].known => entry[p].failures = {}
    /\ Cardinality(Failed) <= LimiterCap => \A p \in Addresses : Remembered(p)

\* The failures of a window and one more are finitely many.
LEMMA WindowParts ==
    ASSUME NEW F \in SUBSET Fail, NEW new \in Fail, IsFiniteSet(F)
    PROVE  LET G == InWindow(F, new.at) \cup {new}
           IN  G \in SUBSET Fail /\ IsFiniteSet(G)
<1>1. InWindow(F, new.at) \subseteq F
  BY DEF InWindow
<1>2. IsFiniteSet(InWindow(F, new.at))
  BY <1>1, FS_Subset
<1> QED BY <1>1, <1>2, FS_AddElement

\* A first failure is answered 401.
LEMMA FirstFailure ==
    ASSUME NEW new \in Fail
    PROVE  Few({new}) /\ Remembers({new}, {new}, new.at) /\ Cardinality({new}) <= MaxFailures
<1>1. MaxFailures \in Nat /\ MaxFailures >= 1
  BY RemoteServerAssumption
<1>2. Cardinality({new}) = 1
  BY FS_Singleton
<1>3. ASSUME NEW t \in Int PROVE Cardinality(InWindow({new}, t)) <= MaxFailures
  <2>1. InWindow({new}, t) = {} \/ InWindow({new}, t) = {new}
    BY DEF InWindow
  <2> QED BY <1>1, <1>2, <2>1, FS_EmptySet
<1> QED BY <1>1, <1>2, <1>3 DEF Few, Remembers, InWindow, Fail

\* Every later one: it is answered 401 if the list it joins is short.
LEMMA LaterFailure ==
    ASSUME NEW F \in SUBSET Fail, NEW T \in SUBSET Fail, IsFiniteSet(F), NEW new \in Fail,
           T # {}, Few(T), NEW m \in Int, Remembers(F, T, m)
    PROVE  LET G == InWindow(F, new.at) \cup {new}
               U == IF Cardinality(G) > MaxFailures THEN T ELSE T \cup {new}
           IN  Few(U) /\ \E n \in Int : Remembers(G, U, n)
<1> DEFINE G == InWindow(F, new.at) \cup {new}
           n == IF m >= new.at THEN m ELSE new.at
<1>1. /\ MaxFailures \in Nat /\ FailureWindow \in Nat /\ FailureWindow >= 1 /\ new.at \in Int /\ n \in Int
      /\ n >= m /\ n >= new.at /\ (n = m \/ n = new.at)
  BY RemoteServerAssumption DEF Fail
<1>2. \A f \in F \cup T \cup {new} : f.at \in Int
  BY DEF Fail
<1>3. G \in SUBSET Fail /\ IsFiniteSet(G) /\ Cardinality(G) \in Nat
  BY WindowParts, FS_CardinalityType
<1>4. \A f \in F : new.at < f.at + FailureWindow => f \in G
  BY DEF InWindow
<1>5. new \in G /\ G \subseteq F \cup {new}
  BY DEF InWindow
<1>6. n = m => InWindow(F, m) \subseteq InWindow(G, m)
  BY <1>1, <1>2, <1>4 DEF InWindow
<1>7. n = new.at => InWindow(G, n) = G
  BY <1>1, <1>2 DEF InWindow
<1> HIDE DEF G, n
<1>8. InWindow(T, n) \subseteq G
  <2> SUFFICES ASSUME NEW f \in T, n < f.at + FailureWindow PROVE f \in G
    BY DEF InWindow
  <2>1. m < f.at + FailureWindow /\ new.at < f.at + FailureWindow
    BY <1>1, <1>2
  <2>2. f \in F
    BY <2>1 DEF Remembers, InWindow
  <2> QED BY <1>4, <2>1, <2>2
<1>9. \A f \in T : f.at <= n
  BY <1>1, <1>2 DEF Remembers
<1>10. ASSUME n = m, Cardinality(InWindow(F, m)) > MaxFailures
       PROVE  Cardinality(InWindow(G, n)) > MaxFailures /\ Cardinality(G) > MaxFailures
  <2>1. InWindow(G, n) \subseteq G /\ InWindow(F, m) \subseteq InWindow(G, n)
    BY <1>6, <1>10 DEF InWindow
  <2>2. IsFiniteSet(InWindow(G, n)) /\ Cardinality(InWindow(G, n)) <= Cardinality(G)
    BY <1>3, <2>1, FS_Subset
  <2>3. IsFiniteSet(InWindow(F, m)) /\ Cardinality(InWindow(F, m)) <= Cardinality(InWindow(G, n))
    BY <2>1, <2>2, FS_Subset
  <2>4. Cardinality(InWindow(F, m)) \in Nat /\ Cardinality(InWindow(G, n)) \in Nat
    BY <2>2, <2>3, FS_CardinalityType
  <2> QED BY <1>1, <1>3, <1>10, <2>2, <2>3, <2>4
<1>11. CASE Cardinality(G) > MaxFailures
  <2>1. (\E f \in T : f.at = n) \/ Cardinality(InWindow(G, n)) > MaxFailures
    <3>1. CASE n = m
      BY <1>10, <3>1 DEF Remembers
    <3>2. CASE n = new.at
      BY <1>7, <1>11, <3>2
    <3> QED BY <1>1, <3>1, <3>2
  <2>2. Remembers(G, T, n)
    BY <1>8, <1>9, <2>1 DEF Remembers
  <2> QED BY <1>1, <1>11, <2>2 DEF G
<1>12. CASE ~(Cardinality(G) > MaxFailures)
  <2> DEFINE U == T \cup {new}
  <2>1. \E f \in U : f.at = n
    <3>1. CASE n = m
      BY <1>10, <1>12, <3>1 DEF Remembers
    <3>2. CASE n = new.at
      BY <3>2
    <3> QED BY <1>1, <3>1, <3>2
  <2>2. \A f \in U : f.at <= n
    BY <1>1, <1>9
  <2>3. InWindow(U, n) \subseteq G
    BY <1>5, <1>8 DEF InWindow
  <2>4. Remembers(G, U, n)
    BY <2>1, <2>2, <2>3 DEF Remembers
  <2>5. Few(U)
    <3> SUFFICES ASSUME NEW t \in Int, \A f \in U : f.at <= t
                 PROVE  Cardinality(InWindow(U, t)) <= MaxFailures
      BY DEF Few
    <3>1. n <= t
      BY <2>1
    <3>2. InWindow(U, t) \subseteq InWindow(U, n)
      BY <1>1, <1>2, <3>1 DEF InWindow
    <3>3. InWindow(U, t) \subseteq G
      BY <2>3, <3>2
    <3>4. IsFiniteSet(InWindow(U, t)) /\ Cardinality(InWindow(U, t)) <= Cardinality(G)
      BY <1>3, <3>3, FS_Subset
    <3>5. Cardinality(InWindow(U, t)) \in Nat
      BY <3>4, FS_CardinalityType
    <3> QED BY <1>1, <1>3, <1>12, <3>4, <3>5
  <2> QED BY <1>1, <1>12, <2>4, <2>5 DEF G
<1> QED BY <1>11, <1>12

\* A new limiter knows of nobody.
LEMMA NoLimits == entry = NoEntries /\ told = NobodyTold => Limits
<1> SUFFICES ASSUME entry = NoEntries, told = NobodyTold PROVE Limits
  OBVIOUS
<1>1. /\ entry \in [Addresses -> Entry] /\ told \in [Addresses -> SUBSET Fail]
      /\ \A p \in Addresses : entry[p].failures = {} /\ ~entry[p].known /\ told[p] = {}
  BY DEF NoEntries, NoEntry, NobodyTold, Entry
<1> QED BY <1>1, FS_EmptySet DEF Limits, Remembered

\* A check changes no failure.
LEMMA CheckedStep ==
    ASSUME Limits, NEW p \in Addresses, NEW t \in Int, entry' = Checked(p, t), UNCHANGED told
    PROVE  Limits'
<1>1. PICK u \in Int : entry' = entry \/ entry' = [entry EXCEPT ![p].seen = t, ![p].until = u]
  <2>1. entry[p].until \in Int
    BY DEF Limits, Entry
  <2> QED BY <2>1 DEF Checked
<1>2. /\ entry' \in [Addresses -> Entry]
      /\ \A q \in Addresses : entry'[q].failures = entry[q].failures /\ entry'[q].known = entry[q].known
  <2>1. entry \in [Addresses -> Entry]
    BY DEF Limits
  <2>2. CASE entry' = entry
    BY <2>1, <2>2
  <2>3. CASE entry' = [entry EXCEPT ![p].seen = t, ![p].until = u]
    <3> DEFINE r == [entry[p] EXCEPT !.seen = t]
               k == [r EXCEPT !.until = u]
    <3>1. entry[p] \in Entry
      BY <2>1
    <3>2. r \in Entry /\ r.failures = entry[p].failures /\ r.known = entry[p].known
      BY <3>1 DEF Entry
    <3> HIDE DEF r
    <3>3. k \in Entry /\ k.failures = entry[p].failures /\ k.known = entry[p].known
      BY <3>2 DEF Entry
    <3>4. entry' = [entry EXCEPT ![p] = k]
      BY <2>3 DEF r, k
    <3> HIDE DEF k
    <3> QED BY <2>1, <3>3, <3>4
  <2> QED BY <1>1, <2>2, <2>3
<1>3. Failed' = Failed
  BY DEF Failed
<1> QED BY <1>2, <1>3 DEF Limits, Remembered

\* Making room leaves the entry of the address that needs it as it is.
LEMMA RoomMade ==
    ASSUME Limits, NEW p \in Addresses, NEW e \in MakeRoom(p)
    PROVE  /\ e \in [Addresses -> Entry] /\ e[p] = entry[p]
           /\ \A q \in Addresses : e[q] \in {entry[q], NoEntry}
           /\ entry[p].known \/ Cardinality(Known) < LimiterCap => e = entry
<1>1. NoEntry \in Entry /\ entry \in [Addresses -> Entry]
  BY DEF NoEntry, Entry, Limits
<1>2. CASE entry[p].known \/ Cardinality(Known) < LimiterCap
  BY <1>1, <1>2 DEF MakeRoom
<1>3. CASE ~(entry[p].known \/ Cardinality(Known) < LimiterCap)
  <2>1. PICK q \in Known : e = [entry EXCEPT ![q] = NoEntry]
    BY <1>3 DEF MakeRoom
  <2>2. q \in Addresses /\ q # p
    BY <1>3 DEF Known
  <2> QED BY <1>1, <1>3, <2>1, <2>2
<1> QED BY <1>2, <1>3

\* A failure is recorded, and answered 401 or 429 (handle, step 5).
LEMMA FailureStep ==
    ASSUME ServerTypes, Limits, NEW c \in Conns, Failure(c)
    PROVE  Limits'
<1> DEFINE p == conn[c].ip
           new == [by |-> c, at |-> conn[c].at]
<1>1. p \in Addresses /\ new \in Fail
  BY DEF ServerTypes, Conn, Failure, Fail
<1>2. /\ \E e \in MakeRoom(p) : entry' = Recorded(e, p, new)
      /\ told' = IF Cardinality(entry'[p].failures) > MaxFailures
                  THEN told ELSE [told EXCEPT ![p] = @ \cup {new}]
  BY DEF Failure
<1> HIDE DEF p, new
<1>3. PICK e \in MakeRoom(p) : entry' = Recorded(e, p, new)
  BY <1>2
<1>4. /\ e \in [Addresses -> Entry] /\ e[p] = entry[p]
      /\ \A q \in Addresses : e[q] \in {entry[q], NoEntry}
      /\ entry[p].known \/ Cardinality(Known) < LimiterCap => e = entry
  BY <1>1, RoomMade
<1> DEFINE G == InWindow(entry[p].failures, new.at) \cup {new}
<1>5. entry[p] \in Entry /\ entry[p].failures \in SUBSET Fail /\ IsFiniteSet(entry[p].failures)
  BY <1>1 DEF Limits, Entry
<1>6. G \in SUBSET Fail /\ IsFiniteSet(G)
  BY <1>1, <1>5, WindowParts
<1>7. PICK u \in Int : entry' = [e EXCEPT ![p] = [known |-> TRUE, failures |-> G, seen |-> new.at, until |-> u]]
  <2> DEFINE u == IF Cardinality(G) > MaxFailures THEN new.at + FailureWindow ELSE e[p].until
  <2>1. u \in Int
    <3>1. new.at \in Int /\ FailureWindow \in Int /\ e[p].until \in Int
      BY <1>1, <1>4, <1>5, RemoteServerAssumption DEF Fail, Entry
    <3> QED BY <3>1
  <2>2. entry' = [e EXCEPT ![p] = [known |-> TRUE, failures |-> G, seen |-> new.at, until |-> u]]
    BY <1>3, <1>4 DEF Recorded
  <2> HIDE DEF u
  <2> QED BY <2>1, <2>2
<1> HIDE DEF G
<1>8. /\ entry' \in [Addresses -> Entry] /\ entry'[p].known /\ entry'[p].failures = G
      /\ \A q \in Addresses \ {p} : entry'[q] = e[q]
  BY <1>1, <1>4, <1>6, <1>7 DEF Entry, Fail
<1>9. \A q \in Addresses : IsFiniteSet(entry'[q].failures)
  <2> TAKE q \in Addresses
  <2>1. CASE q = p
    BY <1>6, <1>8, <2>1
  <2>2. CASE q # p
    <3>1. entry'[q].failures = entry[q].failures \/ entry'[q].failures = {}
      BY <1>4, <1>8, <2>2 DEF NoEntry
    <3>2. IsFiniteSet(entry[q].failures)
      BY DEF Limits
    <3> QED BY <3>1, <3>2, FS_EmptySet
  <2> QED BY <2>1, <2>2
<1> DEFINE U == IF Cardinality(G) > MaxFailures THEN told[p] ELSE told[p] \cup {new}
<1>10. /\ told' = [told EXCEPT ![p] = U] /\ told \in [Addresses -> SUBSET Fail]
       /\ U \in SUBSET Fail /\ told[p] \in SUBSET Fail
  BY <1>1, <1>2, <1>8 DEF Limits
<1>11. (Cardinality(Failed) <= LimiterCap)' => \A q \in Addresses : Remembered(q)'
  <2> SUFFICES ASSUME Cardinality(Failed') <= LimiterCap PROVE \A q \in Addresses : Remembered(q)'
    OBVIOUS
  <2>1. Failed \subseteq Failed' /\ Failed' \subseteq Addresses
    BY <1>1, <1>10 DEF Failed
  <2>2. /\ IsFiniteSet(Failed') /\ IsFiniteSet(Failed) /\ Cardinality(Failed) <= Cardinality(Failed')
        /\ Cardinality(Failed) \in Nat /\ Cardinality(Failed') \in Nat /\ LimiterCap \in Nat
    BY <2>1, FS_Subset, FS_CardinalityType, RemoteServerAssumption
  <2>3. \A q \in Addresses : Remembered(q)
    BY <2>2 DEF Limits
  <2>4. Known = Failed
    BY <2>3 DEF Known, Failed, Remembered
  <2>5. CASE entry[p].known
    <3>1. /\ told[p] # {} /\ Few(told[p])
          /\ \E m \in Int : Remembers(entry[p].failures, told[p], m)
      BY <1>1, <2>3, <2>5 DEF Remembered
    <3>2. Few(U) /\ \E n \in Int : Remembers(G, U, n)
      BY <1>1, <1>5, <1>10, <3>1, LaterFailure DEF G
    <3>3. U # {}
      BY <3>1
    <3> HIDE DEF U
    <3>4. told'[p] = U /\ \A q \in Addresses \ {p} : told'[q] = told[q] /\ entry'[q] = entry[q]
      BY <1>1, <1>4, <1>8, <1>10, <2>5
    <3> QED BY <1>8, <2>3, <3>2, <3>3, <3>4 DEF Remembered
  <2>6. CASE ~entry[p].known
    <3>1. told[p] = {} /\ entry[p].failures = {}
      BY <1>1, <2>3, <2>6 DEF Remembered, Limits
    <3>2. G = {new}
      BY <3>1 DEF G, InWindow
    <3>3. Few({new}) /\ Remembers({new}, {new}, new.at) /\ Cardinality({new}) <= MaxFailures
      BY <1>1, FirstFailure
    <3>4. U = {new}
      <4>1. Cardinality({new}) = 1 /\ MaxFailures \in Nat
        BY FS_Singleton, RemoteServerAssumption
      <4> QED BY <3>1, <3>2, <3>3, <4>1
    <3> HIDE DEF U
    <3>5. p \notin Failed /\ Failed' = Failed \cup {p}
      BY <1>1, <1>10, <3>1, <3>4 DEF Failed
    <3>6. Cardinality(Failed') = Cardinality(Failed) + 1
      BY <2>2, <3>5, FS_AddElement
    <3>7. e = entry
      BY <1>4, <2>2, <2>4, <3>6
    <3>8. told'[p] = U /\ \A q \in Addresses \ {p} : told'[q] = told[q] /\ entry'[q] = entry[q]
      BY <1>1, <1>8, <1>10, <3>7
    <3>9. new.at \in Int
      BY <1>1 DEF Fail
    <3> QED BY <1>8, <2>3, <3>2, <3>3, <3>4, <3>8, <3>9, ZenonT(60) DEF Remembered
  <2> QED BY <2>5, <2>6
<1>12. \A q \in Addresses : ~entry'[q].known => entry'[q].failures = {}
  BY <1>4, <1>8 DEF Limits, NoEntry
<1> HIDE DEF U
<1>13. told' \in [Addresses -> SUBSET Fail]
  BY <1>1, <1>10
<1> QED BY <1>8, <1>9, <1>11, <1>12, <1>13 DEF Limits

\* Every step keeps what the limiter knows in line with what was answered.
LEMMA LimitsStep ==
    ASSUME ServerTypes, Limits, [ServerNext]_serverVars
    PROVE  Limits'
<1>1. CASE UNCHANGED limitVars
  <2>1. Failed' = Failed
    BY <1>1 DEF Failed, limitVars
  <2> QED BY <1>1, <2>1 DEF Limits, Remembered, limitVars
<1>2. CASE Service
  <2>1. CASE Quit \/ PowerCut
    <3>1. (entry = NoEntries /\ told = NobodyTold)'
      BY <2>1 DEF Quit, PowerCut, ServerEnds, NoEntries, NobodyTold
    <3> QED BY <3>1, NoLimits, PTL
  <2>2. CASE ~(Quit \/ PowerCut)
    BY <1>1, <1>2, <2>2 DEF Service, Boot, Start, LoadToken, WriteToken, RenameToken, Serve, DeleteToken,
                            Pair, Stop, AcceptStops, Tick, ServerOff
  <2> QED BY <2>1, <2>2
<1>3. ASSUME NEW c \in Conns, Requests(c)
      PROVE  Limits'
  <2>1. CASE FirstCheck(c) \/ SecondCheck(c)
    <3>1. conn[c].ip \in Addresses /\ now \in Int
      BY <2>1 DEF ServerTypes, Conn, FirstCheck, SecondCheck
    <3>2. entry' = Checked(conn[c].ip, now) /\ UNCHANGED told
      BY <2>1 DEF FirstCheck, SecondCheck
    <3> QED BY <3>1, <3>2, CheckedStep
  <2>2. CASE Failure(c)
    BY <2>2, FailureStep
  <2>3. CASE ~(FirstCheck(c) \/ SecondCheck(c) \/ Failure(c))
    BY <1>1, <1>3, <2>3 DEF Requests, Accept, Thread, Others, HeadLate, Handle, BodyLate, Connect,
                            HeadRefused, HeadArrives, BodyArrives, Written, Panic
  <2> QED BY <2>1, <2>2, <2>3
<1>4. CASE UNCHANGED serverVars
  BY <1>1, <1>4 DEF serverVars, limitVars
<1> QED BY <1>2, <1>3, <1>4 DEF ServerNext, Service, Requests

-----------------------------------------------------------------------------
\* The inductive invariant of the server: the threads counted (ConnGuard), whose
\* token the file holds at every step of a start (load_or_create_token), and what
\* the limiter remembers of the failures it was told (record_failure).
THEOREM ServerInvariant == ServerSpec => [](ServerInv /\ Limits)
<1>0. ServerInit => Limits
  <2>1. ServerInit => entry = NoEntries /\ told = NobodyTold
    BY DEF ServerInit
  <2> QED BY <2>1, NoLimits
<1>1. ServerInv /\ [ServerNext]_serverVars => ServerInv'
  <2> SUFFICES ASSUME ServerInv, [ServerNext]_serverVars PROVE ServerInv'
    OBVIOUS
  <2>1. CASE UNCHANGED serverVars
    BY <2>1 DEF ServerInv, ServerTypes, Counted, Tokens, Threads, serverVars, tokenVars, connVars
  <2>2. CASE Service
    BY <2>2, ServiceStep
  <2>3. ASSUME NEW c \in Conns, Requests(c) PROVE ServerInv'
    BY <2>3, RequestStep
  <2> QED BY <2>1, <2>2, <2>3 DEF ServerNext, Service, Requests
<1>2. ServerInv /\ Limits /\ [ServerNext]_serverVars => Limits'
  BY LimitsStep DEF ServerInv
<1> QED BY ServerInvInit, <1>0, <1>1, <1>2, PTL DEF ServerSpec

\* The counter of connections is the number of their threads and stays within
\* its limit, on every path that ends one (accept_loop, ConnGuard).
THEOREM CounterIsRight == ServerSpec => []ConnsCounted
<1>1. ServerInv => ConnsCounted
  BY DEF ServerInv, Counted, ConnsCounted
<1> QED BY ServerInvariant, <1>1, PTL

\* A paired phone stays paired over every run of the application, until the
\* user deletes the token or a power cut loses it (load_or_create_token).
THEOREM PhonesStayPaired == ServerSpec => []PairingLasts
<1>1. ServerInv => PairingLasts
  BY DEF ServerInv, Tokens, PairingLasts
<1> QED BY ServerInvariant, <1>1, PTL

\* At most MAX_FAILURES of the failures of the window that lasts were answered
\* 401, however many requests were under way and in whatever order their
\* failures were recorded (handle, RateLimiter).
THEOREM RefusalsAreFew == ServerSpec => []FewRefusals
<1>1. Limits => FewRefusals
  <2> SUFFICES ASSUME Limits, Cardinality(Failed) <= LimiterCap, NEW p \in Addresses, NEW t \in 0..MaxNow,
                      \A f \in told[p] : f.at <= t
               PROVE  Cardinality(InWindow(told[p], t)) <= MaxFailures
    BY DEF FewRefusals, Failed
  <2>1. t \in Int /\ MaxFailures \in Nat
    BY RemoteServerAssumption
  <2>2. CASE told[p] = {}
    <3>1. InWindow(told[p], t) = {}
      BY <2>2 DEF InWindow
    <3> QED BY <2>1, <3>1, FS_EmptySet
  <2>3. CASE told[p] # {}
    BY <2>1, <2>3 DEF Limits, Remembered, Few
  <2> QED BY <2>2, <2>3
<1> QED BY ServerInvariant, <1>1, PTL
=============================================================================
