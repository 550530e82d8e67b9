---------------------------- MODULE ModesProofs -----------------------------
(***************************************************************************)
(* Proofs about what a session remembers of the modes of its terminal, and *)
(* what a new terminal is told of them (SessionModes), for all sequences a *)
(* program may write, all sizes of chunks, all modes and all bounds.       *)
(*                                                                         *)
(* A chunk is scanned byte by byte, so a stream cut anywhere is scanned as *)
(* a whole: the events the sink has been told, with those that wait in     *)
(* what has not been read, are the events the program meant.  For a saying *)
(* begins with an ESC, and an ESC ends whatever was under way.             *)
(*                                                                         *)
(* A terminal opened late sees the preamble, which leaves it with the      *)
(* modes that are remembered, and then an end of the stream.  What it has  *)
(* missed is at most the beginning of a sequence: from the first ESC it    *)
(* sees on, its scanner is in step with one that has seen everything.  And *)
(* an event leaves a mode alone or forces a value on it, so terminals that *)
(* agree on a mode go on doing so, and a terminal that has the mode as it  *)
(* is at the end has it there still when it is shown the end once more.    *)
(***************************************************************************)
EXTENDS SessionModes, TLAPS, FiniteSetTheorems, SequenceTheorems, WellFoundedInduction

\* A set of natural numbers that is not empty has a least element.
LEMMA Least ==
    ASSUME NEW T, T \subseteq Nat, T # {}
    PROVE  \E x \in T : \A y \in T : x <= y
<1> DEFINE Less == OpToRel(<, Nat)
<1>1. IsWellFoundedOn(Less, Nat)
  BY NatLessThanWellFounded DEF OpToRel
<1>2. \A x, y \in Nat : <<x, y>> \in Less <=> x < y
  BY DEF OpToRel
<1> HIDE DEF Less
<1>3. PICK x \in T : \A y \in T : ~(<<y, x>> \in Less)
  BY <1>1, WFMin
<1>4. \A y \in T : ~(y < x)
  BY <1>2, <1>3
<1> QED BY <1>4

\* A bounded one has a greatest element.
LEMMA Greatest ==
    ASSUME NEW n \in Nat, NEW T, T \subseteq 0..n, T # {}
    PROVE  \E x \in T : \A y \in T : y <= x
<1> DEFINE U == {n - x : x \in T}
<1>0. \A x \in T : n - x \in Nat
  OBVIOUS
<1>1. U \subseteq Nat /\ U # {}
  BY <1>0
<1>2. PICK u \in U : \A y \in U : u <= y
  BY <1>1, Least
<1>3. PICK x \in T : u = n - x
  BY <1>2
<1>4. \A y \in T : n - x <= n - y
  BY <1>2, <1>3
<1> QED BY <1>4

\* Induction, over a set in the place of a predicate.
LEMMA Induction ==
    ASSUME NEW S, 0 \in S, \A n \in Nat : n \in S => n + 1 \in S
    PROVE  Nat \subseteq S
<1> SUFFICES ASSUME Nat \ S # {} PROVE FALSE
  OBVIOUS
<1>1. PICK x \in Nat \ S : \A y \in Nat \ S : x <= y
  BY Least
<1>2. x - 1 \in Nat /\ x - 1 < x
  BY <1>1
<1>3. x - 1 \in S
  BY <1>1, <1>2
<1>4. (x - 1) + 1 \in S
  BY <1>2, <1>3
<1> QED BY <1>1, <1>4

\* What holds of the empty sequence and, with a sequence, of one longer by an
\* element, holds of all.
LEMMA SeqInduction ==
    ASSUME NEW E, NEW P, <<>> \in P,
           \A q \in Seq(E), x \in E : q \in P => Append(q, x) \in P
    PROVE  Seq(E) \subseteq P
<1> DEFINE S == {n \in Nat : \A q \in Seq(E) : Len(q) = n => q \in P}
<1>1. 0 \in S
  <2>1. \A q \in Seq(E) : Len(q) = 0 => q = <<>>
    OBVIOUS
  <2> QED BY <2>1
<1>2. ASSUME NEW n \in Nat, n \in S PROVE n + 1 \in S
  <2> SUFFICES ASSUME NEW q \in Seq(E), Len(q) = n + 1 PROVE q \in P
    BY <1>2
  <2> DEFINE r == SubSeq(q, 1, n)
             x == q[n + 1]
  <2>1. r \in Seq(E) /\ Len(r) = n /\ x \in E
    OBVIOUS
  <2>2. q = Append(r, x)
    OBVIOUS
  <2>3. r \in P
    BY <1>2, <2>1
  <2> HIDE DEF r, x
  <2> QED BY <2>1, <2>2, <2>3
<1>3. Nat \subseteq S
  <2> HIDE DEF S
  <2> QED BY <1>1, <1>2, Induction
<1> SUFFICES ASSUME NEW q \in Seq(E) PROVE q \in P
  OBVIOUS
<1>4. Len(q) \in Nat
  OBVIOUS
<1> QED BY <1>3, <1>4

-----------------------------------------------------------------------------
(* Folds.  FoldLeft is a function on the subsets of the indices; step is the *)
(* operation at each index.                                                  *)

\* The greatest index of a set that has the last one.
LEMMA MaxOf ==
    ASSUME NEW k \in Nat, NEW s \in SUBSET (1..k), k \in s
    PROVE  Max(s) = k
<1>1. \E x \in s : \A y \in s : x >= y
  OBVIOUS
<1> DEFINE m == Max(s)
<1>2. m \in s /\ \A y \in s : m >= y
  BY <1>1 DEF Max
<1> HIDE DEF m
<1>3. m \in Nat /\ m <= k /\ m >= k
  BY <1>2
<1> QED BY <1>3 DEF m

\* The greatest index of a set is one of them.
LEMMA MaxIn ==
    ASSUME NEW n \in Nat, NEW s \in SUBSET (1..n), s # {}
    PROVE  Max(s) \in s
<1>0. s \subseteq 0..n
  OBVIOUS
<1>1. PICK x \in s : \A y \in s : y <= x
  BY <1>0, Greatest
<1>2. \E z \in s : \A y \in s : z >= y
  BY <1>1
<1> QED BY <1>2 DEF Max

\* A fold over sets of indices, from the greatest down.
IsFold(h, n, base, step) ==
    \A s \in SUBSET (1..n) :
      h[s] = IF s = {} THEN base ELSE step[<<Max(s), h[s \ {Max(s)}]>>]

\* There is such a fold for every operation.
LEMMA FoldExists ==
    ASSUME NEW n \in Nat, NEW T, NEW base \in T, NEW step \in [(1..n) \X T -> T]
    PROVE  \E h \in [SUBSET (1..n) -> T] : IsFold(h, n, base, step)
<1> DEFINE S == {k \in Nat : k <= n => \E h \in [SUBSET (1..k) -> T] : IsFold(h, k, base, step)}
<1>1. 0 \in S
  <2> DEFINE h == [s \in SUBSET (1..0) |-> base]
  <2>1. h \in [SUBSET (1..0) -> T] /\ SUBSET (1..0) = {{}}
    OBVIOUS
  <2>2. IsFold(h, 0, base, step)
    BY <2>1 DEF IsFold
  <2> QED BY <2>1, <2>2
<1>2. ASSUME NEW k \in Nat, k \in S PROVE k + 1 \in S
  <2>0. k + 1 \in Nat
    OBVIOUS
  <2> SUFFICES ASSUME k + 1 <= n
               PROVE  \E h \in [SUBSET (1..(k + 1)) -> T] : IsFold(h, k + 1, base, step)
    BY <2>0, Zenon
  <2>1. k <= n
    OBVIOUS
  <2>2. PICK g \in [SUBSET (1..k) -> T] : IsFold(g, k, base, step)
    BY <1>2, <2>1
  <2> DEFINE h == [s \in SUBSET (1..(k + 1)) |-> IF k + 1 \in s THEN step[<<k + 1, g[s \ {k + 1}]>>] ELSE g[s]]
  <2>3. ASSUME NEW s \in SUBSET (1..(k + 1)) PROVE s \ {k + 1} \in SUBSET (1..k)
    BY <2>3
  <2>4. ASSUME NEW s \in SUBSET (1..(k + 1)), k + 1 \notin s PROVE s \in SUBSET (1..k)
    BY <2>4
  <2>5. h \in [SUBSET (1..(k + 1)) -> T]
    <3> SUFFICES ASSUME NEW s \in SUBSET (1..(k + 1)) 
                 PROVE (IF k + 1 \in s THEN step[<<k + 1, g[s \ {k + 1}]>>] ELSE g[s]) \in T
      BY Zenon
    <3>1. CASE k + 1 \in s
      <4>1. g[s \ {k + 1}] \in T /\ k + 1 \in 1..n
        BY <2>3
      <4> QED BY <3>1, <4>1
    <3>2. CASE k + 1 \notin s
      BY <2>4, <3>2
    <3> QED BY <3>1, <3>2
  <2>6. ASSUME NEW s \in SUBSET (1..(k + 1)) PROVE h[s] = IF s = {} THEN base ELSE step[<<Max(s), h[s \ {Max(s)}]>>]
    <3>1. CASE k + 1 \in s
      <4>1. Max(s) = k + 1
        BY <3>1, MaxOf
      <4> DEFINE r == s \ {k + 1}
      <4>2. r \in SUBSET (1..k) /\ k + 1 \notin r /\ r \in SUBSET (1..(k + 1))
        BY <2>3
      <4>3. h[r] = g[r] /\ h[s] = step[<<k + 1, g[r]>>]
        BY <3>1, <4>2
      <4> HIDE DEF h, r
      <4> QED BY <3>1, <4>1, <4>3 DEF r
    <3>2. CASE k + 1 \notin s
      <4>1. s \in SUBSET (1..k) /\ h[s] = g[s]
        BY <2>4, <3>2
      <4>2. g[s] = IF s = {} THEN base ELSE step[<<Max(s), g[s \ {Max(s)}]>>]
        BY <2>2, <4>1 DEF IsFold
      <4> DEFINE r == s \ {Max(s)}
      <4>3. r \in SUBSET (1..k) /\ r \in SUBSET (1..(k + 1)) /\ k + 1 \notin r
        <5>1. r \subseteq s
          OBVIOUS
        <5> HIDE DEF r
        <5> QED BY <3>2, <4>1, <5>1
      <4>4. h[r] = g[r]
        BY <4>3
      <4> HIDE DEF h
      <4> QED BY <4>1, <4>2, <4>4
    <3> QED BY <3>1, <3>2
  <2> HIDE DEF h
  <2> QED BY <2>5, <2>6 DEF IsFold
<1>3. n \in S
  <2> HIDE DEF S
  <2> QED BY <1>1, <1>2, Induction
<1>4. n <= n
  OBVIOUS
<1> QED BY <1>3, <1>4, Zenon

\* A fold goes over the prefixes one index at a time.
GoesBy(h, n, step) == \A k \in 1..n : h[1..k] = step[<<k, h[1..(k - 1)]>>]

\* A fold over sets of indices does.
LEMMA FoldSteps ==
    ASSUME NEW n \in Nat, NEW h, NEW base, NEW step, IsFold(h, n, base, step)
    PROVE  GoesBy(h, n, step)
<1> SUFFICES ASSUME NEW k \in 1..n PROVE h[1..k] = step[<<k, h[1..(k - 1)]>>]
  BY Zenon DEF GoesBy
<1>1. 1..k \in SUBSET (1..n) /\ k \in 1..k /\ Max(1..k) = k /\ (1..k) \ {k} = 1..(k - 1)
  <2>1. Max(1..k) = k
    BY MaxOf
  <2> QED BY <2>1
<1>3. h[1..k] = IF 1..k = {} THEN base ELSE step[<<Max(1..k), h[(1..k) \ {Max(1..k)}]>>]
  BY <1>1, Zenon DEF IsFold
<1>4. h[1..k] = step[<<k, h[1..(k - 1)]>>]
  BY <1>1, <1>3, Zenon
<1> QED BY <1>4

\* Two tables that agree at the start and go on alike agree at the end.
LEMMA Agree ==
    ASSUME NEW n \in Nat, NEW f, NEW g, f[0] = g[0],
           \A k \in 1..n : f[k - 1] = g[k - 1] => f[k] = g[k]
    PROVE  f[n] = g[n]
<1> DEFINE S == {k \in Nat : k <= n => f[k] = g[k]}
<1>1. 0 \in S
  OBVIOUS
<1>2. ASSUME NEW k \in Nat, k \in S PROVE k + 1 \in S
  <2>0. k + 1 \in Nat
    OBVIOUS
  <2> SUFFICES ASSUME k + 1 <= n PROVE f[k + 1] = g[k + 1]
    BY <2>0, Zenon
  <2>1. k + 1 \in 1..n /\ (k + 1) - 1 = k /\ k <= n
    OBVIOUS
  <2>2. f[k] = g[k]
    BY <1>2, <2>1
  <2> QED BY <2>1, <2>2
<1>3. n \in S
  <2> HIDE DEF S
  <2> QED BY <1>1, <1>2, Induction
<1>4. n <= n
  OBVIOUS
<1> QED BY <1>3, <1>4, Zenon

\* c folds what it is known to have typed so far.
Folds(c, n, T, base, step) ==
    /\ c[{}] = base
    /\ \A s \in SUBSET (1..n) : s # {} =>
          (c[s \ {Max(s)}] \in T => c[s] = step[<<Max(s), c[s \ {Max(s)}]>>])

\* A fold as a table over the prefixes.
IsTable(f, n, T, base, step, last) ==
    /\ f \in [0..n -> T] /\ f[0] = base /\ f[n] = last
    /\ \A k \in 1..n : f[k] = step[<<k, f[k - 1]>>]

\* The fold by subsets, as a table over the prefixes.
LEMMA FoldTable ==
    ASSUME NEW n \in Nat, NEW T, NEW base \in T, NEW step \in [(1..n) \X T -> T],
           NEW c, Folds(c, n, T, base, step)
    PROVE  \E f : IsTable(f, n, T, base, step, c[1..n])
<1>1. PICK h \in [SUBSET (1..n) -> T] : IsFold(h, n, base, step)
  BY FoldExists
<1>a. GoesBy(h, n, step)
  BY <1>1, FoldSteps
<1> DEFINE f == [k \in 0..n |-> h[1..k]]
           g == [k \in 0..n |-> c[1..k]]
<1>0. \A k \in 0..n : 1..k \in SUBSET (1..n)
  OBVIOUS
<1>2. f \in [0..n -> T]
  BY <1>0, <1>1
<1>3. f[0] = base /\ g[0] = base
  <2>1. 1..0 = {} /\ {} \in SUBSET (1..n) /\ 0 \in 0..n
    OBVIOUS
  <2>2. h[{}] = base
    BY <1>1, <2>1 DEF IsFold
  <2> QED BY <2>1, <2>2 DEF Folds
<1>4. ASSUME NEW k \in 1..n
      PROVE  f[k] = step[<<k, f[k - 1]>>] /\ (g[k - 1] \in T => g[k] = step[<<k, g[k - 1]>>])
  <2>1. k \in 0..n /\ k - 1 \in 0..n /\ k \in Nat
    OBVIOUS
  <2>2. h[1..k] = step[<<k, h[1..(k - 1)]>>]
    BY <1>a DEF GoesBy
  <2>3. f[k] = step[<<k, f[k - 1]>>]
    BY <2>1, <2>2
  <2>4. 1..k \in SUBSET (1..n) /\ k \in 1..k /\ 1..k # {} /\ (1..k) \ {k} = 1..(k - 1)
    OBVIOUS
  <2>5. Max(1..k) = k
    <3>1. \A s \in SUBSET (1..k) : k \in s => Max(s) = k
      BY <2>1, MaxOf
    <3> QED BY <2>4, <3>1
  <2>6. c[(1..k) \ {Max(1..k)}] \in T => c[1..k] = step[<<Max(1..k), c[(1..k) \ {Max(1..k)}]>>]
    BY <2>4, Zenon DEF Folds
  <2>7. c[1..(k - 1)] \in T => c[1..k] = step[<<k, c[1..(k - 1)]>>]
    BY <2>4, <2>5, <2>6, Zenon
  <2>8. g[k] = c[1..k] /\ g[k - 1] = c[1..(k - 1)]
    BY <2>1
  <2> HIDE DEF f, g
  <2> QED BY <2>3, <2>7, <2>8
<1>5. f[n] = g[n]
  <2>1. f[0] = g[0]
    BY <1>3
  <2>2. ASSUME NEW k \in 1..n, f[k - 1] = g[k - 1] PROVE f[k] = g[k]
    <3>1. k - 1 \in 0..n
      OBVIOUS
    <3>2. f[k - 1] \in T
      BY <1>2, <3>1
    <3> HIDE DEF f, g
    <3> QED BY <1>4, <2>2, <3>2
  <2> HIDE DEF f, g
  <2> QED BY <2>1, <2>2, Agree
<1>6. g[n] = c[1..n] /\ f[0] = base
  BY <1>3
<1>7. \A k \in 1..n : f[k] = step[<<k, f[k - 1]>>]
  BY <1>4
<1> HIDE DEF f, g
<1> QED BY <1>2, <1>5, <1>6, <1>7 DEF IsTable

\* The same for an operation that takes the elements of a sequence.
Solves(h, n, T, op, base, q) ==
    /\ h \in [SUBSET (1..n) -> T]
    /\ \A s \in SUBSET (1..n) :
          h[s] = IF s = {} THEN base ELSE op[<<h[s \ {Max(s)}], q[Max(s)]>>]

\* The value a recursive definition names follows the operation.
Follows(c, n, T, op, base, q) ==
    /\ c[{}] = base
    /\ \A s \in SUBSET (1..n) : s # {} =>
          (c[s \ {Max(s)}] \in T => c[s] = op[<<c[s \ {Max(s)}], q[Max(s)]>>])

\* What folding the operation op over q, from base, comes to.
IsFoldOf(v, T, op, base, q) ==
    \E f \in [0..Len(q) -> T] :
      /\ f[0] = base /\ f[Len(q)] = v
      /\ \A k \in 1..Len(q) : f[k] = op[<<f[k - 1], q[k]>>]

\* The recursive definition of a fold has a solution.
LEMMA FoldSolves ==
    ASSUME NEW T, NEW E, NEW op \in [T \X E -> T], NEW base \in T, NEW q \in Seq(E),
           NEW n, n = Len(q)
    PROVE  \E h : Solves(h, n, T, op, base, q)
<1> DEFINE step == [p \in (1..n) \X T |-> op[<<p[2], q[p[1]]>>]]
<1>1. n \in Nat /\ \A k \in 1..n : q[k] \in E
  OBVIOUS
<1>2. step \in [(1..n) \X T -> T]
  BY <1>1
<1>3. PICK h \in [SUBSET (1..n) -> T] : IsFold(h, n, base, step)
  <2> HIDE DEF step
  <2> QED BY <1>1, <1>2, FoldExists
<1>4. ASSUME NEW s \in SUBSET (1..n)
      PROVE  h[s] = IF s = {} THEN base ELSE op[<<h[s \ {Max(s)}], q[Max(s)]>>]
  <2>1. h[s] = IF s = {} THEN base ELSE step[<<Max(s), h[s \ {Max(s)}]>>]
    <3> HIDE DEF step
    <3> QED BY <1>3 DEF IsFold
  <2>2. CASE s # {}
    <3>1. Max(s) \in 1..n /\ s \ {Max(s)} \in SUBSET (1..n)
      BY <1>1, <2>2, MaxIn
    <3>2. h[s \ {Max(s)}] \in T
      BY <1>3, <3>1
    <3>3. step[<<Max(s), h[s \ {Max(s)}]>>] = op[<<h[s \ {Max(s)}], q[Max(s)]>>]
      BY <3>1, <3>2
    <3> HIDE DEF step
    <3> QED BY <2>1, <2>2, <3>3
  <2> HIDE DEF step
  <2> QED BY <2>1, <2>2
<1> HIDE DEF step
<1> QED BY <1>3, <1>4 DEF Solves

\* Whatever follows the operation is the fold of the sequence.
LEMMA FoldFollows ==
    ASSUME NEW T, NEW E, NEW op \in [T \X E -> T], NEW base \in T, NEW q \in Seq(E),
           NEW n, n = Len(q), NEW c, Follows(c, n, T, op, base, q)
    PROVE  IsFoldOf(c[1..n], T, op, base, q)
<1> DEFINE step == [p \in (1..n) \X T |-> op[<<p[2], q[p[1]]>>]]
<1>1. n \in Nat /\ \A k \in 1..n : q[k] \in E
  OBVIOUS
<1>2. step \in [(1..n) \X T -> T]
  BY <1>1
<1>3. ASSUME NEW s \in SUBSET (1..n), s # {}, c[s \ {Max(s)}] \in T
      PROVE  c[s] = step[<<Max(s), c[s \ {Max(s)}]>>]
  <2>1. Max(s) \in 1..n
    BY <1>1, <1>3, MaxIn
  <2>2. c[s] = op[<<c[s \ {Max(s)}], q[Max(s)]>>]
    BY <1>3, Zenon DEF Follows
  <2> QED BY <1>3, <2>1, <2>2
<1>4. Folds(c, n, T, base, step)
  <2> HIDE DEF step
  <2>1. c[{}] = base
    BY DEF Follows
  <2> QED BY <1>3, <2>1, Zenon DEF Folds
<1>5. PICK f : IsTable(f, n, T, base, step, c[1..n])
  <2> HIDE DEF step
  <2> QED BY <1>1, <1>2, <1>4, FoldTable, Zenon
<1>6. /\ f \in [0..n -> T] /\ f[0] = base /\ f[n] = c[1..n]
      /\ \A k \in 1..n : f[k] = step[<<k, f[k - 1]>>]
  <2> HIDE DEF step
  <2> QED BY <1>5 DEF IsTable
<1>7. ASSUME NEW k \in 1..n PROVE f[k] = op[<<f[k - 1], q[k]>>]
  <2>1. k - 1 \in 0..n /\ f[k] = step[<<k, f[k - 1]>>]
    <3> HIDE DEF step
    <3> QED BY <1>1, <1>6
  <2>2. f[k - 1] \in T
    BY <1>6, <2>1
  <2> QED BY <2>1, <2>2
<1> HIDE DEF step
<1> QED BY <1>6, <1>7 DEF IsFoldOf

\* A fold over nothing is where it began.
LEMMA FoldNil ==
    ASSUME NEW T, NEW op, NEW base, NEW v, IsFoldOf(v, T, op, base, <<>>)
    PROVE  v = base
<1>1. Len(<<>>) = 0
  OBVIOUS
<1> QED BY <1>1 DEF IsFoldOf

\* r is q and one element more.
Longer(r, q, b) ==
    Len(q) \in Nat /\ Len(r) = Len(q) + 1 /\ r[Len(q) + 1] = b /\ \A k \in 1..Len(q) : r[k] = q[k]

\* A fold over one more element is one more step.
LEMMA FoldSnoc ==
    ASSUME NEW T, NEW op, NEW base, NEW q, NEW r, NEW b, Longer(r, q, b),
           NEW v, NEW w, IsFoldOf(v, T, op, base, q), IsFoldOf(w, T, op, base, r)
    PROVE  v \in T /\ w = op[<<v, b>>]
<1> DEFINE n == Len(q)
<1>1. n \in Nat /\ Len(r) = n + 1 /\ r[n + 1] = b /\ \A k \in 1..n : r[k] = q[k]
  BY DEF Longer
<1>2. PICK f \in [0..n -> T] : /\ f[0] = base /\ f[n] = v
                               /\ \A k \in 1..n : f[k] = op[<<f[k - 1], q[k]>>]
  BY DEF IsFoldOf
<1>3. PICK g \in [0..Len(r) -> T] : /\ g[0] = base /\ g[Len(r)] = w
                                    /\ \A k \in 1..Len(r) : g[k] = op[<<g[k - 1], r[k]>>]
  BY DEF IsFoldOf
<1> HIDE DEF n
<1>4. ASSUME NEW k \in 1..n, f[k - 1] = g[k - 1] PROVE f[k] = g[k]
  <2>1. k \in 1..Len(r)
    BY <1>1
  <2> QED BY <1>1, <1>2, <1>3, <1>4, <2>1
<1>5. f[n] = g[n]
  <2>1. f[0] = g[0] /\ \A k \in 1..n : f[k - 1] = g[k - 1] => f[k] = g[k]
    BY <1>2, <1>3, <1>4, Zenon
  <2> QED BY <1>1, <2>1, Agree, Zenon
<1>6. g[n + 1] = op[<<g[(n + 1) - 1], r[n + 1]>>] /\ (n + 1) - 1 = n
  BY <1>1, <1>3
<1>7. n \in 0..n
  BY <1>1
<1> QED BY <1>1, <1>2, <1>3, <1>5, <1>6, <1>7

-----------------------------------------------------------------------------
(* What the scanner makes of a sequence of bytes. *)

Byte == Nat
States == {"Ground", "Esc", "Csi", "Collect", "CollectEsc"}
Scanner == [state : States, buf : Seq(Byte), overflow : BOOLEAN]
Event == {Scan(s, b).event : s \in Scanner, b \in Byte}
Fed == [scanner : Scanner, events : Seq(Event)]

\* A scanner that has just entered a state.
LEMMA AtTyped == \A state \in States : At(state) \in Scanner
BY DEF At, Scanner

\* A byte takes a scanner to a scanner (Scanner::feed).
LEMMA ScanTyped ==
    ASSUME NEW s \in Scanner, NEW b \in Byte
    PROVE  Scan(s, b).scanner \in Scanner /\ Scan(s, b).event \in Event
<1>1. Scan(s, b).event \in Event
  BY DEF Event
<1>2. NewScanner \in Scanner
  BY AtTyped DEF NewScanner, States
<1>3. AfterEsc(b).scanner \in Scanner
  BY <1>2, AtTyped DEF AfterEsc, Quiet, Reports, States
<1>4. ASSUME NEW max PROVE Collected(s, b, max) \in Scanner
  <2>1. Append(s.buf, b) \in Seq(Byte) /\ <<>> \in Seq(Byte)
    BY DEF Scanner
  <2> DEFINE longer == Append(s.buf, b)
  <2> HIDE DEF longer
  <2>2. [s EXCEPT !.overflow = TRUE, !.buf = <<>>] \in Scanner /\ [s EXCEPT !.buf = longer] \in Scanner
    BY <2>1 DEF Scanner, longer
  <2>3. Append(s.buf, b) = longer
    BY DEF longer
  <2> QED BY <2>2, <2>3 DEF Collected
<1>5. Finish(s).scanner \in Scanner
  BY <1>2 DEF Finish, Reports
<1>6. InCsi(s, b).scanner \in Scanner
  <2>1. Collected(s, b, MaxCsi) \in Scanner
    BY <1>4
  <2> QED BY <1>2, <2>1, AtTyped DEF InCsi, Quiet, Reports, States
<1>7. InPayload(s, b).scanner \in Scanner
  <2>1. Collected(s, b, MaxPayload) \in Scanner
    BY <1>4
  <2>2. [s EXCEPT !.state = "CollectEsc"] \in Scanner
    BY DEF Scanner, States
  <2> QED BY <1>2, <1>5, <2>1, <2>2 DEF InPayload, Quiet
<1>8. AfterEscInPayload(s, b).scanner \in Scanner
  BY <1>3, <1>5 DEF AfterEscInPayload
<1>9. s.state \in States
  BY DEF Scanner
<1>10. (IF b = ESC THEN At("Esc") ELSE s) \in Scanner
  BY AtTyped DEF States
<1> QED BY <1>1, <1>3, <1>6, <1>7, <1>8, <1>9, <1>10 DEF Scan, Quiet, States

\* So does a byte of a chunk.
LEMMA ScannedTyped ==
    ASSUME NEW acc \in Fed, NEW b \in Byte
    PROVE  Scanned(acc, b) \in Fed
<1>1. acc.scanner \in Scanner /\ acc.events \in Seq(Event)
  BY DEF Fed
<1>2. Scan(acc.scanner, b).scanner \in Scanner /\ Scan(acc.scanner, b).event \in Event
  BY <1>1, ScanTyped
<1> DEFINE r == Scan(acc.scanner, b)
<1> HIDE DEF r
<1>3. Append(acc.events, r.event) \in Seq(Event)
  BY <1>1, <1>2 DEF r
<1> QED BY <1>1, <1>2, <1>3 DEF Scanned, Fed, r

Start(s) == [scanner |-> s, events |-> <<>>]

ScannedOf == [p \in Fed \X Byte |-> Scanned(p[1], p[2])]

\* Feeding a chunk is a fold of what one byte does.
LEMMA FeedFolds ==
    ASSUME NEW s \in Scanner, NEW q \in Seq(Byte)
    PROVE  IsFoldOf(Feed(s, q), Fed, ScannedOf, Start(s), q) /\ Start(s) \in Fed
<1> DEFINE n == Len(q)
           base == Start(s)
           op == ScannedOf
           Rec(c) == c = [r \in SUBSET (1..n) |-> IF r = {} THEN base ELSE Scanned(c[r \ {Max(r)}], q[Max(r)])]
           it == CHOOSE c : Rec(c)
<1>1. n \in Nat /\ DOMAIN q = 1..n /\ (\A k \in 1..n : q[k] \in Byte)
  OBVIOUS
<1>2. base \in Fed
  BY DEF Start, Fed
<1>3. op \in [Fed \X Byte -> Fed] /\ \A v \in Fed, x \in Byte : op[<<v, x>>] = Scanned(v, x)
  BY ScannedTyped DEF ScannedOf
<1> HIDE DEF op
<1>4. PICK h : Solves(h, n, Fed, op, base, q)
  <2> HIDE DEF n, base
  <2> QED BY <1>2, <1>3, FoldSolves DEF n
<1>5. ASSUME NEW r \in SUBSET (1..n), r # {} PROVE Max(r) \in 1..n /\ r \ {Max(r)} \in SUBSET (1..n)
  BY <1>1, <1>5, MaxIn
<1>6. Rec(h)
  <2>0. h \in [SUBSET (1..n) -> Fed]
    BY <1>4 DEF Solves
  <2>1. ASSUME NEW r \in SUBSET (1..n) PROVE h[r] = IF r = {} THEN base ELSE Scanned(h[r \ {Max(r)}], q[Max(r)])
    <3>1. h[r] = IF r = {} THEN base ELSE op[<<h[r \ {Max(r)}], q[Max(r)]>>]
      BY <1>4 DEF Solves
    <3>2. CASE r # {}
      <4>1. h[r \ {Max(r)}] \in Fed /\ q[Max(r)] \in Byte
        BY <1>1, <1>5, <2>0, <3>2
      <4> HIDE DEF base, n
      <4> QED BY <1>3, <3>1, <3>2, <4>1
    <3> QED BY <3>1, <3>2
  <2> HIDE DEF base, n
  <2> QED BY <2>0, <2>1
<1>7. Rec(it)
  <2> HIDE DEF base, n
  <2> QED BY <1>6
<1>8. Feed(s, q) = it[1..n]
  BY <1>1 DEF Feed, Start, FoldLeft, MapThenFoldSet
<1> HIDE DEF base, n, it
<1>9. ASSUME NEW r \in SUBSET (1..n), r # {}, it[r \ {Max(r)}] \in Fed
      PROVE  it[r] = op[<<it[r \ {Max(r)}], q[Max(r)]>>]
  <2>1. it[r] = Scanned(it[r \ {Max(r)}], q[Max(r)])
    BY <1>7, <1>9
  <2>2. q[Max(r)] \in Byte
    BY <1>1, <1>5, <1>9
  <2> QED BY <1>3, <1>9, <2>1, <2>2, Zenon
<1>10. it[{}] = base
  BY <1>7
<1>11. Follows(it, n, Fed, op, base, q)
  BY <1>9, <1>10, Zenon DEF Follows
<1>12. IsFoldOf(it[1..n], Fed, op, base, q)
  BY <1>2, <1>3, <1>11, FoldFollows, Zenon DEF n
<1> QED BY <1>2, <1>8, <1>12 DEF base, op

\* A chunk with one more byte is one more step.
LEMMA FeedSteps ==
    ASSUME NEW s \in Scanner, NEW q \in Seq(Byte), NEW b \in Byte
    PROVE  /\ Feed(s, <<>>) = Start(s)
           /\ Feed(s, q) \in Fed
           /\ Feed(s, Append(q, b)) = Scanned(Feed(s, q), b)
<1> DEFINE qb == Append(q, b)
<1>0. <<>> \in Seq(Byte) /\ qb \in Seq(Byte)
  OBVIOUS
<1>1. IsFoldOf(Feed(s, <<>>), Fed, ScannedOf, Start(s), <<>>)
  BY <1>0, FeedFolds, Zenon
<1>2. IsFoldOf(Feed(s, q), Fed, ScannedOf, Start(s), q)
  BY FeedFolds, Zenon
<1> HIDE DEF qb
<1>3. IsFoldOf(Feed(s, qb), Fed, ScannedOf, Start(s), qb)
  BY <1>0, FeedFolds, Zenon
<1> DEFINE v == Feed(s, q)
           w == Feed(s, qb)
           op == ScannedOf
           base == Start(s)
<1>a. IsFoldOf(v, Fed, op, base, q)
  BY <1>2, Zenon
<1>b. IsFoldOf(w, Fed, op, base, qb) 
  BY <1>3, Zenon
<1>d. Longer(qb, q, b)
  BY DEF Longer, qb
<1> HIDE DEF v, w, op, base
<1>c. v \in Fed /\ w = op[<<v, b>>]
  BY <1>a, <1>b, <1>d, FoldSnoc
<1>4. v \in Fed /\ w = ScannedOf[<<v, b>>]
  BY <1>c DEF op
<1>5. ScannedOf[<<v, b>>] = Scanned(v, b)
  BY <1>4 DEF ScannedOf
<1>6. Feed(s, <<>>) = Start(s)
  BY <1>1, FoldNil, Zenon
<1> QED BY <1>4, <1>5, <1>6 DEF v, w, qb

-----------------------------------------------------------------------------
(* What events do to a terminal, and to what the session remembers. *)

Setting == {"set", "reset"}
Values == [Modes -> {"default"} \cup Setting]
Tracked == Modes \ Untracked
Known == {k \in UNION {[D -> Setting] : D \in SUBSET Tracked} : Cardinality(DOMAIN k) <= MaxTracked}

\* An event of a program that keeps to its modes.
Meant == {e \in Event : e.kind = "mode" => e.modes \in Seq(Modes)}

\* The value of a mode that is set or reset.
LEMMA ValueTyped == \A set : Value(set) \in Setting
BY DEF Value, Setting

\* An event leaves a terminal with values.
LEMMA OnTerminalTyped ==
    ASSUME NEW values \in Values, NEW e
    PROVE  OnTerminal(values, e) \in Values
<1>1. CASE e.kind = "mode"
  <2>1. OnTerminal(values, e) = [m \in Modes |-> IF m \in Range(e.modes) THEN Value(e.set) ELSE values[m]]
    BY <1>1 DEF OnTerminal
  <2>2. Value(e.set) \in Setting
    BY ValueTyped
  <2> QED BY <2>1, <2>2 DEF Values
<1>2. CASE e.kind = "reset"
  <2>1. OnTerminal(values, e) = [m \in Modes |-> IF ~e.soft \/ m \in SoftReset THEN "default" ELSE values[m]]
    BY <1>2 DEF OnTerminal
  <2> QED BY <2>1 DEF Values
<1>3. CASE e.kind \notin {"mode", "reset"}
  BY <1>3 DEF OnTerminal
<1> QED BY <1>1, <1>2, <1>3

\* The modes are finitely many, as are those of any set of them.
LEMMA ModesFinite ==
    /\ IsFiniteSet(Modes) /\ MaxTracked \in Nat
    /\ \A S : S \subseteq Modes => IsFiniteSet(S) /\ Cardinality(S) \in Nat
<1>1. Modes \subseteq 0..MaxMode /\ MaxTracked \in Nat
  BY ModesAssumption
<1>2. IsFiniteSet(Modes)
  <2>1. MaxMode \in Int
    BY DEF MaxMode
  <2>2. IsFiniteSet(0..MaxMode)
    BY <2>1, FS_Interval
  <2> QED BY <1>1, <2>2, FS_Subset
<1> QED BY <1>1, <1>2, FS_Subset, FS_CardinalityType

\* What may be remembered, in terms of the modes it has.
LEMMA KnownIs ==
    \A k : k \in Known <=> /\ k \in [DOMAIN k -> Setting] /\ DOMAIN k \subseteq Tracked
                          /\ Cardinality(DOMAIN k) <= MaxTracked
BY DEF Known

\* Remembering a mode keeps to the limit and to the tracked modes.
LEMMA RememberTyped ==
    ASSUME NEW k \in Known, NEW m \in Modes, NEW set
    PROVE  Remember(k, m, set) \in Known
<1> DEFINE D == DOMAIN k \cup {m}
           v == Value(set)
           r == [x \in D |-> IF x = m THEN v ELSE k[x]]
<1>1. CASE m \in Untracked \/ (m \notin DOMAIN k /\ Cardinality(DOMAIN k) >= MaxTracked)
  BY <1>1 DEF Remember
<1>2. CASE ~(m \in Untracked \/ (m \notin DOMAIN k /\ Cardinality(DOMAIN k) >= MaxTracked))
  <2>1. k \in [DOMAIN k -> Setting] /\ DOMAIN k \subseteq Tracked /\ Cardinality(DOMAIN k) <= MaxTracked
    BY KnownIs
  <2>2. DOMAIN k \subseteq Modes /\ D \subseteq Tracked /\ v \in Setting
    BY <1>2, <2>1, ValueTyped DEF Tracked
  <2>3. IsFiniteSet(DOMAIN k) /\ Cardinality(DOMAIN k) \in Nat /\ MaxTracked \in Nat
    BY <2>2, ModesFinite
  <2>4. Cardinality(D) <= MaxTracked
    <3>1. CASE m \in DOMAIN k
      <4>1. D = DOMAIN k
        BY <3>1
      <4> QED BY <2>1, <4>1
    <3>2. CASE m \notin DOMAIN k
      <4>1. Cardinality(D) = Cardinality(DOMAIN k) + 1
        BY <2>3, <3>2, FS_AddElement
      <4> QED BY <1>2, <2>3, <3>2, <4>1
    <3> QED BY <3>1, <3>2
  <2> HIDE DEF D, v
  <2>5. r \in [D -> Setting] /\ DOMAIN r = D
    BY <2>1, <2>2 DEF D
  <2>6. Remember(k, m, set) = r
    BY <1>2 DEF Remember, D, v
  <2> HIDE DEF r
  <2> QED BY <2>2, <2>4, <2>5, <2>6, KnownIs
<1> QED BY <1>1, <1>2

RememberOf(set) == [p \in Known \X Modes |-> Remember(p[1], p[2], set)]

\* Remembering the modes of an event is a fold.
LEMMA RememberFolds ==
    ASSUME NEW known \in Known, NEW set, NEW q \in Seq(Modes)
    PROVE  IsFoldOf(RememberAll(known, q, set), Known, RememberOf(set), known, q) /\ known \in Known
<1> DEFINE n == Len(q)
           base == known
           op == RememberOf(set)
           Rec(c) == c = [r \in SUBSET (1..n) |-> IF r = {} THEN base ELSE Remember(c[r \ {Max(r)}], q[Max(r)], set)]
           it == CHOOSE c : Rec(c)
<1>1. n \in Nat /\ DOMAIN q = 1..n /\ (\A k \in 1..n : q[k] \in Modes)
  OBVIOUS
<1>2. base \in Known
  OBVIOUS
<1>3. op \in [Known \X Modes -> Known] /\ \A v \in Known, x \in Modes : op[<<v, x>>] = Remember(v, x, set)
  BY RememberTyped DEF RememberOf
<1> HIDE DEF op
<1>4. PICK h : Solves(h, n, Known, op, base, q)
  <2> HIDE DEF n, base
  <2> QED BY <1>2, <1>3, FoldSolves DEF n
<1>5. ASSUME NEW r \in SUBSET (1..n), r # {} PROVE Max(r) \in 1..n /\ r \ {Max(r)} \in SUBSET (1..n)
  BY <1>1, <1>5, MaxIn
<1>6. Rec(h)
  <2>0. h \in [SUBSET (1..n) -> Known]
    BY <1>4 DEF Solves
  <2>1. ASSUME NEW r \in SUBSET (1..n) PROVE h[r] = IF r = {} THEN base ELSE Remember(h[r \ {Max(r)}], q[Max(r)], set)
    <3>1. h[r] = IF r = {} THEN base ELSE op[<<h[r \ {Max(r)}], q[Max(r)]>>]
      BY <1>4 DEF Solves
    <3>2. CASE r # {}
      <4>1. h[r \ {Max(r)}] \in Known /\ q[Max(r)] \in Modes
        BY <1>1, <1>5, <2>0, <3>2
      <4> HIDE DEF base, n
      <4> QED BY <1>3, <3>1, <3>2, <4>1
    <3> QED BY <3>1, <3>2
  <2> HIDE DEF base, n
  <2> QED BY <2>0, <2>1
<1>7. Rec(it)
  <2> HIDE DEF base, n
  <2> QED BY <1>6
<1>8. RememberAll(known, q, set) = it[1..n]
  BY <1>1 DEF RememberAll, FoldLeft, MapThenFoldSet
<1> HIDE DEF base, n, it
<1>9. ASSUME NEW r \in SUBSET (1..n), r # {}, it[r \ {Max(r)}] \in Known
      PROVE  it[r] = op[<<it[r \ {Max(r)}], q[Max(r)]>>]
  <2>1. it[r] = Remember(it[r \ {Max(r)}], q[Max(r)], set)
    BY <1>7, <1>9
  <2>2. q[Max(r)] \in Modes
    BY <1>1, <1>5, <1>9
  <2> QED BY <1>3, <1>9, <2>1, <2>2, Zenon
<1>10. it[{}] = base
  BY <1>7
<1>11. Follows(it, n, Known, op, base, q)
  BY <1>9, <1>10, Zenon DEF Follows
<1>12. IsFoldOf(it[1..n], Known, op, base, q)
  BY <1>2, <1>3, <1>11, FoldFollows, Zenon DEF n
<1> QED BY <1>2, <1>8, <1>12 DEF base, op

\* One more mode is one more step.
LEMMA RememberSteps ==
    ASSUME NEW known \in Known, NEW set, NEW q \in Seq(Modes), NEW b \in Modes
    PROVE  /\ RememberAll(known, <<>>, set) = known
           /\ RememberAll(known, q, set) \in Known
           /\ RememberAll(known, Append(q, b), set) = Remember(RememberAll(known, q, set), b, set)
<1> DEFINE qb == Append(q, b)
<1>0. <<>> \in Seq(Modes) /\ qb \in Seq(Modes)
  OBVIOUS
<1>1. IsFoldOf(RememberAll(known, <<>>, set), Known, RememberOf(set), known, <<>>)
  BY <1>0, RememberFolds, Zenon
<1>2. IsFoldOf(RememberAll(known, q, set), Known, RememberOf(set), known, q)
  BY RememberFolds, Zenon
<1> HIDE DEF qb
<1>3. IsFoldOf(RememberAll(known, qb, set), Known, RememberOf(set), known, qb)
  BY <1>0, RememberFolds, Zenon
<1> DEFINE v == RememberAll(known, q, set)
           w == RememberAll(known, qb, set)
           op == RememberOf(set)
           base == known
<1>a. IsFoldOf(v, Known, op, base, q)
  BY <1>2, Zenon
<1>b. IsFoldOf(w, Known, op, base, qb) 
  BY <1>3, Zenon
<1>d. Longer(qb, q, b)
  BY DEF Longer, qb
<1> HIDE DEF v, w, op, base
<1>c. v \in Known /\ w = op[<<v, b>>]
  BY <1>a, <1>b, <1>d, FoldSnoc
<1>4. v \in Known /\ w = RememberOf(set)[<<v, b>>]
  BY <1>c DEF op
<1>5. RememberOf(set)[<<v, b>>] = Remember(v, b, set)
  BY <1>4 DEF RememberOf
<1>6. RememberAll(known, <<>>, set) = known
  BY <1>1, FoldNil, Zenon
<1> QED BY <1>4, <1>5, <1>6 DEF v, w, qb

\* An event leaves what may be remembered (apply_mode_event).
LEMMA ApplyTyped ==
    ASSUME NEW k \in Known, NEW e \in Meant
    PROVE  Apply(k, e) \in Known
<1>1. CASE e.kind = "mode"
  <2>1. e.modes \in Seq(Modes)
    BY <1>1 DEF Meant
  <2>2. RememberAll(k, e.modes, e.set) \in Known
    <3>1. IsFoldOf(RememberAll(k, e.modes, e.set), Known, RememberOf(e.set), k, e.modes)
      BY <2>1, RememberFolds
    <3>2. Len(e.modes) \in 0..Len(e.modes)
      BY <2>1
    <3> QED BY <3>1, <3>2 DEF IsFoldOf
  <2> QED BY <1>1, <2>2 DEF Apply
<1>2. CASE e.kind = "reset"
  <2> DEFINE soft == e.soft
             D == {m \in DOMAIN k : soft /\ m \notin SoftReset}
  <2>1. k \in [DOMAIN k -> Setting] /\ DOMAIN k \subseteq Tracked /\ Cardinality(DOMAIN k) <= MaxTracked
    BY KnownIs
  <2> HIDE DEF soft
  <2>2. D \subseteq DOMAIN k /\ DOMAIN k \subseteq Modes
    BY <2>1 DEF Tracked
  <2>3. Cardinality(D) <= Cardinality(DOMAIN k) /\ Cardinality(D) \in Nat /\ Cardinality(DOMAIN k) \in Nat
    BY <2>2, ModesFinite, FS_Subset
  <2>4. Cardinality(D) <= MaxTracked
    BY <2>1, <2>3, ModesFinite
  <2> HIDE DEF D
  <2> DEFINE r == [m \in D |-> k[m]]
  <2>5. r \in [D -> Setting] /\ DOMAIN r = D
    BY <2>1, <2>2
  <2>6. Apply(k, e) = r
    BY <1>2 DEF Apply, Forget, D, soft
  <2> HIDE DEF r
  <2> QED BY <2>1, <2>2, <2>4, <2>5, <2>6, KnownIs
<1>3. CASE e.kind \notin {"mode", "reset"}
  BY <1>3 DEF Apply
<1> QED BY <1>1, <1>2, <1>3

\* A list of events on a terminal, in what is remembered, at the sink.
Shows(values, events) == FoldLeft(OnTerminal, values, events)
Keeps(known, events) == FoldLeft(Apply, known, events)
Tells(told, events) == FoldLeft(Reported, told, events)

\* An event that goes to the sink is one more event told.
LEMMA ReportedTyped ==
    ASSUME NEW told \in Seq(Event), NEW e \in Event
    PROVE  Reported(told, e) \in Seq(Event)
BY DEF Reported

ShowsOf == [p \in Values \X Event |-> OnTerminal(p[1], p[2])]

\* What events do to a terminal is a fold.
LEMMA ShowsFolds ==
    ASSUME NEW values \in Values, NEW q \in Seq(Event)
    PROVE  IsFoldOf(Shows(values, q), Values, ShowsOf, values, q) /\ values \in Values
<1> DEFINE n == Len(q)
           base == values
           op == ShowsOf
           Rec(c) == c = [r \in SUBSET (1..n) |-> IF r = {} THEN base ELSE OnTerminal(c[r \ {Max(r)}], q[Max(r)])]
           it == CHOOSE c : Rec(c)
<1>1. n \in Nat /\ DOMAIN q = 1..n /\ (\A k \in 1..n : q[k] \in Event)
  OBVIOUS
<1>2. base \in Values
  OBVIOUS
<1>3. op \in [Values \X Event -> Values] /\ \A v \in Values, x \in Event : op[<<v, x>>] = OnTerminal(v, x)
  BY OnTerminalTyped DEF ShowsOf
<1> HIDE DEF op
<1>4. PICK h : Solves(h, n, Values, op, base, q)
  <2> HIDE DEF n, base
  <2> QED BY <1>2, <1>3, FoldSolves DEF n
<1>5. ASSUME NEW r \in SUBSET (1..n), r # {} PROVE Max(r) \in 1..n /\ r \ {Max(r)} \in SUBSET (1..n)
  BY <1>1, <1>5, MaxIn
<1>6. Rec(h)
  <2>0. h \in [SUBSET (1..n) -> Values]
    BY <1>4 DEF Solves
  <2>1. ASSUME NEW r \in SUBSET (1..n) PROVE h[r] = IF r = {} THEN base ELSE OnTerminal(h[r \ {Max(r)}], q[Max(r)])
    <3>1. h[r] = IF r = {} THEN base ELSE op[<<h[r \ {Max(r)}], q[Max(r)]>>]
      BY <1>4 DEF Solves
    <3>2. CASE r # {}
      <4>1. h[r \ {Max(r)}] \in Values /\ q[Max(r)] \in Event
        BY <1>1, <1>5, <2>0, <3>2
      <4> HIDE DEF base, n
      <4> QED BY <1>3, <3>1, <3>2, <4>1
    <3> QED BY <3>1, <3>2
  <2> HIDE DEF base, n
  <2> QED BY <2>0, <2>1
<1>7. Rec(it)
  <2> HIDE DEF base, n
  <2> QED BY <1>6
<1>8. Shows(values, q) = it[1..n]
  BY <1>1 DEF Shows, FoldLeft, MapThenFoldSet
<1> HIDE DEF base, n, it
<1>9. ASSUME NEW r \in SUBSET (1..n), r # {}, it[r \ {Max(r)}] \in Values
      PROVE  it[r] = op[<<it[r \ {Max(r)}], q[Max(r)]>>]
  <2>1. it[r] = OnTerminal(it[r \ {Max(r)}], q[Max(r)])
    BY <1>7, <1>9
  <2>2. q[Max(r)] \in Event
    BY <1>1, <1>5, <1>9
  <2> QED BY <1>3, <1>9, <2>1, <2>2, Zenon
<1>10. it[{}] = base
  BY <1>7
<1>11. Follows(it, n, Values, op, base, q)
  BY <1>9, <1>10, Zenon DEF Follows
<1>12. IsFoldOf(it[1..n], Values, op, base, q)
  BY <1>2, <1>3, <1>11, FoldFollows, Zenon DEF n
<1> QED BY <1>2, <1>8, <1>12 DEF base, op

\* One more event is one more step.
LEMMA ShowsSteps ==
    ASSUME NEW values \in Values, NEW q \in Seq(Event), NEW b \in Event
    PROVE  /\ Shows(values, <<>>) = values
           /\ Shows(values, q) \in Values
           /\ Shows(values, Append(q, b)) = OnTerminal(Shows(values, q), b)
<1> DEFINE qb == Append(q, b)
<1>0. <<>> \in Seq(Event) /\ qb \in Seq(Event)
  OBVIOUS
<1>1. IsFoldOf(Shows(values, <<>>), Values, ShowsOf, values, <<>>)
  BY <1>0, ShowsFolds, Zenon
<1>2. IsFoldOf(Shows(values, q), Values, ShowsOf, values, q)
  BY ShowsFolds, Zenon
<1> HIDE DEF qb
<1>3. IsFoldOf(Shows(values, qb), Values, ShowsOf, values, qb)
  BY <1>0, ShowsFolds, Zenon
<1> DEFINE v == Shows(values, q)
           w == Shows(values, qb)
           op == ShowsOf
           base == values
<1>a. IsFoldOf(v, Values, op, base, q)
  BY <1>2, Zenon
<1>b. IsFoldOf(w, Values, op, base, qb) 
  BY <1>3, Zenon
<1>d. Longer(qb, q, b)
  BY DEF Longer, qb
<1> HIDE DEF v, w, op, base
<1>c. v \in Values /\ w = op[<<v, b>>]
  BY <1>a, <1>b, <1>d, FoldSnoc
<1>4. v \in Values /\ w = ShowsOf[<<v, b>>]
  BY <1>c DEF op
<1>5. ShowsOf[<<v, b>>] = OnTerminal(v, b)
  BY <1>4 DEF ShowsOf
<1>6. Shows(values, <<>>) = values
  BY <1>1, FoldNil, Zenon
<1> QED BY <1>4, <1>5, <1>6 DEF v, w, qb

KeepsOf == [p \in Known \X Meant |-> Apply(p[1], p[2])]

\* What events leave remembered is a fold.
LEMMA KeepsFolds ==
    ASSUME NEW known \in Known, NEW q \in Seq(Meant)
    PROVE  IsFoldOf(Keeps(known, q), Known, KeepsOf, known, q) /\ known \in Known
<1> DEFINE n == Len(q)
           base == known
           op == KeepsOf
           Rec(c) == c = [r \in SUBSET (1..n) |-> IF r = {} THEN base ELSE Apply(c[r \ {Max(r)}], q[Max(r)])]
           it == CHOOSE c : Rec(c)
<1>1. n \in Nat /\ DOMAIN q = 1..n /\ (\A k \in 1..n : q[k] \in Meant)
  OBVIOUS
<1>2. base \in Known
  OBVIOUS
<1>3. op \in [Known \X Meant -> Known] /\ \A v \in Known, x \in Meant : op[<<v, x>>] = Apply(v, x)
  BY ApplyTyped DEF KeepsOf
<1> HIDE DEF op
<1>4. PICK h : Solves(h, n, Known, op, base, q)
  <2> HIDE DEF n, base
  <2> QED BY <1>2, <1>3, FoldSolves DEF n
<1>5. ASSUME NEW r \in SUBSET (1..n), r # {} PROVE Max(r) \in 1..n /\ r \ {Max(r)} \in SUBSET (1..n)
  BY <1>1, <1>5, MaxIn
<1>6. Rec(h)
  <2>0. h \in [SUBSET (1..n) -> Known]
    BY <1>4 DEF Solves
  <2>1. ASSUME NEW r \in SUBSET (1..n) PROVE h[r] = IF r = {} THEN base ELSE Apply(h[r \ {Max(r)}], q[Max(r)])
    <3>1. h[r] = IF r = {} THEN base ELSE op[<<h[r \ {Max(r)}], q[Max(r)]>>]
      BY <1>4 DEF Solves
    <3>2. CASE r # {}
      <4>1. h[r \ {Max(r)}] \in Known /\ q[Max(r)] \in Meant
        BY <1>1, <1>5, <2>0, <3>2
      <4> HIDE DEF base, n
      <4> QED BY <1>3, <3>1, <3>2, <4>1
    <3> QED BY <3>1, <3>2
  <2> HIDE DEF base, n
  <2> QED BY <2>0, <2>1
<1>7. Rec(it)
  <2> HIDE DEF base, n
  <2> QED BY <1>6
<1>8. Keeps(known, q) = it[1..n]
  BY <1>1 DEF Keeps, FoldLeft, MapThenFoldSet
<1> HIDE DEF base, n, it
<1>9. ASSUME NEW r \in SUBSET (1..n), r # {}, it[r \ {Max(r)}] \in Known
      PROVE  it[r] = op[<<it[r \ {Max(r)}], q[Max(r)]>>]
  <2>1. it[r] = Apply(it[r \ {Max(r)}], q[Max(r)])
    BY <1>7, <1>9
  <2>2. q[Max(r)] \in Meant
    BY <1>1, <1>5, <1>9
  <2> QED BY <1>3, <1>9, <2>1, <2>2, Zenon
<1>10. it[{}] = base
  BY <1>7
<1>11. Follows(it, n, Known, op, base, q)
  BY <1>9, <1>10, Zenon DEF Follows
<1>12. IsFoldOf(it[1..n], Known, op, base, q)
  BY <1>2, <1>3, <1>11, FoldFollows, Zenon DEF n
<1> QED BY <1>2, <1>8, <1>12 DEF base, op

\* One more event is one more step.
LEMMA KeepsSteps ==
    ASSUME NEW known \in Known, NEW q \in Seq(Meant), NEW b \in Meant
    PROVE  /\ Keeps(known, <<>>) = known
           /\ Keeps(known, q) \in Known
           /\ Keeps(known, Append(q, b)) = Apply(Keeps(known, q), b)
<1> DEFINE qb == Append(q, b)
<1>0. <<>> \in Seq(Meant) /\ qb \in Seq(Meant)
  OBVIOUS
<1>1. IsFoldOf(Keeps(known, <<>>), Known, KeepsOf, known, <<>>)
  BY <1>0, KeepsFolds, Zenon
<1>2. IsFoldOf(Keeps(known, q), Known, KeepsOf, known, q)
  BY KeepsFolds, Zenon
<1> HIDE DEF qb
<1>3. IsFoldOf(Keeps(known, qb), Known, KeepsOf, known, qb)
  BY <1>0, KeepsFolds, Zenon
<1> DEFINE v == Keeps(known, q)
           w == Keeps(known, qb)
           op == KeepsOf
           base == known
<1>a. IsFoldOf(v, Known, op, base, q)
  BY <1>2, Zenon
<1>b. IsFoldOf(w, Known, op, base, qb) 
  BY <1>3, Zenon
<1>d. Longer(qb, q, b)
  BY DEF Longer, qb
<1> HIDE DEF v, w, op, base
<1>c. v \in Known /\ w = op[<<v, b>>]
  BY <1>a, <1>b, <1>d, FoldSnoc
<1>4. v \in Known /\ w = KeepsOf[<<v, b>>]
  BY <1>c DEF op
<1>5. KeepsOf[<<v, b>>] = Apply(v, b)
  BY <1>4 DEF KeepsOf
<1>6. Keeps(known, <<>>) = known
  BY <1>1, FoldNil, Zenon
<1> QED BY <1>4, <1>5, <1>6 DEF v, w, qb

TellsOf == [p \in Seq(Event) \X Event |-> Reported(p[1], p[2])]

\* What is told of events is a fold.
LEMMA TellsFolds ==
    ASSUME NEW told \in Seq(Event), NEW q \in Seq(Event)
    PROVE  IsFoldOf(Tells(told, q), Seq(Event), TellsOf, told, q) /\ told \in Seq(Event)
<1> DEFINE n == Len(q)
           base == told
           op == TellsOf
           Rec(c) == c = [r \in SUBSET (1..n) |-> IF r = {} THEN base ELSE Reported(c[r \ {Max(r)}], q[Max(r)])]
           it == CHOOSE c : Rec(c)
<1>1. n \in Nat /\ DOMAIN q = 1..n /\ (\A k \in 1..n : q[k] \in Event)
  OBVIOUS
<1>2. base \in Seq(Event)
  OBVIOUS
<1>3. op \in [Seq(Event) \X Event -> Seq(Event)] /\ \A v \in Seq(Event), x \in Event : op[<<v, x>>] = Reported(v, x)
  BY ReportedTyped DEF TellsOf
<1> HIDE DEF op
<1>4. PICK h : Solves(h, n, Seq(Event), op, base, q)
  <2> HIDE DEF n, base
  <2> QED BY <1>2, <1>3, FoldSolves DEF n
<1>5. ASSUME NEW r \in SUBSET (1..n), r # {} PROVE Max(r) \in 1..n /\ r \ {Max(r)} \in SUBSET (1..n)
  BY <1>1, <1>5, MaxIn
<1>6. Rec(h)
  <2>0. h \in [SUBSET (1..n) -> Seq(Event)]
    BY <1>4 DEF Solves
  <2>1. ASSUME NEW r \in SUBSET (1..n) PROVE h[r] = IF r = {} THEN base ELSE Reported(h[r \ {Max(r)}], q[Max(r)])
    <3>1. h[r] = IF r = {} THEN base ELSE op[<<h[r \ {Max(r)}], q[Max(r)]>>]
      BY <1>4 DEF Solves
    <3>2. CASE r # {}
      <4>1. h[r \ {Max(r)}] \in Seq(Event) /\ q[Max(r)] \in Event
        BY <1>1, <1>5, <2>0, <3>2
      <4> HIDE DEF base, n
      <4> QED BY <1>3, <3>1, <3>2, <4>1
    <3> QED BY <3>1, <3>2
  <2> HIDE DEF base, n
  <2> QED BY <2>0, <2>1
<1>7. Rec(it)
  <2> HIDE DEF base, n
  <2> QED BY <1>6
<1>8. Tells(told, q) = it[1..n]
  BY <1>1 DEF Tells, FoldLeft, MapThenFoldSet
<1> HIDE DEF base, n, it
<1>9. ASSUME NEW r \in SUBSET (1..n), r # {}, it[r \ {Max(r)}] \in Seq(Event)
      PROVE  it[r] = op[<<it[r \ {Max(r)}], q[Max(r)]>>]
  <2>1. it[r] = Reported(it[r \ {Max(r)}], q[Max(r)])
    BY <1>7, <1>9
  <2>2. q[Max(r)] \in Event
    BY <1>1, <1>5, <1>9
  <2> QED BY <1>3, <1>9, <2>1, <2>2, Zenon
<1>10. it[{}] = base
  BY <1>7
<1>11. Follows(it, n, Seq(Event), op, base, q)
  BY <1>9, <1>10, Zenon DEF Follows
<1>12. IsFoldOf(it[1..n], Seq(Event), op, base, q)
  BY <1>2, <1>3, <1>11, FoldFollows, Zenon DEF n
<1> QED BY <1>2, <1>8, <1>12 DEF base, op

\* One more event is one more step.
LEMMA TellsSteps ==
    ASSUME NEW told \in Seq(Event), NEW q \in Seq(Event), NEW b \in Event
    PROVE  /\ Tells(told, <<>>) = told
           /\ Tells(told, q) \in Seq(Event)
           /\ Tells(told, Append(q, b)) = Reported(Tells(told, q), b)
<1> DEFINE qb == Append(q, b)
<1>0. <<>> \in Seq(Event) /\ qb \in Seq(Event)
  OBVIOUS
<1>1. IsFoldOf(Tells(told, <<>>), Seq(Event), TellsOf, told, <<>>)
  BY <1>0, TellsFolds, Zenon
<1>2. IsFoldOf(Tells(told, q), Seq(Event), TellsOf, told, q)
  BY TellsFolds, Zenon
<1> HIDE DEF qb
<1>3. IsFoldOf(Tells(told, qb), Seq(Event), TellsOf, told, qb)
  BY <1>0, TellsFolds, Zenon
<1> DEFINE v == Tells(told, q)
           w == Tells(told, qb)
           op == TellsOf
           base == told
<1>a. IsFoldOf(v, Seq(Event), op, base, q)
  BY <1>2, Zenon
<1>b. IsFoldOf(w, Seq(Event), op, base, qb) 
  BY <1>3, Zenon
<1>d. Longer(qb, q, b)
  BY DEF Longer, qb
<1> HIDE DEF v, w, op, base
<1>c. v \in Seq(Event) /\ w = op[<<v, b>>]
  BY <1>a, <1>b, <1>d, FoldSnoc
<1>4. v \in Seq(Event) /\ w = TellsOf[<<v, b>>]
  BY <1>c DEF op
<1>5. TellsOf[<<v, b>>] = Reported(v, b)
  BY <1>4 DEF TellsOf
<1>6. Tells(told, <<>>) = told
  BY <1>1, FoldNil, Zenon
<1> QED BY <1>4, <1>5, <1>6 DEF v, w, qb

-----------------------------------------------------------------------------
(* Concatenation. *)

\* The sequence r is p, then q.
Joined(r, p, q) == r = p \o q

\* Joining with one more element.
LEMMA JoinedLonger ==
    ASSUME NEW E, NEW p \in Seq(E), NEW q \in Seq(E), NEW b \in E
    PROVE  p \o Append(q, b) = Append(p \o q, b)
OBVIOUS

\* Sequences over a set are joined to one over it.
LEMMA JoinedTyped ==
    ASSUME NEW E, NEW p \in Seq(E), NEW q \in Seq(E), NEW r, Joined(r, p, q)
    PROVE  r \in Seq(E)
BY DEF Joined

\* Joining with nothing.
LEMMA JoinedNil ==
    ASSUME NEW E, NEW p \in Seq(E)
    PROVE  Joined(p, p, <<>>) /\ Joined(p, <<>>, p)
BY DEF Joined

\* Joining is associative.
LEMMA JoinedTwice ==
    ASSUME NEW E, NEW p \in Seq(E), NEW q \in Seq(E), NEW u \in Seq(E), NEW r, NEW t, NEW x,
           Joined(r, p, q), Joined(t, r, u), Joined(x, q, u)
    PROVE  Joined(t, p, x)
BY ConcatAssociative DEF Joined

\* The scanner and the events after the bytes q.
State(s, q) == Feed(s, q).scanner
\* The events a scanner finds in a chunk.
Found(s, q) == Feed(s, q).events

\* One more byte of a chunk, by what it does to the scanner.
LEMMA FeedIs ==
    ASSUME NEW s \in Scanner, NEW q \in Seq(Byte), NEW b \in Byte
    PROVE  /\ State(s, <<>>) = s /\ Found(s, <<>>) = <<>>
           /\ State(s, q) \in Scanner /\ Found(s, q) \in Seq(Event)
           /\ State(s, Append(q, b)) = Scan(State(s, q), b).scanner
           /\ Found(s, Append(q, b)) = IF Scan(State(s, q), b).event = NoEvent THEN Found(s, q)
                                       ELSE Append(Found(s, q), Scan(State(s, q), b).event)
<1>1. /\ Feed(s, <<>>) = Start(s) /\ Feed(s, q) \in Fed
      /\ Feed(s, Append(q, b)) = Scanned(Feed(s, q), b)
  BY FeedSteps
<1> QED BY <1>1 DEF Start, Fed, Scanned, State, Found

\* A chunk takes a scanner to a scanner and finds events.
LEMMA FeedTyped ==
    ASSUME NEW s \in Scanner, NEW q \in Seq(Byte)
    PROVE  State(s, q) \in Scanner /\ Found(s, q) \in Seq(Event)
<1>1. 0 \in Byte
  BY DEF Byte
<1> QED BY <1>1, FeedIs

\* An empty chunk does nothing.
LEMMA FeedNil ==
    ASSUME NEW s \in Scanner
    PROVE  State(s, <<>>) = s /\ Found(s, <<>>) = <<>>
<1>1. 0 \in Byte /\ <<>> \in Seq(Byte)
  BY DEF Byte
<1> QED BY <1>1, FeedIs

\* Two stretches of bytes are scanned as one.
LEMMA FeedJoined ==
    ASSUME NEW s \in Scanner, NEW p \in Seq(Byte), NEW q \in Seq(Byte), NEW r, Joined(r, p, q)
    PROVE  /\ State(s, r) = State(State(s, p), q)
           /\ Joined(Found(s, r), Found(s, p), Found(State(s, p), q))
<1> DEFINE t == State(s, p)
           Good(x) == /\ State(s, p \o x) = State(t, x)
                      /\ Found(s, p \o x) = Found(s, p) \o Found(t, x)
           P == {x \in Seq(Byte) : Good(x)}
<1>0. t \in Scanner /\ Found(s, p) \in Seq(Event)
  BY FeedTyped
<1> HIDE DEF t
<1>1. <<>> \in P
  <2>1. p \o <<>> = p /\ <<>> \in Seq(Byte)
    OBVIOUS
  <2>2. State(t, <<>>) = t /\ Found(t, <<>>) = <<>>
    BY <1>0, FeedNil
  <2>3. Found(s, p) \o <<>> = Found(s, p)
    BY <1>0
  <2> QED BY <2>1, <2>2, <2>3 DEF t
<1>2. ASSUME NEW x \in Seq(Byte), NEW b \in Byte, x \in P PROVE Append(x, b) \in P
  <2> DEFINE y == p \o x
             z == Append(x, b)
             u == State(t, x)
             e == Scan(u, b).event
  <2>1. y \in Seq(Byte) /\ z \in Seq(Byte) /\ p \o z = Append(y, b)
    BY JoinedLonger
  <2>2. State(s, y) = u /\ Found(s, y) = Found(s, p) \o Found(t, x)
    BY <1>2
  <2>3. /\ u \in Scanner /\ Found(t, x) \in Seq(Event)
        /\ State(t, z) = Scan(u, b).scanner
        /\ Found(t, z) = IF e = NoEvent THEN Found(t, x) ELSE Append(Found(t, x), e)
    BY <1>0, FeedIs
  <2>4. e \in Event
    BY <2>3, ScanTyped
  <2> HIDE DEF y, z
  <2>5. /\ State(s, Append(y, b)) = Scan(State(s, y), b).scanner
        /\ Found(s, Append(y, b)) = IF Scan(State(s, y), b).event = NoEvent THEN Found(s, y)
                                    ELSE Append(Found(s, y), Scan(State(s, y), b).event)
    BY <2>1, FeedIs
  <2> HIDE DEF u
  <2>6. State(s, p \o z) = State(t, z)
    BY <2>1, <2>2, <2>3, <2>5
  <2>7. Found(s, p \o z) = Found(s, p) \o Found(t, z)
    <3> DEFINE fp == Found(s, p)
               ft == Found(t, x)
    <3>1. fp \in Seq(Event) /\ ft \in Seq(Event)
      BY <1>0, <2>3
    <3>2. Found(s, Append(y, b)) = IF e = NoEvent THEN fp \o ft ELSE Append(fp \o ft, e)
      BY <2>2, <2>5
    <3>3. Found(t, z) = IF e = NoEvent THEN ft ELSE Append(ft, e)
      BY <2>3
    <3> HIDE DEF fp, ft, e
    <3>4. fp \o Append(ft, e) = Append(fp \o ft, e)
      BY <2>4, <3>1, JoinedLonger
    <3>5. Found(s, p \o z) = fp \o Found(t, z)
      BY <2>1, <3>2, <3>3, <3>4
    <3> QED BY <3>5 DEF fp
  <2> QED BY <2>1, <2>6, <2>7 DEF z
<1>3. Seq(Byte) \subseteq P
  <2> HIDE DEF P
  <2> QED BY <1>1, <1>2, SeqInduction
<1> QED BY <1>3 DEF Joined, t

\* No events change nothing.
LEMMA ShowsNil ==
    ASSUME NEW values \in Values, NEW nil, nil = <<>>
    PROVE  Shows(values, nil) = values
<1>1. <<>> \in Seq(Event)
  OBVIOUS
<1>2. IsFoldOf(Shows(values, <<>>), Values, ShowsOf, values, <<>>)
  BY <1>1, ShowsFolds, Zenon
<1> QED BY <1>2, FoldNil, Zenon

\* Events leave a terminal with values.
LEMMA ShowsTyped ==
    ASSUME NEW values \in Values, NEW q \in Seq(Event)
    PROVE  Shows(values, q) \in Values
<1>1. IsFoldOf(Shows(values, q), Values, ShowsOf, values, q)
  BY ShowsFolds, Zenon
<1>2. Len(q) \in 0..Len(q)
  OBVIOUS
<1> QED BY <1>1, <1>2 DEF IsFoldOf

\* Events one after the other.
LEMMA ShowsJoined ==
    ASSUME NEW values \in Values, NEW p \in Seq(Event), NEW q \in Seq(Event), NEW r, Joined(r, p, q)
    PROVE  Shows(values, r) = Shows(Shows(values, p), q) /\ Shows(values, p) \in Values
<1> DEFINE t == Shows(values, p)
           P == {x \in Seq(Event) : Shows(values, p \o x) = Shows(t, x)}
<1>0. t \in Values
  BY ShowsTyped
<1> HIDE DEF t
<1>1. <<>> \in P
  <2>1. p \o <<>> = p /\ <<>> \in Seq(Event)
    OBVIOUS
  <2>2. Shows(t, <<>>) = t
    BY <1>0, ShowsNil
  <2> QED BY <2>1, <2>2 DEF t
<1>2. ASSUME NEW x \in Seq(Event), NEW b \in Event, x \in P PROVE Append(x, b) \in P
  <2> DEFINE y == p \o x
             z == Append(x, b)
  <2>1. y \in Seq(Event) /\ z \in Seq(Event) /\ p \o z = Append(y, b)
    BY JoinedLonger
  <2>2. Shows(values, y) = Shows(t, x)
    BY <1>2
  <2>3. Shows(t, z) = OnTerminal(Shows(t, x), b)
    BY <1>0, ShowsSteps
  <2> HIDE DEF y, z
  <2>4. Shows(values, Append(y, b)) = OnTerminal(Shows(values, y), b)
    BY <2>1, ShowsSteps
  <2>5. Shows(values, p \o z) = Shows(t, z)
    BY <2>1, <2>2, <2>3, <2>4
  <2> QED BY <2>1, <2>5 DEF z
<1>3. Seq(Event) \subseteq P
  <2> HIDE DEF P
  <2> QED BY <1>1, <1>2, SeqInduction
<1> QED BY <1>0, <1>3 DEF Joined, t

\* No events leave what is remembered.
LEMMA KeepsNil ==
    ASSUME NEW known \in Known, NEW nil, nil = <<>>
    PROVE  Keeps(known, nil) = known
<1>1. <<>> \in Seq(Meant)
  OBVIOUS
<1>2. IsFoldOf(Keeps(known, <<>>), Known, KeepsOf, known, <<>>)
  BY <1>1, KeepsFolds, Zenon
<1> QED BY <1>2, FoldNil, Zenon

\* Events leave what may be remembered.
LEMMA KeepsTyped ==
    ASSUME NEW known \in Known, NEW q \in Seq(Meant)
    PROVE  Keeps(known, q) \in Known
<1>1. IsFoldOf(Keeps(known, q), Known, KeepsOf, known, q)
  BY KeepsFolds, Zenon
<1>2. Len(q) \in 0..Len(q)
  OBVIOUS
<1> QED BY <1>1, <1>2 DEF IsFoldOf

\* Events one after the other.
LEMMA KeepsJoined ==
    ASSUME NEW known \in Known, NEW p \in Seq(Meant), NEW q \in Seq(Meant), NEW r, Joined(r, p, q)
    PROVE  Keeps(known, r) = Keeps(Keeps(known, p), q) /\ Keeps(known, p) \in Known
<1> DEFINE t == Keeps(known, p)
           P == {x \in Seq(Meant) : Keeps(known, p \o x) = Keeps(t, x)}
<1>0. t \in Known
  BY KeepsTyped
<1> HIDE DEF t
<1>1. <<>> \in P
  <2>1. p \o <<>> = p /\ <<>> \in Seq(Meant)
    OBVIOUS
  <2>2. Keeps(t, <<>>) = t
    BY <1>0, KeepsNil
  <2> QED BY <2>1, <2>2 DEF t
<1>2. ASSUME NEW x \in Seq(Meant), NEW b \in Meant, x \in P PROVE Append(x, b) \in P
  <2> DEFINE y == p \o x
             z == Append(x, b)
  <2>1. y \in Seq(Meant) /\ z \in Seq(Meant) /\ p \o z = Append(y, b)
    BY JoinedLonger
  <2>2. Keeps(known, y) = Keeps(t, x)
    BY <1>2
  <2>3. Keeps(t, z) = Apply(Keeps(t, x), b)
    BY <1>0, KeepsSteps
  <2> HIDE DEF y, z
  <2>4. Keeps(known, Append(y, b)) = Apply(Keeps(known, y), b)
    BY <2>1, KeepsSteps
  <2>5. Keeps(known, p \o z) = Keeps(t, z)
    BY <2>1, <2>2, <2>3, <2>4
  <2> QED BY <2>1, <2>5 DEF z
<1>3. Seq(Meant) \subseteq P
  <2> HIDE DEF P
  <2> QED BY <1>1, <1>2, SeqInduction
<1> QED BY <1>0, <1>3 DEF Joined, t

\* No events are not told.
LEMMA TellsNil ==
    ASSUME NEW told \in Seq(Event), NEW nil, nil = <<>>
    PROVE  Tells(told, nil) = told
<1>1. <<>> \in Seq(Event)
  OBVIOUS
<1>2. IsFoldOf(Tells(told, <<>>), Seq(Event), TellsOf, told, <<>>)
  BY <1>1, TellsFolds, Zenon
<1> QED BY <1>2, FoldNil, Zenon

\* Events told are events.
LEMMA TellsTyped ==
    ASSUME NEW told \in Seq(Event), NEW q \in Seq(Event)
    PROVE  Tells(told, q) \in Seq(Event)
<1>1. IsFoldOf(Tells(told, q), Seq(Event), TellsOf, told, q)
  BY TellsFolds, Zenon
<1>2. Len(q) \in 0..Len(q)
  OBVIOUS
<1> QED BY <1>1, <1>2 DEF IsFoldOf

\* Events one after the other.
LEMMA TellsJoined ==
    ASSUME NEW told \in Seq(Event), NEW p \in Seq(Event), NEW q \in Seq(Event), NEW r, Joined(r, p, q)
    PROVE  Tells(told, r) = Tells(Tells(told, p), q) /\ Tells(told, p) \in Seq(Event)
<1> DEFINE t == Tells(told, p)
           P == {x \in Seq(Event) : Tells(told, p \o x) = Tells(t, x)}
<1>0. t \in Seq(Event)
  BY TellsTyped
<1> HIDE DEF t
<1>1. <<>> \in P
  <2>1. p \o <<>> = p /\ <<>> \in Seq(Event)
    OBVIOUS
  <2>2. Tells(t, <<>>) = t
    BY <1>0, TellsNil
  <2> QED BY <2>1, <2>2 DEF t
<1>2. ASSUME NEW x \in Seq(Event), NEW b \in Event, x \in P PROVE Append(x, b) \in P
  <2> DEFINE y == p \o x
             z == Append(x, b)
  <2>1. y \in Seq(Event) /\ z \in Seq(Event) /\ p \o z = Append(y, b)
    BY JoinedLonger
  <2>2. Tells(told, y) = Tells(t, x)
    BY <1>2
  <2>3. Tells(t, z) = Reported(Tells(t, x), b)
    BY <1>0, TellsSteps
  <2> HIDE DEF y, z
  <2>4. Tells(told, Append(y, b)) = Reported(Tells(told, y), b)
    BY <2>1, TellsSteps
  <2>5. Tells(told, p \o z) = Tells(t, z)
    BY <2>1, <2>2, <2>3, <2>4
  <2> QED BY <2>1, <2>5 DEF z
<1>3. Seq(Event) \subseteq P
  <2> HIDE DEF P
  <2> QED BY <1>1, <1>2, SeqInduction
<1> QED BY <1>0, <1>3 DEF Joined, t

-----------------------------------------------------------------------------
(* Two scanners. *)

\* The values of a terminal whose scanner is in state s after the bytes q.
Seen(v, s, q) == Shows(v, Found(s, q))

\* The event that is none changes nothing.
LEMMA NoEventShown == \A v : OnTerminal(v, NoEvent) = v
BY DEF OnTerminal, NoEvent

\* One more byte, by what its event does to a terminal.
LEMMA SeenIs ==
    ASSUME NEW v \in Values, NEW s \in Scanner, NEW q \in Seq(Byte), NEW b \in Byte
    PROVE  /\ Seen(v, s, <<>>) = v /\ Seen(v, s, q) \in Values
           /\ Seen(v, s, Append(q, b)) = OnTerminal(Seen(v, s, q), Scan(State(s, q), b).event)
<1> DEFINE f == Found(s, q)
           e == Scan(State(s, q), b).event
<1>1. /\ Found(s, <<>>) = <<>> /\ State(s, q) \in Scanner /\ f \in Seq(Event)
      /\ Found(s, Append(q, b)) = IF e = NoEvent THEN f ELSE Append(f, e)
  BY FeedIs
<1>2. e \in Event
  BY <1>1, ScanTyped
<1> HIDE DEF f, e
<1>3. Shows(v, f) \in Values /\ Shows(v, Append(f, e)) = OnTerminal(Shows(v, f), e)
  BY <1>1, <1>2, ShowsSteps
<1>4. Shows(v, <<>>) = v
  BY ShowsNil
<1>5. e = NoEvent => OnTerminal(Shows(v, f), e) = Shows(v, f)
  BY NoEventShown
<1> QED BY <1>1, <1>3, <1>4, <1>5 DEF Seen, e, f

\* Bytes leave a terminal with values.
LEMMA SeenTyped ==
    ASSUME NEW v \in Values, NEW s \in Scanner, NEW q \in Seq(Byte)
    PROVE  Seen(v, s, q) \in Values
<1>1. 0 \in Byte
  BY DEF Byte
<1> QED BY <1>1, SeenIs

\* No bytes change nothing.
LEMMA SeenNil ==
    ASSUME NEW v \in Values, NEW s \in Scanner
    PROVE  Seen(v, s, <<>>) = v
<1>1. 0 \in Byte /\ <<>> \in Seq(Byte)
  BY DEF Byte
<1> QED BY <1>1, SeenIs

\* Bytes one after the other.
LEMMA SeenJoined ==
    ASSUME NEW v \in Values, NEW s \in Scanner, NEW p \in Seq(Byte), NEW q \in Seq(Byte),
           NEW r, Joined(r, p, q)
    PROVE  Seen(v, s, r) = Seen(Seen(v, s, p), State(s, p), q)
<1> DEFINE fp == Found(s, p)
           fq == Found(State(s, p), q)
           fr == Found(s, r)
<1>1. Joined(fr, fp, fq)
  BY FeedJoined
<1>2. State(s, p) \in Scanner /\ fp \in Seq(Event)
  BY FeedTyped
<1>3. fq \in Seq(Event)
  BY <1>2, FeedTyped
<1> HIDE DEF fp, fq, fr
<1>4. Shows(v, fr) = Shows(Shows(v, fp), fq)
  BY <1>1, <1>2, <1>3, ShowsJoined
<1> QED BY <1>4 DEF Seen, fp, fq, fr

\* After an ESC, of a sequence of its own or inside a payload.
EscLike(s) == s.state \in {"Esc", "CollectEsc"}

\* The codes of the bytes, so that they are told apart.
LEMMA Codes ==
    /\ ESC = 27 /\ BEL = 7 /\ CAN = 24 /\ SUB = 26 /\ Bracket = 91 /\ CloseBracket = 93 /\ Backslash = 92
    /\ LetterC = 99 /\ LetterH = 104 /\ LetterL = 108 /\ LetterP = 112 /\ Question = 63
    /\ Semicolon = 59 /\ Bang = 33
BY DEF ESC, BEL, CAN, SUB, Bracket, CloseBracket, Backslash, LetterC, LetterH, LetterL, LetterP, Question, Semicolon, Bang

\* An ESC begins a sequence, whatever was under way.
LEMMA EscBegins ==
    ASSUME NEW s \in Scanner
    PROVE  EscLike(Scan(s, ESC).scanner) /\ Scan(s, ESC).event = NoEvent
<1>1. EscLike(AfterEsc(ESC).scanner) /\ AfterEsc(ESC).event = NoEvent
  BY Codes DEF AfterEsc, Quiet, EscLike, At
<1>2. EscLike(At("Esc"))
  BY DEF EscLike, At
<1>3. s.state \in States
  BY DEF Scanner
<1>4. CASE s.state = "Ground"
  BY <1>2, <1>4 DEF Scan, Quiet
<1>5. CASE s.state = "Esc"
  BY <1>1, <1>5 DEF Scan
<1>6. CASE s.state = "Csi"
  <2>1. Scan(s, ESC) = InCsi(s, ESC)
    BY <1>6 DEF Scan
  <2>2. InCsi(s, ESC) = Quiet(At("Esc"))
    BY Codes DEF InCsi
  <2> QED BY <1>2, <2>1, <2>2 DEF Quiet
<1>7. CASE s.state = "Collect"
  <2>1. Scan(s, ESC) = InPayload(s, ESC)
    BY <1>7 DEF Scan
  <2>2. InPayload(s, ESC) = Quiet([s EXCEPT !.state = "CollectEsc"])
    BY Codes DEF InPayload
  <2>3. EscLike([s EXCEPT !.state = "CollectEsc"])
    BY DEF EscLike, Scanner
  <2> QED BY <2>1, <2>2, <2>3 DEF Quiet
<1>8. CASE s.state = "CollectEsc"
  <2>1. Scan(s, ESC) = AfterEscInPayload(s, ESC)
    BY <1>8 DEF Scan
  <2>2. AfterEscInPayload(s, ESC) = AfterEsc(ESC)
    BY Codes DEF AfterEscInPayload
  <2> QED BY <1>1, <2>1, <2>2
<1> QED BY <1>3, <1>4, <1>5, <1>6, <1>7, <1>8 DEF States

\* After an ESC a byte is taken as if nothing had been before, a backslash
\* apart, which ends an OSC.
LEMMA AfterEscIs ==
    ASSUME NEW s \in Scanner, EscLike(s), NEW b \in Byte
    PROVE  /\ b # Backslash => Scan(s, b) = AfterEsc(b)
           /\ b = Backslash => /\ Scan(s, b).scanner = NewScanner
                               /\ \/ Scan(s, b).event = NoEvent
                                  \/ \E p : Scan(s, b).event = ParsePayload(p)
<1>1. CASE s.state = "Esc"
  <2>1. Scan(s, b) = AfterEsc(b)
    BY <1>1 DEF Scan
  <2>2. b = Backslash => AfterEsc(b) = Quiet(NewScanner)
    BY Codes DEF AfterEsc
  <2> QED BY <2>1, <2>2 DEF Quiet
<1>2. CASE s.state = "CollectEsc"
  <2>1. Scan(s, b) = IF b = Backslash THEN Finish(s) ELSE AfterEsc(b)
    BY <1>2 DEF Scan, AfterEscInPayload
  <2> QED BY <2>1 DEF Finish, Reports
<1> QED BY <1>1, <1>2 DEF EscLike

\* A payload sets no mode.
LEMMA PayloadShown == \A v, p : OnTerminal(v, ParsePayload(p)) = v
<1> SUFFICES ASSUME NEW v, NEW p PROVE OnTerminal(v, ParsePayload(p)) = v
  OBVIOUS
<1>1. ASSUME NEW q PROVE ParseExtension(q).kind \notin {"mode", "reset"}
  BY DEF ParseExtension, NoEvent
<1>2. ParsePayload(p).kind \notin {"mode", "reset"}
  BY <1>1 DEF ParsePayload, NoEvent
<1> QED BY <1>2 DEF OnTerminal

\* Two scanners that will report the same of the modes from here on.
InStep(f, g) == f = g \/ (EscLike(f) /\ EscLike(g))

\* Two scanners in step stay so, and find what shows the same.
LEMMA InStepScans ==
    ASSUME NEW f \in Scanner, NEW g \in Scanner, InStep(f, g), NEW b \in Byte, NEW v
    PROVE  /\ InStep(Scan(f, b).scanner, Scan(g, b).scanner)
           /\ OnTerminal(v, Scan(f, b).event) = OnTerminal(v, Scan(g, b).event)
<1>1. CASE f = g
  BY <1>1 DEF InStep
<1>2. CASE EscLike(f) /\ EscLike(g)
  <2>1. CASE b # Backslash
    <3>1. Scan(f, b) = Scan(g, b)
      BY <1>2, <2>1, AfterEscIs
    <3> QED BY <3>1 DEF InStep
  <2>2. CASE b = Backslash
    <3>1. Scan(f, b).scanner = NewScanner /\ Scan(g, b).scanner = NewScanner
      BY <1>2, <2>2, AfterEscIs
    <3>2. OnTerminal(v, Scan(f, b).event) = v
      BY <1>2, <2>2, AfterEscIs, PayloadShown, NoEventShown
    <3>3. OnTerminal(v, Scan(g, b).event) = v
      BY <1>2, <2>2, AfterEscIs, PayloadShown, NoEventShown
    <3> QED BY <3>1, <3>2, <3>3 DEF InStep
  <2> QED BY <2>1, <2>2
<1> QED BY <1>1, <1>2 DEF InStep

\* They do over a whole chunk.
LEMMA InStepFeeds ==
    ASSUME NEW f \in Scanner, NEW g \in Scanner, InStep(f, g), NEW v \in Values, NEW q \in Seq(Byte)
    PROVE  InStep(State(f, q), State(g, q)) /\ Seen(v, f, q) = Seen(v, g, q)
<1> DEFINE P == {x \in Seq(Byte) : InStep(State(f, x), State(g, x)) /\ Seen(v, f, x) = Seen(v, g, x)}
<1>1. <<>> \in P
  <2>1. <<>> \in Seq(Byte)
    OBVIOUS
  <2>2. InStep(State(f, <<>>), State(g, <<>>))
    BY FeedNil
  <2>3. Seen(v, f, <<>>) = Seen(v, g, <<>>)
    BY SeenNil
  <2> QED BY <2>1, <2>2, <2>3
<1>2. ASSUME NEW x \in Seq(Byte), NEW b \in Byte, x \in P PROVE Append(x, b) \in P
  <2> DEFINE sf == State(f, x)
             sg == State(g, x)
  <2>1. Append(x, b) \in Seq(Byte)
    OBVIOUS
  <2>2. /\ sf \in Scanner /\ sg \in Scanner
        /\ State(f, Append(x, b)) = Scan(sf, b).scanner
        /\ State(g, Append(x, b)) = Scan(sg, b).scanner
    BY FeedIs
  <2>3. /\ Seen(v, f, Append(x, b)) = OnTerminal(Seen(v, f, x), Scan(sf, b).event)
        /\ Seen(v, g, Append(x, b)) = OnTerminal(Seen(v, g, x), Scan(sg, b).event)
    BY SeenIs
  <2>4. InStep(sf, sg) /\ Seen(v, f, x) = Seen(v, g, x)
    BY <1>2
  <2> HIDE DEF sf, sg
  <2>5. /\ InStep(Scan(sf, b).scanner, Scan(sg, b).scanner)
        /\ OnTerminal(Seen(v, f, x), Scan(sf, b).event) = OnTerminal(Seen(v, f, x), Scan(sg, b).event)
    BY <2>2, <2>4, InStepScans
  <2> QED BY <2>1, <2>2, <2>3, <2>4, <2>5
<1>3. Seq(Byte) \subseteq P
  <2> HIDE DEF P
  <2> QED BY <1>1, <1>2, SeqInduction
<1> QED BY <1>3

\* What a new scanner reports of the modes is what one in the middle of the
\* output reports, but for its first events.
Ends(f, q) ==
    \E es \in Seq(Event) : \A v \in Values : Seen(v, f, q) = Seen(Shows(v, es), NewScanner, q)

\* There is an ESC in a chunk.
HasEsc(q) == \E i \in 1..Len(q) : q[i] = ESC

\* A new scanner is one.
LEMMA NewTyped == NewScanner \in Scanner
BY AtTyped DEF NewScanner, States

\* With nothing under way, only an ESC begins something.
LEMMA NewScans ==
    ASSUME NEW b \in Byte, b # ESC
    PROVE  Scan(NewScanner, b) = Quiet(NewScanner)
BY DEF Scan, NewScanner, At

\* Whatever was under way ends at the first ESC, if there is one: what the
\* events before it leave is what a new scanner begins with.
LEMMA EndsAll ==
    ASSUME NEW f \in Scanner, NEW q \in Seq(Byte)
    PROVE  /\ Ends(f, q)
           /\ HasEsc(q) => InStep(State(f, q), State(NewScanner, q))
           /\ ~HasEsc(q) => State(NewScanner, q) = NewScanner /\ Found(NewScanner, q) = <<>>
<1> DEFINE Good(x) == /\ HasEsc(x) => InStep(State(f, x), State(NewScanner, x)) /\ Ends(f, x)
                      /\ ~HasEsc(x) => State(NewScanner, x) = NewScanner /\ Found(NewScanner, x) = <<>>
           P == {x \in Seq(Byte) : Good(x)}
<1>0. NewScanner \in Scanner
  BY NewTyped
<1>1. <<>> \in P
  <2>1. <<>> \in Seq(Byte) /\ ~HasEsc(<<>>)
    BY DEF HasEsc
  <2>2. State(NewScanner, <<>>) = NewScanner /\ Found(NewScanner, <<>>) = <<>>
    BY <1>0, FeedNil
  <2> QED BY <2>1, <2>2
<1>2. ASSUME NEW x \in Seq(Byte), NEW b \in Byte, x \in P PROVE Append(x, b) \in P
  <2> DEFINE z == Append(x, b)
             sf == State(f, x)
             sg == State(NewScanner, x)
  <2>1. z \in Seq(Byte) /\ (HasEsc(z) <=> HasEsc(x) \/ b = ESC)
    <3>1. Len(z) = Len(x) + 1 /\ z[Len(x) + 1] = b /\ (\A i \in 1..Len(x) : z[i] = x[i]) /\ Len(x) \in Nat
      OBVIOUS
    <3>2. z \in Seq(Byte)
      OBVIOUS
    <3> HIDE DEF z
    <3> QED BY <3>1, <3>2 DEF HasEsc
  <2>2. /\ sf \in Scanner /\ sg \in Scanner /\ Found(f, x) \in Seq(Event)
        /\ State(f, z) = Scan(sf, b).scanner
        /\ State(NewScanner, z) = Scan(sg, b).scanner
        /\ Found(NewScanner, z) = IF Scan(sg, b).event = NoEvent THEN Found(NewScanner, x)
                                  ELSE Append(Found(NewScanner, x), Scan(sg, b).event)
    BY <1>0, FeedIs
  <2>3. ASSUME NEW v \in Values
        PROVE  /\ Seen(v, f, z) = OnTerminal(Seen(v, f, x), Scan(sf, b).event)
               /\ Seen(v, NewScanner, z) = OnTerminal(Seen(v, NewScanner, x), Scan(sg, b).event)
    BY <1>0, SeenIs
  <2>4. Good(x)
    BY <1>2
  <2>5. CASE HasEsc(x)
    <3>1. InStep(sf, sg)
      BY <2>4, <2>5
    <3>2. PICK es \in Seq(Event) : \A v \in Values : Seen(v, f, x) = Seen(Shows(v, es), NewScanner, x)
      BY <2>4, <2>5 DEF Ends
    <3> HIDE DEF z, sf, sg
    <3>3. InStep(State(f, z), State(NewScanner, z))
      BY <2>2, <3>1, InStepScans
    <3>4. ASSUME NEW v \in Values PROVE Seen(v, f, z) = Seen(Shows(v, es), NewScanner, z)
      <4> DEFINE w == Shows(v, es)
                 y == Seen(v, f, x)
      <4>1. w \in Values
        BY ShowsTyped
      <4> HIDE DEF w
      <4>2. Seen(w, NewScanner, z) = OnTerminal(Seen(w, NewScanner, x), Scan(sg, b).event)
        BY <2>3, <4>1
      <4>3. Seen(v, f, z) = OnTerminal(y, Scan(sf, b).event)
        BY <2>3
      <4>4. y = Seen(w, NewScanner, x)
        BY <3>2 DEF w
      <4> HIDE DEF y
      <4>5. OnTerminal(y, Scan(sf, b).event) = OnTerminal(y, Scan(sg, b).event)
        BY <2>2, <3>1, InStepScans
      <4> QED BY <4>2, <4>3, <4>4, <4>5 DEF w
    <3>5. Ends(f, z)
      BY <3>4 DEF Ends
    <3> QED BY <2>1, <2>5, <3>3, <3>5 DEF z
  <2>6. CASE ~HasEsc(x) /\ b = ESC
    <3>1. sg = NewScanner /\ Found(NewScanner, x) = <<>>
      BY <2>4, <2>6
    <3>2. /\ EscLike(Scan(sf, b).scanner) /\ Scan(sf, b).event = NoEvent
          /\ EscLike(Scan(sg, b).scanner) /\ Scan(sg, b).event = NoEvent
      BY <2>2, <2>6, EscBegins
    <3> HIDE DEF z, sf, sg
    <3>3. InStep(State(f, z), State(NewScanner, z)) /\ Found(NewScanner, z) = <<>>
      BY <2>2, <3>1, <3>2 DEF InStep
    <3>4. ASSUME NEW v \in Values PROVE Seen(v, f, z) = Seen(Shows(v, Found(f, x)), NewScanner, z)
      <4>1. Seen(v, f, z) = Seen(v, f, x)
        BY <2>3, <3>2, NoEventShown
      <4>2. Shows(v, Found(f, x)) \in Values
        BY <2>2, ShowsTyped
      <4>3. Shows(Shows(v, Found(f, x)), <<>>) = Shows(v, Found(f, x))
        BY <4>2, ShowsNil
      <4> QED BY <3>3, <4>1, <4>3 DEF Seen
    <3>5. Ends(f, z)
      BY <2>2, <3>4 DEF Ends
    <3> QED BY <2>1, <2>6, <3>3, <3>5 DEF z
  <2>7. CASE ~HasEsc(x) /\ b # ESC
    <3>1. sg = NewScanner /\ Found(NewScanner, x) = <<>>
      BY <2>4, <2>7
    <3>2. Scan(sg, b).scanner = NewScanner /\ Scan(sg, b).event = NoEvent
      BY <2>7, <3>1, NewScans DEF Quiet
    <3> HIDE DEF z, sf, sg
    <3> QED BY <2>1, <2>2, <2>7, <3>1, <3>2 DEF z
  <2> QED BY <2>5, <2>6, <2>7
<1>3. Good(q)
  <2>1. Seq(Byte) \subseteq P
    <3> HIDE DEF P
    <3> QED BY <1>1, <1>2, SeqInduction
  <2> QED BY <2>1
<1>4. ASSUME ~HasEsc(q) PROVE Ends(f, q)
  <2>1. Found(f, q) \in Seq(Event) /\ Found(NewScanner, q) = <<>>
    BY <1>3, <1>4, FeedTyped
  <2>2. ASSUME NEW v \in Values PROVE Seen(v, f, q) = Seen(Shows(v, Found(f, q)), NewScanner, q)
    <3>1. Shows(v, Found(f, q)) \in Values
      BY <2>1, ShowsTyped
    <3>2. Shows(Shows(v, Found(f, q)), <<>>) = Shows(v, Found(f, q))
      BY <3>1, ShowsNil
    <3> QED BY <2>1, <3>2 DEF Seen
  <2> QED BY <2>1, <2>2 DEF Ends
<1> QED BY <1>3, <1>4

\* A saying is taken for what it means, whatever was under way.
LEMMA SayingIs ==
    ASSUME NEW s \in Sayings
    PROVE  /\ s.bytes \in Seq(Byte) /\ Len(s.bytes) >= 2 /\ s.bytes[1] = ESC /\ s.bytes[2] # Backslash
           /\ Found(NewScanner, s.bytes) = IF s.event = NoEvent THEN <<>> ELSE <<s.event>>
           /\ s.event.kind = "mode" => s.event.modes \in Seq(Modes)
BY SayingsAssumption DEF Found, Byte

\* The first two bytes of a saying leave nothing of what was under way.
LEMMA SayingBegins ==
    ASSUME NEW f \in Scanner, NEW b \in Byte, b # Backslash, NEW q, q = <<ESC, b>>
    PROVE  /\ q \in Seq(Byte) /\ State(f, q) = AfterEsc(b).scanner
           /\ Found(f, q) = IF AfterEsc(b).event = NoEvent THEN <<>> ELSE <<AfterEsc(b).event>>
<1> DEFINE one == <<ESC>>
           s == Scan(f, ESC).scanner
           e == AfterEsc(b).event
<1>1. ESC \in Byte /\ <<>> \in Seq(Byte) /\ one \in Seq(Byte) /\ one = Append(<<>>, ESC) /\ q = Append(one, b)
  BY Codes DEF Byte
<1>2. EscLike(s) /\ Scan(f, ESC).event = NoEvent
  BY EscBegins
<1>3. /\ State(f, <<>>) = f /\ Found(f, <<>>) = <<>>
      /\ State(f, Append(<<>>, ESC)) = Scan(State(f, <<>>), ESC).scanner
      /\ Found(f, Append(<<>>, ESC)) = IF Scan(State(f, <<>>), ESC).event = NoEvent THEN Found(f, <<>>)
                                      ELSE Append(Found(f, <<>>), Scan(State(f, <<>>), ESC).event)
  BY <1>1, FeedIs
<1>4. State(f, one) = s /\ Found(f, one) = <<>>
  BY <1>1, <1>2, <1>3
<1> HIDE DEF one
<1>5. /\ State(f, one) \in Scanner
      /\ State(f, Append(one, b)) = Scan(State(f, one), b).scanner
      /\ Found(f, Append(one, b)) = IF Scan(State(f, one), b).event = NoEvent THEN Found(f, one)
                                   ELSE Append(Found(f, one), Scan(State(f, one), b).event)
  BY <1>1, FeedIs
<1> HIDE DEF s
<1>6. Scan(s, b) = AfterEsc(b)
  BY <1>2, <1>4, <1>5, AfterEscIs
<1>7. Append(<<>>, e) = <<e>>
  OBVIOUS
<1>8. q \in Seq(Byte)
  BY <1>1
<1> HIDE DEF e
<1> QED BY <1>1, <1>4, <1>5, <1>6, <1>7, <1>8 DEF e

\* A saying is taken for what it is meant to be, whatever was under way.
LEMMA SayingScanned ==
    ASSUME NEW f \in Scanner, NEW s \in Sayings
    PROVE  /\ State(f, s.bytes) = State(NewScanner, s.bytes)
           /\ Found(f, s.bytes) = IF s.event = NoEvent THEN <<>> ELSE <<s.event>>
<1> DEFINE w == s.bytes
           b == w[2]
           p == <<ESC, b>>
           q == SubSeq(w, 3, Len(w))
           a == AfterEsc(b).scanner
<1>1. w \in Seq(Byte) /\ Len(w) >= 2 /\ w[1] = ESC /\ b # Backslash
  BY SayingIs
<1>2. NewScanner \in Scanner
  BY NewTyped
<1> HIDE DEF w
<1>3. b \in Byte /\ ESC \in Byte /\ q \in Seq(Byte) /\ p \in Seq(Byte) /\ w = p \o q
  BY <1>1, Codes DEF Byte
<1> HIDE DEF q, b
<1>4. /\ State(f, p) = a /\ State(NewScanner, p) = a /\ Found(f, p) = Found(NewScanner, p)
  BY <1>1, <1>2, <1>3, SayingBegins
<1> HIDE DEF p
<1>5. Joined(w, p, q)
  BY <1>3 DEF Joined
<1>6. /\ State(f, w) = State(State(f, p), q)
      /\ Joined(Found(f, w), Found(f, p), Found(State(f, p), q))
  BY <1>3, <1>5, FeedJoined
<1>7. /\ State(NewScanner, w) = State(State(NewScanner, p), q)
      /\ Joined(Found(NewScanner, w), Found(NewScanner, p), Found(State(NewScanner, p), q))
  BY <1>2, <1>3, <1>5, FeedJoined
<1>8. State(f, w) = State(NewScanner, w) /\ Found(f, w) = Found(NewScanner, w)
  BY <1>4, <1>6, <1>7 DEF Joined
<1> QED BY <1>8, SayingIs DEF w

-----------------------------------------------------------------------------
(* The modes that a new terminal is told. *)

\* One more digit of a number.
LEMMA DigitTyped ==
    ASSUME NEW n \in Nat, NEW b \in Digit
    PROVE  10 * n + (b - 48) \in Nat
BY DEF Digit

NumberOf == [p \in Nat \X Digit |-> 10 * p[1] + (p[2] - 48)]

\* The number that digits write is a fold.
LEMMA NumberFolds ==
    ASSUME NEW q \in Seq(Digit)
    PROVE  IsFoldOf(Number(q), Nat, NumberOf, 0, q) /\ 0 \in Nat
<1> DEFINE n == Len(q)
           base == 0
           op == NumberOf
           Rec(c) == c = [r \in SUBSET (1..n) |-> IF r = {} THEN base ELSE 10 * c[r \ {Max(r)}] + (q[Max(r)] - 48)]
           it == CHOOSE c : Rec(c)
<1>1. n \in Nat /\ DOMAIN q = 1..n /\ (\A k \in 1..n : q[k] \in Digit)
  OBVIOUS
<1>2. base \in Nat
  OBVIOUS
<1>3. op \in [Nat \X Digit -> Nat] /\ \A v \in Nat, x \in Digit : op[<<v, x>>] = 10 * v + (x - 48)
  BY DigitTyped DEF NumberOf
<1> HIDE DEF op
<1>4. PICK h : Solves(h, n, Nat, op, base, q)
  <2> HIDE DEF n, base
  <2> QED BY <1>2, <1>3, FoldSolves DEF n
<1>5. ASSUME NEW r \in SUBSET (1..n), r # {} PROVE Max(r) \in 1..n /\ r \ {Max(r)} \in SUBSET (1..n)
  BY <1>1, <1>5, MaxIn
<1>6. Rec(h)
  <2>0. h \in [SUBSET (1..n) -> Nat]
    BY <1>4 DEF Solves
  <2>1. ASSUME NEW r \in SUBSET (1..n) PROVE h[r] = IF r = {} THEN base ELSE 10 * h[r \ {Max(r)}] + (q[Max(r)] - 48)
    <3>1. h[r] = IF r = {} THEN base ELSE op[<<h[r \ {Max(r)}], q[Max(r)]>>]
      BY <1>4 DEF Solves
    <3>2. CASE r # {}
      <4>1. h[r \ {Max(r)}] \in Nat /\ q[Max(r)] \in Digit
        BY <1>1, <1>5, <2>0, <3>2
      <4> HIDE DEF base, n
      <4> QED BY <1>3, <3>1, <3>2, <4>1
    <3> QED BY <3>1, <3>2
  <2> HIDE DEF base, n
  <2> QED BY <2>0, <2>1
<1>7. Rec(it)
  <2> HIDE DEF base, n
  <2> QED BY <1>6
<1>8. Number(q) = it[1..n]
  BY <1>1 DEF Number, FoldLeft, MapThenFoldSet
<1> HIDE DEF base, n, it
<1>9. ASSUME NEW r \in SUBSET (1..n), r # {}, it[r \ {Max(r)}] \in Nat
      PROVE  it[r] = op[<<it[r \ {Max(r)}], q[Max(r)]>>]
  <2>1. it[r] = 10 * it[r \ {Max(r)}] + (q[Max(r)] - 48)
    BY <1>7, <1>9
  <2>2. q[Max(r)] \in Digit
    BY <1>1, <1>5, <1>9
  <2> QED BY <1>3, <1>9, <2>1, <2>2, Zenon
<1>10. it[{}] = base
  BY <1>7
<1>11. Follows(it, n, Nat, op, base, q)
  BY <1>9, <1>10, Zenon DEF Follows
<1>12. IsFoldOf(it[1..n], Nat, op, base, q)
  BY <1>2, <1>3, <1>11, FoldFollows, Zenon DEF n
<1> QED BY <1>2, <1>8, <1>12 DEF base, op

\* One more digit is one more step.
LEMMA NumberSteps ==
    ASSUME NEW q \in Seq(Digit), NEW b \in Digit
    PROVE  /\ Number(<<>>) = 0
           /\ Number(q) \in Nat
           /\ Number(Append(q, b)) = 10 * Number(q) + (b - 48)
<1> DEFINE qb == Append(q, b)
<1>0. <<>> \in Seq(Digit) /\ qb \in Seq(Digit)
  OBVIOUS
<1>1. IsFoldOf(Number(<<>>), Nat, NumberOf, 0, <<>>)
  BY <1>0, NumberFolds, Zenon
<1>2. IsFoldOf(Number(q), Nat, NumberOf, 0, q)
  BY NumberFolds, Zenon
<1> HIDE DEF qb
<1>3. IsFoldOf(Number(qb), Nat, NumberOf, 0, qb)
  BY <1>0, NumberFolds, Zenon
<1> DEFINE v == Number(q)
           w == Number(qb)
           op == NumberOf
           base == 0
<1>a. IsFoldOf(v, Nat, op, base, q)
  BY <1>2, Zenon
<1>b. IsFoldOf(w, Nat, op, base, qb) 
  BY <1>3, Zenon
<1>d. Longer(qb, q, b)
  BY DEF Longer, qb
<1> HIDE DEF v, w, op, base
<1>c. v \in Nat /\ w = op[<<v, b>>]
  BY <1>a, <1>b, <1>d, FoldSnoc
<1>4. v \in Nat /\ w = NumberOf[<<v, b>>]
  BY <1>c DEF op
<1>5. NumberOf[<<v, b>>] = 10 * v + (b - 48)
  BY <1>4 DEF NumberOf
<1>6. Number(<<>>) = 0
  BY <1>1, FoldNil, Zenon
<1> QED BY <1>4, <1>5, <1>6 DEF v, w, qb

\* The length of a sequence, by its domain.
LEMMA OneLength ==
    ASSUME NEW E, NEW q \in Seq(E), NEW n \in Nat, DOMAIN q = 1..n
    PROVE  Len(q) = n
<1>1. DOMAIN q = 1..Len(q) /\ Len(q) \in Nat
  BY LenProperties
<1>2. Len(q) <= n
  <2>1. Len(q) = 0 \/ Len(q) \in DOMAIN q
    BY <1>1
  <2> QED BY <1>1, <2>1
<1>3. n <= Len(q)
  <2>1. n = 0 \/ n \in DOMAIN q
    OBVIOUS
  <2> QED BY <1>1, <2>1
<1> QED BY <1>1, <1>2, <1>3

\* A number of a mode has at most five digits.
LEMMA PowersAre ==
    /\ Powers[1] = 1 /\ Powers[2] = 10 /\ Powers[3] = 100 /\ Powers[4] = 1000 /\ Powers[5] = 10000
    /\ Powers[6] = 100000
BY SMT DEF Powers

\* A mode is less than a number of six digits.
LEMMA MaxModeIs == MaxMode \in Nat /\ MaxMode < 100000
BY SMT DEF MaxMode

\* The digits of a mode are read as its number.
LEMMA NumeralIs ==
    ASSUME NEW n \in 0..MaxMode
    PROVE  Numeral(n) \in Seq(Digit) /\ Len(Numeral(n)) >= 1 /\ Len(Numeral(n)) <= 5 /\ Number(Numeral(n)) = n
<1> DEFINE width == CHOOSE w \in 1..5 : n < Powers[w + 1] /\ (w = 1 \/ n >= Powers[w])
           d(k) == 48 + ((n \div Powers[k]) % 10)
           q == Numeral(n)
<1>1. /\ Powers[1] = 1 /\ Powers[2] = 10 /\ Powers[3] = 100 /\ Powers[4] = 1000 /\ Powers[5] = 10000
      /\ n < Powers[6] /\ n \in Nat /\ Powers[6] \in Nat
  <2>1. n \in Nat /\ n <= MaxMode
    BY MaxModeIs
  <2> QED BY <2>1, PowersAre, MaxModeIs, SMT
<1> HIDE DEF width
<1>2. width \in 1..5 /\ n < Powers[width + 1] /\ (width = 1 \/ n >= Powers[width])
  <2>1. \E w \in 1..5 : n < Powers[w + 1] /\ (w = 1 \/ n >= Powers[w])
    <3>1. CASE n < Powers[2]
      <4>1. 1 \in 1..5 /\ 1 + 1 = 2
        OBVIOUS
      <4> QED BY <3>1, <4>1, SMT
    <3>2. CASE n >= Powers[2] /\ n < Powers[3]
      BY <3>2, SMT
    <3>3. CASE n >= Powers[3] /\ n < Powers[4]
      BY <3>3, SMT
    <3>4. CASE n >= Powers[4] /\ n < Powers[5]
      BY <3>4, SMT
    <3>5. CASE n >= Powers[5]
      BY <1>1, <3>5, SMT
    <3> QED BY <1>1, <3>1, <3>2, <3>3, <3>4, <3>5, SMT
  <2> QED BY <2>1, SMT DEF width
<1>3. q = [i \in 1..width |-> 48 + ((n \div Powers[width - i + 1]) % 10)]
  BY SMT DEF Numeral, width
<1> DEFINE a == [k \in 1..6 |-> n \div Powers[k]]
           r == [k \in 1..5 |-> (n \div Powers[k]) % 10]
<1>4. /\ a \in [1..6 -> Nat] /\ r \in [1..5 -> 0..9]
      /\ \A k \in 1..5 : a[k] = 10 * a[k + 1] + r[k]
      /\ \A k \in 2..6 : n < Powers[k] => a[k] = 0
      /\ a[1] = n
  <2>1. /\ n \div 1 = n /\ n \div 10 \in Nat /\ n \div 100 \in Nat /\ n \div 1000 \in Nat
        /\ n \div 10000 \in Nat /\ n \div 100000 = 0
    BY <1>1, SMT DEF Powers
  <2>2. \A x \in Nat : x % 10 \in 0..9 /\ x = 10 * (x \div 10) + (x % 10)
    BY SMT
  <2>3. /\ n \div 100 = (n \div 10) \div 10 /\ n \div 1000 = (n \div 100) \div 10
        /\ n \div 10000 = (n \div 1000) \div 10 /\ n \div 100000 = (n \div 10000) \div 10
    BY <1>1, SMT
  <2>4. \A k \in 1..6 : a[k] \in Nat
    BY <1>1, <2>1, SMT DEF Powers
  <2>5. \A k \in 1..5 : r[k] \in 0..9 /\ a[k] = 10 * a[k + 1] + r[k]
    BY <1>1, <2>1, <2>2, <2>3, SMT DEF Powers
  <2>6. \A k \in 2..6 : n < Powers[k] => a[k] = 0
    BY <1>1, <2>1, SMT DEF Powers
  <2>7. a[1] = n
    BY <1>1, <2>1, SMT
  <2> QED BY <2>4, <2>5, <2>6, <2>7, SMT
<1>5. /\ DOMAIN q = 1..width
      /\ \A i \in 1..width : q[i] = 48 + r[width - i + 1] /\ width - i + 1 \in 1..5
  BY <1>2, <1>3, SMT
<1> HIDE DEF q, a, r
<1>6. q \in Seq(Digit) /\ Len(q) = width
  <2>1. ASSUME NEW i \in 1..width PROVE q[i] \in Digit
    <3> DEFINE k == width - i + 1
    <3>1. q[i] = 48 + r[k] /\ k \in 1..5
      BY <1>5
    <3> HIDE DEF k
    <3>2. r[k] \in 0..9
      BY <1>4, <3>1
    <3> QED BY <3>1, <3>2 DEF Digit
  <2>2. q \in [1..width -> Digit]
    BY <1>3, <1>5, <2>1
  <2>3. width \in Nat
    BY <1>2
  <2>4. q \in Seq(Digit)
    BY <2>2, <2>3, SeqDef
  <2> QED BY <1>5, <2>3, <2>4, LenProperties, OneLength
<1> DEFINE u(j) == SubSeq(q, 1, j)
           S == {j \in Nat : j <= width => Number(u(j)) = a[width - j + 1]}
<1>7. 0 \in S
  <2>1. u(0) = <<>> /\ 0 <= width
    BY <1>2, <1>6
  <2>2. Number(<<>>) = 0
    <3>1. 48 \in Digit /\ <<>> \in Seq(Digit)
      BY DEF Digit
    <3> QED BY <3>1, NumberSteps
  <2>3. a[width + 1] = 0 /\ width - 0 + 1 = width + 1
    BY <1>2, <1>4
  <2> HIDE DEF u
  <2> QED BY <2>1, <2>2, <2>3
<1>8. ASSUME NEW j \in Nat, j \in S PROVE j + 1 \in S
  <2> SUFFICES ASSUME j + 1 <= width PROVE Number(u(j + 1)) = a[width - (j + 1) + 1]
    OBVIOUS
  <2>1. /\ u(j) \in Seq(Digit) /\ q[j + 1] \in Digit /\ u(j + 1) = Append(u(j), q[j + 1])
    BY <1>2, <1>6
  <2>2. Number(u(j)) = a[width - j + 1]
    BY <1>2, <1>8
  <2> HIDE DEF u
  <2>3. Number(u(j + 1)) = 10 * Number(u(j)) + (q[j + 1] - 48)
    BY <2>1, NumberSteps
  <2> DEFINE k == width - j
  <2>4. k \in 1..5 /\ width - j + 1 = k + 1 /\ width - (j + 1) + 1 = k /\ j + 1 \in 1..width
    BY <1>2
  <2>5. q[j + 1] = 48 + r[k]
    BY <1>5, <2>4
  <2>6. a[k] = 10 * a[k + 1] + r[k] /\ r[k] \in 0..9
    BY <1>4, <2>4
  <2> HIDE DEF k
  <2>7. (48 + r[k]) - 48 = r[k]
    BY <2>6
  <2> QED BY <2>2, <2>3, <2>4, <2>5, <2>6, <2>7
<1>9. Number(u(width)) = a[width - width + 1]
  <2>1. width \in Nat /\ width <= width
    BY <1>2
  <2>2. width \in S
    <3> HIDE DEF S
    <3> QED BY <1>7, <1>8, <2>1, Induction
  <2> QED BY <2>1, <2>2
<1>10. u(width) = q /\ width - width + 1 = 1
  BY <1>2, <1>6
<1> HIDE DEF u
<1>11. width >= 1 /\ width <= 5 /\ a[1] = n
  BY <1>2, <1>4
<1> QED BY <1>6, <1>9, <1>10, <1>11 DEF q

\* A list of one number has one field.
LEMMA OneMode ==
    ASSUME NEW d \in Seq(Digit), Len(d) >= 1, NEW set, NEW n, n = Number(d), n <= MaxMode
    PROVE  /\ PrivateModes(d, set).kind = "mode" /\ PrivateModes(d, set).set = set
           /\ Range(PrivateModes(d, set).modes) = {n}
<1> DEFINE L == Len(d)
           C == {0, L + 1}
           below(i) == {j \in C : j < i}
<1>1. L \in Nat /\ DOMAIN d = 1..L /\ L >= 1 /\ \A i \in 1..L : d[i] \in Digit
  OBVIOUS
<1>2. \A b \in Digit : b # Semicolon
  BY Codes DEF Digit
<1>3. Cuts(d) = C
  <2>1. \A i \in DOMAIN d : d[i] # Semicolon
    BY <1>1, <1>2
  <2> QED BY <2>1 DEF Cuts
<1>4. below(0) = {} /\ below(L + 1) = {0}
  BY <1>1
<1>5. Cardinality(C) = 2 /\ Cardinality(below(0)) = 0 /\ Cardinality(below(L + 1)) = 1
  <2>1. 0 # L + 1 /\ C = {0} \cup {L + 1} /\ L + 1 \notin {0}
    BY <1>1
  <2>2. IsFiniteSet({0}) /\ Cardinality({0}) = 1
    BY FS_Singleton
  <2>3. Cardinality({0} \cup {L + 1}) = 1 + 1
    BY <2>1, <2>2, FS_AddElement
  <2>4. Cardinality({}) = 0
    BY FS_EmptySet
  <2>5. 1 + 1 = 2
    OBVIOUS
  <2> HIDE DEF C, L, below
  <2> QED BY <1>4, <2>1, <2>2, <2>3, <2>4, <2>5
<1> HIDE DEF below
<1>6. Cut(d, 0) = 0 /\ Cut(d, 1) = L + 1
  <2>1. \A k : Cut(d, k) = CHOOSE i \in C : Cardinality(below(i)) = k
    BY <1>3 DEF Cut, below
  <2>2. \A i \in C : Cardinality(below(i)) = 0 <=> i = 0
    BY <1>5
  <2>3. \A i \in C : Cardinality(below(i)) = 1 <=> i = L + 1
    BY <1>5
  <2>4. Cut(d, 0) \in C /\ Cardinality(below(Cut(d, 0))) = 0
    BY <2>1, <2>2
  <2>5. Cut(d, 1) \in C /\ Cardinality(below(Cut(d, 1))) = 1
    BY <2>1, <2>3
  <2> QED BY <2>2, <2>3, <2>4, <2>5
<1>7. /\ DOMAIN Split(d) = 1..1 /\ Split(d)[1] = d
  <2>1. Cardinality(Cuts(d)) - 1 = 1
    BY <1>3, <1>5
  <2> DEFINE field(k) == SubSeq(d, Cut(d, k - 1) + 1, Cut(d, k) - 1)
  <2>2. Split(d) = [k \in 1..1 |-> field(k)]
    BY <2>1 DEF Split
  <2>5. field(1) = d
    <3>1. field(1) = SubSeq(d, 1, L)
      BY <1>1, <1>6
    <3>2. SubSeq(d, 1, L) = d
      OBVIOUS
    <3> QED BY <3>1, <3>2
  <2> HIDE DEF field
  <2> QED BY <2>2, <2>5
<1>8. IsNumber(d)
  BY <1>1 DEF IsNumber
<1>9. PrivateModes(d, set) = [kind |-> "mode", modes |-> [k \in 1..1 |-> n], set |-> set]
  <2>1. \A k \in DOMAIN Split(d) : Split(d)[k] = d
    BY <1>7
  <2>2. [k \in DOMAIN Split(d) |-> Number(Split(d)[k])] = [k \in 1..1 |-> n]
    BY <1>7, <2>1
  <2> QED BY <1>8, <2>1, <2>2 DEF PrivateModes
<1>10. Range([k \in 1..1 |-> n]) = {n}
  BY DEF Range
<1> QED BY <1>9, <1>10

\* What a CSI is made of is collected, up to the limit.
CsiByte == 32..63

\* A sequence over a set is one over a greater set.
LEMMA Widened ==
    ASSUME NEW E, NEW F, E \subseteq F, NEW q \in Seq(E)
    PROVE  q \in Seq(F)
<1>1. q \in [1..Len(q) -> E] /\ Len(q) \in Nat
  BY LenProperties
<1>2. q \in [1..Len(q) -> F]
  BY <1>1
<1> QED BY <1>1, <1>2, SeqDef

\* The bytes of a CSI up to the limit are collected.
LEMMA CsiCollects ==
    ASSUME NEW q \in Seq(CsiByte), Len(q) <= MaxCsi
    PROVE  /\ q \in Seq(Byte) /\ Found(At("Csi"), q) = <<>>
           /\ State(At("Csi"), q) = [state |-> "Csi", buf |-> q, overflow |-> FALSE]
<1> DEFINE s == At("Csi")
           Good(x) == /\ x \in Seq(Byte) /\ Found(s, x) = <<>>
                      /\ State(s, x) = [state |-> "Csi", buf |-> x, overflow |-> FALSE]
           P == {x \in Seq(CsiByte) : Len(x) <= MaxCsi => Good(x)}
<1>0. s \in Scanner
  BY AtTyped DEF States
<1>1. <<>> \in P
  <2>1. <<>> \in Seq(CsiByte) /\ <<>> \in Seq(Byte)
    OBVIOUS
  <2>2. State(s, <<>>) = s /\ Found(s, <<>>) = <<>>
    BY <1>0, FeedNil
  <2>3. s = [state |-> "Csi", buf |-> <<>>, overflow |-> FALSE]
    BY DEF At
  <2> HIDE DEF s
  <2> QED BY <2>1, <2>2, <2>3
<1>2. ASSUME NEW x \in Seq(CsiByte), NEW b \in CsiByte, x \in P PROVE Append(x, b) \in P
  <2> DEFINE z == Append(x, b)
             r == [state |-> "Csi", buf |-> x, overflow |-> FALSE]
  <2>1. z \in Seq(CsiByte) /\ Len(z) = Len(x) + 1 /\ Len(x) \in Nat
    OBVIOUS
  <2> HIDE DEF z
  <2> SUFFICES ASSUME Len(z) <= MaxCsi PROVE Good(z)
    BY <2>1 DEF z
  <2>2. Len(x) <= MaxCsi /\ ~(Len(x) >= MaxCsi)
    BY <2>1, ScannerAssumption
  <2>3. x \in Seq(Byte) /\ Found(s, x) = <<>> /\ State(s, x) = r
    BY <1>2, <2>2
  <2>4. b \in Byte /\ b \notin {CAN, SUB} /\ b # ESC /\ b \in 32..63
    BY Codes DEF Byte, CsiByte
  <2>5. z \in Seq(Byte)
    BY <2>3, <2>4 DEF z
  <2>6. Scan(r, b) = Quiet([state |-> "Csi", buf |-> z, overflow |-> FALSE])
    <3>1. Scan(r, b) = InCsi(r, b)
      BY DEF Scan
    <3>2. InCsi(r, b) = Quiet(Collected(r, b, MaxCsi))
      <4>1. \A u : InCsi(u, b) = Quiet(Collected(u, b, MaxCsi))
        <5> HIDE DEF r, s
        <5>1. b \notin 64..126
          BY <2>4
        <5> QED BY <2>4, <5>1, Zenon DEF InCsi
      <4> QED BY <4>1
    <3>3. Collected(r, b, MaxCsi) = [state |-> "Csi", buf |-> z, overflow |-> FALSE]
      BY <2>2 DEF Collected, z
    <3> QED BY <3>1, <3>2, <3>3
  <2> HIDE DEF r, s
  <2>7. /\ State(s, Append(x, b)) = Scan(State(s, x), b).scanner
        /\ Found(s, Append(x, b)) = IF Scan(State(s, x), b).event = NoEvent THEN Found(s, x)
                                    ELSE Append(Found(s, x), Scan(State(s, x), b).event)
    BY <1>0, <2>3, <2>4, FeedIs
  <2>8. Scan(State(s, x), b).event = NoEvent
    BY <2>3, <2>6 DEF Quiet
  <2> QED BY <2>3, <2>5, <2>6, <2>7, <2>8 DEF Quiet, z
<1>3. Seq(CsiByte) \subseteq P
  <2> HIDE DEF P
  <2> QED BY <1>1, <1>2, SeqInduction
<1> HIDE DEF s
<1> QED BY <1>3 DEF s

\* The letter after a question mark and the number of a mode.
CsiState(q) == [state |-> "Csi", buf |-> q, overflow |-> FALSE]

\* A result that ends a CSI and sets or resets one mode.
Switches(r, n, on) ==
    /\ r.scanner = NewScanner /\ r.event.kind = "mode" /\ r.event.set = on
    /\ Range(r.event.modes) = {n}

\* A CSI with a question mark and digits switches the mode they write.
LEMMA ModeSwitched ==
    ASSUME NEW d \in Seq(Digit), Len(d) >= 1, Number(d) <= MaxMode,
           NEW q, Joined(q, <<Question>>, d), NEW b \in {LetterH, LetterL}
    PROVE  Switches(Scan(CsiState(q), b), Number(d), b = LetterH)
<1> DEFINE s == CsiState(q)
           n == Number(d)
<1>0. q = <<Question>> \o d
  BY DEF Joined
<1>1. q # <<>> /\ Head(q) = Question /\ Tail(q) = d
  <2>1. Len(<<Question>>) = 1 /\ Len(q) = 1 + Len(d) /\ q[1] = Question
    BY <1>0
  <2>2. \A i \in 1..Len(d) : q[i + 1] = d[i]
    BY <1>0
  <2>3. Question \in Nat /\ d \in Seq(Nat)
    <3>1. Digit \subseteq Nat
      BY DEF Digit
    <3> QED BY Codes, <3>1, Widened
  <2>4. q \in Seq(Nat)
    BY <1>0, <2>3
  <2>5. Tail(q) = d
    BY <1>0, <2>3
  <2> QED BY <2>1, <2>4, <2>5
<1>2. Scan(s, b) = InCsi(s, b)
  BY DEF Scan, CsiState
<1>3. InCsi(s, b) = Reports(ParseCsi(q, b))
  <2>1. b \notin {CAN, SUB} /\ b # ESC /\ b \notin 32..63 /\ b \in 64..126
    BY Codes
  <2> QED BY <2>1 DEF InCsi, CsiState
<1> HIDE DEF s, n
<1>4. ParseCsi(q, b) = PrivateModes(d, b = LetterH)
  <2>1. b # LetterP
    BY Codes
  <2>2. ParseCsi(q, b) = PrivateModes(Tail(q), b = LetterH)
    BY <1>1, <2>1, Zenon DEF ParseCsi
  <2> QED BY <1>1, <2>2, Zenon
<1> DEFINE set == b = LetterH
           got == PrivateModes(d, set)
<1> HIDE DEF set
<1>5. got.kind = "mode" /\ got.set = set /\ Range(got.modes) = {n}
  BY OneMode DEF n
<1> HIDE DEF got
<1>6. Scan(s, b) = Reports(got)
  BY <1>2, <1>3, <1>4, Zenon DEF got, set
<1>7. Reports(got).scanner = NewScanner /\ Reports(got).event = got
  BY DEF Reports
<1>8. Switches(Scan(s, b), n, set)
  BY <1>5, <1>6, <1>7, Zenon DEF Switches
<1> QED BY <1>8, Zenon DEF s, n, set

\* The sequence that sets or resets a mode.
LEMMA SwitchIs ==
    ASSUME NEW m \in Modes, NEW value \in Setting, NEW v \in Values,
           NEW q, q = Switch(m, value)
    PROVE  /\ q \in Seq(Byte) /\ State(NewScanner, q) = NewScanner
           /\ Seen(v, NewScanner, q) = [x \in Modes |-> IF x = m THEN value ELSE v[x]]
<1> DEFINE d == Numeral(m)
           o == <<ESC, Bracket>>
           i == <<Question>> \o d
           b == IF value = "set" THEN LetterH ELSE LetterL
           s == [state |-> "Csi", buf |-> i, overflow |-> FALSE]
           oi == o \o i
<1>1. d \in Seq(Digit) /\ Len(d) >= 1 /\ Len(d) <= 5 /\ Number(d) = m /\ m <= MaxMode
  <2>1. m \in 0..MaxMode
    BY ModesAssumption
  <2>2. MaxMode \in Int
    BY DEF MaxMode
  <2> QED BY <2>1, <2>2, NumeralIs
<1> HIDE DEF d
<1>2. i \in Seq(CsiByte) /\ Len(i) <= MaxCsi
  <2>1. Question \in CsiByte /\ Digit \subseteq CsiByte
    BY Codes DEF CsiByte, Digit
  <2>2. d \in Seq(CsiByte)
    BY <1>1, <2>1, Widened
  <2>3. MaxCsi \in Nat /\ MaxCsi >= 6
    BY ModesAssumption, ScannerAssumption
  <2>4. <<Question>> \in Seq(CsiByte) /\ Len(<<Question>>) = 1
    BY <2>1
  <2>5. i \in Seq(CsiByte) /\ Len(i) = 1 + Len(d)
    BY <2>2, <2>4
  <2> HIDE DEF i
  <2>6. Len(d) <= 5 /\ Len(d) \in Nat
    BY <1>1
  <2>7. Len(i) <= MaxCsi
    BY <2>3, <2>5, <2>6
  <2> QED BY <2>5, <2>7
<1>3. b \in Byte /\ b \in {LetterH, LetterL} /\ Value(b = LetterH) = value
  BY Codes DEF Byte, Value, Setting
<1> HIDE DEF b
<1>4. NewScanner \in Scanner
  BY NewTyped
<1>5. o \in Seq(Byte) /\ State(NewScanner, o) = At("Csi") /\ Found(NewScanner, o) = <<>>
  <2>1. Bracket \in Byte /\ Bracket # Backslash
    BY Codes DEF Byte
  <2>2. AfterEsc(Bracket) = Quiet(At("Csi"))
    BY Codes DEF AfterEsc
  <2>3. AfterEsc(Bracket).scanner = At("Csi") /\ AfterEsc(Bracket).event = NoEvent
    BY <2>2 DEF Quiet
  <2> QED BY <1>4, <2>1, <2>3, SayingBegins
<1>6. i \in Seq(Byte) /\ Found(At("Csi"), i) = <<>> /\ State(At("Csi"), i) = s
  <2> HIDE DEF i
  <2> QED BY <1>2, CsiCollects
<1>7. /\ Scan(s, b).scanner = NewScanner /\ Scan(s, b).event.kind = "mode"
      /\ Scan(s, b).event.set = (b = LetterH) /\ Range(Scan(s, b).event.modes) = {m}
  <2> DEFINE e == Scan(s, b).event
             set == b = LetterH
  <2>1. Joined(i, <<Question>>, d) /\ Number(d) <= MaxMode
    BY <1>1 DEF Joined
  <2> HIDE DEF i
  <2>2. Switches(Scan(CsiState(i), b), Number(d), b = LetterH)
    BY <1>1, <1>3, <2>1, ModeSwitched, Zenon
  <2>3. s = CsiState(i)
    BY DEF CsiState
  <2> HIDE DEF s, set
  <2>4. Switches(Scan(s, b), m, set)
    BY <1>1, <2>2, <2>3, Zenon DEF set
  <2> QED BY <2>4, Zenon DEF Switches, set
<1>8. oi \in Seq(Byte) /\ q = Append(oi, b) /\ Joined(oi, o, i)
  <2>1. q = <<ESC, Bracket, Question>> \o d \o <<b>>
    BY DEF Switch, b, d
  <2>2. ESC \in Byte /\ Bracket \in Byte /\ Question \in Byte /\ d \in Seq(Byte)
    <3>1. Digit \subseteq Byte
      BY DEF Digit, Byte
    <3> QED BY <1>1, <3>1, Codes, Widened DEF Byte
  <2>3. <<ESC, Bracket, Question>> \o d = oi
    BY <2>2
  <2>4. oi \in Seq(Byte)
    BY <1>5, <1>6
  <2>5. oi \o <<b>> = Append(oi, b)
    <3> HIDE DEF oi
    <3> QED BY <1>3, <2>4
  <2> QED BY <2>1, <2>3, <2>4, <2>5 DEF Joined
<1> HIDE DEF o, i, oi
<1>9. State(NewScanner, oi) = s /\ Found(NewScanner, oi) = <<>>
  <2>1. /\ State(NewScanner, oi) = State(State(NewScanner, o), i)
        /\ Joined(Found(NewScanner, oi), Found(NewScanner, o), Found(State(NewScanner, o), i))
    BY <1>4, <1>5, <1>6, <1>8, FeedJoined
  <2>2. <<>> \o <<>> = <<>>
    OBVIOUS
  <2> QED BY <1>5, <1>6, <2>1, <2>2 DEF Joined
<1> HIDE DEF s
<1>10. /\ State(NewScanner, Append(oi, b)) = NewScanner
       /\ Seen(v, NewScanner, Append(oi, b)) = OnTerminal(Seen(v, NewScanner, oi), Scan(s, b).event)
  <2>1. State(NewScanner, Append(oi, b)) = Scan(State(NewScanner, oi), b).scanner
    BY <1>3, <1>4, <1>8, FeedIs
  <2>2. Seen(v, NewScanner, Append(oi, b)) = OnTerminal(Seen(v, NewScanner, oi), Scan(State(NewScanner, oi), b).event)
    BY <1>3, <1>4, <1>8, SeenIs
  <2> QED BY <1>7, <1>9, <2>1, <2>2
<1>11. Seen(v, NewScanner, oi) = v
  BY <1>9, ShowsNil DEF Seen
<1> DEFINE e == Scan(s, b).event
<1>12. e.kind = "mode" /\ Range(e.modes) = {m} /\ Value(e.set) = value
  BY <1>3, <1>7
<1> HIDE DEF e
<1>13. OnTerminal(v, e) = [x \in Modes |-> IF x = m THEN value ELSE v[x]]
  BY <1>12 DEF OnTerminal
<1>14. Append(oi, b) \in Seq(Byte)
  BY <1>3, <1>8
<1> QED BY <1>8, <1>10, <1>11, <1>13, <1>14 DEF e

\* The modes that are remembered, one after the other.
LEMMA RankedIs ==
    ASSUME NEW k \in Known, NEW N, N = Cardinality(DOMAIN k)
    PROVE  /\ N \in Nat /\ \A i \in 1..N : Ranked(k, i) \in DOMAIN k
           /\ \A m \in DOMAIN k : \E i \in 1..N : Ranked(k, i) = m
<1> DEFINE D == DOMAIN k
           below(m) == {j \in D : j < m}
           rank == [m \in D |-> Cardinality(below(m))]
<1>1. D \subseteq Modes /\ D \subseteq Nat /\ IsFiniteSet(D) /\ N \in Nat
  <2>1. D \subseteq Modes
    BY KnownIs DEF Tracked
  <2>2. Modes \subseteq Nat
    <3>1. MaxMode \in Int
      BY DEF MaxMode
    <3> QED BY <3>1, ModesAssumption
  <2> QED BY <2>1, <2>2, ModesFinite
<1> HIDE DEF D
<1>2. \A m : IsFiniteSet(below(m)) /\ Cardinality(below(m)) \in Nat
  <2>1. \A m : below(m) \subseteq Modes
    BY <1>1
  <2> HIDE DEF below
  <2> QED BY <2>1, ModesFinite
<1>3. ASSUME NEW m \in D, NEW x \in D, m < x PROVE rank[m] < rank[x]
  <2>0. ~(m < m) /\ \A j \in D : j < m => j < x
    BY <1>1, <1>3
  <2>1. below(m) \cup {m} \subseteq below(x) /\ m \notin below(m)
    BY <1>3, <2>0
  <2> HIDE DEF below
  <2>2. Cardinality(below(m) \cup {m}) = Cardinality(below(m)) + 1
    BY <1>2, <2>1, FS_AddElement
  <2>3. Cardinality(below(m) \cup {m}) <= Cardinality(below(x))
    BY <1>2, <2>1, FS_Subset
  <2> QED BY <1>2, <2>2, <2>3
<1>4. ASSUME NEW m \in D PROVE rank[m] \in 0..(N - 1)
  <2>1. below(m) \cup {m} \subseteq D /\ m \notin below(m)
    BY <1>1
  <2> HIDE DEF below
  <2>2. Cardinality(below(m) \cup {m}) = Cardinality(below(m)) + 1
    BY <1>2, <2>1, FS_AddElement
  <2>3. Cardinality(below(m) \cup {m}) <= N
    BY <1>1, <2>1, FS_Subset DEF D
  <2> QED BY <1>1, <1>2, <2>2, <2>3
<1>5. rank \in [D -> 0..(N - 1)]
  BY <1>4
<1>6. \A m, x \in D : rank[m] = rank[x] => m = x
  <2> SUFFICES ASSUME NEW m \in D, NEW x \in D, rank[m] = rank[x] PROVE m = x
    OBVIOUS
  <2>1. rank[m] \in Int /\ rank[x] \in Int
    BY <1>4
  <2> HIDE DEF rank
  <2>2. ~(rank[m] < rank[x]) /\ ~(rank[x] < rank[m])
    BY <2>1
  <2>3. ~(m < x) /\ ~(x < m)
    BY <1>3, <2>2
  <2> QED BY <1>1, <2>3
<1>7. \A j \in 0..(N - 1) : \E m \in D : rank[m] = j
  <2> HIDE DEF rank
  <2>1. rank \in Injection(D, 0..(N - 1))
    BY <1>5, <1>6 DEF Injection, IsInjective
  <2>2. IsFiniteSet(0..(N - 1)) /\ Cardinality(0..(N - 1)) = N
    <3>1. 0 \in Int /\ N - 1 \in Int
      BY <1>1
    <3>2. IsFiniteSet(0..(N - 1)) /\ Cardinality(0..(N - 1)) = IF 0 > N - 1 THEN 0 ELSE (N - 1) - 0 + 1
      BY <3>1, FS_Interval, Zenon
    <3> QED BY <1>1, <3>2
  <2>3. Cardinality(D) = Cardinality(0..(N - 1))
    BY <2>2 DEF D
  <2>4. rank \in Surjection(D, 0..(N - 1))
    BY <2>1, <2>2, <2>3, FS_Injection
  <2> QED BY <2>4 DEF Surjection
<1>8. ASSUME NEW i \in 1..N, NEW m \in D, rank[m] = i - 1 PROVE Ranked(k, i) = m
  <2>1. \A x \in D : Cardinality(below(x)) = i - 1 <=> x = m
    BY <1>6, <1>8
  <2>2. Ranked(k, i) = CHOOSE x \in D : Cardinality(below(x)) = i - 1
    BY DEF Ranked, D
  <2> HIDE DEF below
  <2> QED BY <2>1, <2>2
<1> HIDE DEF rank
<1>9. \A i \in 1..N : Ranked(k, i) \in D
  <2> SUFFICES ASSUME NEW i \in 1..N PROVE Ranked(k, i) \in D
    OBVIOUS
  <2>1. i - 1 \in 0..(N - 1)
    BY <1>1
  <2>2. PICK m \in D : rank[m] = i - 1
    BY <1>7, <2>1
  <2> QED BY <1>8, <2>2
<1>10. ASSUME NEW m \in D PROVE \E i \in 1..N : Ranked(k, i) = m
  <2>1. rank[m] + 1 \in 1..N /\ (rank[m] + 1) - 1 = rank[m]
    BY <1>1, <1>4
  <2> QED BY <1>8, <2>1
<1> QED BY <1>1, <1>9, <1>10 DEF D

-----------------------------------------------------------------------------
(* The concatenation of sequences. *)

\* f[i] is the concatenation of the first i sequences of s.
Flat(f, s, B) ==
    /\ f \in [0..Len(s) -> Seq(B)]
    /\ f[0] = <<>>
    /\ \A i \in 1..Len(s) : f[i] = f[i - 1] \o s[i]

\* There is a function that gives the concatenation of the first i sequences.
LEMMA FlatExists ==
    ASSUME NEW B, NEW s \in Seq(Seq(B))
    PROVE  \E f : Flat(f, s, B)
<1> DEFINE n == Len(s)
           Upto(f, m) == /\ f \in [0..m -> Seq(B)] /\ f[0] = <<>>
                         /\ \A i \in 1..m : f[i] = f[i - 1] \o s[i]
           S == {m \in Nat : m <= n => \E f : Upto(f, m)}
<1>1. 0 \in S
  <2>1. Upto([i \in 0..0 |-> <<>>], 0)
    OBVIOUS
  <2> QED BY <2>1
<1>2. ASSUME NEW m \in Nat, m \in S PROVE m + 1 \in S
  <2> SUFFICES ASSUME m + 1 <= n PROVE \E f : Upto(f, m + 1)
    <3> HIDE DEF Upto, n
    <3> QED OBVIOUS
  <2>1. n \in Nat /\ m <= n /\ m + 1 \in 1..n /\ s[m + 1] \in Seq(B)
    OBVIOUS
  <2>2. PICK f : Upto(f, m)
    BY <1>2, <2>1
  <2> DEFINE e == f[m] \o s[m + 1]
             g == [i \in 0..(m + 1) |-> IF i <= m THEN f[i] ELSE e]
  <2>3. f[m] \in Seq(B) /\ e \in Seq(B)
    BY <2>1, <2>2
  <2> HIDE DEF e
  <2>4. g \in [0..(m + 1) -> Seq(B)] /\ g[0] = <<>>
    BY <2>2, <2>3
  <2>5. ASSUME NEW i \in 1..(m + 1) PROVE g[i] = g[i - 1] \o s[i]
    <3>1. CASE i <= m
      <4>1. i \in 1..m /\ i - 1 \in 0..(m + 1) /\ i - 1 <= m /\ i \in 0..(m + 1)
        BY <3>1
      <4>2. g[i] = f[i] /\ g[i - 1] = f[i - 1]
        BY <3>1, <4>1
      <4>3. f[i] = f[i - 1] \o s[i]
        BY <2>2, <4>1
      <4> HIDE DEF g
      <4> QED BY <4>2, <4>3
    <3>2. CASE i = m + 1
      <4>1. i \in 0..(m + 1) /\ ~(i <= m) /\ i - 1 = m /\ m \in 0..(m + 1)
        BY <3>2
      <4>2. g[i] = e /\ g[m] = f[m]
        BY <4>1
      <4> HIDE DEF g
      <4> QED BY <3>2, <4>1, <4>2 DEF e
    <3>3. i <= m \/ i = m + 1
      OBVIOUS
    <3> HIDE DEF g
    <3> QED BY <3>1, <3>2, <3>3
  <2> HIDE DEF g
  <2>6. Upto(g, m + 1)
    BY <2>4, <2>5
  <2> QED BY <2>6
<1>3. n \in S /\ n \in Nat
  <2> HIDE DEF S
  <2>1. n \in Nat
    OBVIOUS
  <2> QED BY <1>1, <1>2, <2>1, Induction
<1>4. PICK f : Upto(f, n)
  <2> HIDE DEF Upto
  <2> QED BY <1>3
<1> QED BY <1>4 DEF Flat

\* FlattenSeq, a fold over the indices, is its last value.
LEMMA FlattenIs ==
    ASSUME NEW B, NEW s \in Seq(Seq(B)), NEW f, Flat(f, s, B)
    PROVE  FlattenSeq(s) = f[Len(s)] /\ FlattenSeq(s) \in Seq(B)
<1> DEFINE n == Len(s)
<1>0. n \in Nat /\ f[n] \in Seq(B)
  BY DEF Flat
<1>a. f[0] = <<>> /\ \A i \in 1..n : f[i] = f[i - 1] \o s[i]
  BY DEF Flat
<1>b. 1 \in 1..n => f[1] = s[1]
  <2> SUFFICES ASSUME 1 \in 1..n PROVE f[1] = s[1]
    OBVIOUS
  <2>1. f[1] = f[1 - 1] \o s[1]
    BY <1>a, Zenon
  <2>2. 1 - 1 = 0 /\ s[1] \in Seq(B)
    OBVIOUS
  <2>3. f[1] = <<>> \o s[1]
    <3> HIDE DEF n
    <3> QED BY <1>a, <2>1, <2>2
  <2>4. \A x \in Seq(B) : <<>> \o x = x
    OBVIOUS
  <2> QED BY <2>2, <2>3, <2>4
<1>1. CASE n = 0
  <2>1. s = <<>>
    BY <1>1
  <2> QED BY <1>0, <1>1, <2>1 DEF FlattenSeq, Flat
<1>2. CASE n # 0
  <2> DEFINE Rec(g) == g = [i \in 1..n |-> IF i = 1 THEN s[i] ELSE g[i - 1] \o s[i]]
             h == [i \in 1..n |-> f[i]]
             c == CHOOSE g : Rec(g)
  <2>1. Rec(h)
    <3> SUFFICES ASSUME NEW i \in 1..n PROVE f[i] = IF i = 1 THEN s[i] ELSE h[i - 1] \o s[i]
      OBVIOUS
    <3>1. f[i] = f[i - 1] \o s[i]
      BY <1>a
    <3>2. CASE i = 1
      BY <1>b, <3>2
    <3>3. CASE i # 1
      <4>1. i - 1 \in 1..n
        BY <1>0, <3>3
      <4> QED BY <3>1, <3>3, <4>1
    <3> QED BY <3>2, <3>3
  <2>2. FlattenSeq(s) = c[n]
    BY <1>2 DEF FlattenSeq
  <2>3. Rec(c)
    <3> HIDE DEF h
    <3> QED BY <2>1
  <2> HIDE DEF c
  <2> DEFINE S == {m \in Nat : m \in 1..n => c[m] = f[m]}
  <2>4. 0 \in S
    OBVIOUS
  <2>5. ASSUME NEW m \in Nat, m \in S PROVE m + 1 \in S
    <3> SUFFICES ASSUME m + 1 \in 1..n PROVE c[m + 1] = f[m + 1]
      OBVIOUS
    <3>1. c[m + 1] = IF m + 1 = 1 THEN s[m + 1] ELSE c[(m + 1) - 1] \o s[m + 1]
      BY <2>3
    <3>a. f[m + 1] = f[(m + 1) - 1] \o s[m + 1]
      BY <1>a, Zenon
    <3>2. f[m + 1] = f[(m + 1) - 1] \o s[m + 1] /\ (m + 1) - 1 = m
      BY <3>a
    <3>3. CASE m = 0
      BY <1>b, <3>1, <3>3
    <3>4. CASE m # 0
      <4>1. m \in 1..n /\ m + 1 # 1
        BY <1>0, <3>4
      <4>2. c[m] = f[m]
        BY <2>5, <4>1
      <4>3. c[m + 1] = c[m] \o s[m + 1]
        BY <3>1, <3>2, <4>1
      <4> QED BY <3>2, <4>2, <4>3
    <3> QED BY <3>3, <3>4
  <2>6. n \in S
    <3> HIDE DEF S
    <3> QED BY <1>0, <2>4, <2>5, Induction
  <2>7. n \in 1..n
    BY <1>0, <1>2
  <2> QED BY <1>0, <2>2, <2>6, <2>7
<1> QED BY <1>1, <1>2

\* One more sequence goes to the end of the concatenation.
LEMMA FlattenAppend ==
    ASSUME NEW B, NEW s \in Seq(Seq(B)), NEW x \in Seq(B)
    PROVE  FlattenSeq(Append(s, x)) = FlattenSeq(s) \o x
<1> DEFINE n == Len(s)
           t == Append(s, x)
<1>1. PICK f : Flat(f, s, B)
  BY FlatExists
<1>2. n \in Nat /\ FlattenSeq(s) = f[n] /\ f[n] \in Seq(B)
  <2>1. FlattenSeq(s) = f[Len(s)]
    BY <1>1, FlattenIs
  <2>2. f \in [0..Len(s) -> Seq(B)] /\ Len(s) \in 0..Len(s)
    BY <1>1 DEF Flat
  <2> QED BY <2>1, <2>2, SMTT(60)
<1> DEFINE e == f[n] \o x
           g == [i \in 0..(n + 1) |-> IF i <= n THEN f[i] ELSE e]
<1>3. e \in Seq(B)
  BY <1>2
<1>4. /\ t \in Seq(Seq(B)) /\ Len(t) = n + 1
      /\ \A i \in 1..n : t[i] = s[i]
      /\ t[n + 1] = x
  OBVIOUS
<1> HIDE DEF t, e
<1>5. g \in [0..(n + 1) -> Seq(B)] /\ g[0] = <<>> /\ g[n + 1] = e
  BY <1>1, <1>2, <1>3 DEF Flat
<1>6. ASSUME NEW i \in 1..(n + 1) PROVE g[i] = g[i - 1] \o t[i]
  <2>1. CASE i <= n
    <3>1. i \in 1..n /\ i - 1 <= n /\ i \in 0..(n + 1) /\ i - 1 \in 0..(n + 1)
      BY <1>2, <2>1
    <3>2. g[i] = f[i] /\ g[i - 1] = f[i - 1]
      BY <2>1, <3>1
    <3>3. f[i] = f[i - 1] \o s[i]
      BY <1>1, <3>1, Zenon DEF Flat
    <3> HIDE DEF g
    <3> QED BY <1>4, <3>1, <3>2, <3>3
  <2>2. CASE i = n + 1
    <3>1. g[i] = e /\ i - 1 = n /\ g[n] = f[n] /\ t[i] = x
      BY <1>2, <1>4, <2>2
    <3> HIDE DEF g
    <3> QED BY <3>1 DEF e
  <2>3. i <= n \/ i = n + 1
    BY <1>2
  <2> HIDE DEF g
  <2> QED BY <2>1, <2>2, <2>3
<1> HIDE DEF g
<1>7. Flat(g, t, B)
  BY <1>4, <1>5, <1>6 DEF Flat
<1>8. FlattenSeq(t) = g[n + 1]
  BY <1>4, <1>7, FlattenIs
<1> QED BY <1>2, <1>5, <1>8 DEF e, t

\* The sequence t is s without its first k elements.
Suffix(t, s, k) == t = SubSeq(s, k + 1, Len(s))

\* The last sequences make up the end of the concatenation.
LEMMA FlattenSuffix ==
    ASSUME NEW B, NEW s \in Seq(Seq(B)), NEW k \in 0..Len(s), NEW t, Suffix(t, s, k)
    PROVE  /\ t \in Seq(Seq(B)) /\ FlattenSeq(t) \in Seq(B)
           /\ \E p \in Seq(B) : Joined(FlattenSeq(s), p, FlattenSeq(t)) /\ (k = 1 => p = s[1])
<1> DEFINE n == Len(s)
           m == n - k
<1>1. PICK f : Flat(f, s, B)
  BY FlatExists
<1>2. /\ n \in Nat /\ k \in Nat /\ m \in Nat /\ k + m = n
      /\ FlattenSeq(s) = f[n] /\ f[k] \in Seq(B)
  <2>1. n \in Nat /\ k \in Nat /\ m \in Nat /\ k + m = n
    OBVIOUS
  <2>2. FlattenSeq(s) = f[n]
    BY <1>1, FlattenIs
  <2>3. f \in [0..n -> Seq(B)]
    BY <1>1 DEF Flat
  <2>4. f[k] \in Seq(B)
    BY <2>3
  <2> QED BY <2>1, <2>2, <2>4
<1>3. /\ t \in Seq(Seq(B)) /\ Len(t) = m
      /\ \A i \in 1..m : t[i] = s[k + i]
  BY DEF Suffix
<1>4. PICK g : Flat(g, t, B)
  BY <1>3, FlatExists
<1>5. FlattenSeq(t) = g[m] /\ FlattenSeq(t) \in Seq(B)
  BY <1>3, <1>4, FlattenIs
<1> HIDE DEF m, n
<1> DEFINE S == {i \in Nat : i <= m => f[k + i] = f[k] \o g[i]}
<1>6. 0 \in S
  <2>1. k + 0 = k /\ g[0] = <<>>
    BY <1>2, <1>4 DEF Flat
  <2>2. f[k] \o <<>> = f[k]
    BY <1>2
  <2> QED BY <2>1, <2>2
<1>7. ASSUME NEW i \in Nat, i \in S PROVE i + 1 \in S
  <2>0. i + 1 \in Nat
    OBVIOUS
  <2> SUFFICES ASSUME i + 1 <= m PROVE f[k + (i + 1)] = f[k] \o g[i + 1]
    BY <2>0, Zenon
  <2>1. i <= m /\ i + 1 \in 1..m /\ k + (i + 1) \in 1..n /\ i \in 0..m
    BY <1>2
  <2>2. f[k + i] = f[k] \o g[i]
    BY <1>7, <2>1
  <2>3. f[k + (i + 1)] = f[(k + (i + 1)) - 1] \o s[k + (i + 1)]
    BY <1>1, <2>1, Zenon DEF Flat, n
  <2>4. g[i + 1] = g[(i + 1) - 1] \o t[i + 1]
    BY <1>3, <1>4, <2>1, Zenon DEF Flat
  <2>5. (k + (i + 1)) - 1 = k + i /\ (i + 1) - 1 = i
    BY <1>2
  <2>6. t[i + 1] = s[k + (i + 1)]
    BY <1>3, <2>1
  <2>7. g[i] \in Seq(B) /\ t[i + 1] \in Seq(B)
    <3>1. g \in [0..m -> Seq(B)]
      BY <1>3, <1>4 DEF Flat
    <3>2. t[i + 1] \in Seq(B)
      BY <1>3, <2>1
    <3> QED BY <2>1, <3>1, <3>2
  <2>8. (f[k] \o g[i]) \o t[i + 1] = f[k] \o (g[i] \o t[i + 1])
    <3> DEFINE a == f[k]
               b == g[i]
               c == t[i + 1]
    <3>1. a \in Seq(B) /\ b \in Seq(B) /\ c \in Seq(B)
      BY <1>2, <2>7
    <3> HIDE DEF a, b, c
    <3>2. (a \o b) \o c = a \o (b \o c)
      BY <3>1, ConcatAssociative, SMTT(60)
    <3> QED BY <3>2 DEF a, b, c
  <2>9. f[k + (i + 1)] = f[k + i] \o t[i + 1]
    BY <2>3, <2>5, <2>6
  <2>10. g[i + 1] = g[i] \o t[i + 1]
    BY <2>4, <2>5
  <2> QED BY <2>2, <2>8, <2>9, <2>10
<1>8. f[n] = f[k] \o g[m]
  <2>1. m \in S
    <3> HIDE DEF S
    <3> QED BY <1>2, <1>6, <1>7, Induction
  <2>2. m <= m
    BY <1>2
  <2>3. f[k + m] = f[k] \o g[m]
    BY <2>1, <2>2, Zenon
  <2> QED BY <1>2, <2>3
<1>9. k = 1 => f[k] = s[1]
  <2> SUFFICES ASSUME k = 1 PROVE f[1] = s[1]
    BY Zenon
  <2>1. 1 \in 1..Len(s) /\ s[1] \in Seq(B) /\ 1 - 1 = 0
    BY <1>2
  <2>2. f[1] = f[1 - 1] \o s[1] /\ f[0] = <<>>
    BY <1>1, <2>1, Zenon DEF Flat
  <2>3. \A x \in Seq(B) : <<>> \o x = x
    OBVIOUS
  <2> QED BY <2>1, <2>2, <2>3
<1>10. Joined(FlattenSeq(s), f[k], FlattenSeq(t))
  BY <1>2, <1>5, <1>8 DEF Joined
<1> QED BY <1>2, <1>3, <1>5, <1>9, <1>10

\* What a new terminal shows that has been told the modes.
Told(k) == [m \in Modes |-> IF m \in DOMAIN k THEN k[m] ELSE "default"]

\* The preamble switches each mode that is remembered, and leaves nothing
\* under way (dec_mode_preamble).
LEMMA PreambleIs ==
    ASSUME NEW k \in Known
    PROVE  /\ Preamble(k) \in Seq(Byte) /\ State(NewScanner, Preamble(k)) = NewScanner
           /\ Seen(Defaults, NewScanner, Preamble(k)) = Told(k) /\ Told(k) \in Values
<1> DEFINE N == Cardinality(DOMAIN k)
           sw(i) == Switch(Ranked(k, i), k[Ranked(k, i)])
           all == [i \in 1..N |-> sw(i)]
           p(j) == FlattenSeq(SubSeq(all, 1, j))
           upto(j) == [m \in Modes |-> IF \E i \in 1..j : Ranked(k, i) = m THEN k[m] ELSE "default"]
           Good(j) == /\ p(j) \in Seq(Byte) /\ State(NewScanner, p(j)) = NewScanner
                      /\ Seen(Defaults, NewScanner, p(j)) = upto(j)
           S == {j \in Nat : j <= N => Good(j)}
<1>1. /\ k \in [DOMAIN k -> Setting] /\ DOMAIN k \subseteq Modes
  BY KnownIs DEF Tracked
<1>2. /\ N \in Nat /\ \A i \in 1..N : Ranked(k, i) \in DOMAIN k
      /\ \A m \in DOMAIN k : \E i \in 1..N : Ranked(k, i) = m
  BY RankedIs
<1>3. NewScanner \in Scanner /\ Defaults \in Values
  BY NewTyped DEF Defaults, Values
<1>4. ASSUME NEW i \in 1..N, NEW v \in Values
      PROVE  /\ sw(i) \in Seq(Byte) /\ State(NewScanner, sw(i)) = NewScanner
             /\ Seen(v, NewScanner, sw(i)) = [x \in Modes |-> IF x = Ranked(k, i) THEN k[x] ELSE v[x]]
  <2> DEFINE m == Ranked(k, i)
             value == k[m]
             q == sw(i)
  <2>1. m \in DOMAIN k /\ m \in Modes /\ value \in Setting
    BY <1>1, <1>2
  <2>2. q = Switch(m, value)
    OBVIOUS
  <2> HIDE DEF m, q, value
  <2>3. /\ q \in Seq(Byte) /\ State(NewScanner, q) = NewScanner
        /\ Seen(v, NewScanner, q) = [x \in Modes |-> IF x = m THEN value ELSE v[x]]
    BY <2>1, <2>2, SwitchIs
  <2>4. \A x \in Modes : (IF x = m THEN value ELSE v[x]) = (IF x = m THEN k[x] ELSE v[x])
    BY DEF value
  <2>5. [x \in Modes |-> IF x = m THEN value ELSE v[x]] = [x \in Modes |-> IF x = m THEN k[x] ELSE v[x]]
    BY <2>4
  <2> QED BY <2>3, <2>5 DEF q, m
<1>5. all \in Seq(Seq(Byte)) /\ Len(all) = N /\ DOMAIN all = 1..N /\ \A i \in 1..N : all[i] = sw(i)
  <2>1. \A i \in 1..N : sw(i) \in Seq(Byte)
    BY <1>3, <1>4
  <2> HIDE DEF sw
  <2>2. all \in [1..N -> Seq(Byte)] /\ DOMAIN all = 1..N
    BY <2>1
  <2>3. all \in Seq(Seq(Byte))
    BY <1>2, <2>2, SeqDef, SMTT(60)
  <2>4. Len(all) = N
    BY <1>2, <2>2, <2>3, OneLength
  <2> QED BY <2>2, <2>3, <2>4
<1> HIDE DEF sw, N
<1>6. 0 \in S
  <2>1. SubSeq(all, 1, 0) = <<>>
    BY <1>5
  <2>2. FlattenSeq(<<>>) = <<>> /\ <<>> \in Seq(Byte)
    BY DEF FlattenSeq
  <2>3. p(0) = <<>>
    BY <2>1, <2>2
  <2>4. State(NewScanner, <<>>) = NewScanner /\ Seen(Defaults, NewScanner, <<>>) = Defaults
    BY <1>3, FeedNil, SeenNil
  <2>5. upto(0) = Defaults
    BY DEF Defaults
  <2> HIDE DEF p, upto
  <2> QED BY <2>2, <2>3, <2>4, <2>5
<1>7. ASSUME NEW j \in Nat, j \in S PROVE j + 1 \in S
  <2> SUFFICES ASSUME j + 1 <= N PROVE Good(j + 1)
    OBVIOUS
  <2> DEFINE w == sw(j + 1)
             x == SubSeq(all, 1, j)
             m == Ranked(k, j + 1)
  <2>1. j <= N /\ j + 1 \in 1..N
    BY <1>2
  <2>2. Good(j)
    BY <1>7, <2>1
  <2>3. SubSeq(all, 1, j + 1) = Append(x, w) /\ x \in Seq(Seq(Byte))
    <3> HIDE DEF all
    <3> QED BY <1>5, <2>1
  <2>4. /\ w \in Seq(Byte) /\ State(NewScanner, w) = NewScanner
        /\ \A v \in Values : Seen(v, NewScanner, w) = [y \in Modes |-> IF y = m THEN k[y] ELSE v[y]]
    BY <1>3, <1>4, <2>1
  <2> HIDE DEF w, x, all, m
  <2>5. p(j + 1) = p(j) \o w
    <3>1. FlattenSeq(Append(x, w)) = FlattenSeq(x) \o w
      BY <2>3, <2>4, FlattenAppend
    <3> QED BY <2>3, <3>1 DEF x
  <2>6. Joined(p(j + 1), p(j), w)
    BY <2>5 DEF Joined
  <2> DEFINE a == p(j)
             b == p(j + 1)
  <2>7. a \in Seq(Byte) /\ State(NewScanner, a) = NewScanner /\ Seen(Defaults, NewScanner, a) = upto(j)
    BY <2>2
  <2>8. Joined(b, a, w)
    BY <2>6
  <2> HIDE DEF a, b, p
  <2>9. b \in Seq(Byte)
    BY <2>4, <2>7, <2>8, JoinedTyped
  <2>10. State(NewScanner, b) = NewScanner
    BY <1>3, <2>4, <2>7, <2>8, FeedJoined
  <2>11. Seen(Defaults, NewScanner, b) = Seen(upto(j), NewScanner, w)
    BY <1>3, <2>4, <2>7, <2>8, SeenJoined
  <2>12. upto(j) \in Values
    <3>1. Seen(Defaults, NewScanner, a) \in Values
      BY <1>3, <2>7, SeenTyped
    <3> QED BY <2>7, <3>1
  <2>13. Seen(upto(j), NewScanner, w) = [y \in Modes |-> IF y = m THEN k[y] ELSE upto(j)[y]]
    <3> HIDE DEF upto
    <3> QED BY <2>4, <2>12
  <2>14. ASSUME NEW y \in Modes
         PROVE  (IF y = m THEN k[y] ELSE upto(j)[y]) = IF \E i \in 1..(j + 1) : Ranked(k, i) = y THEN k[y] ELSE "default"
    <3>1. (\E i \in 1..(j + 1) : Ranked(k, i) = y) <=> (y = m \/ \E i \in 1..j : Ranked(k, i) = y)
      <4>1. \A i : i \in 1..(j + 1) <=> (i \in 1..j \/ i = j + 1)
        BY <2>1
      <4> QED BY <4>1 DEF m
    <3>2. upto(j)[y] = IF \E i \in 1..j : Ranked(k, i) = y THEN k[y] ELSE "default"
      OBVIOUS
    <3> HIDE DEF upto
    <3> QED BY <3>1, <3>2
  <2>15. [y \in Modes |-> IF y = m THEN k[y] ELSE upto(j)[y]] = upto(j + 1)
    BY <2>14
  <2> HIDE DEF upto
  <2> QED BY <2>9, <2>10, <2>11, <2>13, <2>15 DEF b
<1>8. Good(N)
  <2>1. N \in S
    <3> HIDE DEF S
    <3> QED BY <1>2, <1>6, <1>7, Induction
  <2>2. N <= N
    BY <1>2
  <2> QED BY <2>1, <2>2, Zenon
<1>9. p(N) = Preamble(k)
  <2>1. SubSeq(all, 1, N) = all
    <3> HIDE DEF all
    <3> QED BY <1>5
  <2> QED BY <2>1 DEF Preamble, sw, N
<1>10. upto(N) = Told(k)
  <2>1. \A m \in Modes : (\E i \in 1..N : Ranked(k, i) = m) <=> m \in DOMAIN k
    BY <1>2
  <2> QED BY <2>1 DEF Told
<1>11. Told(k) \in Values
  BY <1>1 DEF Told, Values
<1> HIDE DEF p, upto
<1> QED BY <1>8, <1>9, <1>10, <1>11

-----------------------------------------------------------------------------
(* What is remembered, and what a terminal shows. *)

\* The event e, or the events es, leave mode m alone, or set it whatever it was.
Effect(e, m) ==
    \/ \A v \in Values : OnTerminal(v, e)[m] = v[m]
    \/ \E c : \A v \in Values : OnTerminal(v, e)[m] = c

\* Events that leave a mode as it is, and events that force a value on it.
Leaves(es, m) == \A v \in Values : Shows(v, es)[m] = v[m]
Forces(es, m) == \E c : \A v \in Values : Shows(v, es)[m] = c

\* An event does one of the two.
LEMMA EventEffect ==
    ASSUME NEW e, NEW m \in Modes
    PROVE  Effect(e, m)
<1>1. CASE e.kind = "mode"
  <2>1. ASSUME NEW v PROVE OnTerminal(v, e)[m] = IF m \in Range(e.modes) THEN Value(e.set) ELSE v[m]
    BY <1>1 DEF OnTerminal
  <2> DEFINE on == Value(e.set)
             in == m \in Range(e.modes)
  <2> HIDE DEF on, in
  <2>2. CASE in
    <3>1. \A v \in Values : OnTerminal(v, e)[m] = on
      BY <2>1, <2>2 DEF on, in
    <3> QED BY <3>1, Zenon DEF Effect
  <2>3. CASE ~in
    <3>1. \A v \in Values : OnTerminal(v, e)[m] = v[m]
      BY <2>1, <2>3 DEF on, in
    <3> QED BY <3>1, Zenon DEF Effect
  <2> QED BY <2>2, <2>3
<1>2. CASE e.kind = "reset"
  <2>1. ASSUME NEW v PROVE OnTerminal(v, e)[m] = IF ~e.soft \/ m \in SoftReset THEN "default" ELSE v[m]
    BY <1>2 DEF OnTerminal
  <2> DEFINE in == ~e.soft \/ m \in SoftReset
  <2>2. CASE in
    <3>1. \A v \in Values : OnTerminal(v, e)[m] = "default"
      BY <2>1, <2>2
    <3> QED BY <3>1, Zenon DEF Effect
  <2>3. CASE ~in
    <3>1. \A v \in Values : OnTerminal(v, e)[m] = v[m]
      BY <2>1, <2>3
    <3> QED BY <3>1, Zenon DEF Effect
  <2> QED BY <2>2, <2>3
<1>3. CASE e.kind \notin {"mode", "reset"}
  <2>1. \A v : OnTerminal(v, e) = v
    BY <1>3 DEF OnTerminal
  <2> QED BY <2>1 DEF Effect
<1> QED BY <1>1, <1>2, <1>3

\* So do any number of them.
LEMMA EventsEffect ==
    ASSUME NEW es \in Seq(Event), NEW m \in Modes
    PROVE  Leaves(es, m) \/ Forces(es, m)
<1> DEFINE P == {x \in Seq(Event) : Leaves(x, m) \/ Forces(x, m)}
<1>1. <<>> \in P
  <2>1. \A v \in Values : Shows(v, <<>>) = v
    BY ShowsNil
  <2>2. Leaves(<<>>, m)
    BY <2>1 DEF Leaves
  <2>3. <<>> \in Seq(Event)
    OBVIOUS
  <2> QED BY <2>2, <2>3
<1>2. ASSUME NEW x \in Seq(Event), NEW e \in Event, x \in P PROVE Append(x, e) \in P
  <2> DEFINE z == Append(x, e)
  <2>1. z \in Seq(Event)
    OBVIOUS
  <2>2. \A v \in Values : Shows(v, x) \in Values /\ Shows(v, z) = OnTerminal(Shows(v, x), e)
    BY ShowsSteps
  <2> HIDE DEF z
  <2>3. CASE \A v \in Values : OnTerminal(v, e)[m] = v[m]
    <3>1. \A v \in Values : Shows(v, z)[m] = Shows(v, x)[m]
      BY <2>2, <2>3
    <3>2. Leaves(x, m) => Leaves(z, m)
      BY <3>1 DEF Leaves
    <3>3. Forces(x, m) => Forces(z, m)
      BY <3>1 DEF Forces
    <3> QED BY <1>2, <2>1, <3>2, <3>3 DEF z
  <2>4. CASE \E c : \A v \in Values : OnTerminal(v, e)[m] = c
    <3>1. Forces(z, m)
      BY <2>2, <2>4 DEF Forces
    <3> QED BY <2>1, <3>1 DEF z
  <2>5. Effect(e, m)
    BY EventEffect
  <2> QED BY <2>3, <2>4, <2>5 DEF Effect
<1>3. Seq(Event) \subseteq P
  <2> HIDE DEF P
  <2> QED BY <1>1, <1>2, SeqInduction
<1> QED BY <1>3

\* Two terminals that agree on a mode go on so, and one that agrees with what
\* another shows at the end agrees with it when it has seen the end again.
LEMMA ShownAlike ==
    ASSUME NEW es \in Seq(Event), NEW m \in Modes, NEW v \in Values, NEW w \in Values
    PROVE  /\ v[m] = w[m] => Shows(v, es)[m] = Shows(w, es)[m]
           /\ w[m] = Shows(v, es)[m] => Shows(w, es)[m] = Shows(v, es)[m]
<1>1. CASE Leaves(es, m)
  BY <1>1 DEF Leaves
<1>2. CASE Forces(es, m)
  BY <1>2 DEF Forces
<1> QED BY <1>1, <1>2, EventsEffect

\* The tracked modes that are away from their default.
Away(v) == {m \in Tracked : v[m] # "default"}
\* The modes away from their default fit the limit.
Fits(v) == Cardinality(Away(v)) <= MaxTracked

\* What is remembered is so; all that matters is remembered.
Right(k, v) == \A m \in DOMAIN k : k[m] = v[m]
Complete(k, v) == Away(v) \subseteq DOMAIN k

\* The values after the modes q have been set or reset.
Changed(v, q, set) == [m \in Modes |-> IF m \in Range(q) THEN Value(set) ELSE v[m]]

\* One more element.
LEMMA RangeLonger ==
    ASSUME NEW E, NEW q \in Seq(E), NEW b \in E
    PROVE  Range(Append(q, b)) = Range(q) \cup {b}
<1> DEFINE z == Append(q, b)
<1>1. /\ Len(q) \in Nat /\ DOMAIN q = 1..Len(q) /\ DOMAIN z = 1..(Len(q) + 1) /\ z[Len(q) + 1] = b
      /\ \A i \in 1..Len(q) : z[i] = q[i]
  OBVIOUS
<1> HIDE DEF z
<1>2. Range(z) = Range(q) \cup {b}
  BY <1>1 DEF Range
<1> QED BY <1>2 DEF z

\* The modes away from their default can be counted.
LEMMA AwayFinite ==
    ASSUME NEW v
    PROVE  /\ Away(v) \subseteq Modes /\ IsFiniteSet(Away(v)) /\ Cardinality(Away(v)) \in Nat
           /\ \A S : S \subseteq Away(v) => IsFiniteSet(S) /\ Cardinality(S) \in Nat
                                           /\ Cardinality(S) <= Cardinality(Away(v))
<1>1. Away(v) \subseteq Modes
  BY DEF Away, Tracked
<1>2. IsFiniteSet(Away(v)) /\ Cardinality(Away(v)) \in Nat
  BY <1>1, ModesFinite
<1>3. ASSUME NEW S, S \subseteq Away(v)
      PROVE  IsFiniteSet(S) /\ Cardinality(S) \in Nat /\ Cardinality(S) <= Cardinality(Away(v))
  BY <1>2, <1>3, FS_Subset, FS_CardinalityType
<1> QED BY <1>1, <1>2, <1>3

\* The modes of one event: what is remembered stays right, and complete as
\* long as the modes fit.
LEMMA RememberedAll ==
    ASSUME NEW k \in Known, NEW v \in Values, Right(k, v), NEW set, NEW q \in Seq(Modes)
    PROVE  /\ Right(RememberAll(k, q, set), Changed(v, q, set))
           /\ Complete(k, v) /\ Fits(Changed(v, q, set)) => Complete(RememberAll(k, q, set), Changed(v, q, set))
<1> DEFINE Good(x) == /\ RememberAll(k, x, set) \in Known
                      /\ Right(RememberAll(k, x, set), Changed(v, x, set))
                      /\ Complete(k, v) /\ Fits(Changed(v, x, set)) => Complete(RememberAll(k, x, set), Changed(v, x, set))
           P == {x \in Seq(Modes) : Good(x)}
           on == Value(set)
<1>0. on \in Setting
  BY ValueTyped
<1> HIDE DEF on
<1>1. <<>> \in P
  <2>1. <<>> \in Seq(Modes) /\ Range(<<>>) = {}
    BY DEF Range
  <2>2. RememberAll(k, <<>>, set) = k
    <3>1. IsFoldOf(RememberAll(k, <<>>, set), Known, RememberOf(set), k, <<>>)
      BY <2>1, RememberFolds, Zenon
    <3> QED BY <3>1, FoldNil, Zenon
  <2>3. Changed(v, <<>>, set) = v
    BY <2>1 DEF Changed, Values
  <2> QED BY <2>1, <2>2, <2>3
<1>2. ASSUME NEW x \in Seq(Modes), NEW b \in Modes, x \in P PROVE Append(x, b) \in P
  <2> DEFINE z == Append(x, b)
             r == RememberAll(k, x, set)
             s == RememberAll(k, z, set)
             vx == Changed(v, x, set)
             vz == Changed(v, z, set)
  <2>1. z \in Seq(Modes) /\ Range(z) = Range(x) \cup {b}
    BY RangeLonger
  <2>2. r \in Known /\ s = Remember(r, b, set)
    BY RememberSteps
  <2>3. s \in Known
    BY <2>2, RememberTyped
  <2>4. /\ \A m \in Modes : vz[m] = IF m = b THEN on ELSE vx[m]
        /\ \A m \in Modes : vx[m] # "default" => vz[m] # "default"
    BY <1>0, <2>1 DEF Changed, on, Setting
  <2>5. Right(r, vx) /\ (Complete(k, v) /\ Fits(vx) => Complete(r, vx))
    BY <1>2
  <2> HIDE DEF z, r, s, vx, vz
  <2>6. DOMAIN r \subseteq Tracked /\ r \in [DOMAIN r -> Setting] /\ Tracked \subseteq Modes
    BY <2>2, KnownIs DEF Tracked
  <2> DEFINE full == b \notin DOMAIN r /\ Cardinality(DOMAIN r) >= MaxTracked
  <2>7. CASE b \in Untracked \/ full
    <3>1. s = r
      BY <2>2, <2>7 DEF Remember
    <3>2. b \notin DOMAIN r
      BY <2>6, <2>7 DEF Tracked
    <3>3. Right(s, vz)
      BY <2>4, <2>5, <2>6, <3>1, <3>2 DEF Right
    <3>4. ASSUME Complete(k, v), Fits(vz) PROVE Complete(s, vz)
      <4>1. Away(vx) \subseteq Away(vz)
        BY <2>4, <2>6 DEF Away
      <4>2. Fits(vx)
        BY <3>4, <4>1, AwayFinite, ModesFinite DEF Fits
      <4>3. Complete(r, vx)
        BY <2>5, <3>4, <4>2
      <4>4. CASE b \in Untracked
        <5>1. Away(vz) \subseteq Away(vx)
          BY <2>4, <2>6, <4>4 DEF Away, Tracked
        <5> QED BY <3>1, <4>3, <5>1 DEF Complete
      <4>5. CASE b \notin Untracked
        <5>1. full /\ b \in Tracked
          BY <2>7, <4>5 DEF Tracked
        <5>2. DOMAIN r \cup {b} \subseteq Away(vz)
          <6>1. \A m \in DOMAIN r : vx[m] # "default"
            BY <2>5, <2>6 DEF Right, Setting
          <6> QED BY <1>0, <2>4, <2>6, <5>1, <6>1 DEF Away, Setting
        <5>3. IsFiniteSet(DOMAIN r) /\ Cardinality(DOMAIN r) \in Nat
          BY <5>2, AwayFinite
        <5>4. Cardinality(DOMAIN r \cup {b}) = Cardinality(DOMAIN r) + 1
          BY <3>2, <5>3, FS_AddElement
        <5>5. Cardinality(DOMAIN r \cup {b}) <= MaxTracked
          BY <3>4, <5>2, AwayFinite, ModesFinite DEF Fits
        <5> HIDE DEF full
        <5>6. Cardinality(DOMAIN r) >= MaxTracked
          BY <5>1 DEF full
        <5> QED BY <5>3, <5>4, <5>5, <5>6, ModesFinite
      <4> QED BY <4>4, <4>5
    <3> QED BY <2>1, <2>3, <3>3, <3>4 DEF z, s, vz
  <2>8. CASE ~(b \in Untracked \/ full)
    <3>1. s = [m \in DOMAIN r \cup {b} |-> IF m = b THEN on ELSE r[m]]
      BY <2>2, <2>8 DEF Remember, on
    <3>2. Right(s, vz)
      BY <2>4, <2>5, <2>6, <3>1 DEF Right
    <3>3. ASSUME Complete(k, v), Fits(vz) PROVE Complete(s, vz)
      <4>1. Away(vx) \subseteq Away(vz)
        BY <2>4, <2>6 DEF Away
      <4>2. Fits(vx)
        BY <3>3, <4>1, AwayFinite, ModesFinite DEF Fits
      <4>3. Complete(r, vx)
        BY <2>5, <3>3, <4>2
      <4>4. Away(vz) \subseteq Away(vx) \cup {b}
        BY <2>4, <2>6 DEF Away
      <4>5. DOMAIN s = DOMAIN r \cup {b}
        BY <3>1
      <4> QED BY <4>3, <4>4, <4>5 DEF Complete
    <3> QED BY <2>1, <2>3, <3>2, <3>3 DEF z, s, vz
  <2> QED BY <2>7, <2>8
<1>3. Seq(Modes) \subseteq P
  <2> HIDE DEF P
  <2> QED BY <1>1, <1>2, SeqInduction
<1> QED BY <1>3

\* An event leaves what is remembered right, and complete if all of it fits.
LEMMA ApplyIs ==
    ASSUME NEW k \in Known, NEW v \in Values, Right(k, v), NEW e \in Meant
    PROVE  /\ Right(Apply(k, e), OnTerminal(v, e))
           /\ Complete(k, v) /\ Fits(OnTerminal(v, e)) => Complete(Apply(k, e), OnTerminal(v, e))
<1>1. CASE e.kind = "mode"
  <2> DEFINE q == e.modes
             set == e.set
             r == RememberAll(k, q, set)
             w == Changed(v, q, set)
  <2>1. q \in Seq(Modes)
    BY <1>1 DEF Meant
  <2>2. Apply(k, e) = r /\ OnTerminal(v, e) = w
    BY <1>1 DEF Apply, OnTerminal, Changed
  <2> HIDE DEF q, set
  <2>3. Right(r, w) /\ (Complete(k, v) /\ Fits(w) => Complete(r, w))
    BY <2>1, RememberedAll
  <2> HIDE DEF r, w
  <2> QED BY <2>2, <2>3
<1>2. CASE e.kind = "reset"
  <2> DEFINE hard == ~e.soft
             r == Apply(k, e)
             w == OnTerminal(v, e)
             D == {m \in DOMAIN k : e.soft /\ m \notin SoftReset}
  <2>1. DOMAIN k \subseteq Tracked /\ Tracked \subseteq Modes
    BY KnownIs DEF Tracked
  <2>2. r = [m \in D |-> k[m]]
    BY <1>2 DEF Apply, Forget
  <2>3. w = [m \in Modes |-> IF ~e.soft \/ m \in SoftReset THEN "default" ELSE v[m]]
    BY <1>2 DEF OnTerminal
  <2>4. \A m \in DOMAIN k : m \in D <=> ~(hard \/ m \in SoftReset)
    BY Zenon
  <2>5. \A m \in Modes : w[m] = IF hard \/ m \in SoftReset THEN "default" ELSE v[m]
    BY <2>3
  <2>6. DOMAIN r = D /\ D \subseteq DOMAIN k /\ \A m \in D : r[m] = k[m]
    BY <2>2
  <2> HIDE DEF hard, D, r, w
  <2>7. Right(r, w)
    BY <2>1, <2>4, <2>5, <2>6 DEF Right
  <2>8. Complete(k, v) => Complete(r, w)
    BY <2>1, <2>4, <2>5, <2>6 DEF Complete, Away
  <2> QED BY <2>7, <2>8 DEF r, w
<1>3. CASE e.kind \notin {"mode", "reset"}
  <2>1. Apply(k, e) = k /\ OnTerminal(v, e) = v
    BY <1>3 DEF Apply, OnTerminal
  <2> QED BY <2>1
<1> QED BY <1>1, <1>2, <1>3

\* At no time while the events arrive do more modes need to be remembered.
FitAll(v, es) == \A p, r \in Seq(Event) : Joined(es, p, r) => Fits(Shows(v, p))

\* The modes fit over the first part of events, and over the rest after it.
LEMMA FitAllIs ==
    ASSUME NEW v \in Values, NEW p \in Seq(Event), NEW q \in Seq(Event), NEW es, Joined(es, p, q),
           FitAll(v, es)
    PROVE  FitAll(v, p) /\ FitAll(Shows(v, p), q) /\ Fits(Shows(v, es))
<1>1. ASSUME NEW a \in Seq(Event), NEW b \in Seq(Event), Joined(p, a, b) PROVE Fits(Shows(v, a))
  <2> DEFINE x == b \o q
  <2>1. x \in Seq(Event) /\ Joined(x, b, q)
    BY DEF Joined
  <2> HIDE DEF x
  <2>2. Joined(es, a, x)
    BY <1>1, <2>1, JoinedTwice
  <2> QED BY <1>1, <2>1, <2>2 DEF FitAll
<1>2. ASSUME NEW a \in Seq(Event), NEW b \in Seq(Event), Joined(q, a, b) PROVE Fits(Shows(Shows(v, p), a))
  <2> DEFINE x == p \o a
  <2>1. x \in Seq(Event) /\ Joined(x, p, a)
    BY DEF Joined
  <2> HIDE DEF x
  <2>2. Joined(es, x, b)
    <3>1. es = p \o q /\ q = a \o b /\ x = p \o a
      BY <1>2, <2>1 DEF Joined
    <3>2. p \o (a \o b) = (p \o a) \o b
      BY <1>2, ConcatAssociative, SMTT(60)
    <3> QED BY <3>1, <3>2 DEF Joined
  <2>3. Shows(v, x) = Shows(Shows(v, p), a)
    BY <1>2, <2>1, ShowsJoined
  <2>4. Fits(Shows(v, x))
    BY <1>2, <2>1, <2>2 DEF FitAll
  <2> QED BY <2>3, <2>4
<1>3. es \in Seq(Event) /\ <<>> \in Seq(Event) /\ Joined(es, es, <<>>)
  <2>1. es \in Seq(Event)
    BY JoinedTyped
  <2> QED BY <2>1, JoinedNil
<1>4. Fits(Shows(v, es))
  BY <1>3 DEF FitAll
<1> QED BY <1>1, <1>2, <1>4 DEF FitAll

\* Equal sequences are equal without their last element.
LEMMA SameFront ==
    ASSUME NEW E, NEW p \in Seq(E), NEW q \in Seq(E), NEW a \in E, NEW b \in E, Append(p, a) = Append(q, b)
    PROVE  p = q
<1> DEFINE z == Append(p, a)
<1>1. Len(z) = Len(p) + 1 /\ SubSeq(z, 1, Len(z) - 1) = p
  OBVIOUS
<1>2. z = Append(q, b)
  OBVIOUS
<1>3. Len(Append(q, b)) = Len(q) + 1 /\ SubSeq(Append(q, b), 1, Len(Append(q, b)) - 1) = q
  OBVIOUS
<1> HIDE DEF z
<1> QED BY <1>1, <1>2, <1>3

\* One more event after which they fit.
LEMMA FitAllLonger ==
    ASSUME NEW v \in Values, NEW es \in Seq(Event), FitAll(v, es), NEW e \in Event,
           NEW z, Joined(z, es, <<e>>), Fits(Shows(v, z))
    PROVE  FitAll(v, z)
<1> SUFFICES ASSUME NEW p \in Seq(Event), NEW r \in Seq(Event), Joined(z, p, r) PROVE Fits(Shows(v, p))
  BY DEF FitAll
<1>1. z = es \o <<e>> /\ z = p \o r
  BY DEF Joined
<1>2. CASE r = <<>>
  <2>1. z = p
    BY <1>1, <1>2
  <2> QED BY <2>1
<1>3. CASE r # <<>>
  <2>1. PICK a \in Seq(Event), y \in Event : r = Append(a, y)
    <3>1. r = Append(SubSeq(r, 1, Len(r) - 1), r[Len(r)]) /\ SubSeq(r, 1, Len(r) - 1) \in Seq(Event) /\ r[Len(r)] \in Event
      BY <1>3
    <3> QED BY <3>1
  <2> DEFINE x == p \o a
  <2>2. p \o Append(a, y) = Append(x, y) /\ x \in Seq(Event)
    BY <2>1, JoinedLonger
  <2>3. es \o <<e>> = Append(es, e)
    OBVIOUS
  <2>4. x \in Seq(Event) /\ Append(x, y) = Append(es, e)
    BY <1>1, <2>1, <2>2, <2>3
  <2> HIDE DEF x
  <2>5. x = es
    BY <2>1, <2>4, SameFront, ZenonT(60)
  <2>6. Joined(es, p, a)
    BY <2>5 DEF Joined, x
  <2> QED BY <2>1, <2>6 DEF FitAll
<1> QED BY <1>2, <1>3

\* What is remembered stays right over any events, and complete as long as
\* the modes fit after each (apply_mode_event).
LEMMA KeepsIs ==
    ASSUME NEW k \in Known, NEW v \in Values, Right(k, v), NEW es \in Seq(Meant)
    PROVE  /\ Right(Keeps(k, es), Shows(v, es))
           /\ Complete(k, v) /\ FitAll(v, es) => Complete(Keeps(k, es), Shows(v, es))
<1> DEFINE Good(x) == /\ Right(Keeps(k, x), Shows(v, x))
                      /\ Complete(k, v) /\ FitAll(v, x) => Complete(Keeps(k, x), Shows(v, x))
           P == {x \in Seq(Meant) : Good(x)}
<1>0. Meant \subseteq Event
  BY DEF Meant
<1>1. <<>> \in P
  <2>1. <<>> \in Seq(Meant) /\ Keeps(k, <<>>) = k /\ Shows(v, <<>>) = v
    BY KeepsNil, ShowsNil
  <2> QED BY <2>1
<1>2. ASSUME NEW x \in Seq(Meant), NEW e \in Meant, x \in P PROVE Append(x, e) \in P
  <2> DEFINE z == Append(x, e)
             kx == Keeps(k, x)
             vx == Shows(v, x)
  <2>1. z \in Seq(Meant)
    OBVIOUS
  <2>2. x \in Seq(Event) /\ e \in Event /\ z \in Seq(Event)
    <3>1. x \in Seq(Event) /\ e \in Event
      BY <1>0, Widened
    <3> QED BY <3>1
  <2>3. kx \in Known /\ Keeps(k, z) = Apply(kx, e)
    BY KeepsSteps
  <2>4. vx \in Values /\ Shows(v, z) = OnTerminal(vx, e)
    BY <2>2, ShowsSteps
  <2>5. Right(kx, vx) /\ (Complete(k, v) /\ FitAll(v, x) => Complete(kx, vx))
    BY <1>2
  <2>a. Joined(z, x, <<e>>) /\ <<e>> \in Seq(Event)
    BY <2>2 DEF Joined
  <2> HIDE DEF z, kx, vx
  <2>6. FitAll(v, z) => FitAll(v, x) /\ Fits(Shows(v, z))
    BY <2>2, <2>a, FitAllIs
  <2>7. /\ Right(Apply(kx, e), OnTerminal(vx, e))
        /\ Complete(kx, vx) /\ Fits(OnTerminal(vx, e)) => Complete(Apply(kx, e), OnTerminal(vx, e))
    BY <2>3, <2>4, <2>5, ApplyIs
  <2>8. Good(z)
    BY <2>3, <2>4, <2>5, <2>6, <2>7
  <2> QED BY <2>1, <2>8 DEF z
<1>3. Seq(Meant) \subseteq P
  <2> HIDE DEF P
  <2> QED BY <1>1, <1>2, SeqInduction
<1> QED BY <1>3

\* The sink is told more and more.
LEMMA TellsMore ==
    ASSUME NEW told \in Seq(Event), NEW es \in Seq(Event)
    PROVE  IsPrefix(told, Tells(told, es))
<1> DEFINE P == {x \in Seq(Event) : IsPrefix(told, Tells(told, x))}
<1>1. <<>> \in P
  <2>1. <<>> \in Seq(Event) /\ Tells(told, <<>>) = told
    BY TellsNil
  <2>2. IsPrefix(told, told)
    BY DEF IsPrefix
  <2> QED BY <2>1, <2>2
<1>2. ASSUME NEW x \in Seq(Event), NEW e \in Event, x \in P PROVE Append(x, e) \in P
  <2> DEFINE z == Append(x, e)
             t == Tells(told, x)
  <2>1. z \in Seq(Event)
    OBVIOUS
  <2>2. t \in Seq(Event) /\ Tells(told, z) = Reported(t, e)
    BY TellsSteps
  <2>3. IsPrefix(told, t)
    BY <1>2
  <2> HIDE DEF z, t
  <2>4. IsPrefix(told, Append(t, e))
    BY <2>2, <2>3 DEF IsPrefix
  <2>5. Reported(t, e) \in {t, Append(t, e)}
    BY DEF Reported
  <2> QED BY <2>1, <2>2, <2>3, <2>4, <2>5 DEF z
<1>3. Seq(Event) \subseteq P
  <2> HIDE DEF P
  <2> QED BY <1>1, <1>2, SeqInduction
<1> QED BY <1>3

-----------------------------------------------------------------------------
(* The recent output. *)

\* A byte as the replay buffer stores it.
Cell == {"byte"} \X Byte

\* A function on the indices is a sequence.
LEMMA MappedSeq ==
    ASSUME NEW E, NEW n \in Nat, NEW q, DOMAIN q = 1..n, q = [i \in DOMAIN q |-> q[i]], \A i \in 1..n : q[i] \in E
    PROVE  q \in Seq(E) /\ Len(q) = n
<1>1. q \in [1..n -> E]
  OBVIOUS
<1>2. q \in Seq(E)
  BY <1>1, SeqDef
<1> QED BY <1>2, OneLength

\* The bytes of what is stored, one by one.
LEMMA BytesTyped ==
    ASSUME NEW q \in Seq(Cell)
    PROVE  Bytes(q) \in Seq(Byte) /\ Len(Bytes(q)) = Len(q) /\ \A i \in 1..Len(q) : Bytes(q)[i] = q[i][2]
<1> DEFINE n == Len(q)
           r == Bytes(q)
<1>1. n \in Nat /\ DOMAIN q = 1..n /\ \A i \in 1..n : q[i] \in Cell
  OBVIOUS
<1>2. r = [i \in 1..n |-> q[i][2]]
  BY <1>1 DEF Bytes
<1>3. \A i \in 1..n : q[i][2] \in Byte
  BY <1>1 DEF Cell
<1>4. DOMAIN r = 1..n /\ r = [i \in DOMAIN r |-> r[i]] /\ \A i \in 1..n : r[i] = q[i][2]
  BY <1>2
<1> HIDE DEF r, n
<1>5. r \in Seq(Byte) /\ Len(r) = n
  BY <1>1, <1>3, <1>4, MappedSeq
<1> QED BY <1>4, <1>5 DEF r, n

\* What is stored of bytes gives them back.
LEMMA StoredTyped ==
    ASSUME NEW c \in Seq(Byte)
    PROVE  Stored(c) \in Seq(Cell) /\ Len(Stored(c)) = Len(c) /\ Bytes(Stored(c)) = c
<1> DEFINE n == Len(c)
           r == Stored(c)
<1>1. n \in Nat /\ DOMAIN c = 1..n /\ \A i \in 1..n : c[i] \in Byte
  OBVIOUS
<1>2. r = [i \in 1..n |-> <<"byte", c[i]>>]
  BY <1>1 DEF Stored
<1>3. DOMAIN r = 1..n /\ r = [i \in DOMAIN r |-> r[i]] /\ \A i \in 1..n : r[i] = <<"byte", c[i]>> /\ r[i] \in Cell
  BY <1>1, <1>2 DEF Cell
<1> HIDE DEF r
<1>4. r \in Seq(Cell) /\ Len(r) = n
  BY <1>1, <1>3, MappedSeq
<1>5. Bytes(r) = [i \in 1..n |-> c[i]]
  BY <1>3 DEF Bytes
<1>6. [i \in 1..n |-> c[i]] = c
  BY <1>1
<1> QED BY <1>4, <1>5, <1>6 DEF r

\* What is joined, element by element.
LEMMA JoinedAt ==
    ASSUME NEW E, NEW p \in Seq(E), NEW q \in Seq(E), NEW r, Joined(r, p, q)
    PROVE  /\ r \in Seq(E) /\ Len(r) = Len(p) + Len(q)
           /\ \A i \in 1..Len(p) : r[i] = p[i]
           /\ \A i \in 1..Len(q) : r[Len(p) + i] = q[i]
BY DEF Joined

\* The same, as one relation of three sequences.
Laid(r, p, q) ==
    /\ Len(r) = Len(p) + Len(q)
    /\ \A i \in 1..Len(p) : r[i] = p[i]
    /\ \A i \in 1..Len(q) : r[Len(p) + i] = q[i]

\* It lays out sequences one after the other.
LEMMA JoinedLaid ==
    ASSUME NEW E, NEW p \in Seq(E), NEW q \in Seq(E), NEW r, Joined(r, p, q)
    PROVE  r \in Seq(E) /\ Laid(r, p, q)
BY DEF Joined, Laid

\* The bytes of what is joined are joined.
LEMMA BytesJoined ==
    ASSUME NEW p \in Seq(Cell), NEW q \in Seq(Cell), NEW r, Joined(r, p, q)
    PROVE  Joined(Bytes(r), Bytes(p), Bytes(q))
<1> DEFINE bp == Bytes(p)
           bq == Bytes(q)
           br == Bytes(r)
           m == Len(p)
           n == Len(q)
<1>1. /\ r \in Seq(Cell) /\ Len(r) = m + n /\ m \in Nat /\ n \in Nat
      /\ \A i \in 1..m : r[i] = p[i]
      /\ \A i \in 1..n : r[m + i] = q[i]
  BY DEF Joined
<1>2. /\ bp \in Seq(Byte) /\ Len(bp) = m /\ \A i \in 1..m : bp[i] = p[i][2]
  BY BytesTyped
<1>3. /\ bq \in Seq(Byte) /\ Len(bq) = n /\ \A i \in 1..n : bq[i] = q[i][2]
  BY BytesTyped
<1>4. /\ br \in Seq(Byte) /\ Len(br) = m + n /\ \A i \in 1..(m + n) : br[i] = r[i][2]
  BY <1>1, BytesTyped
<1> HIDE DEF bp, bq, br, m, n
<1>5. \A i \in 1..m : br[i] = bp[i]
  <2> SUFFICES ASSUME NEW i \in 1..m PROVE br[i] = bp[i]
    OBVIOUS
  <2>1. i \in 1..(m + n)
    BY <1>1
  <2> QED BY <1>1, <1>2, <1>4, <2>1
<1>6. \A i \in 1..n : br[m + i] = bq[i]
  <2> SUFFICES ASSUME NEW i \in 1..n PROVE br[m + i] = bq[i]
    OBVIOUS
  <2>1. m + i \in 1..(m + n)
    BY <1>1
  <2> QED BY <1>1, <1>3, <1>4, <2>1
<1>7. br = bp \o bq
  <2> DEFINE c == bp \o bq
  <2>0. Joined(c, bp, bq)
    BY DEF Joined
  <2>1. /\ c \in Seq(Byte) /\ Len(c) = m + n
        /\ \A i \in 1..m : c[i] = bp[i]
        /\ \A i \in 1..n : c[m + i] = bq[i]
    <3> HIDE DEF c
    <3>1. c \in Seq(Byte) /\ Laid(c, bp, bq)
      BY <1>2, <1>3, <2>0, JoinedLaid, Zenon
    <3>2. Len(bp) = m /\ Len(bq) = n
      BY <1>2, <1>3
    <3> QED BY <3>1, <3>2, Zenon DEF Laid
  <2> HIDE DEF c
  <2>2. ASSUME NEW i \in 1..(m + n) PROVE br[i] = c[i]
    <3>1. CASE i \in 1..m
      BY <1>5, <2>1, <3>1
    <3>2. CASE i \notin 1..m
      <4>1. i - m \in 1..n /\ m + (i - m) = i
        BY <1>1, <3>2
      <4> QED BY <1>6, <2>1, <4>1
    <3> QED BY <3>1, <3>2
  <2>3. br = c
    BY <1>1, <1>4, <2>1, <2>2
  <2> QED BY <2>3 DEF c
<1> QED BY <1>7 DEF Joined, bp, bq, br

\* The buffer concatenates its chunks as this module does.
LEMMA ReplayFlattens == \A s : Replay!FlattenSeq(s) = FlattenSeq(s)
BY DEF Replay!FlattenSeq, FlattenSeq

\* What eviction leaves: the last chunks, and none of those before would fit.
LEMMA EvictedIs ==
    ASSUME NEW all \in Seq(Seq(Cell)), NEW kept, kept = Replay!Evicted(all)
    PROVE  \E k \in 0..Len(all) :
             /\ kept = [rest |-> SubSeq(all, k + 1, Len(all)), dropped |-> k > 0]
             /\ k > 0 => ~(Len(FlattenSeq(SubSeq(all, k, Len(all)))) <= ReplayCap)
<1> DEFINE n == Len(all)
           size(k) == Len(FlattenSeq(SubSeq(all, k + 1, n)))
           fits == {k \in 0..Len(all) : Len(FlattenSeq(SubSeq(all, k + 1, Len(all)))) <= ReplayCap}
           dropped == CHOOSE k \in fits : \A j \in fits : k <= j
<1>0. kept = [rest |-> SubSeq(all, dropped + 1, Len(all)), dropped |-> dropped > 0]
  BY ReplayFlattens DEF Replay!Evicted
<1>1. n \in fits
  <2>1. SubSeq(all, n + 1, n) = <<>> /\ n \in 0..n
    OBVIOUS
  <2>2. FlattenSeq(<<>>) = <<>>
    BY DEF FlattenSeq
  <2>3. size(n) = Len(<<>>)
    BY <2>1, <2>2
  <2>4. Len(<<>>) = 0 /\ 0 <= ReplayCap
    BY ModesAssumption
  <2> HIDE DEF size
  <2>5. size(n) <= ReplayCap
    BY <2>3, <2>4
  <2>6. Len(FlattenSeq(SubSeq(all, Len(all) + 1, Len(all)))) <= ReplayCap
    BY <2>5 DEF size
  <2> QED BY <2>1, <2>6
<1>2. fits \subseteq 0..n /\ fits \subseteq Nat
  OBVIOUS
<1>3. \A k \in 0..n : k \notin fits => ~(size(k) <= ReplayCap)
  OBVIOUS
<1> HIDE DEF fits, size
<1>4. \E k \in fits : \A j \in fits : k <= j
  BY <1>1, <1>2, Least
<1>5. dropped \in fits /\ \A j \in fits : dropped <= j
  BY <1>4
<1> HIDE DEF dropped
<1>6. ASSUME dropped > 0 PROVE ~(Len(FlattenSeq(SubSeq(all, dropped, n))) <= ReplayCap)
  <2>1. dropped - 1 \in 0..n /\ (dropped - 1) + 1 = dropped /\ ~(dropped <= dropped - 1)
    BY <1>2, <1>5, <1>6
  <2>2. dropped - 1 \notin fits
    BY <1>5, <2>1
  <2>3. ~(size(dropped - 1) <= ReplayCap)
    BY <1>3, <2>1, <2>2
  <2>4. size(dropped - 1) = Len(FlattenSeq(SubSeq(all, dropped, n)))
    BY <2>1 DEF size
  <2> QED BY <2>3, <2>4
<1>7. dropped \in 0..n
  BY <1>2, <1>5
<1> QED BY <1>0, <1>6, <1>7

\* Joining is associative, the other way.
LEMMA JoinedBack ==
    ASSUME NEW E, NEW p \in Seq(E), NEW q \in Seq(E), NEW u \in Seq(E), NEW x, NEW t, Joined(x, q, u), Joined(t, p, x)
    PROVE  \E r \in Seq(E) : Joined(r, p, q) /\ Joined(t, r, u)
<1>1. p \o q \in Seq(E) /\ p \o (q \o u) = (p \o q) \o u
  OBVIOUS
<1> QED BY <1>1 DEF Joined

\* Sequences with the same elements are the same.
LEMMA SameSeq ==
    ASSUME NEW E, NEW p \in Seq(E), NEW q \in Seq(E), Len(p) = Len(q), \A i \in 1..Len(p) : p[i] = q[i]
    PROVE  p = q
OBVIOUS

\* The length of what is joined.
LEMMA JoinedLength ==
    ASSUME NEW E, NEW p \in Seq(E), NEW q \in Seq(E), NEW r, Joined(r, p, q)
    PROVE  Len(r) = Len(p) + Len(q) /\ Len(p) \in Nat /\ Len(q) \in Nat
BY DEF Joined

\* A chunk that one read may return, and chunks that are.
Small(c) == \E n \in ChunkSizes : Len(c) <= n
Smalls(q) == \A i \in 1..Len(q) : Small(q[i])

\* The chunks are an end of what was read, and too long for what was read
\* before them to be held as well.
Recent(rp, t) ==
    /\ rp.chunks \in Seq(Seq(Cell)) /\ rp.evicted \in BOOLEAN /\ Smalls(rp.chunks)
    /\ \E u \in Seq(Byte) : Joined(t, u, Bytes(FlattenSeq(rp.chunks))) /\ (~rp.evicted => u = <<>>)
    /\ rp.evicted => \E n \in ChunkSizes : ~(Len(FlattenSeq(rp.chunks)) + n <= ReplayCap)

\* One more chunk that one read returned.
LEMMA AppendSmall ==
    ASSUME NEW E, NEW q \in Seq(Seq(E)), Smalls(q), NEW c \in Seq(E), Small(c), NEW all, all = Append(q, c)
    PROVE  all \in Seq(Seq(E)) /\ Smalls(all)
<1>1. /\ all \in Seq(Seq(E)) /\ Len(all) = Len(q) + 1 /\ Len(q) \in Nat /\ all[Len(q) + 1] = c
      /\ \A i \in 1..Len(q) : all[i] = q[i]
  OBVIOUS
<1>2. ASSUME NEW i \in 1..Len(all) PROVE Small(all[i])
  <2>1. CASE i = Len(q) + 1
    BY <1>1, <2>1
  <2>2. CASE i # Len(q) + 1
    <3>1. i \in 1..Len(q)
      BY <1>1, <2>2
    <3>2. Small(q[i])
      BY <3>1 DEF Smalls
    <3> QED BY <1>1, <3>1, <3>2
  <2> QED BY <2>1, <2>2
<1> QED BY <1>1, <1>2 DEF Smalls

\* The last of such chunks.
LEMMA SuffixSmall ==
    ASSUME NEW E, NEW all \in Seq(Seq(E)), Smalls(all), NEW k \in 0..Len(all), NEW rest,
           rest = SubSeq(all, k + 1, Len(all))
    PROVE  rest \in Seq(Seq(E)) /\ Smalls(rest)
<1>1. /\ rest \in Seq(Seq(E)) /\ Len(rest) = Len(all) - k /\ Len(all) \in Nat
      /\ \A i \in 1..Len(rest) : rest[i] = all[k + i]
  OBVIOUS
<1>2. ASSUME NEW i \in 1..Len(rest) PROVE Small(rest[i])
  <2>1. k + i \in 1..Len(all)
    BY <1>1
  <2>2. Small(all[k + i])
    BY <2>1 DEF Smalls
  <2> QED BY <1>1, <2>2
<1> QED BY <1>1, <1>2 DEF Smalls

\* The last chunk that had to go was too much for what is left.
LEMMA EvictedFull ==
    ASSUME NEW all \in Seq(Seq(Cell)), Smalls(all), NEW k \in 1..Len(all), NEW rest,
           rest = SubSeq(all, k + 1, Len(all)), ~(Len(FlattenSeq(SubSeq(all, k, Len(all)))) <= ReplayCap)
    PROVE  \E n \in ChunkSizes : ~(Len(FlattenSeq(rest)) + n <= ReplayCap)
<1> DEFINE tail == SubSeq(all, k, Len(all))
           z == FlattenSeq(rest)
           y == FlattenSeq(tail)
<1>1. /\ tail \in Seq(Seq(Cell)) /\ Len(tail) >= 1 /\ Len(tail) \in Nat /\ tail[1] = all[k] /\ all[k] \in Seq(Cell)
      /\ rest = SubSeq(tail, 2, Len(tail))
  <2>1. k \in Nat /\ Len(all) \in Nat /\ k <= Len(all) /\ k >= 1
    OBVIOUS
  <2>2. tail \in Seq(Seq(Cell)) /\ Len(tail) = Len(all) - k + 1 /\ \A i \in 1..Len(tail) : tail[i] = all[k + i - 1]
    BY <2>1
  <2>3. rest \in Seq(Seq(Cell)) /\ Len(rest) = Len(all) - k /\ \A i \in 1..Len(rest) : rest[i] = all[k + i]
    BY <2>1
  <2> HIDE DEF tail
  <2> DEFINE other == SubSeq(tail, 2, Len(tail))
  <2>4. other \in Seq(Seq(Cell)) /\ Len(other) = Len(tail) - 1 /\ \A i \in 1..Len(other) : other[i] = tail[i + 1]
    BY <2>1, <2>2, SMTT(60)
  <2> HIDE DEF other
  <2>5. ASSUME NEW i \in 1..Len(rest) PROVE rest[i] = other[i]
    <3>1. i \in 1..Len(other) /\ i + 1 \in 1..Len(tail) /\ k + (i + 1) - 1 = k + i
      BY <2>1, <2>2, <2>3, <2>4
    <3>2. other[i] = tail[i + 1] /\ tail[i + 1] = all[k + (i + 1) - 1]
      BY <2>2, <2>4, <3>1
    <3> QED BY <2>3, <3>1, <3>2
  <2>6. rest = other
    <3>1. Len(rest) = Len(other)
      BY <2>1, <2>2, <2>3, <2>4
    <3> QED BY <2>3, <2>4, <2>5, <3>1, SameSeq, Zenon
  <2>7. tail[1] = all[k] /\ all[k] \in Seq(Cell)
    BY <2>1, <2>2, SMTT(60)
  <2> QED BY <2>1, <2>2, <2>6, <2>7, SMTT(60) DEF other
<1> HIDE DEF tail
<1>2. 1 \in 0..Len(tail) /\ rest = SubSeq(tail, 1 + 1, Len(tail))
  <2>1. 1 + 1 = 2 /\ 1 \in 0..Len(tail)
    BY <1>1
  <2> QED BY <1>1, <2>1, Zenon
<1>3. z \in Seq(Cell) /\ \E p \in Seq(Cell) : Joined(y, p, z) /\ (1 = 1 => p = tail[1])
  <2> HIDE DEF z, y
  <2>1. Suffix(rest, tail, 1)
    BY <1>2 DEF Suffix
  <2> QED BY <1>1, <1>2, <2>1, FlattenSuffix DEF z, y
<1>4. y = all[k] \o z
  BY <1>1, <1>3 DEF Joined
<1>5. PICK n \in ChunkSizes : Len(all[k]) <= n
  BY DEF Smalls, Small
<1>6. ~(Len(y) <= ReplayCap)
  BY DEF tail
<1> HIDE DEF z, y
<1>7. Len(y) = Len(all[k]) + Len(z) /\ Len(all[k]) \in Nat /\ Len(z) \in Nat
  BY <1>1, <1>3, <1>4, SMTT(60)
<1>8. ReplayCap \in Nat /\ n \in Nat
  BY ModesAssumption
<1>9. ~(Len(z) + n <= ReplayCap)
  BY <1>5, <1>6, <1>7, <1>8
<1> QED BY <1>9 DEF z

\* Storing a chunk leaves the recent output of what was read (push).
LEMMA PushRecent ==
    ASSUME NEW rp, NEW t \in Seq(Byte), Recent(rp, t), NEW c \in Seq(Byte), Small(c),
           NEW kept, kept = Replay!Evicted(Append(rp.chunks, Stored(c))), NEW t2, Joined(t2, t, c)
    PROVE  Recent([chunks |-> kept.rest, evicted |-> rp.evicted \/ kept.dropped], t2)
<1> DEFINE sc == Stored(c)
           all == Append(rp.chunks, sc)
           w == FlattenSeq(all)
           w0 == FlattenSeq(rp.chunks)
           rest == kept.rest
           z == FlattenSeq(rest)
<1>1. rp.chunks \in Seq(Seq(Cell)) /\ rp.evicted \in BOOLEAN /\ Smalls(rp.chunks)
  BY DEF Recent
<1>2. sc \in Seq(Cell) /\ Bytes(sc) = c /\ Small(sc)
  BY StoredTyped DEF Small
<1>3. PICK u \in Seq(Byte) : Joined(t, u, Bytes(w0)) /\ (~rp.evicted => u = <<>>)
  BY DEF Recent
<1>4. kept = Replay!Evicted(all)
  OBVIOUS
<1> HIDE DEF sc
<1>5. all \in Seq(Seq(Cell)) /\ Smalls(all)
  <2> HIDE DEF all
  <2> QED BY <1>1, <1>2, AppendSmall DEF all
<1>6. Joined(w, w0, sc) /\ w0 \in Seq(Cell) /\ w \in Seq(Cell)
  <2>1. w0 \in Seq(Cell)
    BY <1>1, FlatExists, FlattenIs
  <2>2. w = w0 \o sc
    BY <1>1, <1>2, FlattenAppend
  <2> HIDE DEF w, w0
  <2>3. Joined(w, w0, sc)
    BY <2>2 DEF Joined
  <2> QED BY <1>2, <2>1, <2>3, JoinedTyped
<1> HIDE DEF all, w, w0
<1>7. Joined(t2, u, Bytes(w))
  <2>1. Joined(Bytes(w), Bytes(w0), c)
    BY <1>2, <1>6, BytesJoined
  <2>2. Bytes(w0) \in Seq(Byte)
    BY <1>6, BytesTyped
  <2> QED BY <1>3, <2>1, <2>2, JoinedTwice
<1>8. PICK k \in 0..Len(all) :
         /\ kept = [rest |-> SubSeq(all, k + 1, Len(all)), dropped |-> k > 0]
         /\ k > 0 => ~(Len(FlattenSeq(SubSeq(all, k, Len(all)))) <= ReplayCap)
  <2> HIDE DEF rest, z
  <2> QED BY <1>4, <1>5, EvictedIs
<1>9. rest = SubSeq(all, k + 1, Len(all)) /\ (kept.dropped <=> k > 0) /\ kept.dropped \in BOOLEAN
  <2> DEFINE a == SubSeq(all, k + 1, Len(all))
             b == k > 0
  <2>1. kept = [rest |-> a, dropped |-> b] /\ b \in BOOLEAN
    BY <1>8
  <2> HIDE DEF a, b
  <2>2. kept.rest = a /\ (kept.dropped <=> b) /\ kept.dropped \in BOOLEAN
    BY <2>1
  <2> QED BY <2>2 DEF a, b
<1> HIDE DEF rest
<1>10. rest \in Seq(Seq(Cell)) /\ Smalls(rest)
  BY <1>5, <1>9, SuffixSmall
<1> HIDE DEF z
<1>11. /\ z \in Seq(Cell)
       /\ \E p \in Seq(Cell) : Joined(w, p, z) /\ (k = 1 => p = all[1])
  <2>1. Suffix(rest, all, k)
    BY <1>9 DEF Suffix
  <2> QED BY <1>5, <2>1, FlattenSuffix DEF w, z
<1>12. PICK p \in Seq(Cell) : Joined(w, p, z)
  BY <1>11
<1>13. Joined(Bytes(w), Bytes(p), Bytes(z)) /\ Bytes(p) \in Seq(Byte) /\ Bytes(z) \in Seq(Byte)
  BY <1>11, <1>12, BytesJoined, BytesTyped
<1> DEFINE evicted == rp.evicted \/ kept.dropped
<1>14. evicted \in BOOLEAN
  BY <1>1, <1>9
<1>15. \E x \in Seq(Byte) : Joined(t2, x, Bytes(z)) /\ (~evicted => x = <<>>)
  <2>1. CASE k = 0
    <3>1. rest = all
      BY <1>5, <1>9, <2>1
    <3>2. z = w
      BY <3>1 DEF z, w
    <3>3. ~evicted => ~rp.evicted
      OBVIOUS
    <3> QED BY <1>3, <1>7, <3>2, <3>3
  <2>2. CASE k # 0
    <3>1. evicted
      BY <1>9, <2>2
    <3> HIDE DEF evicted
    <3>2. \E x \in Seq(Byte) : Joined(x, u, Bytes(p)) /\ Joined(t2, x, Bytes(z))
      BY <1>3, <1>7, <1>13, JoinedBack
    <3> QED BY <3>1, <3>2
  <2> QED BY <2>1, <2>2
<1>16. ASSUME evicted PROVE \E n \in ChunkSizes : ~(Len(z) + n <= ReplayCap)
  <2>1. CASE k = 0
    <3>1. rest = all /\ rp.evicted
      BY <1>5, <1>9, <1>16, <2>1
    <3>2. z = w
      BY <3>1 DEF z, w
    <3>3. PICK n \in ChunkSizes : ~(Len(w0) + n <= ReplayCap)
      BY <3>1 DEF Recent, w0
    <3>4. Len(w) = Len(w0) + Len(sc) /\ Len(w0) \in Nat /\ Len(sc) \in Nat
      BY <1>2, <1>6, JoinedLength
    <3>5. n \in Nat /\ ReplayCap \in Nat
      BY ModesAssumption
    <3> QED BY <3>2, <3>3, <3>4, <3>5
  <2>2. CASE k # 0
    <3>1. k \in 1..Len(all) /\ k > 0
      BY <2>2
    <3> QED BY <1>5, <1>8, <1>9, <3>1, EvictedFull DEF z
  <2> QED BY <2>1, <2>2
<1> DEFINE new == [chunks |-> rest, evicted |-> evicted]
<1>17. new.chunks = rest /\ new.evicted = evicted
  OBVIOUS
<1> HIDE DEF evicted, new
<1>18. Recent(new, t2)
  BY <1>10, <1>14, <1>15, <1>16, <1>17 DEF Recent, z
<1> QED BY <1>18 DEF new, rest, evicted

\* What a snapshot shows is an end of what was read: all of it, or more than
\* any sequence.
Ending(z, t) ==
    \E u \in Seq(Byte) : Joined(t, u, z) /\ (u = <<>> \/ \A s \in Sayings : Len(s.bytes) <= Len(z))

\* A snapshot is what is held, or what follows an end of line in the window.
LEMMA SnapshotIs ==
    ASSUME NEW rp, NEW w, w = FlattenSeq(rp.chunks), w \in Seq(Cell), NEW h, h = Replay!Snapshot(rp)
    PROVE  \/ h = w
           \/ rp.evicted /\ \E i \in 1..Len(w) : i <= Window /\ h = SubSeq(w, i + 1, Len(w))
<1> DEFINE ends == {i \in DOMAIN w : i <= Window /\ w[i][2] \in {NewLine}}
           first == CHOOSE i \in ends : \A j \in ends : i <= j
<1>1. Replay!Held(rp) = w
  BY ReplayFlattens DEF Replay!Held
<1>2. h = IF rp.evicted /\ ends # {} /\ first < Len(w) THEN SubSeq(w, first + 1, Len(w)) ELSE w
  BY <1>1 DEF Replay!Snapshot
<1>3. ends # {} => first \in ends
  <2>1. ends \subseteq Nat
    OBVIOUS
  <2> HIDE DEF ends
  <2> QED BY <2>1, Least
<1>4. ends \subseteq 1..Len(w) /\ \A i \in ends : i <= Window
  OBVIOUS
<1> HIDE DEF ends, first
<1> QED BY <1>2, <1>3, <1>4

\* A snapshot is an end of what was read, long enough for any sequence.
LEMMA SnapshotRecent ==
    ASSUME NEW rp, NEW t \in Seq(Byte), Recent(rp, t), NEW z, z = Bytes(Replay!Snapshot(rp))
    PROVE  z \in Seq(Byte) /\ Ending(z, t)
<1> DEFINE w == FlattenSeq(rp.chunks)
           h == Replay!Snapshot(rp)
<1>1. w \in Seq(Cell)
  BY FlatExists, FlattenIs DEF Recent
<1>2. PICK u \in Seq(Byte) : Joined(t, u, Bytes(w)) /\ (~rp.evicted => u = <<>>)
  BY DEF Recent
<1>3. rp.evicted => \E n \in ChunkSizes : ~(Len(w) + n <= ReplayCap)
  BY DEF Recent
<1>4. \/ h = w
      \/ rp.evicted /\ \E i \in 1..Len(w) : i <= Window /\ h = SubSeq(w, i + 1, Len(w))
  <2> HIDE DEF w, h
  <2> QED BY <1>1, SnapshotIs DEF w, h
<1>5. z = Bytes(h)
  OBVIOUS
<1> HIDE DEF w, h
<1>6. Window \in Nat /\ ReplayCap \in Nat
  BY ModesAssumption
<1>7. ASSUME rp.evicted, NEW l \in Nat, Len(w) <= l + Window, NEW s \in Sayings PROVE Len(s.bytes) <= l
  <2>1. PICK n \in ChunkSizes : ~(Len(w) + n <= ReplayCap)
    BY <1>3, <1>7
  <2>2. n \in Nat /\ Len(s.bytes) + n + Window <= ReplayCap
    BY ModesAssumption, ReplayAssumption
  <2>3. Len(s.bytes) \in Nat /\ Len(w) \in Nat
    BY <1>1, SayingIs
  <2> QED BY <1>6, <1>7, <2>1, <2>2, <2>3
<1>8. CASE h = w
  <2>1. z \in Seq(Byte) /\ Len(z) = Len(w)
    BY <1>1, <1>5, <1>8, BytesTyped
  <2>2. Joined(t, u, z)
    BY <1>2, <1>5, <1>8
  <2>3. CASE rp.evicted
    <3>1. Len(w) \in Nat /\ Len(w) <= Len(w) + Window
      BY <1>1, <1>6
    <3>2. \A s \in Sayings : Len(s.bytes) <= Len(z)
      BY <1>7, <2>1, <2>3, <3>1
    <3> QED BY <2>1, <2>2, <3>2 DEF Ending
  <2>4. CASE ~rp.evicted
    <3>1. u = <<>>
      BY <1>2, <2>4
    <3> QED BY <2>1, <2>2, <3>1 DEF Ending
  <2> QED BY <2>3, <2>4
<1>9. CASE rp.evicted /\ \E i \in 1..Len(w) : i <= Window /\ h = SubSeq(w, i + 1, Len(w))
  <2>1. PICK i \in 1..Len(w) : i <= Window /\ h = SubSeq(w, i + 1, Len(w))
    BY <1>9
  <2> DEFINE p == SubSeq(w, 1, i)
  <2>2. i \in Nat /\ Len(w) \in Nat /\ i <= Len(w)
    BY <1>1
  <2>3. h \in Seq(Cell) /\ Len(h) = Len(w) - i
    BY <1>1, <2>1, <2>2
  <2>4. p \in Seq(Cell) /\ Joined(w, p, h)
    BY <1>1, <2>1, <2>2 DEF Joined
  <2> HIDE DEF p
  <2>5. Joined(Bytes(w), Bytes(p), z)
    BY <1>5, <2>3, <2>4, BytesJoined
  <2>6. z \in Seq(Byte) /\ Len(z) = Len(h) /\ Bytes(p) \in Seq(Byte)
    BY <1>5, <2>3, <2>4, BytesTyped
  <2>7. PICK x \in Seq(Byte) : Joined(t, x, z)
    BY <1>2, <2>5, <2>6, JoinedBack
  <2>8. Len(z) \in Nat /\ Len(w) <= Len(z) + Window
    BY <1>6, <2>1, <2>2, <2>3, <2>6
  <2>9. \A s \in Sayings : Len(s.bytes) <= Len(z)
    BY <1>7, <1>9, <2>8
  <2> QED BY <2>6, <2>7, <2>9 DEF Ending
<1> QED BY <1>4, <1>8, <1>9

-----------------------------------------------------------------------------
(* The invariant. *)

\* The lesser of two numbers.
LEMMA MinIs ==
    ASSUME NEW a \in Nat, NEW b \in Nat
    PROVE  Min({a, b}) \in Nat /\ Min({a, b}) <= a /\ Min({a, b}) <= b
<1>1. \E x \in {a, b} : \A y \in {a, b} : x <= y
  OBVIOUS
<1> DEFINE m == Min({a, b})
<1>2. m \in {a, b} /\ \A y \in {a, b} : m <= y
  BY <1>1 DEF Min
<1> HIDE DEF m
<1>3. m \in Nat /\ m <= a /\ m <= b
  BY <1>2
<1> QED BY <1>3 DEF m

\* The parts of a sequence over a set are over it.
LEMMA JoinedWithin ==
    ASSUME NEW E, NEW F, NEW p \in Seq(F), NEW q \in Seq(F), NEW r \in Seq(E), Joined(r, p, q)
    PROVE  p \in Seq(E) /\ q \in Seq(E)
<1> DEFINE m == Len(p)
           n == Len(q)
<1>1. /\ Len(r) = m + n /\ m \in Nat /\ n \in Nat /\ DOMAIN p = 1..m /\ DOMAIN q = 1..n
      /\ p = [i \in 1..m |-> p[i]] /\ q = [i \in 1..n |-> q[i]]
      /\ \A i \in 1..m : r[i] = p[i]
      /\ \A i \in 1..n : r[m + i] = q[i]
  BY DEF Joined
<1>2. \A i \in 1..(m + n) : r[i] \in E
  BY <1>1
<1> HIDE DEF m, n
<1>3. \A i \in 1..m : p[i] \in E
  <2> SUFFICES ASSUME NEW i \in 1..m PROVE p[i] \in E
    OBVIOUS
  <2>1. i \in 1..(m + n)
    BY <1>1
  <2> QED BY <1>1, <1>2, <2>1
<1>4. \A i \in 1..n : q[i] \in E
  <2> SUFFICES ASSUME NEW i \in 1..n PROVE q[i] \in E
    OBVIOUS
  <2>1. m + i \in 1..(m + n)
    BY <1>1
  <2> QED BY <1>1, <1>2, <2>1
<1>5. p \in Seq(E)
  BY <1>1, <1>3, MappedSeq
<1>6. q \in Seq(E)
  BY <1>1, <1>4, MappedSeq
<1> QED BY <1>5, <1>6

\* No byte is further from the last ESC before it than a sequence is long.
Covered(w) ==
    \A i \in 1..Len(w) : \E k \in 1..i : w[k] = ESC /\ \E s \in Sayings : i - k < Len(s.bytes)

\* It is so of the first part of such bytes.
LEMMA CoveredFront ==
    ASSUME NEW w, NEW p \in Seq(Byte), NEW q \in Seq(Byte), Joined(w, p, q), Covered(w)
    PROVE  Covered(p)
<1>1. /\ w \in Seq(Byte) /\ Len(w) = Len(p) + Len(q) /\ Len(p) \in Nat /\ Len(q) \in Nat
      /\ \A i \in 1..Len(p) : w[i] = p[i]
  BY JoinedAt
<1>2. ASSUME NEW i \in 1..Len(p) PROVE \E k \in 1..i : p[k] = ESC /\ \E s \in Sayings : i - k < Len(s.bytes)
  <2>1. i \in 1..Len(w)
    BY <1>1
  <2>2. PICK k \in 1..i : w[k] = ESC /\ \E s \in Sayings : i - k < Len(s.bytes)
    BY <2>1 DEF Covered
  <2>3. k \in 1..Len(p)
    BY <1>1
  <2> QED BY <1>1, <2>2, <2>3
<1> QED BY <1>2 DEF Covered

\* It is so with one more saying.
LEMMA CoveredLonger ==
    ASSUME NEW w \in Seq(Byte), Covered(w), NEW s \in Sayings, NEW x, Joined(x, w, s.bytes)
    PROVE  Covered(x)
<1> DEFINE q == s.bytes
           n == Len(w)
<1>1. q \in Seq(Byte) /\ Len(q) >= 2 /\ q[1] = ESC
  BY SayingIs
<1>2. /\ x \in Seq(Byte) /\ Len(x) = n + Len(q) /\ n \in Nat /\ Len(q) \in Nat
      /\ \A i \in 1..n : x[i] = w[i]
      /\ \A i \in 1..Len(q) : x[n + i] = q[i]
  <2> HIDE DEF n
  <2>1. Joined(x, w, q)
    OBVIOUS
  <2> HIDE DEF q
  <2> QED BY <1>1, <2>1, JoinedAt DEF n
<1> HIDE DEF n
<1>3. ASSUME NEW i \in 1..Len(x) PROVE \E k \in 1..i : x[k] = ESC /\ \E r \in Sayings : i - k < Len(r.bytes)
  <2>1. CASE i <= n
    <3>1. i \in 1..n
      BY <1>2, <2>1
    <3>2. PICK k \in 1..i : w[k] = ESC /\ \E r \in Sayings : i - k < Len(r.bytes)
      BY <3>1 DEF Covered, n
    <3>3. k \in 1..n
      BY <1>2, <3>1
    <3> QED BY <1>2, <3>2, <3>3
  <2>2. CASE ~(i <= n)
    <3>1. n + 1 \in 1..i /\ i - (n + 1) < Len(q) /\ 1 \in 1..Len(q)
      BY <1>1, <1>2, <2>2
    <3>2. x[n + 1] = ESC
      BY <1>1, <1>2, <3>1
    <3> QED BY <3>1, <3>2
  <2> QED BY <2>1, <2>2
<1> QED BY <1>3 DEF Covered

\* The screen a terminal is given has an ESC in it, unless it is everything.
LEMMA EndingIs ==
    ASSUME NEW t \in Seq(Byte), Covered(t), NEW z \in Seq(Byte), NEW u \in Seq(Byte), Joined(t, u, z),
           \A s \in Sayings : Len(s.bytes) <= Len(z)
    PROVE  u = <<>> \/ HasEsc(z)
<1>1. /\ Len(t) = Len(u) + Len(z) /\ Len(u) \in Nat /\ Len(z) \in Nat
      /\ \A i \in 1..Len(z) : t[Len(u) + i] = z[i]
  BY JoinedAt
<1>2. CASE Len(u) = 0
  BY <1>2
<1>3. CASE Len(u) # 0
  <2>1. Len(t) \in 1..Len(t)
    BY <1>1, <1>3
  <2>2. PICK k \in 1..Len(t) : t[k] = ESC /\ \E s \in Sayings : Len(t) - k < Len(s.bytes)
    BY <2>1 DEF Covered
  <2>3. PICK s \in Sayings : Len(t) - k < Len(s.bytes)
    BY <2>2
  <2>4. Len(s.bytes) <= Len(z) /\ Len(s.bytes) \in Nat
    BY SayingIs
  <2>5. k - Len(u) \in 1..Len(z) /\ Len(u) + (k - Len(u)) = k
    BY <1>1, <2>3, <2>4
  <2>6. z[k - Len(u)] = ESC
    BY <1>1, <2>2, <2>5
  <2> QED BY <2>5, <2>6 DEF HasEsc
<1> QED BY <1>2, <1>3

\* What a new terminal that was given all that a session has to tell it
\* makes of what follows.
LEMMA ReattachIs ==
    ASSUME NEW k \in Known, NEW t \in Seq(Byte), Covered(t), NEW z \in Seq(Byte), Ending(z, t),
           NEW v, v = Seen(Defaults, NewScanner, t), Right(k, v),
           NEW bytes, Joined(bytes, Preamble(k), z)
    PROVE  /\ bytes \in Seq(Byte) /\ InStep(State(NewScanner, t), State(NewScanner, bytes))
           /\ Seen(Defaults, NewScanner, bytes) \in Values
           /\ Complete(k, v) => \A m \in Tracked : Seen(Defaults, NewScanner, bytes)[m] = v[m]
<1> DEFINE f0 == NewScanner
           D == Defaults
           pre == Preamble(k)
           told == Told(k)
<1>1. f0 \in Scanner /\ D \in Values
  BY NewTyped DEF Defaults, Values
<1>2. pre \in Seq(Byte) /\ State(f0, pre) = f0 /\ Seen(D, f0, pre) = told /\ told \in Values
  BY PreambleIs
<1>3. PICK u \in Seq(Byte) : Joined(t, u, z) /\ (u = <<>> \/ \A s \in Sayings : Len(s.bytes) <= Len(z))
  BY DEF Ending
<1>4. v = Seen(D, f0, t) /\ Joined(bytes, pre, z)
  OBVIOUS
<1> HIDE DEF f0, D, pre, told
<1> DEFINE w == Seen(D, f0, bytes)
<1>5. bytes \in Seq(Byte) /\ State(f0, bytes) = State(f0, z) /\ w = Seen(told, f0, z)
  <2>1. bytes \in Seq(Byte)
    BY <1>2, <1>4, JoinedTyped
  <2>2. State(f0, bytes) = State(State(f0, pre), z)
    BY <1>1, <1>2, <1>4, FeedJoined
  <2>3. w = Seen(Seen(D, f0, pre), State(f0, pre), z)
    BY <1>1, <1>2, <1>4, SeenJoined
  <2> QED BY <1>2, <2>1, <2>2, <2>3
<1>6. w \in Values
  BY <1>1, <1>5, SeenTyped
<1> HIDE DEF w
<1> DEFINE f == State(f0, u)
           v1 == Seen(D, f0, u)
<1>7. /\ f \in Scanner /\ v1 \in Values /\ State(f0, t) = State(f, z) /\ v = Seen(v1, f, z)
  <2>1. f \in Scanner /\ v1 \in Values
    BY <1>1, FeedTyped, SeenTyped
  <2>2. State(f0, t) = State(State(f0, u), z)
    BY <1>1, <1>3, FeedJoined
  <2>3. v = Seen(Seen(D, f0, u), State(f0, u), z)
    BY <1>1, <1>3, <1>4, SeenJoined
  <2> QED BY <2>1, <2>2, <2>3
<1>8. u = <<>> => f = f0
  BY <1>1, FeedNil
<1> HIDE DEF f, v1
<1>9. InStep(State(f0, t), State(f0, z))
  <2>1. CASE u = <<>>
    BY <1>7, <1>8, <2>1 DEF InStep
  <2>2. CASE u # <<>>
    <3>1. HasEsc(z)
      BY <1>3, <2>2, EndingIs
    <3>2. InStep(State(f, z), State(NewScanner, z))
      BY <1>7, <3>1, EndsAll
    <3> QED BY <1>7, <3>2 DEF f0
  <2> QED BY <2>1, <2>2
<1>10. PICK es \in Seq(Event) : \A x \in Values : Seen(x, f, z) = Seen(Shows(x, es), f0, z)
  <2>1. Ends(f, z)
    BY <1>7, EndsAll
  <2> QED BY <2>1 DEF Ends, f0
<1> DEFINE x == Shows(v1, es)
           fs == Found(f0, z)
<1>11. x \in Values /\ fs \in Seq(Event) /\ v = Shows(x, fs) /\ w = Shows(told, fs)
  <2>1. x \in Values
    BY <1>7, <1>10, ShowsTyped
  <2>2. fs \in Seq(Event)
    BY <1>1, FeedTyped
  <2>3. v = Seen(x, f0, z)
    BY <1>7, <1>10
  <2> QED BY <1>5, <2>1, <2>2, <2>3 DEF Seen
<1> HIDE DEF x, fs
<1>12. ASSUME Complete(k, v), NEW m \in Tracked PROVE w[m] = v[m]
  <2>1. m \in Modes /\ told[m] = IF m \in DOMAIN k THEN k[m] ELSE "default"
    BY DEF Tracked, told, Told
  <2>2. told[m] = v[m]
    <3>1. CASE m \in DOMAIN k
      BY <2>1, <3>1 DEF Right
    <3>2. CASE m \notin DOMAIN k
      BY <1>12, <2>1, <3>2 DEF Complete, Away
    <3> QED BY <3>1, <3>2
  <2>3. told[m] = Shows(x, fs)[m]
    BY <1>11, <2>2
  <2>4. Shows(told, fs)[m] = Shows(x, fs)[m]
    BY <1>2, <1>11, <2>1, <2>3, ShownAlike
  <2> QED BY <1>11, <2>4
<1> QED BY <1>5, <1>6, <1>9, <1>12 DEF f0, D, pre, w

\* The terminal of the page.
View == [open : BOOLEAN, scanner : Scanner, values : Values]

\* What reading bytes does to a terminal.
LEMMA ShownIs ==
    ASSUME NEW x \in View, NEW q \in Seq(Byte)
    PROVE  /\ Shown(x, q) \in View /\ Shown(x, q).open = x.open
           /\ Shown(x, q).scanner = State(x.scanner, q)
           /\ Shown(x, q).values = Seen(x.values, x.scanner, q)
<1> DEFINE f == State(x.scanner, q)
           w == Seen(x.values, x.scanner, q)
<1>1. x.scanner \in Scanner /\ x.values \in Values /\ x.open \in BOOLEAN /\ DOMAIN x = {"open", "scanner", "values"}
  BY DEF View
<1>2. f \in Scanner /\ w \in Values
  BY <1>1, FeedTyped, SeenTyped
<1>3. Shown(x, q) = [x EXCEPT !.scanner = f, !.values = w]
  BY DEF Shown, State, Found, Seen, Shows
<1> HIDE DEF f, w
<1>4. Shown(x, q) = [open |-> x.open, scanner |-> f, values |-> w]
  BY <1>3 DEF View
<1> QED BY <1>1, <1>2, <1>4 DEF View, f, w

\* A terminal is in step with the one that was there from the start.
Watches(x, f, v, complete) ==
    /\ x \in View
    /\ x.open =>
         /\ InStep(f, x.scanner)
         /\ complete => \A m \in Tracked : x.values[m] = v[m]

\* It stays in step with what both read.
LEMMA WatchesOn ==
    ASSUME NEW x, NEW f \in Scanner, NEW v \in Values, NEW complete, Watches(x, f, v, complete),
           NEW q \in Seq(Byte)
    PROVE  Watches(IF x.open THEN Shown(x, q) ELSE x, State(f, q), Seen(v, f, q), complete)
<1> DEFINE y == Shown(x, q)
           es == Found(f, q)
<1>1. x \in View
  BY DEF Watches
<1>2. CASE ~x.open
  BY <1>1, <1>2 DEF Watches
<1>3. CASE x.open
  <2>1. /\ y \in View /\ y.open = x.open /\ y.scanner = State(x.scanner, q)
        /\ y.values = Seen(x.values, x.scanner, q)
    BY <1>1, ShownIs
  <2>2. x.scanner \in Scanner /\ x.values \in Values
    BY <1>1 DEF View
  <2>3. InStep(f, x.scanner)
    BY <1>3 DEF Watches
  <2> HIDE DEF y
  <2>4. InStep(State(f, q), y.scanner) /\ y.values = Seen(x.values, f, q)
    BY <2>1, <2>2, <2>3, InStepFeeds
  <2>5. ASSUME complete, NEW m \in Tracked PROVE y.values[m] = Seen(v, f, q)[m]
    <3>1. m \in Modes /\ x.values[m] = v[m]
      BY <1>3, <2>5 DEF Watches, Tracked
    <3>2. es \in Seq(Event)
      BY FeedTyped
    <3>3. Shows(x.values, es)[m] = Shows(v, es)[m]
      <4> HIDE DEF es
      <4> QED BY <2>2, <3>1, <3>2, ShownAlike
    <3> QED BY <2>4, <3>3 DEF Seen
  <2>6. Watches(y, State(f, q), Seen(v, f, q), complete)
    BY <2>1, <2>4, <2>5 DEF Watches
  <2> QED BY <1>3, <2>6 DEF y
<1> QED BY <1>2, <1>3

\* What has been read, and the values it left.
Upto(t) == Seen(Defaults, NewScanner, t)

\* The events of what the program has written and nobody has read.
Todo == Found(scanner, pipe)

\* What was read and what waits make up whole sequences, of which the buffer
\* holds the recent ones.
StreamInv(t) ==
    /\ pipe \in Seq(Byte) /\ scanner = State(NewScanner, t) /\ Recent(replay, t)
    /\ \E w \in Seq(Byte) : Joined(w, t, pipe) /\ Covered(w)

\* What waits will bring the sink to what the program meant.
SinkInv == reported \in Seq(Event) /\ Todo \in Seq(Meant) /\ Tells(reported, Todo) = meantEvents

\* What is remembered is right, and complete while the modes fit; what waits
\* will bring a terminal to what the program meant.
ModesInv(v) ==
    /\ modes \in Known /\ Right(modes, v) /\ meant = Shows(v, Todo) /\ crowded \in BOOLEAN
    /\ ~crowded => Complete(modes, v) /\ FitAll(v, Todo)

\* An open terminal is in step with one that was there from the start.
ViewInv(v) == Watches(view, scanner, v, ~crowded)

\* All of it, for the bytes that have been read.
IInv == \E t \in Seq(Byte) : StreamInv(t) /\ SinkInv /\ ModesInv(Upto(t)) /\ ViewInv(Upto(t))

\* What was read leaves values.
LEMMA UptoTyped ==
    ASSUME NEW t \in Seq(Byte)
    PROVE  Upto(t) \in Values /\ State(NewScanner, t) \in Scanner /\ Defaults \in Values
<1>1. Defaults \in Values /\ NewScanner \in Scanner
  BY NewTyped DEF Defaults, Values
<1> QED BY <1>1, FeedTyped, SeenTyped DEF Upto

\* The terminal that is not there.
LEMMA NoViewTyped == NoView \in View /\ NoView.open = FALSE /\ NoView.scanner = NewScanner /\ NoView.values = Defaults
BY UptoTyped, NewTyped DEF NoView, View, Defaults, Values

\* At first nothing is remembered, and nothing has to be.
LEMMA InitFits ==
    /\ [m \in {} |-> "set"] \in Known /\ Right([m \in {} |-> "set"], Defaults)
    /\ Complete([m \in {} |-> "set"], Defaults) /\ Fits(Defaults)
<1> DEFINE k == [m \in {} |-> "set"]
<1>1. DOMAIN k = {} /\ k \in [DOMAIN k -> Setting]
  OBVIOUS
<1>2. Away(Defaults) = {}
  BY DEF Away, Defaults, Tracked
<1>3. MaxTracked \in Nat /\ Cardinality({}) = 0
  BY ModesFinite, FS_EmptySet
<1> HIDE DEF k
<1>4. k \in Known
  <2>1. Cardinality(DOMAIN k) <= MaxTracked
    BY <1>1, <1>3
  <2>2. DOMAIN k \subseteq Tracked
    BY <1>1
  <2> QED BY <1>1, <2>1, <2>2, KnownIs, Zenon
<1>5. Right(k, Defaults) /\ Complete(k, Defaults)
  BY <1>1, <1>2 DEF Right, Complete
<1>6. Fits(Defaults)
  BY <1>2, <1>3 DEF Fits
<1> QED BY <1>4, <1>5, <1>6 DEF k

\* Without events the modes fit.
LEMMA NilFits ==
    ASSUME NEW v \in Values, Fits(v)
    PROVE  FitAll(v, <<>>)
<1> SUFFICES ASSUME NEW p \in Seq(Event), NEW r \in Seq(Event), Joined(<<>>, p, r) PROVE Fits(Shows(v, p))
  BY DEF FitAll
<1>1. p = <<>>
  <2> DEFINE nil == <<>>
  <2>0. nil \in Seq(Event) /\ Len(nil) = 0
    OBVIOUS
  <2>1. Len(nil) = Len(p) + Len(r) /\ Len(p) \in Nat /\ Len(r) \in Nat
    <3> HIDE DEF nil
    <3> QED BY JoinedLength DEF nil
  <2> QED BY <2>0, <2>1
<1> QED BY <1>1, ShowsNil

\* The invariant holds at first.
LEMMA InitInv == Init => IInv
<1> SUFFICES ASSUME Init PROVE IInv
  OBVIOUS
<1> DEFINE t == <<>>
           D == Defaults
<1>1. /\ pipe = t /\ scanner = NewScanner /\ modes = [m \in {} |-> "set"]
      /\ replay = [chunks |-> <<>>, evicted |-> FALSE]
      /\ view = NoView /\ reported = t /\ meant = D /\ meantEvents = t /\ crowded = FALSE
  BY DEF Init
<1>2. t \in Seq(Byte) /\ t \in Seq(Event) /\ t \in Seq(Meant) /\ Len(t) = 0
  OBVIOUS
<1>3. Found(NewScanner, t) = t /\ State(NewScanner, t) = NewScanner /\ Upto(t) = D /\ D \in Values
  <2>1. NewScanner \in Scanner /\ D \in Values
    BY <1>2, NewTyped, UptoTyped
  <2> HIDE DEF D
  <2>2. State(NewScanner, t) = NewScanner /\ Found(NewScanner, t) = t
    BY <2>1, FeedNil
  <2>3. Seen(D, NewScanner, t) = D
    BY <2>1, SeenNil
  <2> QED BY <2>1, <2>2, <2>3 DEF Upto, D
<1>4. Todo = t
  BY <1>1, <1>3 DEF Todo
<1>5. Recent(replay, t)
  <2>1. FlattenSeq(<<>>) = <<>>
    BY DEF FlattenSeq
  <2>2. Bytes(<<>>) = <<>>
    BY DEF Bytes
  <2>3. Joined(t, t, <<>>)
    BY DEF Joined
  <2>4. replay.chunks = <<>> /\ replay.evicted = FALSE /\ <<>> \in Seq(Seq(Cell)) /\ Smalls(<<>>)
    BY <1>1 DEF Smalls
  <2> QED BY <1>2, <2>1, <2>2, <2>3, <2>4 DEF Recent
<1>6. Joined(t, t, t) /\ Covered(t)
  BY DEF Joined, Covered
<1>7. Shows(D, t) = D /\ Tells(t, t) = t
  BY <1>2, <1>3, ShowsNil, TellsNil
<1>8. FitAll(D, t)
  BY <1>3, InitFits, NilFits
<1> HIDE DEF t, D
<1>9. StreamInv(t)
  BY <1>1, <1>2, <1>3, <1>5, <1>6 DEF StreamInv
<1>10. SinkInv
  BY <1>1, <1>2, <1>4, <1>7 DEF SinkInv
<1>11. ModesInv(Upto(t))
  BY <1>1, <1>3, <1>4, <1>7, <1>8, InitFits DEF ModesInv, D
<1>12. ViewInv(Upto(t))
  BY <1>1, NoViewTyped DEF ViewInv, Watches
<1> QED BY <1>2, <1>9, <1>10, <1>11, <1>12 DEF IInv

\* One more event that waits.
LEMMA SaidMore ==
    ASSUME NEW v \in Values, NEW es \in Seq(Meant), NEW told \in Seq(Event), NEW e \in Meant,
           NEW z, Joined(z, es, <<e>>)
    PROVE  /\ z \in Seq(Meant) /\ es \in Seq(Event) /\ e \in Event
           /\ Shows(v, z) = OnTerminal(Shows(v, es), e)
           /\ Tells(told, z) = Reported(Tells(told, es), e)
<1>1. Meant \subseteq Event
  BY DEF Meant
<1>2. es \in Seq(Event) /\ e \in Event
  BY <1>1, Widened
<1>3. z = Append(es, e) /\ z \in Seq(Meant)
  BY DEF Joined
<1> QED BY <1>2, <1>3, ShowsSteps, TellsSteps

\* Joining with nothing changes nothing.
LEMMA JoinedSame ==
    ASSUME NEW E, NEW p \in Seq(E), NEW r, Joined(r, p, <<>>)
    PROVE  r = p
BY DEF Joined

\* What the program meant fits unless it was too much.
LEMMA NotCrowded ==
    ASSUME NEW v, ~(Cardinality({m \in Modes \ Untracked : v[m] # "default"}) > MaxTracked)
    PROVE  Fits(v)
<1> DEFINE c == Cardinality(Away(v))
<1>1. c \in Nat /\ MaxTracked \in Nat
  BY AwayFinite, ModesFinite
<1>2. ~(c > MaxTracked)
  BY DEF Away, Tracked
<1> HIDE DEF c
<1>3. c <= MaxTracked
  BY <1>1, <1>2
<1> QED BY <1>3 DEF c, Fits

\* The program writes: the events of what waits are those it had waiting, and
\* the new one.
LEMMA SayInv ==
    ASSUME IInv, NEW s \in Sayings, Say(s)
    PROVE  IInv'
<1> DEFINE q == s.bytes
           e == s.event
<1>1. PICK t \in Seq(Byte) : StreamInv(t) /\ SinkInv /\ ModesInv(Upto(t)) /\ ViewInv(Upto(t))
  BY DEF IInv
<1> DEFINE v == Upto(t)
<1>2. /\ pipe' = pipe \o q /\ meant' = OnTerminal(meant, e)
      /\ meantEvents' = IF e = NoEvent \/ IsModeEvent(e) THEN meantEvents ELSE Append(meantEvents, e)
      /\ crowded' = (crowded \/ Cardinality({m \in Modes \ Untracked : meant'[m] # "default"}) > MaxTracked)
      /\ scanner' = scanner /\ modes' = modes /\ replay' = replay /\ view' = view /\ reported' = reported
  BY DEF Say
<1>3. /\ q \in Seq(Byte) /\ Found(NewScanner, q) = IF e = NoEvent THEN <<>> ELSE <<e>>
      /\ e.kind = "mode" => e.modes \in Seq(Modes)
  BY SayingIs
<1>4. /\ pipe \in Seq(Byte) /\ scanner \in Scanner /\ v \in Values /\ Todo \in Seq(Meant)
      /\ reported \in Seq(Event) /\ crowded \in BOOLEAN
  BY <1>1, UptoTyped DEF StreamInv, SinkInv, ModesInv
<1>5. Joined(pipe', pipe, q) /\ pipe' \in Seq(Byte)
  BY <1>2, <1>3, <1>4 DEF Joined
<1> DEFINE f == State(scanner, pipe)
           new == Found(f, q)
           todo == Todo
           after == Found(scanner, pipe')
<1>6. Joined(after, todo, new) /\ f \in Scanner
  BY <1>3, <1>4, <1>5, FeedJoined, FeedTyped DEF Todo
<1>7. new = (IF e = NoEvent THEN <<>> ELSE <<e>>) /\ new \in Seq(Event)
  <2>1. f \in Scanner
    BY <1>6
  <2> HIDE DEF f
  <2> QED BY <1>3, <2>1, SayingScanned, FeedTyped
<1>8. Todo' = after
  BY <1>2 DEF Todo
<1> HIDE DEF q, e, f, new, todo, after, v
<1>9. /\ after \in Seq(Meant) /\ meant' = Shows(v, after) /\ Tells(reported, after) = meantEvents'
      /\ ~crowded' => ~crowded /\ FitAll(v, after)
  <2>1. meant = Shows(v, todo) /\ Tells(reported, todo) = meantEvents /\ (~crowded => FitAll(v, todo)) /\ todo \in Seq(Meant)
    BY <1>1, <1>4 DEF ModesInv, SinkInv, todo, v
  <2>2. ~crowded' => ~crowded /\ Fits(meant')
    BY <1>2, <1>4, NotCrowded
  <2>3. CASE e = NoEvent
    <3>1. after = todo
      BY <1>6, <1>7, <2>1, <2>3, JoinedSame
    <3>2. meant' = meant /\ meantEvents' = meantEvents
      BY <1>2, <2>3, NoEventShown
    <3> QED BY <2>1, <2>2, <3>1, <3>2
  <2>4. CASE e # NoEvent
    <3>1. new = <<e>> /\ e \in Event
      <4>1. new = <<e>>
        BY <1>7, <2>4
      <4> QED BY <1>7, <4>1
    <3>2. e \in Meant
      BY <1>3, <3>1 DEF Meant
    <3>3. Joined(after, todo, <<e>>)
      BY <1>6, <3>1
    <3>4. /\ after \in Seq(Meant) /\ todo \in Seq(Event)
          /\ Shows(v, after) = OnTerminal(Shows(v, todo), e)
          /\ Tells(reported, after) = Reported(Tells(reported, todo), e)
      BY <1>4, <2>1, <3>2, <3>3, SaidMore
    <3>5. meantEvents' = Reported(meantEvents, e)
      BY <1>2, <2>4 DEF Reported
    <3>6. Shows(v, after) = meant'
      BY <1>2, <2>1, <3>4
    <3>7. ASSUME ~crowded' PROVE FitAll(v, after)
      <4>1. FitAll(v, todo) /\ Fits(Shows(v, after))
        BY <2>1, <2>2, <3>6, <3>7
      <4> QED BY <1>4, <3>1, <3>3, <3>4, <4>1, FitAllLonger
    <3> QED BY <2>1, <2>2, <3>4, <3>5, <3>6, <3>7
  <2> QED BY <2>3, <2>4
<1>10. StreamInv(t)'
  <2>1. PICK w \in Seq(Byte) : Joined(w, t, pipe) /\ Covered(w)
    BY <1>1 DEF StreamInv
  <2> DEFINE x == w \o q
  <2>2. x \in Seq(Byte) /\ Joined(x, w, q)
    BY <1>3 DEF Joined
  <2> HIDE DEF x
  <2>3. Joined(x, t, pipe')
    BY <1>3, <1>4, <1>5, <2>1, <2>2, JoinedTwice
  <2>4. Covered(x)
    BY <2>1, <2>2, CoveredLonger DEF q
  <2> QED BY <1>1, <1>2, <1>5, <2>2, <2>3, <2>4 DEF StreamInv
<1>11. SinkInv'
  BY <1>2, <1>4, <1>8, <1>9 DEF SinkInv
<1>12. ModesInv(v)'
  <2>1. crowded' \in BOOLEAN
    BY <1>2, <1>4
  <2>2. modes \in Known /\ Right(modes, v) /\ (~crowded => Complete(modes, v))
    BY <1>1 DEF ModesInv, v
  <2> QED BY <1>2, <1>8, <1>9, <2>1, <2>2 DEF ModesInv, v
<1>13. ViewInv(v)'
  BY <1>1, <1>2, <1>9 DEF ViewInv, Watches, v
<1> QED BY <1>10, <1>11, <1>12, <1>13 DEF IInv, v

\* Sequences are joined if their elements are.
LEMMA JoinedIf ==
    ASSUME NEW E, NEW w \in Seq(E), NEW p \in Seq(E), NEW r \in Seq(E), Len(w) = Len(p) + Len(r),
           \A i \in 1..Len(p) : w[i] = p[i], \A i \in 1..Len(r) : w[Len(p) + i] = r[i]
    PROVE  Joined(w, p, r)
<1> DEFINE c == p \o r
           k == Len(p)
           n == Len(r)
<1>1. Joined(c, p, r)
  BY DEF Joined
<1> HIDE DEF c
<1>2. /\ c \in Seq(E) /\ Len(c) = k + n /\ k \in Nat /\ n \in Nat
      /\ \A i \in 1..k : c[i] = p[i]
      /\ \A i \in 1..n : c[k + i] = r[i]
  <2>1. k \in Nat /\ n \in Nat
    OBVIOUS
  <2>2. c \in Seq(E) /\ Laid(c, p, r)
    BY <1>1, JoinedLaid, Zenon
  <2> QED BY <2>1, <2>2, Zenon DEF Laid
<1>3. Len(w) = k + n /\ (\A i \in 1..k : w[i] = p[i]) /\ \A i \in 1..n : w[k + i] = r[i]
  OBVIOUS
<1> HIDE DEF k, n
<1>4. ASSUME NEW i \in 1..Len(w) PROVE w[i] = c[i]
  <2>1. CASE i \in 1..k
    BY <1>2, <1>3, <2>1
  <2>2. CASE i \notin 1..k
    <3>1. i - k \in 1..n /\ k + (i - k) = i
      BY <1>2, <1>3, <2>2
    <3>2. w[k + (i - k)] = r[i - k] /\ c[k + (i - k)] = r[i - k]
      BY <1>2, <1>3, <3>1
    <3> QED BY <3>1, <3>2
  <2> QED BY <2>1, <2>2
<1>5. w = c
  BY <1>2, <1>3, <1>4, SameSeq
<1> QED BY <1>1, <1>5

\* A sequence cut in two.
LEMMA SplitAt ==
    ASSUME NEW E, NEW w \in Seq(E), NEW k \in 0..Len(w), NEW p, p = SubSeq(w, 1, k),
           NEW r, r = SubSeq(w, k + 1, Len(w))
    PROVE  p \in Seq(E) /\ r \in Seq(E) /\ Len(p) = k /\ Joined(w, p, r)
<1>1. p \in Seq(E) /\ Len(p) = k /\ \A i \in 1..k : w[i] = p[i]
  OBVIOUS
<1>2. /\ r \in Seq(E) /\ Len(r) = Len(w) - k /\ \A i \in 1..Len(r) : w[k + i] = r[i]
      /\ k \in Nat /\ Len(w) \in Nat
  OBVIOUS
<1>3. Joined(w, p, r)
  <2>1. Len(w) = Len(p) + Len(r)
    <3> DEFINE lw == Len(w)
               lp == Len(p)
               lr == Len(r)
    <3>1. lp = k /\ lr = lw - k /\ k \in Nat /\ lw \in Nat
      BY <1>1, <1>2
    <3> HIDE DEF lw, lp, lr
    <3>2. lw = lp + lr
      BY <3>1
    <3> QED BY <3>2 DEF lw, lp, lr
  <2>2. (\A i \in 1..Len(p) : w[i] = p[i]) /\ \A i \in 1..Len(r) : w[Len(p) + i] = r[i]
    BY <1>1, <1>2, Zenon
  <2> QED BY <1>1, <1>2, <2>1, <2>2, JoinedIf, Zenon
<1> QED BY <1>1, <1>2, <1>3

\* A chunk is read: its events leave what is to come, and what they do is done.
LEMMA ReadInv ==
    ASSUME IInv, NEW n \in ChunkSizes, Read(n)
    PROVE  IInv'
<1> DEFINE taken == Min({n, Len(pipe)})
           c == SubSeq(pipe, 1, taken)
           rest == SubSeq(pipe, taken + 1, Len(pipe))
           kept == Replay!Evicted(Append(replay.chunks, Stored(c)))
           es == Found(scanner, c)
           f == State(scanner, c)
           new == [chunks |-> kept.rest, evicted |-> replay.evicted \/ kept.dropped]
<1>1. PICK t \in Seq(Byte) : StreamInv(t) /\ SinkInv /\ ModesInv(Upto(t)) /\ ViewInv(Upto(t))
  BY DEF IInv
<1> DEFINE v == Upto(t)
<1>2. /\ pipe' = rest /\ scanner' = f /\ reported' = Tells(reported, es) /\ modes' = Keeps(modes, es)
      /\ replay' = new
      /\ view' = IF view.open THEN Shown(view, c) ELSE view
      /\ meant' = meant /\ meantEvents' = meantEvents /\ crowded' = crowded
  BY DEF Read, State, Found, Tells, Keeps
<1>3. /\ pipe \in Seq(Byte) /\ scanner \in Scanner /\ v \in Values /\ Todo \in Seq(Meant)
      /\ reported \in Seq(Event) /\ crowded \in BOOLEAN /\ modes \in Known /\ Right(modes, v)
      /\ scanner = State(NewScanner, t)
  BY <1>1, UptoTyped DEF StreamInv, SinkInv, ModesInv
<1>4. /\ c \in Seq(Byte) /\ rest \in Seq(Byte) /\ Joined(pipe, c, rest) /\ Small(c)
  <2>1. n \in Nat /\ Len(pipe) \in Nat
    BY <1>3, ModesAssumption
  <2>2. taken \in Nat /\ taken <= n /\ taken <= Len(pipe)
    BY <2>1, MinIs
  <2> HIDE DEF taken
  <2>3. taken \in 0..Len(pipe)
    BY <2>1, <2>2
  <2>4. c \in Seq(Byte) /\ rest \in Seq(Byte) /\ Len(c) = taken /\ Joined(pipe, c, rest)
    <3> HIDE DEF c, rest
    <3> QED BY <1>3, <2>3, SplitAt, ZenonT(60) DEF c, rest
  <2>5. Small(c)
    BY <2>2, <2>4 DEF Small
  <2> QED BY <2>4, <2>5
<1> HIDE DEF taken, c, rest
<1> DEFINE todo == Todo
           after == Found(f, rest)
<1>5. f \in Scanner /\ es \in Seq(Event) /\ after \in Seq(Event) /\ Joined(todo, es, after)
  <2>1. f \in Scanner /\ es \in Seq(Event)
    BY <1>3, <1>4, FeedTyped
  <2>2. Joined(Found(scanner, pipe), Found(scanner, c), Found(State(scanner, c), rest))
    BY <1>3, <1>4, FeedJoined
  <2>3. after \in Seq(Event)
    <3> HIDE DEF f
    <3> QED BY <1>4, <2>1, FeedTyped
  <2> QED BY <2>1, <2>2, <2>3 DEF Todo
<1> DEFINE v2 == Shows(v, es)
<1>6. PICK t2 \in Seq(Byte) : Joined(t2, t, c)
  <2>1. t \o c \in Seq(Byte)
    BY <1>4
  <2> QED BY <2>1 DEF Joined
<1>7. f = State(NewScanner, t2) /\ Upto(t2) = v2
  <2>1. NewScanner \in Scanner /\ Defaults \in Values
    BY NewTyped, UptoTyped, <1>6
  <2> DEFINE f0 == NewScanner
             d == Defaults
  <2>2. f0 \in Scanner /\ d \in Values /\ scanner = State(f0, t)
    BY <1>3, <2>1
  <2> HIDE DEF f0, d
  <2>3. State(f0, t2) = State(State(f0, t), c)
    BY <1>4, <1>6, <2>2, FeedJoined
  <2>4. Seen(d, f0, t2) = Seen(Seen(d, f0, t), State(f0, t), c)
    BY <1>4, <1>6, <2>2, SeenJoined
  <2> QED BY <2>2, <2>3, <2>4 DEF f0, d, Upto, Seen
<1>8. Todo' = after
  BY <1>2 DEF Todo
<1>9. todo \in Seq(Meant) /\ todo \in Seq(Event) /\ es \in Seq(Meant) /\ after \in Seq(Meant)
  <2>1. Meant \subseteq Event
    BY DEF Meant
  <2>2. todo \in Seq(Meant) /\ todo \in Seq(Event)
    BY <1>3, <2>1, Widened
  <2> HIDE DEF todo, es, after
  <2>3. es \in Seq(Meant) /\ after \in Seq(Meant)
    BY <1>5, <2>2, JoinedWithin
  <2> QED BY <2>2, <2>3
<1>10. Watches(IF view.open THEN Shown(view, c) ELSE view, f, v2, ~crowded)
  <2> DEFINE free == ~crowded
  <2>1. Watches(view, scanner, v, free)
    BY <1>1 DEF ViewInv
  <2> HIDE DEF free, v
  <2>2. Watches(IF view.open THEN Shown(view, c) ELSE view, State(scanner, c), Seen(v, scanner, c), free)
    BY <1>3, <1>4, <2>1, WatchesOn DEF v
  <2> QED BY <2>2 DEF free, Seen
<1>11. /\ Shows(v2, after) = Shows(v, todo) /\ v2 \in Values
       /\ Tells(Tells(reported, es), after) = Tells(reported, todo) /\ Tells(reported, es) \in Seq(Event)
       /\ Keeps(modes, es) \in Known /\ Right(Keeps(modes, es), v2)
       /\ Complete(modes, v) /\ FitAll(v, es) => Complete(Keeps(modes, es), v2)
       /\ FitAll(v, todo) => FitAll(v, es) /\ FitAll(v2, after)
  <2> HIDE DEF v, es, after, todo, f
  <2>1. v \in Values
    BY <1>3 DEF v
  <2>2. Shows(v, todo) = Shows(Shows(v, es), after) /\ Shows(v, es) \in Values
    BY <1>5, <2>1, ShowsJoined
  <2>3. Tells(reported, todo) = Tells(Tells(reported, es), after) /\ Tells(reported, es) \in Seq(Event)
    BY <1>3, <1>5, TellsJoined
  <2>4. Keeps(modes, es) \in Known
    BY <1>3, <1>9, KeepsTyped
  <2>5. Right(modes, v)
    BY <1>3 DEF v
  <2>6. /\ Right(Keeps(modes, es), Shows(v, es))
        /\ Complete(modes, v) /\ FitAll(v, es) => Complete(Keeps(modes, es), Shows(v, es))
    BY <1>3, <1>9, <2>1, <2>5, KeepsIs
  <2>7. FitAll(v, todo) => FitAll(v, es) /\ FitAll(Shows(v, es), after)
    BY <1>5, <2>1, FitAllIs
  <2> QED BY <2>2, <2>3, <2>4, <2>6, <2>7
<1>12. Recent(new, t2)
  <2>1. Recent(replay, t)
    BY <1>1 DEF StreamInv
  <2> QED BY <1>4, <1>6, <2>1, PushRecent
<1> HIDE DEF v2, kept, new, es, f, after, todo
<1>13. StreamInv(t2)'
  <2>1. PICK w \in Seq(Byte) : Joined(w, t, pipe) /\ Covered(w)
    BY <1>1 DEF StreamInv
  <2>2. PICK r \in Seq(Byte) : Joined(r, t, c) /\ Joined(w, r, rest)
    BY <1>4, <2>1, JoinedBack
  <2>3. r = t2
    BY <1>6, <2>2 DEF Joined
  <2> QED BY <1>2, <1>4, <1>7, <1>12, <2>1, <2>2, <2>3 DEF StreamInv
<1>14. SinkInv'
  <2>1. Tells(reported, todo) = meantEvents
    BY <1>1 DEF SinkInv, todo
  <2> QED BY <1>2, <1>8, <1>9, <1>11, <2>1 DEF SinkInv
<1>15. ModesInv(Upto(t2))'
  <2>1. meant = Shows(v, todo) /\ (~crowded => Complete(modes, v) /\ FitAll(v, todo))
    BY <1>1 DEF ModesInv, v, todo
  <2> QED BY <1>2, <1>3, <1>7, <1>8, <1>11, <2>1 DEF ModesInv
<1>16. ViewInv(Upto(t2))'
  BY <1>2, <1>7, <1>10 DEF ViewInv
<1> QED BY <1>13, <1>14, <1>15, <1>16 DEF IInv

\* The page opens a terminal.
LEMMA OpenInv ==
    ASSUME IInv, Open
    PROVE  IInv'
<1> DEFINE z == Bytes(Replay!Snapshot(replay))
           bytes == Reattach(modes, z)
           start == [NoView EXCEPT !.open = TRUE]
<1>1. PICK t \in Seq(Byte) : StreamInv(t) /\ SinkInv /\ ModesInv(Upto(t)) /\ ViewInv(Upto(t))
  BY DEF IInv
<1> DEFINE v == Upto(t)
<1>2. /\ view' = Shown(start, bytes)
      /\ pipe' = pipe /\ scanner' = scanner /\ modes' = modes /\ replay' = replay /\ reported' = reported
      /\ meant' = meant /\ meantEvents' = meantEvents /\ crowded' = crowded
  BY DEF Open
<1>3. start \in View /\ start.open = TRUE /\ start.scanner = NewScanner /\ start.values = Defaults
  BY NoViewTyped DEF View
<1>4. z \in Seq(Byte) /\ Ending(z, t)
  <2>1. Recent(replay, t)
    BY <1>1 DEF StreamInv
  <2> QED BY <2>1, SnapshotRecent
<1>5. Covered(t)
  <2>1. pipe \in Seq(Byte) /\ \E w \in Seq(Byte) : Joined(w, t, pipe) /\ Covered(w)
    BY <1>1 DEF StreamInv
  <2> QED BY <2>1, CoveredFront
<1>6. /\ modes \in Known /\ Right(modes, v) /\ (~crowded => Complete(modes, v))
      /\ v = Seen(Defaults, NewScanner, t) /\ scanner = State(NewScanner, t)
  BY <1>1 DEF ModesInv, StreamInv, Upto
<1>7. Joined(bytes, Preamble(modes), z)
  BY DEF Joined, Reattach
<1> HIDE DEF z, bytes, start, v
<1>8. /\ bytes \in Seq(Byte) /\ InStep(State(NewScanner, t), State(NewScanner, bytes))
      /\ Complete(modes, v) => \A m \in Tracked : Seen(Defaults, NewScanner, bytes)[m] = v[m]
  BY <1>4, <1>5, <1>6, <1>7, ReattachIs
<1>9. /\ view' \in View /\ view'.scanner = State(NewScanner, bytes)
      /\ view'.values = Seen(Defaults, NewScanner, bytes)
  BY <1>2, <1>3, <1>8, ShownIs
<1>10. StreamInv(t)'
  BY <1>1, <1>2 DEF StreamInv
<1>11. SinkInv'
  BY <1>1, <1>2 DEF SinkInv, Todo
<1>12. ModesInv(Upto(t))'
  BY <1>1, <1>2 DEF ModesInv, Todo
<1>13. ViewInv(Upto(t))'
  <2>1. InStep(scanner', view'.scanner)
    BY <1>2, <1>6, <1>8, <1>9
  <2>2. ~crowded' => \A m \in Tracked : view'.values[m] = v[m]
    BY <1>2, <1>6, <1>8, <1>9
  <2> QED BY <1>9, <2>1, <2>2 DEF ViewInv, Watches, v
<1> QED BY <1>10, <1>11, <1>12, <1>13 DEF IInv

\* The page closes its terminal.
LEMMA CloseInv ==
    ASSUME IInv, Close
    PROVE  IInv'
<1>1. PICK t \in Seq(Byte) : StreamInv(t) /\ SinkInv /\ ModesInv(Upto(t)) /\ ViewInv(Upto(t))
  BY DEF IInv
<1>2. /\ view' = NoView
      /\ pipe' = pipe /\ scanner' = scanner /\ modes' = modes /\ replay' = replay /\ reported' = reported
      /\ meant' = meant /\ meantEvents' = meantEvents /\ crowded' = crowded
  BY DEF Close
<1>3. StreamInv(t)'
  BY <1>1, <1>2 DEF StreamInv
<1>4. SinkInv'
  BY <1>1, <1>2 DEF SinkInv, Todo
<1>5. ModesInv(Upto(t))'
  BY <1>1, <1>2 DEF ModesInv, Todo
<1>6. ViewInv(Upto(t))'
  BY <1>2, NoViewTyped DEF ViewInv, Watches
<1> QED BY <1>3, <1>4, <1>5, <1>6 DEF IInv

\* Every step keeps the invariant.
LEMMA NextInv ==
    ASSUME IInv, [Next]_vars
    PROVE  IInv'
<1>1. CASE \E s \in Sayings : Say(s)
  BY <1>1, SayInv
<1>2. CASE \E n \in ChunkSizes : Read(n)
  BY <1>2, ReadInv
<1>3. CASE Open
  BY <1>3, OpenInv
<1>4. CASE Close
  BY <1>4, CloseInv
<1>5. CASE UNCHANGED vars
  <2>1. PICK t \in Seq(Byte) : StreamInv(t) /\ SinkInv /\ ModesInv(Upto(t)) /\ ViewInv(Upto(t))
    BY DEF IInv
  <2>2. /\ view' = view
        /\ pipe' = pipe /\ scanner' = scanner /\ modes' = modes /\ replay' = replay /\ reported' = reported
        /\ meant' = meant /\ meantEvents' = meantEvents /\ crowded' = crowded
    BY <1>5 DEF vars
  <2>3. StreamInv(t)'
    BY <2>1, <2>2 DEF StreamInv
  <2>4. SinkInv'
    BY <2>1, <2>2 DEF SinkInv, Todo
  <2>5. ModesInv(Upto(t))'
    BY <2>1, <2>2 DEF ModesInv, Todo
  <2>6. ViewInv(Upto(t))'
    BY <2>1, <2>2 DEF ViewInv, Watches
  <2> QED BY <2>3, <2>4, <2>5, <2>6 DEF IInv
<1> QED BY <1>1, <1>2, <1>3, <1>4, <1>5 DEF Next

\* The invariant holds in every state: the session is told of, and remembers,
\* what has been read, and nothing of what waits is lost on the way.
THEOREM Invariance == Spec => []IInv
<1>1. Init => IInv
  BY InitInv
<1>2. IInv /\ [Next]_vars => IInv'
  BY NextInv
<1> QED BY <1>1, <1>2, PTL DEF Spec

\* With nothing waiting, the sink has been told all.
LEMMA SinkIs == IInv => EventsAsMeant
<1> SUFFICES ASSUME IInv PROVE EventsAsMeant
  OBVIOUS
<1>1. PICK t \in Seq(Byte) : StreamInv(t) /\ SinkInv
  BY DEF IInv
<1>2. reported \in Seq(Event) /\ Todo \in Seq(Meant) /\ Tells(reported, Todo) = meantEvents
  BY <1>1 DEF SinkInv
<1>3. Todo \in Seq(Event)
  <2>1. Meant \subseteq Event
    BY DEF Meant
  <2> QED BY <1>2, <2>1, Widened
<1>4. IsPrefix(reported, meantEvents)
  BY <1>2, <1>3, TellsMore
<1>5. ASSUME pipe = <<>> PROVE reported = meantEvents
  <2>1. scanner \in Scanner
    BY <1>1, UptoTyped DEF StreamInv
  <2>2. Todo = <<>>
    BY <1>5, <2>1, FeedNil DEF Todo
  <2> QED BY <1>2, <2>2, TellsNil
<1> QED BY <1>4, <1>5 DEF EventsAsMeant

\* With nothing waiting, the terminals show what the program meant.
LEMMA ModesAre == IInv => ReloadRestoresModes
<1> SUFFICES ASSUME IInv PROVE ReloadRestoresModes
  OBVIOUS
<1>1. PICK t \in Seq(Byte) : StreamInv(t) /\ SinkInv /\ ModesInv(Upto(t)) /\ ViewInv(Upto(t))
  BY DEF IInv
<1> DEFINE v == Upto(t)
           held == Bytes(Replay!Snapshot(replay))
           record == Record(modes, held)
<1>2. modes \in Known /\ Right(modes, v) /\ v = Seen(Defaults, NewScanner, t) /\ v \in Values
  BY <1>1, UptoTyped DEF ModesInv, Upto
<1>3. ASSUME pipe = <<>> PROVE meant = v
  <2>1. scanner \in Scanner
    BY <1>1, UptoTyped DEF StreamInv
  <2>2. Todo = <<>>
    BY <1>3, <2>1, FeedNil DEF Todo
  <2>3. meant = Shows(v, Todo)
    BY <1>1 DEF ModesInv
  <2> HIDE DEF v
  <2> QED BY <1>2, <2>2, <2>3, ShowsNil
<1>4. RememberedIsRight
  <2> HIDE DEF v
  <2> QED BY <1>2, <1>3 DEF RememberedIsRight, Right
<1>5. ASSUME pipe = <<>>, ~crowded, view.open PROVE RestoresModes(view)
  <2>1. \A m \in Tracked : view.values[m] = v[m]
    BY <1>1, <1>5 DEF ViewInv, Watches
  <2> HIDE DEF v
  <2> QED BY <1>3, <1>5, <2>1 DEF RestoresModes, Tracked
<1>6. ASSUME pipe = <<>>, ~crowded, record # <<>> PROVE RestoresModes(Shown(NoView, record))
  <2>1. record = Reattach(modes, held)
    BY <1>6 DEF Record
  <2>2. Joined(record, Preamble(modes), held)
    BY <2>1 DEF Reattach, Joined
  <2>3. held \in Seq(Byte) /\ Ending(held, t)
    <3>1. Recent(replay, t)
      BY <1>1 DEF StreamInv
    <3> QED BY <3>1, SnapshotRecent
  <2>4. Covered(t)
    <3>1. pipe \in Seq(Byte) /\ \E w \in Seq(Byte) : Joined(w, t, pipe) /\ Covered(w)
      BY <1>1 DEF StreamInv
    <3> QED BY <3>1, CoveredFront
  <2>5. Complete(modes, v)
    BY <1>1, <1>6 DEF ModesInv
  <2> HIDE DEF v, held, record
  <2>6. record \in Seq(Byte) /\ \A m \in Tracked : Seen(Defaults, NewScanner, record)[m] = v[m]
    BY <1>2, <2>2, <2>3, <2>4, <2>5, ReattachIs
  <2>7. Shown(NoView, record).values = Seen(Defaults, NewScanner, record)
    BY <2>6, NoViewTyped, ShownIs
  <2> QED BY <1>3, <1>6, <2>6, <2>7 DEF RestoresModes, Tracked
<1> QED BY <1>4, <1>5, <1>6 DEF ReloadRestoresModes, record, held

\* However the output is cut into chunks, and whatever was broken off before,
\* the sink is told what the program meant to say, in its order (feed,
\* reader_loop).
THEOREM SinkIsTold == Spec => []EventsAsMeant
BY Invariance, SinkIs, PTL

\* A terminal opened at any moment ends in the modes of one that was there
\* from the start (reattach, apply_mode_event, dec_mode_preamble, snapshot).
THEOREM ReloadIsFaithful == Spec => []ReloadRestoresModes
BY Invariance, ModesAre, PTL

=============================================================================
