---------------------------- MODULE WorkspaceProofs ----------------------------
(***************************************************************************)
(* Proofs about Workspace, for every bound on ids and shells: a state the  *)
(* commands lead to is well formed, no shell is without its tab, and a     *)
(* wait ends by its source.                                                *)
(*                                                                         *)
(* The invariant of the runs says of a layout that it is a tree by         *)
(* counting; the inductive one says how its splits hang together.  It says *)
(* of panes and tabs what a step needs of each, and that the four sorts of *)
(* ids are disjoint, from which the counting of validate_app follows.      *)
(***************************************************************************)
EXTENDS Workspace, TLAPS, FiniteSetTheorems

\* A sequence without repetition.
Distinct(s) == \A i, j \in DOMAIN s : s[i] = s[j] => i = j

(***************************************************************************)
(* Layouts.  A node is the set of leaves under the root or under a child   *)
(* of a split.                                                             *)
(***************************************************************************)
First(l, s) == l.splits[s].first
Second(l, s) == l.splits[s].second
IsSide(l, S) == \E s \in DOMAIN l.splits : S = First(l, s) \/ S = Second(l, s)
IsNode(l, S) == S = l.leaves \/ IsSide(l, S)
Inside(l, S, s) == S \subseteq First(l, s) \/ S \subseteq Second(l, s)

\* Every split divides what it covers.
Divides(l) ==
    \A s \in DOMAIN l.splits :
        /\ First(l, s) # {} /\ Second(l, s) # {}
        /\ First(l, s) \cap Second(l, s) = {}
        /\ Covers(l, s) \subseteq l.leaves

\* Of two splits one is inside a child of the other, or they are apart.
Nested(l) ==
    \A s, r \in DOMAIN l.splits :
        s # r => \/ Inside(l, Covers(l, s), r)
                 \/ Inside(l, Covers(l, r), s)
                 \/ Covers(l, s) \cap Covers(l, r) = {}

\* Every node is a leaf or divided by a split; every leaf and every split is
\* a node; every node has a first leaf.
Divided(l) == \A S : IsNode(l, S) => (\E p : S = {p}) \/ \E s \in DOMAIN l.splits : Covers(l, s) = S
Hung(l) ==
    /\ \A p \in l.leaves : IsNode(l, {p})
    /\ \A s \in DOMAIN l.splits : IsNode(l, Covers(l, s))
IsFirst(l, p, S) == p \in S /\ \A s \in DOMAIN l.splits : Covers(l, s) \subseteq S => p \notin Second(l, s)
Ordered(l) == \A S : IsNode(l, S) => \E p : IsFirst(l, p, S)

Counted(l) ==
    /\ IsFiniteSet(l.leaves) /\ IsFiniteSet(DOMAIN l.splits)
    /\ Cardinality(DOMAIN l.splits) = Cardinality(l.leaves) - 1

Tree(l) ==
    /\ l.leaves # {} /\ Counted(l)
    /\ Divides(l) /\ Nested(l) /\ Divided(l) /\ Hung(l) /\ Ordered(l)
-----------------------------------------------------------------------------
(* The split tree. *)

\* A tree that has a second leaf under a split: covers differ.
LEMMA CoversDiffer ==
    ASSUME NEW l, Divides(l), Nested(l),
           NEW s \in DOMAIN l.splits, NEW r \in DOMAIN l.splits, Covers(l, s) = Covers(l, r)
    PROVE  s = r
BY DEF Divides, Nested, Inside, Covers, First, Second

LEMMA LeafTreeIsTree ==
    ASSUME NEW p
    PROVE  /\ Tree(LeafTree(p)) /\ LeafTree(p).leaves = {p}
           /\ DOMAIN LeafTree(p).splits = {}
<1> DEFINE l == LeafTree(p)
<1>1. l.leaves = {p} /\ DOMAIN l.splits = {}
  BY DEF LeafTree
<1> HIDE DEF l
<1>2. Counted(l)
  <2>1. IsFiniteSet({}) /\ Cardinality({}) = 0
    BY FS_EmptySet
  <2>2. IsFiniteSet({p}) /\ Cardinality({p}) = 1
    BY FS_Singleton
  <2> QED BY <1>1, <2>1, <2>2 DEF Counted
<1>3. \A S : IsNode(l, S) => S = {p}
  BY <1>1 DEF IsNode, IsSide
<1>4. Divides(l) /\ Nested(l) /\ Divided(l) /\ Hung(l) /\ Ordered(l)
  BY <1>1, <1>3 DEF Divides, Nested, Divided, Hung, IsNode, Ordered, IsFirst
<1> QED BY <1>1, <1>2, <1>4 DEF Tree, l

\* What SplitTree::split does to a node: new joins target.
Grown(target, new, S) == IF target \in S THEN S \cup {new} ELSE S

LEMMA SplitLeafParts ==
    ASSUME NEW l, NEW target, NEW new, NEW split
    PROVE  LET k == SplitLeaf(l, target, new, split)
           IN  /\ k.leaves = l.leaves \cup {new}
               /\ DOMAIN k.splits = DOMAIN l.splits \cup {split}
               /\ First(k, split) = {target} /\ Second(k, split) = {new}
               /\ \A s \in DOMAIN l.splits : s # split =>
                     /\ First(k, s) = Grown(target, new, First(l, s))
                     /\ Second(k, s) = Grown(target, new, Second(l, s))
BY DEF SplitLeaf, With, First, Second, Grown

LEMMA SplitLeafIsTree ==
    ASSUME NEW l, Tree(l), NEW target \in l.leaves, NEW new, new \notin l.leaves,
           NEW split, split \notin DOMAIN l.splits
    PROVE  Tree(SplitLeaf(l, target, new, split))
<1> DEFINE k == SplitLeaf(l, target, new, split)
           g(S) == Grown(target, new, S)
<1>1. /\ k.leaves = l.leaves \cup {new}
      /\ DOMAIN k.splits = DOMAIN l.splits \cup {split}
      /\ First(k, split) = {target} /\ Second(k, split) = {new}
      /\ \A s \in DOMAIN l.splits : First(k, s) = g(First(l, s)) /\ Second(k, s) = g(Second(l, s))
  BY SplitLeafParts
<1> HIDE DEF k
<1> USE DEF Tree
<1>2. Counted(k)
  <2>1. Cardinality(l.leaves) \in Nat /\ Cardinality(DOMAIN l.splits) \in Nat
    BY FS_CardinalityType DEF Counted
  <2>2. IsFiniteSet(l.leaves \cup {new}) /\ Cardinality(l.leaves \cup {new}) = Cardinality(l.leaves) + 1
    BY FS_AddElement DEF Counted
  <2>3. /\ IsFiniteSet(DOMAIN l.splits \cup {split})
        /\ Cardinality(DOMAIN l.splits \cup {split}) = Cardinality(DOMAIN l.splits) + 1
    BY FS_AddElement DEF Counted
  <2> QED BY <1>1, <2>1, <2>2, <2>3 DEF Counted
<1>3. /\ Covers(k, split) = {target, new}
      /\ \A s \in DOMAIN l.splits : Covers(k, s) = g(Covers(l, s))
  BY <1>1 DEF Covers, First, Second, Grown
<1>4. \A s \in DOMAIN l.splits : new \notin First(l, s) /\ new \notin Second(l, s)
  BY DEF Divides, Covers, First, Second
<1>5. Divides(k)
  <2>1. \A s \in DOMAIN l.splits : Covers(k, s) \subseteq k.leaves
    BY <1>1, <1>3 DEF Divides, Grown
  <2>2. \A s \in DOMAIN l.splits : First(k, s) # {} /\ Second(k, s) # {} /\ First(k, s) \cap Second(k, s) = {}
    BY <1>1, <1>4 DEF Divides, Grown
  <2>3. target # new
    OBVIOUS
  <2> QED BY <1>1, <1>3, <2>1, <2>2, <2>3 DEF Divides
<1>6. Nested(k)
  <2>1. ASSUME NEW s \in DOMAIN l.splits, NEW r \in DOMAIN l.splits, s # r
        PROVE  \/ Inside(k, Covers(k, s), r) \/ Inside(k, Covers(k, r), s)
               \/ Covers(k, s) \cap Covers(k, r) = {}
    <3>1. CASE Inside(l, Covers(l, s), r)
      BY <1>1, <1>3, <3>1 DEF Inside, Grown
    <3>2. CASE Inside(l, Covers(l, r), s)
      BY <1>1, <1>3, <3>2 DEF Inside, Grown
    <3>3. CASE Covers(l, s) \cap Covers(l, r) = {}
      <4>1. new \notin Covers(l, s) /\ new \notin Covers(l, r)
        BY <1>4 DEF Covers, First, Second
      <4> QED BY <1>3, <3>3, <4>1 DEF Grown
    <3> QED BY <2>1, <3>1, <3>2, <3>3 DEF Nested
  <2>2. ASSUME NEW r \in DOMAIN l.splits
        PROVE  Inside(k, Covers(k, split), r) \/ Covers(k, split) \cap Covers(k, r) = {}
    <3>1. CASE target \in First(l, r)
      BY <1>1, <1>3, <3>1 DEF Inside, Grown
    <3>2. CASE target \in Second(l, r)
      BY <1>1, <1>3, <3>2 DEF Inside, Grown
    <3>3. CASE target \notin Covers(l, r)
      <4>1. new \notin Covers(l, r)
        BY <1>4 DEF Covers, First, Second
      <4> QED BY <1>3, <3>3, <4>1 DEF Grown
    <3> QED BY <3>1, <3>2, <3>3 DEF Covers, First, Second
  <2> QED BY <1>1, <2>1, <2>2 DEF Nested
<1>7. \A S : IsNode(k, S) <=> S = {target} \/ S = {new} \/ \E T : IsNode(l, T) /\ S = g(T)
  <2>1. k.leaves = g(l.leaves)
    BY <1>1 DEF Grown
  <2> QED BY <1>1, <2>1 DEF IsNode, IsSide
<1>8. ASSUME NEW S, IsNode(k, S)
      PROVE  (\E p : S = {p}) \/ \E s \in DOMAIN k.splits : Covers(k, s) = S
  <2>1. CASE S = {target} \/ S = {new}
    BY <2>1
  <2>2. ASSUME NEW T, IsNode(l, T), S = g(T)
        PROVE  (\E p : S = {p}) \/ \E s \in DOMAIN k.splits : Covers(k, s) = S
    <3>1. CASE \E s \in DOMAIN l.splits : Covers(l, s) = T
      BY <1>1, <1>3, <2>2, <3>1
    <3>2. CASE T = {target}
      <4>1. S = {target, new}
        BY <2>2, <3>2 DEF Grown
      <4> QED BY <1>1, <1>3, <4>1
    <3>3. ASSUME NEW p, T = {p}, p # target
          PROVE  S = {p}
      BY <2>2, <3>3 DEF Grown
    <3> QED BY <2>2, <3>1, <3>2, <3>3 DEF Divided
  <2> QED BY <1>7, <1>8, <2>1, <2>2
<1>9. Hung(k)
  <2>1. ASSUME NEW p \in k.leaves PROVE IsNode(k, {p})
    <3>1. CASE p \in {target, new}
      BY <1>7, <3>1
    <3>2. CASE p \notin {target, new}
      <4>1. IsNode(l, {p})
        BY <1>1, <3>2 DEF Hung
      <4>2. g({p}) = {p}
        BY <3>2 DEF Grown
      <4> QED BY <1>7, <4>1, <4>2
    <3> QED BY <3>1, <3>2
  <2>2. ASSUME NEW s \in DOMAIN l.splits PROVE IsNode(k, Covers(k, s))
    BY <1>3, <1>7 DEF Hung
  <2>3. IsNode(k, Covers(k, split))
    <3>1. IsNode(l, {target}) /\ g({target}) = {target, new}
      BY DEF Hung, Grown
    <3> QED BY <1>3, <1>7, <3>1
  <2> QED BY <1>1, <2>1, <2>2, <2>3 DEF Hung
<1>10. ASSUME NEW S, IsNode(k, S) PROVE \E p : IsFirst(k, p, S)
  <2>1. CASE S = {target} \/ S = {new}
    <3>1. \A s \in DOMAIN k.splits : ~(Covers(k, s) \subseteq S)
      BY <1>5, <2>1 DEF Divides, Covers, First, Second
    <3> QED BY <2>1, <3>1 DEF IsFirst
  <2>2. ASSUME NEW T, IsNode(l, T), S = g(T)
        PROVE  \E p : IsFirst(k, p, S)
    <3>1. PICK p : IsFirst(l, p, T)
      BY <2>2 DEF Ordered
    <3>2. T \subseteq l.leaves
      BY <2>2 DEF IsNode, IsSide, Divides, Covers, First, Second
    <3>3. p \in S /\ p # new
      BY <2>2, <3>1, <3>2 DEF IsFirst, Grown
    <3>4. ASSUME NEW s \in DOMAIN l.splits, Covers(k, s) \subseteq S PROVE p \notin Second(k, s)
      <4>1. Covers(l, s) \subseteq T
        <5>1. new \notin Covers(l, s)
          BY <1>4 DEF Covers, First, Second
        <5> QED BY <1>3, <2>2, <3>4, <5>1 DEF Grown
      <4> QED BY <1>1, <3>1, <3>3, <4>1 DEF IsFirst, Grown
    <3> QED BY <1>1, <3>3, <3>4 DEF IsFirst
  <2> QED BY <1>7, <1>10, <2>1, <2>2
<1> QED BY <1>1, <1>2, <1>5, <1>6, <1>8, <1>9, <1>10 DEF Divided, Ordered, k

\* The split whose child the leaf is: there is exactly one.
IsParent(l, t, r) ==
    \A s \in DOMAIN l.splits : (First(l, s) = {t} \/ Second(l, s) = {t}) <=> s = r

LEMMA ParentOfLeaf ==
    ASSUME NEW l, Tree(l), NEW t \in l.leaves, l.leaves # {t}
    PROVE  \E r \in DOMAIN l.splits : IsParent(l, t, r)
<1>1. PICK r \in DOMAIN l.splits : {t} = First(l, r) \/ {t} = Second(l, r)
  BY DEF Tree, Hung, IsNode, IsSide
<1>2. ASSUME NEW s \in DOMAIN l.splits, {t} = First(l, s) \/ {t} = Second(l, s), s # r
      PROVE  FALSE
  <2>1. t \in Covers(l, s) /\ t \in Covers(l, r)
    BY <1>1, <1>2 DEF Covers, First, Second
  <2>2. ~Inside(l, Covers(l, s), r)
    BY <1>1, <2>1 DEF Tree, Divides, Inside, Covers, First, Second
  <2>3. ~Inside(l, Covers(l, r), s)
    BY <1>2, <2>1 DEF Tree, Divides, Inside, Covers, First, Second
  <2> QED BY <1>2, <2>1, <2>2, <2>3 DEF Tree, Nested
<1> QED BY <1>1, <1>2 DEF IsParent

LEMMA RemoveLeafParts ==
    ASSUME NEW l, NEW t
    PROVE  LET k == RemoveLeaf(l, t)
           IN  /\ k.leaves = l.leaves \ {t}
               /\ DOMAIN k.splits = {s \in DOMAIN l.splits : First(l, s) # {t} /\ Second(l, s) # {t}}
               /\ \A s \in DOMAIN k.splits :
                     First(k, s) = First(l, s) \ {t} /\ Second(k, s) = Second(l, s) \ {t}
BY DEF RemoveLeaf, First, Second

\* The other child of the split takes its place.
LEMMA RemoveLeafIsTree ==
    ASSUME NEW l, Tree(l), NEW t \in l.leaves, l.leaves # {t}
    PROVE  Tree(RemoveLeaf(l, t))
<1> DEFINE k == RemoveLeaf(l, t)
           g(S) == S \ {t}
<1>1. PICK r \in DOMAIN l.splits : IsParent(l, t, r)
  BY ParentOfLeaf
<1>2. /\ k.leaves = l.leaves \ {t}
      /\ DOMAIN k.splits = DOMAIN l.splits \ {r}
      /\ \A s \in DOMAIN l.splits \ {r} : First(k, s) = g(First(l, s)) /\ Second(k, s) = g(Second(l, s))
  BY <1>1, RemoveLeafParts DEF IsParent
<1> HIDE DEF k
<1>3. \A s \in DOMAIN l.splits \ {r} : Covers(k, s) = g(Covers(l, s))
  BY <1>2 DEF Covers, First, Second
<1>4. \A s \in DOMAIN l.splits \ {r} : First(l, s) # {t} /\ Second(l, s) # {t}
  BY <1>1 DEF IsParent
<1>5. PICK B : /\ \/ First(l, r) = {t} /\ Second(l, r) = B
                  \/ First(l, r) = B /\ Second(l, r) = {t}
               /\ B # {} /\ t \notin B
  BY <1>1 DEF Tree, Divides, IsParent
<1>6. Covers(l, r) = B \cup {t} /\ B \subseteq l.leaves
  BY <1>5 DEF Tree, Divides, Covers, First, Second
<1>7. \A T : IsNode(l, T) => T \subseteq l.leaves /\ T # {}
  BY DEF Tree, Divides, IsNode, IsSide, Covers, First, Second
<1>8. Counted(k)
  <2>1. Cardinality(l.leaves) \in Nat /\ Cardinality(DOMAIN l.splits) \in Nat
    BY FS_CardinalityType DEF Tree, Counted
  <2>2. IsFiniteSet(l.leaves \ {t}) /\ Cardinality(l.leaves \ {t}) = Cardinality(l.leaves) - 1
    BY FS_RemoveElement DEF Tree, Counted
  <2>3. /\ IsFiniteSet(DOMAIN l.splits \ {r})
        /\ Cardinality(DOMAIN l.splits \ {r}) = Cardinality(DOMAIN l.splits) - 1
    BY FS_RemoveElement DEF Tree, Counted
  <2> QED BY <1>2, <2>1, <2>2, <2>3 DEF Tree, Counted
<1>9. Divides(k)
  BY <1>2, <1>3, <1>4 DEF Tree, Divides
<1>10. Nested(k)
  <2>1. SUFFICES ASSUME NEW s \in DOMAIN l.splits \ {r}, NEW q \in DOMAIN l.splits \ {r}, s # q
                 PROVE  \/ Inside(k, Covers(k, s), q) \/ Inside(k, Covers(k, q), s)
                        \/ Covers(k, s) \cap Covers(k, q) = {}
    BY <1>2 DEF Nested
  <2>2. CASE Inside(l, Covers(l, s), q)
    BY <1>2, <1>3, <2>2 DEF Inside
  <2>3. CASE Inside(l, Covers(l, q), s)
    BY <1>2, <1>3, <2>3 DEF Inside
  <2>4. CASE Covers(l, s) \cap Covers(l, q) = {}
    BY <1>3, <2>4
  <2> QED BY <2>1, <2>2, <2>3, <2>4 DEF Tree, Nested
<1>11. ASSUME NEW S, IsNode(k, S)
       PROVE  \E T : IsNode(l, T) /\ T # {t} /\ S = g(T)
  BY <1>2, <1>4, <1>11 DEF IsNode, IsSide
<1>12. \A T : IsNode(l, T) /\ T # {t} => IsNode(k, g(T))
  <2>1. IsNode(k, B)
    <3>1. IsNode(l, Covers(l, r)) /\ ~(Covers(l, r) = First(l, r) \/ Covers(l, r) = Second(l, r))
      BY <1>5, <1>6 DEF Tree, Hung
    <3>2. g(Covers(l, r)) = B
      BY <1>5, <1>6
    <3> QED BY <1>2, <3>1, <3>2 DEF IsNode, IsSide
  <2>2. g(B) = B
    BY <1>5
  <2>3. SUFFICES ASSUME NEW T, IsNode(l, T), T # {t} PROVE IsNode(k, g(T))
    OBVIOUS
  <2>4. CASE T = l.leaves
    BY <1>2, <2>4 DEF IsNode
  <2>5. ASSUME NEW s \in DOMAIN l.splits, T = First(l, s) \/ T = Second(l, s)
        PROVE  IsNode(k, g(T))
    <3>1. CASE s = r
      BY <1>5, <2>1, <2>2, <2>3, <2>5, <3>1
    <3>2. CASE s # r
      BY <1>2, <2>5, <3>2 DEF IsNode, IsSide
    <3> QED BY <3>1, <3>2
  <2> QED BY <2>3, <2>4, <2>5 DEF IsNode, IsSide
<1>13. IsNode(l, B)
  BY <1>5 DEF IsNode, IsSide
<1>14. ASSUME NEW S, IsNode(k, S)
       PROVE  (\E p : S = {p}) \/ \E s \in DOMAIN k.splits : Covers(k, s) = S
  <2>1. PICK T : IsNode(l, T) /\ T # {t} /\ S = g(T)
    BY <1>11, <1>14
  <2>2. ASSUME NEW p, T = {p} PROVE S = {p}
    BY <2>1, <2>2
  <2>3. ASSUME NEW s \in DOMAIN l.splits \ {r}, Covers(l, s) = T PROVE Covers(k, s) = S
    BY <1>3, <2>1, <2>3
  <2>4. CASE Covers(l, r) = T
    <3>1. S = B
      BY <1>5, <1>6, <2>1, <2>4
    <3>2. ASSUME NEW s \in DOMAIN l.splits, Covers(l, s) = B
          PROVE  s \in DOMAIN l.splits \ {r} /\ Covers(k, s) = B
      BY <1>3, <1>5, <1>6, <3>2
    <3> QED BY <1>2, <1>13, <3>1, <3>2 DEF Tree, Divided
  <2> QED BY <1>2, <2>1, <2>2, <2>3, <2>4 DEF Tree, Divided
<1>15. Hung(k)
  <2>1. ASSUME NEW p \in k.leaves PROVE IsNode(k, {p})
    <3>1. IsNode(l, {p}) /\ {p} # {t} /\ g({p}) = {p}
      BY <1>2 DEF Tree, Hung
    <3> QED BY <1>12, <3>1
  <2>2. ASSUME NEW s \in DOMAIN k.splits PROVE IsNode(k, Covers(k, s))
    <3>1. IsNode(l, Covers(l, s)) /\ Covers(k, s) = g(Covers(l, s))
      BY <1>2, <1>3 DEF Tree, Hung
    <3>2. Covers(l, s) # {t}
      BY <1>2, <1>4 DEF Tree, Divides, Covers, First, Second
    <3> QED BY <1>12, <3>1, <3>2
  <2> QED BY <2>1, <2>2 DEF Hung
<1>16. ASSUME NEW T, IsNode(l, T), NEW s \in DOMAIN l.splits \ {r}, g(Covers(l, s)) \subseteq g(T)
       PROVE  Covers(l, s) \subseteq T
  <2>1. SUFFICES ASSUME t \in Covers(l, s), t \notin T PROVE FALSE
    BY <1>16
  <2>2. First(l, s) \ {t} # {} /\ Second(l, s) \ {t} # {}
    BY <1>4 DEF Tree, Divides
  <2>3. PICK q \in DOMAIN l.splits : T = First(l, q) \/ T = Second(l, q)
    BY <1>16, <2>1 DEF IsNode, IsSide
  <2>4. First(l, q) \cap Second(l, q) = {} /\ First(l, s) \cap Second(l, s) = {}
    BY DEF Tree, Divides
  <2>5. /\ First(l, s) \ {t} \subseteq T /\ Second(l, s) \ {t} \subseteq T
        /\ T \subseteq Covers(l, q)
    BY <1>16, <2>3 DEF Covers, First, Second
  <2>6. s # q
    BY <2>2, <2>3, <2>4, <2>5
  <2>7. ~Inside(l, Covers(l, s), q)
    BY <2>1, <2>2, <2>3, <2>4, <2>5 DEF Inside, Covers, First, Second
  <2>8. ~Inside(l, Covers(l, q), s)
    BY <2>2, <2>4, <2>5 DEF Inside
  <2>9. Covers(l, s) \cap Covers(l, q) # {}
    BY <2>2, <2>5 DEF Covers, First, Second
  <2> QED BY <2>6, <2>7, <2>8, <2>9 DEF Tree, Nested
<1>17. ASSUME NEW S, IsNode(k, S) PROVE \E p : IsFirst(k, p, S)
  <2>1. PICK T : IsNode(l, T) /\ T # {t} /\ S = g(T)
    BY <1>11, <1>17
  <2>2. PICK p : IsFirst(l, p, T)
    BY <2>1 DEF Tree, Ordered
  <2>3. CASE p # t
    BY <1>2, <1>3, <1>16, <2>1, <2>2, <2>3 DEF IsFirst
  <2>4. CASE p = t
    <3>1. Covers(l, r) \subseteq T
      <4>1. CASE T = l.leaves
        BY <4>1 DEF Tree, Divides
      <4>2. ASSUME NEW q \in DOMAIN l.splits, T = First(l, q) \/ T = Second(l, q)
            PROVE  Covers(l, r) \subseteq T
        <5>1. t \in T /\ q # r
          BY <1>5, <2>1, <2>2, <2>4, <4>2 DEF IsFirst
        <5>2. ~Inside(l, Covers(l, q), r)
          BY <1>5, <4>2, <5>1 DEF Tree, Divides, Inside, Covers, First, Second
        <5>3. Covers(l, q) \cap Covers(l, r) # {}
          BY <1>6, <4>2, <5>1 DEF Covers, First, Second
        <5>4. Inside(l, Covers(l, r), q)
          BY <5>1, <5>2, <5>3 DEF Tree, Nested
        <5> QED BY <1>6, <4>2, <5>1, <5>4 DEF Tree, Divides, Inside
      <4> QED BY <2>1, <4>1, <4>2 DEF IsNode, IsSide
    <3>2. First(l, r) = {t} /\ Second(l, r) = B
      BY <1>5, <2>2, <2>4, <3>1 DEF IsFirst
    <3>3. PICK q : IsFirst(l, q, B)
      BY <1>13 DEF Tree, Ordered
    <3>4. q \in S
      BY <1>5, <1>6, <2>1, <3>1, <3>3 DEF IsFirst
    <3>5. ASSUME NEW s \in DOMAIN l.splits \ {r}, Covers(k, s) \subseteq S, q \in Second(k, s)
          PROVE  FALSE
      <4>1. Covers(l, s) \subseteq T
        BY <1>3, <1>16, <2>1, <3>5
      <4>2. t \notin Second(l, s) /\ q \in Second(l, s)
        BY <1>2, <2>2, <2>4, <3>5, <4>1 DEF IsFirst
      <4>3. q \in B /\ q \notin First(l, s)
        BY <3>3, <4>2 DEF IsFirst, Tree, Divides
      <4>4. ~(Covers(l, s) \subseteq B)
        BY <3>3, <4>2 DEF IsFirst
      <4>5. ~(Covers(l, s) \subseteq {t}) /\ Covers(l, s) \cap Covers(l, r) # {}
        BY <1>5, <1>6, <4>2, <4>3 DEF Covers, First, Second
      <4>6. ~Inside(l, Covers(l, r), s)
        BY <1>6, <4>2, <4>3 DEF Inside
      <4> QED BY <3>2, <4>4, <4>5, <4>6 DEF Tree, Nested, Inside
    <3> QED BY <1>2, <3>4, <3>5 DEF IsFirst
  <2> QED BY <2>3, <2>4
<1>18. k.leaves # {}
  BY <1>2
<1> QED BY <1>8, <1>9, <1>10, <1>14, <1>15, <1>17, <1>18 DEF Tree, Divided, Ordered, k

\* The root has a first leaf, and it is the one the code takes.
LEMMA FirstLeafIn ==
    ASSUME NEW l, Tree(l)
    PROVE  FirstLeaf(l) \in l.leaves
<1>1. \A s \in DOMAIN l.splits : Covers(l, s) \subseteq l.leaves
  BY DEF Tree, Divides
<1>2. PICK p : IsFirst(l, p, l.leaves)
  BY DEF Tree, Ordered, IsNode
<1>3. p \in l.leaves /\ \A s \in DOMAIN l.splits : p \notin l.splits[s].second
  BY <1>1, <1>2 DEF IsFirst, Second
<1> QED BY <1>3 DEF FirstLeaf

\* What hangs together is a tree by the count of the runs.
LEMMA TreeIsTree ==
    ASSUME NEW l, Tree(l)
    PROVE  IsTree(l)
<1>1. \A T : IsNode(l, T) => T \subseteq l.leaves
  BY DEF Tree, Divides, IsNode, IsSide, Covers, First, Second
<1>2. ASSUME NEW S, IsNode(l, S) PROVE SideIsTree(l, S)
  <2>1. IsFiniteSet(S)
    BY <1>1, <1>2, FS_Subset DEF Tree, Counted
  <2>2. CASE Cardinality(S) = 1
    <3>1. PICK p : S = {p}
      BY <2>1, <2>2, FS_Singleton
    <3>2. \A s \in DOMAIN l.splits : Covers(l, s) # S
      BY <3>1 DEF Tree, Divides, Covers, First, Second
    <3> QED BY <2>2, <3>2 DEF SideIsTree
  <2>3. CASE Cardinality(S) # 1
    <3>1. ~\E p : S = {p}
      BY <2>1, <2>3, FS_Singleton
    <3>2. PICK s \in DOMAIN l.splits : Covers(l, s) = S
      BY <1>2, <3>1 DEF Tree, Divided
    <3>3. {x \in DOMAIN l.splits : Covers(l, x) = S} = {s}
      BY <3>2, CoversDiffer DEF Tree
    <3>4. Cardinality({s}) = 1
      BY FS_Singleton
    <3> QED BY <2>3, <3>3, <3>4 DEF SideIsTree
  <2> QED BY <2>2, <2>3
<1>3. \A s \in DOMAIN l.splits :
         IsNode(l, l.splits[s].first) /\ IsNode(l, l.splits[s].second)
  BY DEF IsNode, IsSide, First, Second
<1>4. \A s \in DOMAIN l.splits : l.splits[s].first \cap l.splits[s].second = {}
  BY DEF Tree, Divides, First, Second
<1>5. IsNode(l, l.leaves)
  BY DEF IsNode
<1> QED BY <1>2, <1>3, <1>4, <1>5 DEF Tree, Counted, IsTree
-----------------------------------------------------------------------------
(* Sequences without repetition. *)

LEMMA SeqParts ==
    ASSUME NEW S, NEW s \in Seq(S)
    PROVE  /\ Len(s) \in Nat /\ DOMAIN s = 1 .. Len(s)
           /\ Elements(s) \subseteq S
           /\ s = <<>> <=> Elements(s) = {}
           /\ s # <<>> => 1 \in DOMAIN s /\ s[1] \in Elements(s)
BY DEF Elements

LEMMA DistinctCount ==
    ASSUME NEW S, NEW s \in Seq(S), Distinct(s)
    PROVE  IsFiniteSet(Elements(s)) /\ Cardinality(Elements(s)) = Len(s)
<1>1. Len(s) \in Nat /\ DOMAIN s = 1 .. Len(s)
  OBVIOUS
<1>2. IsFiniteSet(1 .. Len(s)) /\ Cardinality(1 .. Len(s)) = Len(s)
  BY <1>1, FS_Interval, SMTT(60)
<1> DEFINE f == [i \in 1 .. Len(s) |-> s[i]]
<1>3. f \in Bijection(1 .. Len(s), Elements(s))
  <2>1. f \in [1 .. Len(s) -> Elements(s)]
    BY <1>1 DEF Elements
  <2>2. \A i, j \in 1 .. Len(s) : f[i] = f[j] => i = j
    BY <1>1 DEF Distinct
  <2>3. \A t \in Elements(s) : \E i \in 1 .. Len(s) : f[i] = t
    BY <1>1 DEF Elements
  <2> QED BY <2>1, <2>2, <2>3 DEF Bijection, Injection, IsInjective, Surjection
<1>4. ExistsBijection(1 .. Len(s), Elements(s))
  BY <1>3 DEF ExistsBijection
<1> QED BY <1>2, <1>4, FS_Bijection

LEMMA AppendElements ==
    ASSUME NEW S, NEW s \in Seq(S), NEW x \in S
    PROVE  /\ Append(s, x) \in Seq(S)
           /\ Append(s, x) # <<>>
           /\ Elements(Append(s, x)) = Elements(s) \cup {x}
           /\ Distinct(s) /\ x \notin Elements(s) => Distinct(Append(s, x))
<1> DEFINE r == Append(s, x)
<1>1. /\ r \in Seq(S) /\ Len(r) = Len(s) + 1 /\ Len(s) \in Nat
      /\ DOMAIN r = 1 .. Len(s) + 1 /\ DOMAIN s = 1 .. Len(s)
      /\ r[Len(s) + 1] = x /\ \A i \in 1 .. Len(s) : r[i] = s[i]
  OBVIOUS
<1> HIDE DEF r
<1>2. Elements(r) = Elements(s) \cup {x}
  BY <1>1 DEF Elements
<1>3. Distinct(s) /\ x \notin Elements(s) => Distinct(r)
  BY <1>1 DEF Elements, Distinct
<1>4. r # <<>>
  BY <1>1
<1> QED BY <1>1, <1>2, <1>3, <1>4 DEF r

LEMMA OneElement ==
    ASSUME NEW S, NEW x \in S
    PROVE  /\ <<x>> \in Seq(S) /\ <<x>> # <<>> /\ <<x>>[1] = x
           /\ Elements(<<x>>) = {x} /\ Distinct(<<x>>)
BY DEF Elements, Distinct

LEMMA NoElement ==
    ASSUME NEW S
    PROVE  <<>> \in Seq(S) /\ Elements(<<>>) = {} /\ Distinct(<<>>)
BY DEF Elements, Distinct

LEMMA RemoveAtElements ==
    ASSUME NEW S, NEW s \in Seq(S), Distinct(s), NEW x \in Elements(s)
    PROVE  LET r == RemoveAt(s, Position(s, x))
           IN  /\ r \in Seq(S) /\ Distinct(r) /\ Len(r) = Len(s) - 1
               /\ Elements(r) = Elements(s) \ {x}
               /\ Position(s, x) \in DOMAIN s
<1> DEFINE n == Len(s)
           at == Position(s, x)
           r == RemoveAt(s, at)
<1>1. n \in Nat /\ DOMAIN s = 1 .. n /\ \A i \in 1 .. n : s[i] \in S
  OBVIOUS
<1>2. at \in 1 .. n /\ s[at] = x
  BY <1>1 DEF Elements, Position
<1> HIDE DEF at
<1>3. /\ r \in Seq(S) /\ Len(r) = n - 1 /\ DOMAIN r = 1 .. n - 1
      /\ \A j \in 1 .. n - 1 : r[j] = IF j < at THEN s[j] ELSE s[j + 1]
  BY <1>1, <1>2 DEF RemoveAt
<1> HIDE DEF r
<1>4. Distinct(r)
  BY <1>1, <1>2, <1>3, SMTT(30) DEF Distinct
<1>5. Elements(r) \subseteq Elements(s) \ {x}
  BY <1>1, <1>2, <1>3, SMTT(60) DEF Distinct, Elements
<1>6. ASSUME NEW i \in 1 .. n, s[i] # x
      PROVE  s[i] \in Elements(r)
  <2>1. CASE i < at
    BY <1>1, <1>2, <1>3, <2>1 DEF Elements
  <2>2. CASE i > at
    <3>1. i - 1 \in 1 .. n - 1 /\ ~(i - 1 < at) /\ (i - 1) + 1 = i
      BY <1>1, <1>2, <2>2
    <3> QED BY <1>3, <3>1 DEF Elements
  <2> QED BY <1>1, <1>2, <1>6, <2>1, <2>2
<1> QED BY <1>1, <1>2, <1>3, <1>4, <1>5, <1>6, SMTT(60) DEF Elements, at, r

LEMMA InsertAtElements ==
    ASSUME NEW S, NEW s \in Seq(S), Distinct(s), NEW at \in 1 .. Len(s) + 1,
           NEW x \in S, x \notin Elements(s)
    PROVE  LET r == InsertAt(s, at, x)
           IN  r \in Seq(S) /\ Distinct(r) /\ Elements(r) = Elements(s) \cup {x}
<1> DEFINE n == Len(s)
           r == InsertAt(s, at, x)
<1>1. n \in Nat /\ DOMAIN s = 1 .. n /\ \A i \in 1 .. n : s[i] \in S
  OBVIOUS
<1>2. /\ r \in Seq(S) /\ DOMAIN r = 1 .. n + 1
      /\ \A j \in 1 .. n + 1 : r[j] = IF j < at THEN s[j] ELSE IF j = at THEN x ELSE s[j - 1]
  BY <1>1 DEF InsertAt
<1> HIDE DEF r
<1>3. \A i \in 1 .. n : s[i] # x
  BY <1>1 DEF Elements
<1>4. Distinct(r)
  <2> SUFFICES ASSUME NEW i \in 1 .. n + 1, NEW j \in 1 .. n + 1, i < j
               PROVE  r[i] # r[j]
    BY <1>1, <1>2 DEF Distinct
  <2>1. CASE j < at
    BY <1>1, <1>2, <2>1 DEF Distinct
  <2>2. CASE j = at
    BY <1>1, <1>2, <1>3, <2>2
  <2>3. CASE j > at
    <3>1. j - 1 \in 1 .. n /\ r[j] = s[j - 1]
      BY <1>1, <1>2, <2>3
    <3>2. CASE i = at
      BY <1>1, <1>2, <1>3, <3>1, <3>2
    <3>3. CASE i < at
      <4>1. r[i] = s[i] /\ i \in 1 .. n /\ i # j - 1
        BY <1>1, <1>2, <2>3, <3>3
      <4> QED BY <1>1, <3>1, <4>1 DEF Distinct
    <3>4. CASE i > at
      <4>1. r[i] = s[i - 1] /\ i - 1 \in 1 .. n /\ i - 1 # j - 1
        BY <1>1, <1>2, <2>3, <3>4
      <4> QED BY <1>1, <3>1, <4>1 DEF Distinct
    <3> QED BY <3>2, <3>3, <3>4
  <2> QED BY <1>1, <2>1, <2>2, <2>3
<1>5. Elements(r) \subseteq Elements(s) \cup {x}
  <2> SUFFICES ASSUME NEW j \in 1 .. n + 1 PROVE r[j] \in Elements(s) \cup {x}
    BY <1>2 DEF Elements
  <2>1. CASE j < at
    BY <1>1, <1>2, <2>1 DEF Elements
  <2>2. CASE j = at
    BY <1>2, <2>2
  <2>3. CASE j > at
    <3>1. j - 1 \in 1 .. n /\ r[j] = s[j - 1]
      BY <1>1, <1>2, <2>3
    <3> QED BY <1>1, <3>1 DEF Elements
  <2> QED BY <2>1, <2>2, <2>3
<1>6. x \in Elements(r)
  BY <1>1, <1>2 DEF Elements
<1>7. ASSUME NEW i \in 1 .. n
      PROVE  s[i] \in Elements(r)
  <2>1. CASE i < at
    BY <1>1, <1>2, <2>1 DEF Elements
  <2>2. CASE i >= at
    <3>1. i + 1 \in 1 .. n + 1 /\ ~(i + 1 < at) /\ i + 1 # at /\ (i + 1) - 1 = i
      BY <1>1, <2>2
    <3> QED BY <1>2, <3>1 DEF Elements
  <2> QED BY <1>1, <2>1, <2>2
<1> QED BY <1>1, <1>2, <1>4, <1>5, <1>6, <1>7 DEF Elements, r

\* The ranks of a finite set of numbers are 1 .. its size.
LEMMA RankOnto ==
    ASSUME NEW n \in Nat, NEW K \in SUBSET (1 .. n)
    PROVE  /\ IsFiniteSet(K) /\ Cardinality(K) \in Nat
           /\ \A i, j \in K : Rank(K, i) = Rank(K, j) => i = j
           /\ \A k \in 1 .. Cardinality(K) : \E i \in K : Rank(K, i) = k
           /\ \A i \in K : Rank(K, i) \in 1 .. Cardinality(K)
<1> DEFINE below(i) == {j \in K : j <= i}
           c == Cardinality(K)
           f == [i \in K |-> Rank(K, i)]
<1>1. IsFiniteSet(1 .. n)
  BY FS_Interval
<1>2. IsFiniteSet(K) /\ c \in Nat
  BY <1>1, FS_Subset, FS_CardinalityType
<1>3. \A i \in K : IsFiniteSet(below(i)) /\ Rank(K, i) \in Nat /\ Rank(K, i) <= c
  <2> TAKE i \in K
  <2>1. below(i) \in SUBSET K
    OBVIOUS
  <2>2. IsFiniteSet(below(i)) /\ Cardinality(below(i)) <= c
    BY <1>2, <2>1, FS_Subset
  <2> QED BY <2>2, FS_CardinalityType DEF Rank
<1>4. \A i \in K : Rank(K, i) # 0
  <2> TAKE i \in K
  <2>1. below(i) # {}
    OBVIOUS
  <2> QED BY <1>3, <2>1, FS_EmptySet DEF Rank
<1>5. ASSUME NEW i \in K, NEW j \in K, i < j
      PROVE  Rank(K, i) # Rank(K, j)
  <2>1. below(i) \in SUBSET below(j) /\ j \in below(j) /\ j \notin below(i)
    <3>1. \A x \in K : x \in Int
      OBVIOUS
    <3>2. \A x \in K : x <= i => x <= j
      BY <1>5, <3>1
    <3>3. j <= j /\ ~(j <= i)
      BY <1>5, <3>1
    <3> QED BY <3>2, <3>3
  <2>2. below(i) # below(j)
    BY <2>1
  <2>3. IsFiniteSet(below(j))
    BY <1>3
  <2> QED BY <2>1, <2>2, <2>3, FS_Subset DEF Rank
<1>6. \A i, j \in K : Rank(K, i) = Rank(K, j) => i = j
  BY <1>5
<1> HIDE DEF c
<1>7. \A i \in K : Rank(K, i) \in 1 .. c
  <2> TAKE i \in K
  <2>1. Rank(K, i) \in Nat /\ Rank(K, i) <= c /\ Rank(K, i) # 0
    BY <1>3, <1>4
  <2> QED BY <1>2, <2>1
<1>8. f \in Injection(K, 1 .. c)
  <2>1. f \in [K -> 1 .. c]
    BY <1>7
  <2>2. \A i, j \in K : f[i] = f[j] => i = j
    BY <1>6
  <2> QED BY <2>1, <2>2 DEF Injection, IsInjective
<1>9. IsFiniteSet(1 .. c) /\ Cardinality(1 .. c) = c
  BY <1>2, FS_Interval
<1>10. f \in Surjection(K, 1 .. c)
  BY <1>8, <1>9, FS_Injection DEF c
<1>11. \A k \in 1 .. c : \E i \in K : Rank(K, i) = k
  BY <1>10 DEF Surjection
<1> QED BY <1>2, <1>6, <1>7, <1>11 DEF c

LEMMA RetainedElements ==
    ASSUME NEW S, NEW s \in Seq(S), Distinct(s), NEW U
    PROVE  /\ Retained(s, U) \in Seq(S) /\ Distinct(Retained(s, U))
           /\ Elements(Retained(s, U)) = Elements(s) \ U
<1> DEFINE n == Len(s)
           K == Kept(s, U)
           c == Cardinality(K)
           at(k) == CHOOSE i \in K : Rank(K, i) = k
           r == Retained(s, U)
<1>1. n \in Nat /\ DOMAIN s = 1 .. n /\ \A i \in 1 .. n : s[i] \in S
  OBVIOUS
<1>2. K \in SUBSET (1 .. n) /\ \A i \in 1 .. n : i \in K <=> s[i] \notin U
  BY <1>1 DEF Kept
<1>3. r = [k \in 1 .. c |-> s[at(k)]]
  BY DEF Retained
<1> HIDE DEF K, r
<1>4. /\ c \in Nat
      /\ \A i, j \in K : Rank(K, i) = Rank(K, j) => i = j
      /\ \A k \in 1 .. c : \E i \in K : Rank(K, i) = k
      /\ \A i \in K : Rank(K, i) \in 1 .. c
  BY <1>1, <1>2, RankOnto
<1>5. \A k \in 1 .. c : at(k) \in K /\ Rank(K, at(k)) = k
  BY <1>4
<1>6. \A i \in K : at(Rank(K, i)) = i
  BY <1>4, <1>5
<1> HIDE DEF c, at
<1>7. r \in Seq(S) /\ DOMAIN r = 1 .. c /\ \A k \in 1 .. c : r[k] = s[at(k)]
  <2>1. \A k \in 1 .. c : s[at(k)] \in S
    BY <1>1, <1>2, <1>5
  <2>2. DOMAIN r = 1 .. c /\ \A k \in 1 .. c : r[k] = s[at(k)]
    BY <1>3
  <2>3. r \in [1 .. c -> S]
    BY <1>3, <2>1
  <2> QED BY <1>4, <2>2, <2>3
<1>8. Distinct(r)
  <2> SUFFICES ASSUME NEW i \in 1 .. c, NEW j \in 1 .. c, r[i] = r[j]
               PROVE  i = j
    BY <1>7 DEF Distinct
  <2>1. at(i) \in DOMAIN s /\ at(j) \in DOMAIN s /\ s[at(i)] = s[at(j)]
    BY <1>1, <1>2, <1>5, <1>7
  <2>2. at(i) = at(j)
    BY <2>1 DEF Distinct
  <2> QED BY <1>5, <2>2
<1>9. Elements(r) \subseteq Elements(s) \ U
  BY <1>1, <1>2, <1>5, <1>7 DEF Elements
<1>10. \A i \in K : s[i] \in Elements(r)
  BY <1>4, <1>6, <1>7 DEF Elements
<1> QED BY <1>1, <1>2, <1>7, <1>8, <1>9, <1>10 DEF Elements, r
-----------------------------------------------------------------------------
(***************************************************************************)
(* The inductive invariant.                                                *)
(***************************************************************************)
PaneSet == [ws : Ids, tabs : Seq(Ids), active : Ids \cup {NoId}]
TabSet == [kind : TabKinds, session : Sessions \cup {NoId}, unread : BOOLEAN,
           status : {"none", "running", "notStarted", "exited"}]
AgentSet == [status : {"idle", "running", "needsInput"}, source : Ids \cup {NoId}]
ShellSet == [history : Ids, killed : BOOLEAN]
SideSet == [first : SUBSET Ids, second : SUBSET Ids]

TabsOf(p) == Elements(panes[p].tabs)
SplitsOf(w) == DOMAIN layout[w].splits

Ordering ==
    /\ order \in Seq(Ids) /\ Distinct(order)
    /\ activeWs \in Elements(order) \cup {NoId}
    /\ order = <<>> <=> activeWs = NoId
    /\ nextId \in 1 .. MaxId + 1

Layouts ==
    /\ DOMAIN layout = Elements(order)
    /\ activePane \in [Elements(order) -> Ids]
    /\ \A w \in Elements(order) :
          /\ Tree(layout[w])
          /\ layout[w].leaves = PanesOf(w)
          /\ \A s \in SplitsOf(w) : layout[w].splits[s] \in SideSet
          /\ activePane[w] \in PanesOf(w)

Placed ==
    /\ \A p \in DOMAIN panes :
          /\ panes[p] \in PaneSet
          /\ panes[p].ws \in Elements(order)
          /\ Distinct(panes[p].tabs)
          /\ IF panes[p].tabs = <<>> THEN panes[p].active = NoId ELSE panes[p].active \in TabsOf(p)
    /\ \A p, q \in DOMAIN panes : p # q => TabsOf(p) \cap TabsOf(q) = {}
    /\ DOMAIN tabs = TabsIn(DOMAIN panes)

\* An id in use is below the next one and names one thing of one sort.
Sorted ==
    /\ Elements(order) \cup DOMAIN panes \cup DOMAIN tabs \cup AllSplits \subseteq 1 .. nextId - 1
    /\ Elements(order) \cap DOMAIN panes = {}
    /\ Elements(order) \cap DOMAIN tabs = {}
    /\ Elements(order) \cap AllSplits = {}
    /\ DOMAIN panes \cap DOMAIN tabs = {}
    /\ DOMAIN panes \cap AllSplits = {}
    /\ DOMAIN tabs \cap AllSplits = {}
    /\ \A v, w \in Elements(order) : v # w => SplitsOf(v) \cap SplitsOf(w) = {}

\* What a pane of the workspace in view shows is read.
ShownRead ==
    \A p \in DOMAIN panes :
        panes[p].ws = activeWs /\ panes[p].active # NoId => ~tabs[panes[p].active].unread

Sources ==
    /\ agent \in [Elements(order) -> AgentSet]
    /\ \A w \in Elements(order) :
          /\ agent[w].status # "idle" => agent[w].source # NoId
          /\ agent[w].source # NoId =>
                agent[w].source \in Terminals /\ \E p \in PanesOf(w) : agent[w].source \in TabsOf(p)

Running ==
    /\ tabs \in [DOMAIN tabs -> TabSet]
    /\ started \subseteq Sessions
    /\ nextSession \in 1 .. MaxSession + 1
    /\ shells \in [DOMAIN shells -> ShellSet]
    /\ DOMAIN shells \subseteq 1 .. nextSession - 1
    /\ \A t \in DOMAIN tabs \ Terminals : tabs[t].session = NoId
    /\ \A t \in DOMAIN tabs : tabs[t].session # NoId =>
          /\ tabs[t].session \in DOMAIN shells
          /\ ~shells[tabs[t].session].killed
          /\ shells[tabs[t].session].history = t
    /\ \A s \in DOMAIN shells : ~shells[s].killed =>
          shells[s].history \in Terminals /\ tabs[shells[s].history].session = s

IInv == Ordering /\ Layouts /\ Placed /\ Sorted /\ ShownRead /\ Sources /\ Running
-----------------------------------------------------------------------------
(* Helpers of the model. *)

LEMMA Constants == /\ MaxId \in Nat /\ MaxSession \in Nat
                   /\ NoId \notin Ids /\ NoId \notin Sessions
BY WorkspaceAssumption DEF NoId, Ids, Sessions

LEMMA TabsInParts == \A P, t : t \in TabsIn(P) <=> \E p \in P : t \in TabsOf(p)
BY DEF TabsIn, TabsOf

LEMMA PaneOfTab ==
    ASSUME Placed, NEW t \in DOMAIN tabs
    PROVE  /\ PaneOf(t) \in DOMAIN panes /\ t \in TabsOf(PaneOf(t))
           /\ \A q \in DOMAIN panes : t \in TabsOf(q) => q = PaneOf(t)
<1>1. \E p \in DOMAIN panes : t \in TabsOf(p)
  BY TabsInParts DEF Placed
<1>2. PaneOf(t) \in DOMAIN panes /\ t \in TabsOf(PaneOf(t))
  BY <1>1 DEF PaneOf, TabsOf
<1> QED BY <1>2 DEF Placed

\* A tab in a pane exists; a pane that shows a tab has it.
LEMMA PlacedParts ==
    ASSUME Placed, NEW p \in DOMAIN panes
    PROVE  /\ TabsOf(p) \subseteq DOMAIN tabs
           /\ panes[p].tabs \in Seq(Ids) /\ Distinct(panes[p].tabs)
           /\ panes[p].ws \in Elements(order) /\ panes[p].ws \in Ids
           /\ panes[p].active # NoId => panes[p].active \in TabsOf(p)
BY TabsInParts DEF Placed, PaneSet

LEMMA PaneShowing ==
    ASSUME NEW r \in PaneSet, NEW a \in Ids \cup {NoId}
    PROVE  LET k == [r EXCEPT !.active = a]
           IN  k \in PaneSet /\ k.ws = r.ws /\ k.tabs = r.tabs /\ k.active = a
BY DEF PaneSet

LEMMA ReadParts ==
    ASSUME NEW S, tabs \in [DOMAIN tabs -> TabSet]
    PROVE  /\ Read(S) \in [DOMAIN tabs -> TabSet]
           /\ \A t \in DOMAIN tabs :
                 /\ Read(S)[t].kind = tabs[t].kind
                 /\ Read(S)[t].session = tabs[t].session
                 /\ Read(S)[t].status = tabs[t].status
                 /\ Read(S)[t].unread = (tabs[t].unread /\ t \notin S)
<1> SUFFICES ASSUME NEW t \in DOMAIN tabs
             PROVE  /\ Read(S)[t] \in TabSet
                    /\ Read(S)[t].kind = tabs[t].kind
                    /\ Read(S)[t].session = tabs[t].session
                    /\ Read(S)[t].status = tabs[t].status
                    /\ Read(S)[t].unread = (tabs[t].unread /\ t \notin S)
  BY DEF Read
<1>1. tabs[t] \in TabSet
  OBVIOUS
<1>2. Read(S)[t] = IF t \in S THEN [tabs[t] EXCEPT !.unread = FALSE] ELSE tabs[t]
  BY DEF Read
<1>3. CASE t \in S
  BY <1>1, <1>2, <1>3 DEF TabSet
<1>4. CASE t \notin S
  BY <1>1, <1>2, <1>4 DEF TabSet
<1> QED BY <1>3, <1>4

LEMMA KillAllParts ==
    ASSUME NEW S, shells \in [DOMAIN shells -> ShellSet]
    PROVE  /\ KillAll(S) \in [DOMAIN shells -> ShellSet]
           /\ \A s \in DOMAIN shells :
                 /\ KillAll(S)[s].history = shells[s].history
                 /\ KillAll(S)[s].killed =
                       (shells[s].killed \/ \E t \in S \cap Terminals : tabs[t].session = s)
<1> SUFFICES ASSUME NEW s \in DOMAIN shells
             PROVE  /\ KillAll(S)[s] \in ShellSet
                    /\ KillAll(S)[s].history = shells[s].history
                    /\ KillAll(S)[s].killed =
                          (shells[s].killed \/ \E t \in S \cap Terminals : tabs[t].session = s)
  BY DEF KillAll
<1>1. shells[s] \in ShellSet
  OBVIOUS
<1>2. CASE \E t \in S \cap Terminals : tabs[t].session = s
  <2>1. KillAll(S)[s] = [shells[s] EXCEPT !.killed = TRUE]
    BY <1>2 DEF KillAll
  <2> QED BY <1>1, <1>2, <2>1 DEF ShellSet
<1>3. CASE ~\E t \in S \cap Terminals : tabs[t].session = s
  <2>1. KillAll(S)[s] = shells[s]
    BY <1>3 DEF KillAll
  <2> QED BY <1>1, <1>3, <2>1 DEF ShellSet
<1> QED BY <1>2, <1>3

\* The layouts of the model keep their type.
LEMMA SplitLeafTyped ==
    ASSUME NEW l, \A s \in DOMAIN l.splits : l.splits[s] \in SideSet,
           NEW target \in Ids, NEW new \in Ids, NEW split
    PROVE  LET k == SplitLeaf(l, target, new, split)
           IN  \A s \in DOMAIN k.splits : k.splits[s] \in SideSet
BY DEF SplitLeaf, With, SideSet

LEMMA RemoveLeafTyped ==
    ASSUME NEW l, \A s \in DOMAIN l.splits : l.splits[s] \in SideSet, NEW target
    PROVE  LET k == RemoveLeaf(l, target)
           IN  \A s \in DOMAIN k.splits : k.splits[s] \in SideSet
BY DEF RemoveLeaf, SideSet
-----------------------------------------------------------------------------
(* The invariant says what the runs check. *)

LEMMA InitInvariant == Init => IInv
<1> SUFFICES ASSUME Init PROVE IInv
  OBVIOUS
<1> USE DEF Init
<1>1. Elements(order) = {} /\ DOMAIN layout = {} /\ DOMAIN panes = {} /\ DOMAIN tabs = {} /\ DOMAIN shells = {}
  BY DEF Empty, Elements
<1>2. AllSplits = {} /\ TabsIn(DOMAIN panes) = {} /\ Terminals = {}
  BY <1>1 DEF AllSplits, TabsIn, Terminals
<1>3. Ordering
  BY <1>1, NoElement, Constants DEF Empty, Ordering
<1>4. activePane \in [Elements(order) -> Ids] /\ agent \in [Elements(order) -> AgentSet]
  BY <1>1 DEF Empty
<1>5. tabs \in [DOMAIN tabs -> TabSet] /\ shells \in [DOMAIN shells -> ShellSet]
  BY <1>1 DEF Empty
<1>6. nextSession \in 1 .. MaxSession + 1
  BY Constants
<1>7. Layouts /\ Placed /\ Sorted /\ ShownRead /\ Sources /\ Running
  BY <1>1, <1>2, <1>4, <1>5, <1>6 DEF Layouts, Placed, Sorted, ShownRead, Sources, Running
<1> QED BY <1>3, <1>7 DEF IInv

LEMMA BijectionCount ==
    ASSUME NEW S, NEW T, IsFiniteSet(T), NEW f \in Bijection(S, T)
    PROVE  Cardinality(S) = Cardinality(T)
<1>1. f \in Injection(S, T) /\ f \in Surjection(S, T)
  BY DEF Bijection
<1> QED BY <1>1, FS_Injection

LEMMA ApartCount ==
    ASSUME NEW S, NEW T, IsFiniteSet(S), IsFiniteSet(T), S \cap T = {}
    PROVE  /\ IsFiniteSet(S \cup T) /\ Cardinality(S) \in Nat /\ Cardinality(T) \in Nat
           /\ Cardinality(S \cup T) = Cardinality(S) + Cardinality(T)
<1>1. Cardinality(S) \in Nat /\ Cardinality(T) \in Nat
  BY FS_CardinalityType
<1>2. IsFiniteSet(S \cup T) /\ Cardinality(S \cup T) = Cardinality(S) + Cardinality(T) - Cardinality(S \cap T)
  BY FS_Union
<1>3. Cardinality(S \cap T) = 0
  BY FS_EmptySet
<1> QED BY <1>1, <1>2, <1>3

\* The count of validate_app, from the sorts of ids, whether the panes have
\* all of their tabs or some are unknown and gone.
LEMMA IdsCounted ==
    ASSUME IInv, NEW pns, DOMAIN pns = DOMAIN panes,
           \A p \in DOMAIN panes : Distinct(pns[p].tabs) /\ Elements(pns[p].tabs) \subseteq TabsOf(p)
    PROVE  IdsDistinct(pns)
<1> USE DEF IInv
<1> DEFINE splits == UNION {{w} \X DOMAIN layout[w].splits : w \in Elements(order)}
           placed == UNION {{p} \X DOMAIN pns[p].tabs : p \in DOMAIN pns}
           splitIds == {s[2] : s \in splits}
           tabIds == {pns[t[1]].tabs[t[2]] : t \in placed}
           f == [s \in splits |-> s[2]]
           g == [t \in placed |-> pns[t[1]].tabs[t[2]]]
<1>1. \A s : s \in splits <=> \E w \in Elements(order) : \E x \in SplitsOf(w) : s = <<w, x>>
  BY DEF SplitsOf
<1>2. \A t : t \in placed <=> \E p \in DOMAIN panes : \E i \in DOMAIN pns[p].tabs : t = <<p, i>>
  OBVIOUS
<1> HIDE DEF splits, placed
<1>3. splitIds = AllSplits
  <2>1. ASSUME NEW s \in splits PROVE s[2] \in AllSplits
    <3>1. PICK w \in Elements(order) : \E x \in SplitsOf(w) : s = <<w, x>>
      BY <1>1
    <3>2. PICK x \in SplitsOf(w) : s = <<w, x>>
      BY <3>1
    <3> QED BY <3>2 DEF AllSplits, SplitsOf, Layouts
  <2>2. ASSUME NEW x \in AllSplits PROVE \E s \in splits : s[2] = x
    <3>1. PICK w \in Elements(order) : x \in SplitsOf(w)
      BY DEF AllSplits, SplitsOf, Layouts
    <3>2. <<w, x>> \in splits /\ <<w, x>>[2] = x
      BY <1>1, <3>1
    <3> QED BY <3>2
  <2> QED BY <2>1, <2>2
<1>4. tabIds \subseteq DOMAIN tabs
  <2> SUFFICES ASSUME NEW t \in placed PROVE pns[t[1]].tabs[t[2]] \in DOMAIN tabs
    OBVIOUS
  <2>1. PICK p, i : p \in DOMAIN panes /\ i \in DOMAIN pns[p].tabs /\ t = <<p, i>>
    BY <1>2
  <2>2. pns[p].tabs[i] \in TabsOf(p)
    BY <2>1 DEF Elements
  <2> QED BY <2>1, <2>2, TabsInParts DEF Placed
<1>5. IsFiniteSet(1 .. nextId - 1) /\ nextId \in Nat
  BY FS_Interval, Constants DEF Ordering
<1>6. /\ IsFiniteSet(Elements(order)) /\ IsFiniteSet(DOMAIN panes)
      /\ IsFiniteSet(splitIds) /\ IsFiniteSet(tabIds)
  BY <1>3, <1>4, <1>5, FS_Subset DEF Sorted
<1>7. f \in Bijection(splits, splitIds)
  <2>1. f \in [splits -> splitIds] /\ \A x \in splitIds : \E s \in splits : f[s] = x
    OBVIOUS
  <2>2. ASSUME NEW s \in splits, NEW r \in splits, f[s] = f[r] PROVE s = r
    BY <1>1, <2>2 DEF Sorted
  <2> QED BY <2>1, <2>2 DEF Bijection, Injection, IsInjective, Surjection
<1>8. g \in Bijection(placed, tabIds)
  <2>1. g \in [placed -> tabIds] /\ \A x \in tabIds : \E t \in placed : g[t] = x
    OBVIOUS
  <2>2. ASSUME NEW t \in placed, NEW u \in placed, g[t] = g[u] PROVE t = u
    <3>1. PICK p, i : p \in DOMAIN panes /\ i \in DOMAIN pns[p].tabs /\ t = <<p, i>>
      BY <1>2
    <3>2. PICK q, j : q \in DOMAIN panes /\ j \in DOMAIN pns[q].tabs /\ u = <<q, j>>
      BY <1>2
    <3>3. pns[p].tabs[i] = pns[q].tabs[j]
      BY <2>2, <3>1, <3>2
    <3>4. pns[p].tabs[i] \in TabsOf(p) /\ pns[q].tabs[j] \in TabsOf(q)
      BY <3>1, <3>2 DEF Elements
    <3>5. p = q
      BY <3>1, <3>2, <3>3, <3>4 DEF Placed
    <3> QED BY <3>1, <3>2, <3>3, <3>5 DEF Placed, Distinct
  <2> QED BY <2>1, <2>2 DEF Bijection, Injection, IsInjective, Surjection
<1>9. Cardinality(splits) = Cardinality(splitIds) /\ Cardinality(placed) = Cardinality(tabIds)
  <2> HIDE DEF f, g, splitIds, tabIds
  <2> QED BY <1>6, <1>7, <1>8, BijectionCount
<1> DEFINE A == Elements(order)
           B == DOMAIN pns
<1>10. /\ A \cap B = {} /\ (A \cup B) \cap splitIds = {} /\ (A \cup B \cup splitIds) \cap tabIds = {}
  BY <1>3, <1>4 DEF Sorted
<1> HIDE DEF splitIds, tabIds, A, B
<1>11. IsFiniteSet(A) /\ IsFiniteSet(B)
  BY <1>6 DEF A, B
<1>12. /\ IsFiniteSet(A \cup B) /\ Cardinality(A) \in Nat /\ Cardinality(B) \in Nat
       /\ Cardinality(A \cup B) = Cardinality(A) + Cardinality(B)
  BY <1>10, <1>11, ApartCount
<1>13. /\ IsFiniteSet(A \cup B \cup splitIds) /\ Cardinality(splitIds) \in Nat
       /\ Cardinality(A \cup B \cup splitIds) = Cardinality(A \cup B) + Cardinality(splitIds)
  BY <1>6, <1>10, <1>12, ApartCount
<1>14. /\ Cardinality(tabIds) \in Nat
       /\ Cardinality(A \cup B \cup splitIds \cup tabIds)
             = Cardinality(A \cup B \cup splitIds) + Cardinality(tabIds)
  BY <1>6, <1>10, <1>13, ApartCount
<1>15. Cardinality(A) = Len(order)
  BY DistinctCount DEF Ordering, A
<1>16. Cardinality(A \cup B \cup splitIds \cup tabIds)
          = Len(order) + Cardinality(B) + Cardinality(splits) + Cardinality(placed)
  BY <1>9, <1>12, <1>13, <1>14, <1>15
<1> QED BY <1>16 DEF IdsDistinct, A, B, splits, placed, splitIds, tabIds

LEMMA InvariantTypes ==
    ASSUME IInv
    PROVE  TypeOK
<1> USE DEF IInv
<1>1. nextId - 1 \in Nat /\ 1 .. nextId - 1 \subseteq Ids /\ 1 .. nextSession - 1 \subseteq Sessions
  BY Constants DEF Ordering, Running, Ids, Sessions
<1>2. Elements(order) \subseteq Ids
  BY SeqParts DEF Ordering
<1>3. order \in Seq(Ids) /\ activeWs \in Ids \cup {NoId} /\ nextId \in 1 .. MaxId + 1
  BY <1>2 DEF Ordering
<1>4. ASSUME NEW w \in DOMAIN layout
      PROVE  /\ layout[w].leaves \subseteq Ids
             /\ DOMAIN layout[w].splits \subseteq Ids
             /\ \A s \in DOMAIN layout[w].splits :
                   layout[w].splits[s] \in [first : SUBSET Ids, second : SUBSET Ids]
  <2>1. layout[w].leaves \subseteq DOMAIN panes
    BY DEF Layouts, PanesOf
  <2>2. DOMAIN layout[w].splits \subseteq AllSplits
    BY DEF AllSplits
  <2>3. \A s \in DOMAIN layout[w].splits : layout[w].splits[s] \in SideSet
    BY DEF Layouts, SplitsOf
  <2> QED BY <1>1, <2>1, <2>2, <2>3 DEF Sorted, SideSet
<1>5. DOMAIN panes \subseteq Ids /\ DOMAIN tabs \subseteq Ids
  BY <1>1 DEF Sorted
<1>6. \A p \in DOMAIN panes :
         panes[p].ws \in Ids /\ panes[p].tabs \in Seq(Ids) /\ panes[p].active \in Ids \cup {NoId}
  BY DEF Placed, PaneSet
<1>7. \E S \in SUBSET Sessions : shells \in [S -> [history : Ids, killed : BOOLEAN]]
  BY <1>1 DEF Running, ShellSet
<1>8. \A t \in DOMAIN tabs :
         tabs[t] \in [kind : TabKinds, session : Sessions \cup {NoId}, unread : BOOLEAN,
                      status : {"none", "running", "notStarted", "exited"}]
  BY DEF Running, TabSet
<1>9. agent \in [Elements(order) -> [status : {"idle", "running", "needsInput"},
                                     source : Ids \cup {NoId}]]
  BY DEF Sources, AgentSet
<1>10. DOMAIN layout = Elements(order) /\ activePane \in [Elements(order) -> Ids]
  BY DEF Layouts
<1>11. started \subseteq Sessions /\ nextSession \in 1 .. MaxSession + 1
  BY DEF Running
<1> QED BY <1>3, <1>4, <1>5, <1>6, <1>7, <1>8, <1>9, <1>10, <1>11 DEF TypeOK

LEMMA InvariantWellFormed ==
    ASSUME IInv
    PROVE  WellFormed
<1> USE DEF IInv
<1>1. ValidApp(panes)
  <2>1. ASSUME NEW w \in Elements(order) PROVE ValidWorkspace(w, panes)
    BY DEF ValidWorkspace, Layouts, Placed, PanesOf, TabsOf
  <2>2. IdsDistinct(panes)
    BY IdsCounted DEF Placed, TabsOf
  <2> QED BY <2>1, <2>2 DEF ValidApp, Ordering
<1>2. LayoutIntact
  BY TreeIsTree DEF LayoutIntact, Layouts
<1>3. TabsPlaced
  <2>1. ASSUME NEW p \in DOMAIN panes
        PROVE  Cardinality(Elements(panes[p].tabs)) = Len(panes[p].tabs)
    BY PlacedParts, DistinctCount
  <2> QED BY <2>1 DEF TabsPlaced, Placed, TabsOf
<1>4. IdsUsed
  BY DEF IdsUsed, Sorted
<1>5. VisibleIsRead
  <2> SUFFICES ASSUME NEW t \in DOMAIN tabs, Visible(t) PROVE ~tabs[t].unread
    BY DEF VisibleIsRead
  <2>1. t # NoId
    BY InvariantTypes, Constants DEF TypeOK
  <2> QED BY <2>1, PaneOfTab DEF Visible, WsOf, ShownRead
<1>6. SourceExists
  <2> SUFFICES ASSUME NEW w \in Elements(order), agent[w].source # NoId
               PROVE  agent[w].source \in TabsIn(PanesOf(w)) \cap Terminals
    BY DEF SourceExists, Sources
  <2> QED BY TabsInParts DEF Sources
<1> QED BY <1>1, <1>2, <1>3, <1>4, <1>5, <1>6, InvariantTypes DEF WellFormed, Ordering

LEMMA InvariantShells ==
    ASSUME IInv
    PROVE  ShellsOwned
<1> USE DEF IInv
<1>1. NoId \notin DOMAIN shells
  BY Constants DEF Running, NoId
<1>2. ASSUME NEW s \in DOMAIN shells, ~shells[s].killed
      PROVE  Locate(s) = {shells[s].history}
  BY <1>1, <1>2 DEF Locate, Running, Terminals
<1> QED BY <1>2 DEF ShellsOwned, Running, Terminals
-----------------------------------------------------------------------------
(***************************************************************************)
(* The steps.  First what a step leaves as it was.                         *)
(***************************************************************************)
\* No pane comes, goes or changes its tabs.
SamePlaces ==
    /\ DOMAIN panes' = DOMAIN panes
    /\ \A p \in DOMAIN panes : panes'[p].ws = panes[p].ws /\ panes'[p].tabs = panes[p].tabs

LEMMA LayoutsKept ==
    ASSUME Layouts, Elements(order') = Elements(order), UNCHANGED <<layout, activePane>>, SamePlaces
    PROVE  Layouts'
<1>1. \A w : PanesOf(w)' = PanesOf(w)
  BY DEF PanesOf, SamePlaces
<1> QED BY <1>1 DEF Layouts, SplitsOf

LEMMA PlacedKept ==
    ASSUME Placed, Elements(order') = Elements(order), UNCHANGED panes, DOMAIN tabs' = DOMAIN tabs
    PROVE  Placed'
<1>1. \A p : TabsOf(p)' = TabsOf(p)
  BY DEF TabsOf
<1>2. TabsIn(DOMAIN panes)' = TabsIn(DOMAIN panes)
  BY DEF TabsIn
<1> QED BY <1>1, <1>2 DEF Placed

LEMMA SortedKept ==
    ASSUME Sorted, Elements(order') = Elements(order), DOMAIN panes' = DOMAIN panes,
           UNCHANGED <<layout, nextId>>, DOMAIN tabs' = DOMAIN tabs
    PROVE  Sorted'
BY DEF Sorted, SplitsOf, AllSplits

LEMMA ShownReadKept ==
    ASSUME ShownRead, Placed, UNCHANGED <<activeWs, panes>>,
           \A t \in DOMAIN tabs : tabs'[t].unread => tabs[t].unread
    PROVE  ShownRead'
<1>1. \A p \in DOMAIN panes : panes[p].active # NoId => panes[p].active \in DOMAIN tabs
  BY PlacedParts
<1> QED BY <1>1 DEF ShownRead

LEMMA SourcesKept ==
    ASSUME Sources, Elements(order') = Elements(order), UNCHANGED agent, SamePlaces,
           DOMAIN tabs' = DOMAIN tabs, \A t \in DOMAIN tabs : tabs'[t].kind = tabs[t].kind
    PROVE  Sources'
<1>1. Terminals' = Terminals
  BY DEF Terminals
<1>2. /\ \A w : PanesOf(w)' = PanesOf(w)
      /\ \A p \in DOMAIN panes : TabsOf(p)' = TabsOf(p)
  BY DEF PanesOf, TabsOf, SamePlaces
<1>3. \A w : PanesOf(w) \subseteq DOMAIN panes
  BY DEF PanesOf
<1> QED BY <1>1, <1>2, <1>3 DEF Sources

LEMMA ShellsKept ==
    ASSUME Running, started' \subseteq Sessions, UNCHANGED <<nextSession, shells>>,
           tabs' \in [DOMAIN tabs -> TabSet],
           \A t \in DOMAIN tabs : tabs'[t].kind = tabs[t].kind /\ tabs'[t].session = tabs[t].session
    PROVE  Running'
BY DEF Running, Terminals

LEMMA RunningKept ==
    ASSUME Running, UNCHANGED hostVars, tabs' \in [DOMAIN tabs -> TabSet],
           \A t \in DOMAIN tabs : tabs'[t].kind = tabs[t].kind /\ tabs'[t].session = tabs[t].session
    PROVE  Running'
BY ShellsKept DEF Running, hostVars

\* A step that changes values of tabs and the status of workspaces.
LEMMA StructureKept ==
    ASSUME IInv, UNCHANGED <<order, activeWs, nextId, layout, panes, activePane>>,
           DOMAIN tabs' = DOMAIN tabs
    PROVE  Ordering' /\ Layouts' /\ Placed' /\ Sorted'
BY LayoutsKept, PlacedKept, SortedKept DEF IInv, Ordering, SamePlaces

LEMMA SwitchWorkspaceStep ==
    ASSUME IInv, NEW w \in Elements(order), SwitchWorkspace(w)
    PROVE  IInv'
<1> USE DEF IInv, SwitchWorkspace
<1>1. tabs' = Read(Shown(w)) /\ tabs \in [DOMAIN tabs -> TabSet]
  BY DEF Running
<1>2. /\ DOMAIN tabs' = DOMAIN tabs /\ tabs' \in [DOMAIN tabs -> TabSet]
      /\ \A t \in DOMAIN tabs : tabs'[t].kind = tabs[t].kind /\ tabs'[t].session = tabs[t].session
      /\ \A t \in DOMAIN tabs : tabs'[t].unread = (tabs[t].unread /\ t \notin Shown(w))
  BY <1>1, ReadParts
<1>3. order # <<>> /\ w # NoId
  BY SeqParts, Constants DEF Ordering
<1>4. Ordering'
  BY <1>3 DEF Ordering
<1>5. ShownRead'
  <2> SUFFICES ASSUME NEW p \in DOMAIN panes, panes[p].ws = w, panes[p].active # NoId
               PROVE  ~tabs'[panes[p].active].unread
    BY DEF ShownRead
  <2>1. panes[p].active \in Shown(w) /\ panes[p].active \in DOMAIN tabs
    BY PlacedParts DEF Shown, PanesOf
  <2> QED BY <1>2, <2>1
<1> QED BY <1>2, <1>4, <1>5, LayoutsKept, PlacedKept, SortedKept, SourcesKept, RunningKept
        DEF SamePlaces

LEMMA ActivateTabStep ==
    ASSUME IInv, NEW t \in DOMAIN tabs, ActivateTab(t)
    PROVE  IInv'
<1> USE DEF IInv, ActivateTab
<1> DEFINE p == PaneOf(t)
<1>1. tabs' = Read({t}) /\ tabs \in [DOMAIN tabs -> TabSet]
  BY DEF Running
<1>2. /\ DOMAIN tabs' = DOMAIN tabs /\ tabs' \in [DOMAIN tabs -> TabSet]
      /\ \A u \in DOMAIN tabs : tabs'[u].kind = tabs[u].kind /\ tabs'[u].session = tabs[u].session
      /\ \A u \in DOMAIN tabs : tabs'[u].unread = (tabs[u].unread /\ u \notin {t})
  BY <1>1, ReadParts
<1>3. p \in DOMAIN panes /\ t \in TabsOf(p)
  BY PaneOfTab
<1>4. t \in Ids
  BY InvariantTypes DEF TypeOK
<1>5. /\ DOMAIN panes' = DOMAIN panes
      /\ \A q \in DOMAIN panes : panes'[q] = IF q = p THEN [panes[q] EXCEPT !.active = t] ELSE panes[q]
  BY <1>3
<1> HIDE DEF p
<1>6. ASSUME NEW q \in DOMAIN panes
      PROVE  /\ panes'[q] \in PaneSet
             /\ panes'[q].ws = panes[q].ws /\ panes'[q].tabs = panes[q].tabs
             /\ panes'[q].active = IF q = p THEN t ELSE panes[q].active
  <2>1. panes[q] \in PaneSet
    BY DEF Placed
  <2> HIDE DEF IInv, ActivateTab
  <2>2. CASE q = p
    <3>1. panes'[q] = [panes[q] EXCEPT !.active = t] /\ t \in Ids \cup {NoId}
      BY <1>4, <1>5, <2>2
    <3> QED BY <2>1, <2>2, <3>1, PaneShowing
  <2>3. CASE q # p
    BY <1>5, <2>1, <2>3
  <2> QED BY <2>2, <2>3
<1>7. SamePlaces
  BY <1>5, <1>6 DEF SamePlaces
<1>8. Ordering'
  BY DEF Ordering
<1>9. \A q \in DOMAIN panes : TabsOf(q)' = TabsOf(q)
  BY <1>6 DEF TabsOf
<1>10. Placed'
  <2>1. panes[p].tabs # <<>>
    BY <1>3, SeqParts, PlacedParts DEF TabsOf
  <2>2. TabsIn(DOMAIN panes)' = TabsIn(DOMAIN panes)
    BY <1>5, <1>6 DEF TabsIn
  <2> QED BY <1>2, <1>3, <1>5, <1>6, <1>9, <2>1, <2>2 DEF Placed
<1>11. ShownRead'
  <2> SUFFICES ASSUME NEW q \in DOMAIN panes, panes[q].ws = activeWs, panes'[q].active # NoId
               PROVE  ~tabs'[panes'[q].active].unread
    BY <1>5, <1>6, ZenonT(60) DEF ShownRead
  <2>1. CASE q = p
    BY <1>2, <1>6, <2>1
  <2>2. CASE q # p
    <3>1. panes'[q].active = panes[q].active /\ panes[q].active # NoId
      BY <1>6, <2>2
    <3>2. panes[q].active \in DOMAIN tabs /\ ~tabs[panes[q].active].unread
      BY <3>1, PlacedParts DEF ShownRead
    <3> QED BY <1>2, <3>1, <3>2
  <2> QED BY <2>1, <2>2
<1> QED BY <1>2, <1>5, <1>7, <1>8, <1>10, <1>11, LayoutsKept, SortedKept, SourcesKept, RunningKept

LEMMA FocusPaneStep ==
    ASSUME IInv, NEW p \in DOMAIN panes, FocusPane(p)
    PROVE  IInv'
<1> USE DEF IInv, FocusPane
<1>1. p \in Ids
  BY InvariantTypes DEF TypeOK
<1>2. panes[p].ws \in Elements(order) /\ p \in PanesOf(panes[p].ws)
  BY PlacedParts DEF PanesOf
<1>3. Layouts'
  BY <1>1, <1>2 DEF Layouts, PanesOf, SplitsOf
<1>4. Ordering'
  BY DEF Ordering
<1>5. tabs' \in [DOMAIN tabs -> TabSet]
  BY DEF Running
<1> QED BY <1>3, <1>4, <1>5, PlacedKept, SortedKept, ShownReadKept, SourcesKept, RunningKept
        DEF SamePlaces

LEMMA MoveWorkspaceStep ==
    ASSUME IInv, NEW w \in Elements(order), NEW before \in Elements(order) \cup {NoId},
           MoveWorkspace(w, before)
    PROVE  IInv'
<1> USE DEF IInv
<1> DEFINE rest == RemoveAt(order, Position(order, w))
           at == IF before = NoId THEN Len(rest) + 1 ELSE Position(rest, before)
<1>1. order \in Seq(Ids) /\ Distinct(order) /\ w \in Ids
  BY SeqParts DEF Ordering
<1>2. rest \in Seq(Ids) /\ Distinct(rest) /\ Elements(rest) = Elements(order) \ {w}
  BY <1>1, RemoveAtElements
<1>3. before # w /\ order' = InsertAt(rest, at, w)
  BY DEF MoveWorkspace
<1> HIDE DEF rest
<1>4. at \in 1 .. Len(rest) + 1
  <2>1. CASE before = NoId
    BY <1>2, <2>1
  <2>2. CASE before # NoId
    <3>1. before \in Elements(rest)
      BY <1>2, <1>3, <2>2
    <3>2. Position(rest, before) \in DOMAIN rest
      BY <3>1 DEF Position, Elements
    <3> QED BY <1>2, <2>2, <3>2
  <2> QED BY <2>1, <2>2
<1> HIDE DEF at
<1>5. order' \in Seq(Ids) /\ Distinct(order') /\ Elements(order') = Elements(rest) \cup {w}
  BY <1>1, <1>2, <1>3, <1>4, InsertAtElements
<1>6. Elements(order') = Elements(order)
  BY <1>2, <1>5
<1>7. Ordering'
  <2>1. order # <<>> /\ order' # <<>>
    BY <1>1, <1>5, <1>6, SeqParts
  <2> QED BY <1>5, <1>6, <2>1 DEF Ordering, MoveWorkspace
<1>8. tabs' \in [DOMAIN tabs -> TabSet]
  BY DEF Running, MoveWorkspace
<1> QED BY <1>6, <1>7, <1>8, LayoutsKept, PlacedKept, SortedKept, ShownReadKept, SourcesKept, RunningKept
        DEF MoveWorkspace, SamePlaces
-----------------------------------------------------------------------------
(* Shells and the tabs they belong to. *)

\* Of the shells left alone by a kill each belongs to a tab that stays.
LEMMA KillAllLeaves ==
    ASSUME Running, NEW S
    PROVE  /\ KillAll(S) \in [DOMAIN shells -> ShellSet]
           /\ \A u \in DOMAIN tabs \ S : tabs[u].session # NoId =>
                 /\ tabs[u].session \in DOMAIN shells
                 /\ ~KillAll(S)[tabs[u].session].killed
                 /\ KillAll(S)[tabs[u].session].history = u
           /\ \A s \in DOMAIN shells : ~KillAll(S)[s].killed =>
                 /\ KillAll(S)[s].history \in Terminals \ S
                 /\ tabs[KillAll(S)[s].history].session = s
<1>1. shells \in [DOMAIN shells -> ShellSet]
  BY DEF Running
<1> DEFINE k == KillAll(S)
<1>2. /\ k \in [DOMAIN shells -> ShellSet]
      /\ \A s \in DOMAIN shells :
            /\ k[s].history = shells[s].history
            /\ k[s].killed = (shells[s].killed \/ \E t \in S \cap Terminals : tabs[t].session = s)
  BY <1>1, KillAllParts
<1> HIDE DEF k
<1>3. ASSUME NEW u \in DOMAIN tabs \ S, tabs[u].session # NoId
      PROVE  /\ tabs[u].session \in DOMAIN shells
             /\ ~k[tabs[u].session].killed
             /\ k[tabs[u].session].history = u
  <2>1. ASSUME NEW t \in S \cap Terminals, tabs[t].session = tabs[u].session PROVE FALSE
    BY <1>3, <2>1 DEF Running, Terminals
  <2> QED BY <1>2, <1>3, <2>1 DEF Running
<1>4. ASSUME NEW s \in DOMAIN shells, ~k[s].killed
      PROVE  k[s].history \in Terminals \ S /\ tabs[k[s].history].session = s
  <2>1. ~shells[s].killed /\ ~\E t \in S \cap Terminals : tabs[t].session = s
    BY <1>2, <1>4
  <2>2. shells[s].history \in Terminals /\ tabs[shells[s].history].session = s
    BY <2>1 DEF Running
  <2> QED BY <1>2, <2>1, <2>2
<1> QED BY <1>2, <1>3, <1>4 DEF k

\* The tabs of S go and their shells are asked to end.
LEMMA RetireTabsStep ==
    ASSUME Running, NEW S, RetireTabs(S), UNCHANGED <<started, nextSession>>,
           DOMAIN tabs' = DOMAIN tabs \ S, tabs' \in [DOMAIN tabs' -> TabSet],
           \A t \in DOMAIN tabs' : tabs'[t].kind = tabs[t].kind /\ tabs'[t].session = tabs[t].session
    PROVE  Running'
<1> DEFINE k == KillAll(S)
<1>1. shells' = k
  BY DEF RetireTabs
<1>2. /\ k \in [DOMAIN shells -> ShellSet]
      /\ \A u \in DOMAIN tabs \ S : tabs[u].session # NoId =>
            tabs[u].session \in DOMAIN shells /\ ~k[tabs[u].session].killed /\ k[tabs[u].session].history = u
      /\ \A s \in DOMAIN shells : ~k[s].killed =>
            k[s].history \in Terminals \ S /\ tabs[k[s].history].session = s
  BY KillAllLeaves
<1> HIDE DEF k
<1>3. Terminals' = Terminals \ S
  BY DEF Terminals
<1>4. DOMAIN shells' = DOMAIN shells
  BY <1>1, <1>2
<1>5. Terminals \subseteq DOMAIN tabs
  BY DEF Terminals
<1> QED BY <1>1, <1>2, <1>3, <1>4, <1>5 DEF Running

\* A tab is made, the shell of a terminal with it.
LEMMA PrepareTabStep ==
    ASSUME Running, NEW kind, NEW id \in Ids, id \notin DOMAIN tabs,
           PrepareTab(kind, id, id), UNCHANGED started
    PROVE  /\ Running'
           /\ DOMAIN tabs' = DOMAIN tabs \cup {id}
           /\ \A t \in DOMAIN tabs : tabs'[t] = tabs[t]
           /\ ~tabs'[id].unread
           /\ Terminals \subseteq Terminals'
<1> DEFINE new == TabValue(kind, IF kind = "terminal" THEN nextSession ELSE NoId)
<1>1. tabs' = With(tabs, id, new) /\ kind \in TabKinds
  BY DEF PrepareTab
<1>2. /\ DOMAIN tabs' = DOMAIN tabs \cup {id} /\ tabs'[id] = new
      /\ \A t \in DOMAIN tabs : tabs'[t] = tabs[t]
  <2> HIDE DEF new
  <2>1. \A t \in DOMAIN tabs : t # id
    OBVIOUS
  <2>2. /\ DOMAIN With(tabs, id, new) = DOMAIN tabs \cup {id} /\ With(tabs, id, new)[id] = new
        /\ \A t \in DOMAIN tabs : t # id => With(tabs, id, new)[t] = tabs[t]
    BY DEF With
  <2> QED BY <1>1, <2>1, <2>2
<1>3. /\ new.kind = kind /\ new.unread = FALSE
      /\ new.session = IF kind = "terminal" THEN nextSession ELSE NoId
  BY DEF TabValue
<1>4. kind = "terminal" => nextSession \in Sessions
  BY DEF PrepareTab, SpawnFor
<1>5. new \in TabSet
  BY <1>1, <1>4 DEF TabValue, TabSet, TabKinds
<1>6. tabs' \in [DOMAIN tabs' -> TabSet]
  <2>1. \A t \in DOMAIN tabs' : tabs'[t] \in TabSet
    BY <1>2, <1>5 DEF Running
  <2>2. tabs' = [t \in DOMAIN tabs' |-> tabs'[t]]
    BY <1>1 DEF With
  <2> QED BY <2>1, <2>2
<1> HIDE DEF new
<1>7. Terminals \subseteq Terminals' /\ DOMAIN tabs' \ Terminals' \subseteq (DOMAIN tabs \ Terminals) \cup {id}
  BY <1>2 DEF Terminals
<1>8. CASE kind = "terminal"
  <2> DEFINE sh == [history |-> id, killed |-> FALSE]
  <2>1. /\ nextSession \in Sessions /\ nextSession' = nextSession + 1
        /\ shells' = With(shells, nextSession, sh)
    BY <1>8 DEF PrepareTab, SpawnFor
  <2>2. sh \in ShellSet /\ sh.history = id /\ sh.killed = FALSE
    BY DEF ShellSet
  <2> HIDE DEF sh
  <2>3. nextSession \notin DOMAIN shells /\ nextSession # NoId
    BY <2>1, Constants DEF Running, Sessions
  <2>4. /\ DOMAIN shells' = DOMAIN shells \cup {nextSession} /\ shells'[nextSession] = sh
        /\ \A s \in DOMAIN shells : shells'[s] = shells[s]
    <3>1. \A s \in DOMAIN shells : s # nextSession
      BY <2>3
    <3>2. /\ DOMAIN With(shells, nextSession, sh) = DOMAIN shells \cup {nextSession}
          /\ With(shells, nextSession, sh)[nextSession] = sh
          /\ \A s \in DOMAIN shells : s # nextSession => With(shells, nextSession, sh)[s] = shells[s]
      BY DEF With
    <3> QED BY <2>1, <3>1, <3>2
  <2>5. shells' \in [DOMAIN shells' -> ShellSet]
    <3>1. \A s \in DOMAIN shells' : shells'[s] \in ShellSet
      BY <2>2, <2>4 DEF Running
    <3>2. shells' = [s \in DOMAIN shells' |-> shells'[s]]
      BY <2>1 DEF With
    <3> QED BY <3>1, <3>2
  <2>6. nextSession' \in 1 .. MaxSession + 1 /\ DOMAIN shells' \subseteq 1 .. nextSession' - 1
    BY <2>1, <2>4, Constants DEF Running, Sessions
  <2>7. id \in Terminals' /\ tabs'[id].session = nextSession
    BY <1>2, <1>3, <1>8 DEF Terminals
  <2>8. \A t \in DOMAIN tabs' \ Terminals' : tabs'[t].session = NoId
    BY <1>2, <1>7, <2>7 DEF Running
  <2>9. ASSUME NEW t \in DOMAIN tabs', tabs'[t].session # NoId
        PROVE  /\ tabs'[t].session \in DOMAIN shells' /\ ~shells'[tabs'[t].session].killed
               /\ shells'[tabs'[t].session].history = t
    BY <1>2, <2>2, <2>4, <2>7, <2>9 DEF Running
  <2>10. ASSUME NEW s \in DOMAIN shells', ~shells'[s].killed
         PROVE  shells'[s].history \in Terminals' /\ tabs'[shells'[s].history].session = s
    <3>1. CASE s = nextSession
      BY <2>2, <2>4, <2>7, <3>1
    <3>2. CASE s \in DOMAIN shells
      BY <1>2, <1>7, <2>4, <2>10, <3>2 DEF Running, Terminals
    <3> QED BY <2>4, <3>1, <3>2
  <2> QED BY <1>2, <1>3, <1>6, <1>7, <2>5, <2>6, <2>8, <2>9, <2>10 DEF Running
<1>9. CASE kind # "terminal"
  <2>1. UNCHANGED <<nextSession, shells>> /\ tabs'[id].session = NoId
    BY <1>2, <1>3, <1>9 DEF PrepareTab
  <2>2. \A s \in DOMAIN shells : ~shells[s].killed =>
           shells[s].history \in Terminals' /\ tabs'[shells[s].history].session = s
    BY <1>2, <1>7 DEF Running, Terminals
  <2> QED BY <1>2, <1>3, <1>6, <1>7, <2>1, <2>2 DEF Running
<1> QED BY <1>8, <1>9
-----------------------------------------------------------------------------
(* Steps that leave the places of tabs as they are. *)

LEMMA RespawnFailsStep ==
    ASSUME IInv, NEW t \in DOMAIN tabs, RespawnFails(t)
    PROVE  IInv'
<1> DEFINE k == KillAll({t})
<1>1. /\ tabs' = [tabs EXCEPT ![t].session = NoId, ![t].status = "exited"]
      /\ shells' = k
      /\ UNCHANGED <<order, activeWs, nextId, layout, panes, activePane, agent, started, nextSession>>
  BY DEF RespawnFails, RetireTabs
<1>2. \A u \in DOMAIN tabs : tabs[u] \in TabSet
  BY DEF IInv, Running
<1>3. /\ DOMAIN tabs' = DOMAIN tabs
      /\ \A u \in DOMAIN tabs \ {t} : tabs'[u] = tabs[u]
      /\ tabs'[t] \in TabSet /\ tabs'[t].kind = tabs[t].kind /\ tabs'[t].unread = tabs[t].unread
      /\ tabs'[t].session = NoId
  <2>1. tabs'[t] = [tabs[t] EXCEPT !.session = NoId, !.status = "exited"]
    BY <1>1
  <2>2. NoId \in Sessions \cup {NoId} /\ "exited" \in {"none", "running", "notStarted", "exited"}
    OBVIOUS
  <2>3. DOMAIN tabs' = DOMAIN tabs /\ \A u \in DOMAIN tabs \ {t} : tabs'[u] = tabs[u]
    BY <1>1
  <2>4. tabs[t] \in TabSet
    BY <1>2
  <2>5. tabs'[t] \in TabSet /\ tabs'[t].kind = tabs[t].kind /\ tabs'[t].unread = tabs[t].unread
    BY <2>1, <2>2, <2>4 DEF TabSet
  <2>6. tabs'[t].session = NoId
    BY <2>1, <2>4 DEF TabSet
  <2> QED BY <2>3, <2>5, <2>6
<1>4. tabs' \in [DOMAIN tabs -> TabSet]
  <2>1. \A u \in DOMAIN tabs : tabs'[u] \in TabSet
    BY <1>2, <1>3
  <2> QED BY <1>1, <2>1
<1>5. Running'
  <2>1. /\ k \in [DOMAIN shells -> ShellSet]
        /\ \A u \in DOMAIN tabs \ {t} : tabs[u].session # NoId =>
              tabs[u].session \in DOMAIN shells /\ ~k[tabs[u].session].killed /\ k[tabs[u].session].history = u
        /\ \A s \in DOMAIN shells : ~k[s].killed =>
              k[s].history \in Terminals \ {t} /\ tabs[k[s].history].session = s
    BY KillAllLeaves DEF IInv
  <2> HIDE DEF k
  <2>2. Terminals' = Terminals /\ Terminals \subseteq DOMAIN tabs
    BY <1>3 DEF Terminals
  <2> QED BY <1>1, <1>3, <1>4, <2>1, <2>2 DEF IInv, Running
<1>6. \A u \in DOMAIN tabs : tabs'[u].kind = tabs[u].kind /\ (tabs'[u].unread => tabs[u].unread)
  BY <1>3
<1> QED BY <1>1, <1>3, <1>5, <1>6, StructureKept, ShownReadKept, SourcesKept DEF IInv, SamePlaces

LEMMA RespawnTabStep ==
    ASSUME IInv, NEW t \in DOMAIN tabs, RespawnTab(t)
    PROVE  IInv'
<1> DEFINE k == KillAll({t})
           sh == [history |-> t, killed |-> FALSE]
<1>1. /\ tabs' = [tabs EXCEPT ![t].session = nextSession, ![t].status = "running"]
      /\ shells' = With(k, nextSession, sh)
      /\ UNCHANGED <<order, activeWs, nextId, layout, panes, activePane, agent, started>>
      /\ nextSession \in Sessions /\ nextSession' = nextSession + 1
      /\ t \in Terminals
  BY DEF RespawnTab, Respawnable, ToRestore
<1>2. \A u \in DOMAIN tabs : tabs[u] \in TabSet
  BY DEF IInv, Running
<1>3. /\ DOMAIN tabs' = DOMAIN tabs
      /\ \A u \in DOMAIN tabs \ {t} : tabs'[u] = tabs[u]
      /\ tabs'[t] \in TabSet /\ tabs'[t].kind = tabs[t].kind /\ tabs'[t].unread = tabs[t].unread
      /\ tabs'[t].session = nextSession
  <2>1. tabs'[t] = [tabs[t] EXCEPT !.session = nextSession, !.status = "running"]
    BY <1>1
  <2>2. nextSession \in Sessions \cup {NoId} /\ "running" \in {"none", "running", "notStarted", "exited"}
    BY <1>1
  <2>3. DOMAIN tabs' = DOMAIN tabs /\ \A u \in DOMAIN tabs \ {t} : tabs'[u] = tabs[u]
    BY <1>1
  <2>4. tabs[t] \in TabSet
    BY <1>2
  <2>5. tabs'[t] \in TabSet /\ tabs'[t].kind = tabs[t].kind /\ tabs'[t].unread = tabs[t].unread
    BY <2>1, <2>2, <2>4 DEF TabSet
  <2>6. tabs'[t].session = nextSession
    BY <2>1, <2>4 DEF TabSet
  <2> QED BY <2>3, <2>5, <2>6
<1>4. tabs' \in [DOMAIN tabs -> TabSet]
  <2>1. \A u \in DOMAIN tabs : tabs'[u] \in TabSet
    BY <1>2, <1>3
  <2> QED BY <1>1, <2>1
<1>5. Running'
  <2>1. /\ k \in [DOMAIN shells -> ShellSet]
        /\ \A u \in DOMAIN tabs \ {t} : tabs[u].session # NoId =>
              tabs[u].session \in DOMAIN shells /\ ~k[tabs[u].session].killed /\ k[tabs[u].session].history = u
        /\ \A s \in DOMAIN shells : ~k[s].killed =>
              k[s].history \in Terminals \ {t} /\ tabs[k[s].history].session = s
    BY KillAllLeaves DEF IInv
  <2> HIDE DEF k
  <2>2. Terminals' = Terminals /\ Terminals \subseteq DOMAIN tabs
    BY <1>3 DEF Terminals
  <2>3. t \in Ids
    BY InvariantTypes DEF TypeOK
  <2>4. sh \in ShellSet /\ sh.history = t /\ sh.killed = FALSE
    BY <2>3 DEF ShellSet
  <2> HIDE DEF sh
  <2>5. nextSession \notin DOMAIN shells /\ nextSession # NoId
    BY <1>1, Constants DEF IInv, Running, Sessions
  <2>6. /\ DOMAIN shells' = DOMAIN shells \cup {nextSession} /\ shells'[nextSession] = sh
        /\ \A s \in DOMAIN shells : shells'[s] = k[s]
    BY <1>1, <2>1, <2>5 DEF With
  <2>7. shells' \in [DOMAIN shells' -> ShellSet]
    <3>1. \A s \in DOMAIN shells' : shells'[s] \in ShellSet
      BY <2>1, <2>4, <2>6
    <3>2. shells' = [s \in DOMAIN shells' |-> shells'[s]]
      BY <1>1 DEF With
    <3> QED BY <3>1, <3>2
  <2>8. nextSession' \in 1 .. MaxSession + 1 /\ DOMAIN shells' \subseteq 1 .. nextSession' - 1
    BY <1>1, <2>6, Constants DEF IInv, Running, Sessions
  <2>9. \A u \in DOMAIN tabs \ Terminals : tabs'[u].session = NoId
    BY <1>1, <1>3 DEF IInv, Running
  <2>10. ASSUME NEW u \in DOMAIN tabs, tabs'[u].session # NoId
         PROVE  /\ tabs'[u].session \in DOMAIN shells' /\ ~shells'[tabs'[u].session].killed
                /\ shells'[tabs'[u].session].history = u
    BY <1>3, <2>1, <2>4, <2>6, <2>10
  <2>11. ASSUME NEW s \in DOMAIN shells', ~shells'[s].killed
         PROVE  shells'[s].history \in Terminals /\ tabs'[shells'[s].history].session = s
    <3>1. CASE s = nextSession
      BY <1>1, <1>3, <2>4, <2>6, <3>1
    <3>2. CASE s \in DOMAIN shells
      BY <1>3, <2>1, <2>2, <2>6, <2>11, <3>2
    <3> QED BY <2>6, <3>1, <3>2
  <2> QED BY <1>1, <1>3, <1>4, <2>2, <2>7, <2>8, <2>9, <2>10, <2>11 DEF IInv, Running
<1>6. \A u \in DOMAIN tabs : tabs'[u].kind = tabs[u].kind /\ (tabs'[u].unread => tabs[u].unread)
  BY <1>3
<1> QED BY <1>1, <1>3, <1>5, <1>6, StructureKept, ShownReadKept, SourcesKept DEF IInv, SamePlaces

LEMMA SessionExitedStep ==
    ASSUME IInv, NEW s, SessionExited(s)
    PROVE  IInv'
<1>1. /\ s \in DOMAIN shells /\ started' = started \ {s}
      /\ shells' = Only(shells, DOMAIN shells \ {s})
      /\ tabs' = [t \in DOMAIN tabs |->
                    IF t \in Locate(s) THEN [tabs[t] EXCEPT !.session = NoId, !.status = "exited"]
                    ELSE tabs[t]]
      /\ agent' = [w \in DOMAIN agent |->
                     IF agent[w].source \in Locate(s)
                     THEN [status |-> "idle", source |-> NoId] ELSE agent[w]]
      /\ UNCHANGED <<order, activeWs, nextId, layout, panes, activePane, nextSession>>
  BY DEF SessionExited
<1>2. \A t : t \in Locate(s) <=> t \in Terminals /\ tabs[t].session = s
  BY DEF Locate
<1>3. DOMAIN tabs' = DOMAIN tabs
  BY <1>1
<1>4. ASSUME NEW t \in DOMAIN tabs
      PROVE  /\ tabs'[t] \in TabSet /\ tabs'[t].kind = tabs[t].kind /\ tabs'[t].unread = tabs[t].unread
             /\ tabs'[t].session = IF t \in Locate(s) THEN NoId ELSE tabs[t].session
  <2>1. tabs[t] \in TabSet
    BY DEF IInv, Running
  <2>2. CASE t \in Locate(s)
    <3>1. tabs'[t] = [tabs[t] EXCEPT !.session = NoId, !.status = "exited"]
      BY <1>1, <2>2
    <3>2. NoId \in Sessions \cup {NoId} /\ "exited" \in {"none", "running", "notStarted", "exited"}
      OBVIOUS
    <3>3. tabs'[t] \in TabSet /\ tabs'[t].kind = tabs[t].kind /\ tabs'[t].unread = tabs[t].unread
      BY <2>1, <3>1, <3>2 DEF TabSet
    <3>4. tabs'[t].session = NoId
      BY <2>1, <3>1 DEF TabSet
    <3> QED BY <2>2, <3>3, <3>4
  <2>3. CASE t \notin Locate(s)
    BY <1>1, <2>1, <2>3
  <2> QED BY <2>2, <2>3
<1>5. Terminals' = Terminals /\ Terminals \subseteq DOMAIN tabs
  BY <1>3, <1>4 DEF Terminals
<1>6. tabs' \in [DOMAIN tabs -> TabSet]
  BY <1>1, <1>4
<1>7. DOMAIN shells' = DOMAIN shells \ {s} /\ \A r \in DOMAIN shells \ {s} : shells'[r] = shells[r]
  BY <1>1 DEF Only
<1>8. shells' \in [DOMAIN shells' -> ShellSet]
  <2>1. shells' = [r \in DOMAIN shells' |-> shells'[r]]
    BY <1>1 DEF Only
  <2>2. \A r \in DOMAIN shells' : shells'[r] \in ShellSet
    BY <1>7, SMTT(60) DEF IInv, Running
  <2> QED BY <2>1, <2>2
<1>9. Running'
  <2>1. ASSUME NEW t \in DOMAIN tabs, tabs'[t].session # NoId
        PROVE  /\ tabs'[t].session \in DOMAIN shells' /\ ~shells'[tabs'[t].session].killed
               /\ shells'[tabs'[t].session].history = t
    <3>1. tabs'[t].session = tabs[t].session /\ t \notin Locate(s)
      BY <1>4, <2>1
    <3>2. t \in Terminals
      BY <2>1, <3>1 DEF IInv, Running
    <3>3. tabs[t].session # s
      BY <1>2, <3>1, <3>2
    <3> QED BY <1>7, <2>1, <3>1, <3>3 DEF IInv, Running
  <2>2. ASSUME NEW r \in DOMAIN shells', ~shells'[r].killed
        PROVE  shells'[r].history \in Terminals /\ tabs'[shells'[r].history].session = r
    <3>1. r \in DOMAIN shells /\ r # s /\ ~shells[r].killed /\ shells'[r] = shells[r]
      BY <1>7, <2>2
    <3>2. shells[r].history \in Terminals /\ tabs[shells[r].history].session = r
      BY <3>1 DEF IInv, Running
    <3> QED BY <1>2, <1>4, <1>5, <3>1, <3>2
  <2>3. \A t \in DOMAIN tabs \ Terminals : tabs'[t].session = NoId
    BY <1>4 DEF IInv, Running
  <2> QED BY <1>1, <1>3, <1>5, <1>6, <1>7, <1>8, <2>1, <2>2, <2>3 DEF IInv, Running
<1>10. Sources'
  <2>1. /\ \A w : PanesOf(w)' = PanesOf(w)
        /\ \A p : TabsOf(p)' = TabsOf(p)
    BY <1>1 DEF PanesOf, TabsOf
  <2>2. DOMAIN agent = Elements(order) /\ \A w \in Elements(order) : agent[w] \in AgentSet
    BY DEF IInv, Sources
  <2> DEFINE none == [status |-> "idle", source |-> NoId]
  <2>3. none \in AgentSet /\ none.status = "idle" /\ none.source = NoId
    BY DEF AgentSet
  <2>4. agent' = [w \in Elements(order) |-> IF agent[w].source \in Locate(s) THEN none ELSE agent[w]]
    BY <1>1, <2>2
  <2> HIDE DEF none
  <2>5. \A w \in Elements(order) : agent'[w] = agent[w] \/ agent'[w] = none
    BY <2>4
  <2>6. agent' \in [Elements(order) -> AgentSet]
    BY <2>2, <2>3, <2>4
  <2> QED BY <1>1, <1>5, <2>1, <2>3, <2>5, <2>6 DEF IInv, Sources
<1>11. \A t \in DOMAIN tabs : tabs'[t].unread => tabs[t].unread
  BY <1>4
<1> QED BY <1>1, <1>3, <1>9, <1>10, <1>11, StructureKept, ShownReadKept DEF IInv

LEMMA SessionStartupTimeoutStep ==
    ASSUME IInv, NEW s, SessionStartupTimeout(s)
    PROVE  IInv'
<1>1. PICK t \in Locate(s) : tabs' = [tabs EXCEPT ![t].status = "notStarted"]
  BY DEF SessionStartupTimeout
<1>2. UNCHANGED <<order, activeWs, nextId, layout, panes, activePane, agent, hostVars>>
  BY DEF SessionStartupTimeout
<1>3. t \in DOMAIN tabs /\ tabs[t] \in TabSet
  BY DEF Locate, Terminals, IInv, Running
<1>4. /\ DOMAIN tabs' = DOMAIN tabs
      /\ \A u \in DOMAIN tabs \ {t} : tabs'[u] = tabs[u]
      /\ tabs'[t] = [tabs[t] EXCEPT !.status = "notStarted"]
  BY <1>1, <1>3
<1>5. /\ tabs'[t] \in TabSet /\ tabs'[t].kind = tabs[t].kind /\ tabs'[t].unread = tabs[t].unread
      /\ tabs'[t].session = tabs[t].session
  BY <1>3, <1>4 DEF TabSet
<1>6. tabs' \in [DOMAIN tabs -> TabSet]
  <2>1. \A u \in DOMAIN tabs : tabs'[u] \in TabSet
    BY <1>4, <1>5 DEF IInv, Running
  <2> QED BY <1>1, <2>1
<1>7. \A u \in DOMAIN tabs : /\ tabs'[u].kind = tabs[u].kind /\ tabs'[u].session = tabs[u].session
                             /\ tabs'[u].unread => tabs[u].unread
  BY <1>4, <1>5
<1> QED BY <1>2, <1>4, <1>6, <1>7, StructureKept, ShownReadKept, SourcesKept, RunningKept
        DEF IInv, SamePlaces

\* What a report sets is a status, and its source the tab that reports.
LEMMA AgentAfterParts ==
    ASSUME NEW a \in AgentSet, NEW t \in Ids, NEW d \in Deltas
    PROVE  /\ AgentAfter(a, t, d.status) \in AgentSet
           /\ \/ AgentAfter(a, t, d.status) = a
              \/ AgentAfter(a, t, d.status).source = t
<1>1. d.status \in {"same", "running", "needsInput", "idle"}
  BY DEF Deltas, Quiet
<1>2. CASE AgentAfter(a, t, d.status) = a
  BY <1>2
<1>3. CASE /\ AgentAfter(a, t, d.status) = [status |-> d.status, source |-> t]
           /\ d.status # "same"
  BY <1>1, <1>3 DEF AgentSet
<1> QED BY <1>2, <1>3 DEF AgentAfter

LEMMA ApplyOscStep ==
    ASSUME IInv, NEW s \in 1 .. nextSession - 1, NEW d \in Deltas, ApplyOsc(s, d)
    PROVE  IInv'
<1>1. /\ started' = IF d.started THEN started \cup {s} ELSE started
      /\ UNCHANGED <<order, activeWs, nextId, layout, panes, activePane, nextSession, shells>>
  BY DEF ApplyOsc
<1>2. started' \subseteq Sessions
  <2>1. s \in Sessions
    BY Constants DEF IInv, Running, Sessions
  <2> QED BY <1>1, <2>1 DEF IInv, Running
<1>3. CASE UNCHANGED <<tabs, agent>>
  <2>1. Running'
    BY <1>1, <1>2, <1>3 DEF IInv, Running, Terminals
  <2> QED BY <1>1, <1>3, <2>1, StructureKept, ShownReadKept, SourcesKept DEF IInv, SamePlaces
<1>4. ASSUME NEW t \in Locate(s), tabs' = [tabs EXCEPT ![t] = TabAfter(t, d)],
             agent' = [agent EXCEPT ![WsOf(t)] = AgentAfter(@, t, d.status)]
      PROVE  IInv'
  <2>1. t \in Terminals /\ t \in DOMAIN tabs /\ tabs[t] \in TabSet /\ t \in Ids
    BY InvariantTypes DEF Locate, Terminals, IInv, Running, TypeOK
  <2>2. /\ PaneOf(t) \in DOMAIN panes /\ t \in TabsOf(PaneOf(t))
        /\ \A q \in DOMAIN panes : t \in TabsOf(q) => q = PaneOf(t)
    BY <2>1, PaneOfTab DEF IInv
  <2>3. WsOf(t) \in Elements(order) /\ PaneOf(t) \in PanesOf(WsOf(t))
    BY <2>2, PlacedParts DEF WsOf, PanesOf, IInv
  <2>4. DOMAIN tabs' = DOMAIN tabs /\ \A u \in DOMAIN tabs : tabs'[u] = IF u = t THEN TabAfter(t, d) ELSE tabs[u]
    BY <1>4, <2>1
  <2>5. d.unread \in BOOLEAN
    BY DEF Deltas, Quiet
  <2>6. TabAfter(t, d) \in TabSet /\ TabAfter(t, d).kind = tabs[t].kind /\ TabAfter(t, d).session = tabs[t].session
    BY <2>1, <2>5 DEF TabAfter, TabSet
  <2>7. Visible(t) /\ TabAfter(t, d).unread => tabs[t].unread
    BY <2>1 DEF TabAfter, TabSet
  <2>8. tabs' \in [DOMAIN tabs -> TabSet]
    <3>1. \A u \in DOMAIN tabs : tabs'[u] \in TabSet
      BY <2>4, <2>6 DEF IInv, Running
    <3> QED BY <1>4, <3>1
  <2>9. \A u \in DOMAIN tabs : tabs'[u].kind = tabs[u].kind /\ tabs'[u].session = tabs[u].session
    BY <2>4, <2>6
  <2>10. Terminals' = Terminals
    BY <2>4, <2>9 DEF Terminals
  <2>11. Running'
    BY <1>1, <1>2, <2>8, <2>9, ShellsKept DEF IInv
  <2>12. ShownRead'
    <3> SUFFICES ASSUME NEW p \in DOMAIN panes, panes[p].ws = activeWs, panes[p].active # NoId
                 PROVE  ~tabs'[panes[p].active].unread
      BY <1>1 DEF ShownRead
    <3>1. panes[p].active \in TabsOf(p) /\ TabsOf(p) \subseteq DOMAIN tabs
      BY PlacedParts DEF IInv
    <3>2. ~tabs[panes[p].active].unread
      BY DEF IInv, ShownRead
    <3>3. CASE panes[p].active = t
      <4>1. p = PaneOf(t)
        BY <2>2, <3>1, <3>3
      <4>2. Visible(t)
        BY <3>3, <4>1 DEF Visible, WsOf
      <4> QED BY <2>1, <2>4, <2>7, <3>2, <3>3, <4>2
    <3>4. CASE panes[p].active # t
      BY <2>4, <3>1, <3>2, <3>4
    <3> QED BY <3>3, <3>4
  <2>13. Sources'
    <3>1. /\ \A w : PanesOf(w)' = PanesOf(w)
          /\ \A p : TabsOf(p)' = TabsOf(p)
      BY <1>1 DEF PanesOf, TabsOf
    <3>2. agent \in [Elements(order) -> AgentSet]
      BY DEF IInv, Sources
    <3> DEFINE a == AgentAfter(agent[WsOf(t)], t, d.status)
    <3>3. a \in AgentSet /\ (a = agent[WsOf(t)] \/ a.source = t)
      BY <2>1, <2>3, <3>2, AgentAfterParts
    <3>4. agent' = [agent EXCEPT ![WsOf(t)] = a]
      BY <1>4
    <3> HIDE DEF a
    <3>5. /\ agent' \in [Elements(order) -> AgentSet]
          /\ \A w \in Elements(order) : agent'[w] = IF w = WsOf(t) THEN a ELSE agent[w]
      BY <2>3, <3>2, <3>3, <3>4
    <3>6. t # NoId
      BY <2>1, Constants
    <3>7. ASSUME NEW w \in Elements(order)
          PROVE  /\ agent'[w].status # "idle" => agent'[w].source # NoId
                 /\ agent'[w].source # NoId =>
                       agent'[w].source \in Terminals /\ \E p \in PanesOf(w) : agent'[w].source \in TabsOf(p)
      <4>1. CASE agent'[w] = agent[w]
        BY <4>1 DEF IInv, Sources
      <4>2. CASE w = WsOf(t) /\ agent'[w].source = t
        BY <2>1, <2>2, <2>3, <3>6, <4>2
      <4> QED BY <3>3, <3>5, <4>1, <4>2
    <3> QED BY <1>1, <2>10, <3>1, <3>5, <3>7 DEF Sources
  <2> QED BY <1>1, <2>4, <2>11, <2>12, <2>13, StructureKept DEF IInv
<1> QED BY <1>3, <1>4 DEF ApplyOsc
-----------------------------------------------------------------------------
(* Steps that make a workspace, a pane or a tab. *)

\* The tabs a new pane gets: their ids follow those of the two other things
\* the command makes.
NewTabs(s) ==
    /\ s \in Seq(Ids) /\ Distinct(s)
    /\ Elements(s) \subseteq nextId + 2 .. nextId' - 1
    /\ nextId' \in nextId + 2 .. MaxId + 1
    /\ DOMAIN tabs' = DOMAIN tabs \cup Elements(s)
    /\ \A t \in DOMAIN tabs : tabs'[t] = tabs[t]
    /\ \A t \in Elements(s) : ~tabs'[t].unread

LEMMA NoNewTab ==
    ASSUME IInv, nextId + 1 <= MaxId, nextId' = nextId + 2,
           UNCHANGED <<tabs, started, nextSession, shells>>
    PROVE  NewTabs(<<>>) /\ Running'
<1>1. nextId' \in nextId + 2 .. MaxId + 1
  BY Constants DEF IInv, Ordering
<1>2. Running'
  BY DEF IInv, Running, Terminals
<1> QED BY <1>1, <1>2, NoElement DEF NewTabs

LEMMA OneNewTab ==
    ASSUME IInv, NEW kind, nextId + 2 <= MaxId, PrepareTab(kind, PeekId(2), nextId + 2),
           nextId' = nextId + 3, UNCHANGED started
    PROVE  NewTabs(<<nextId + 2>>) /\ Running'
<1> DEFINE id == nextId + 2
<1>1. nextId \in Nat /\ nextId >= 1 /\ id \in Ids /\ id \notin 1 .. nextId - 1
  BY Constants DEF IInv, Ordering, Ids
<1>2. id \notin DOMAIN tabs /\ PrepareTab(kind, id, id)
  BY <1>1 DEF IInv, Sorted, PeekId
<1> DEFINE s == <<id>>
<1>3. s \in Seq(Ids) /\ Elements(s) = {id} /\ Distinct(s)
  BY <1>1, OneElement
<1>4. id \in nextId + 2 .. nextId' - 1 /\ nextId' \in nextId + 2 .. MaxId + 1
  BY <1>1, Constants
<1> HIDE DEF id, s
<1>5. /\ Running'
      /\ DOMAIN tabs' = DOMAIN tabs \cup {id}
      /\ \A t \in DOMAIN tabs : tabs'[t] = tabs[t]
      /\ ~tabs'[id].unread
  BY <1>1, <1>2, PrepareTabStep DEF IInv
<1>6. NewTabs(s)
  BY <1>3, <1>4, <1>5 DEF NewTabs
<1> QED BY <1>5, <1>6 DEF s, id

LEMMA NewPaneParts ==
    ASSUME NEW w \in Ids, NEW s \in Seq(Ids)
    PROVE  LET k == NewPane(w, s)
           IN  /\ k \in PaneSet /\ k.ws = w /\ k.tabs = s
               /\ IF s = <<>> THEN k.active = NoId ELSE k.active \in Elements(s)
<1>1. s # <<>> => s[1] \in Elements(s) /\ s[1] \in Ids
  BY SeqParts
<1> QED BY <1>1 DEF NewPane, PaneSet

\* Where the panes are after one is put in, and that the tabs are still
\* placed.
LEMMA PaneAdded ==
    ASSUME IInv, NEW p, NEW w \in Ids, NEW s, NewTabs(s), p \notin DOMAIN panes, p # NoId,
           panes' = With(panes, p, NewPane(w, s)),
           Elements(order) \subseteq Elements(order'), w \in Elements(order')
    PROVE  /\ DOMAIN panes' = DOMAIN panes \cup {p}
           /\ \A q \in DOMAIN panes : panes'[q] = panes[q]
           /\ panes'[p] = NewPane(w, s)
           /\ PanesOf(w)' = PanesOf(w) \cup {p}
           /\ \A v : v # w => PanesOf(v)' = PanesOf(v)
           /\ \A q \in DOMAIN panes : TabsOf(q)' = TabsOf(q)
           /\ TabsOf(p)' = Elements(s)
           /\ Placed'
<1>1. s \in Seq(Ids) /\ Distinct(s) /\ DOMAIN tabs' = DOMAIN tabs \cup Elements(s)
  BY DEF NewTabs
<1> DEFINE new == NewPane(w, s)
<1>2. /\ new \in PaneSet /\ new.ws = w /\ new.tabs = s
      /\ IF s = <<>> THEN new.active = NoId ELSE new.active \in Elements(s)
  BY <1>1, NewPaneParts
<1> HIDE DEF new
<1>3. \A q \in DOMAIN panes : q # p
  OBVIOUS
<1>4. /\ DOMAIN panes' = DOMAIN panes \cup {p} /\ panes'[p] = new
      /\ \A q \in DOMAIN panes : panes'[q] = panes[q]
  BY <1>3 DEF With, new
<1>5. PanesOf(w)' = PanesOf(w) \cup {p} /\ \A v : v # w => PanesOf(v)' = PanesOf(v)
  BY <1>2, <1>4 DEF PanesOf
<1>6. TabsOf(p)' = Elements(s) /\ \A q \in DOMAIN panes : TabsOf(q)' = TabsOf(q)
  BY <1>2, <1>4 DEF TabsOf
<1>7. Elements(s) \cap DOMAIN tabs = {}
  BY Constants DEF NewTabs, IInv, Sorted, Ordering
<1>8. \A q \in DOMAIN panes : TabsOf(q) \subseteq DOMAIN tabs
  BY PlacedParts DEF IInv
<1>9. Placed'
  <2>1. ASSUME NEW q \in DOMAIN panes'
        PROVE  /\ panes'[q] \in PaneSet /\ panes'[q].ws \in Elements(order')
               /\ Distinct(panes'[q].tabs)
               /\ IF panes'[q].tabs = <<>> THEN panes'[q].active = NoId ELSE panes'[q].active \in TabsOf(q)'
    <3>1. CASE q = p
      BY <1>1, <1>2, <1>4, <1>6, <3>1
    <3>2. CASE q \in DOMAIN panes
      BY <1>4, <1>6, <3>2 DEF IInv, Placed
    <3> QED BY <1>4, <3>1, <3>2
  <2>2. ASSUME NEW q \in DOMAIN panes', NEW r \in DOMAIN panes', q # r
        PROVE  TabsOf(q)' \cap TabsOf(r)' = {}
    <3>1. CASE q \in DOMAIN panes /\ r \in DOMAIN panes
      BY <1>6, <2>2, <3>1 DEF IInv, Placed
    <3>2. CASE q = p /\ r \in DOMAIN panes
      BY <1>6, <1>7, <1>8, <3>2
    <3>3. CASE q \in DOMAIN panes /\ r = p
      BY <1>6, <1>7, <1>8, <3>3
    <3> QED BY <1>4, <2>2, <3>1, <3>2, <3>3
  <2>3. \A t : t \in TabsIn(DOMAIN panes)' <=> \E q \in DOMAIN panes' : t \in TabsOf(q)'
    BY DEF TabsIn, TabsOf
  <2>4. \A t : t \in DOMAIN tabs <=> \E q \in DOMAIN panes : t \in TabsOf(q)
    BY TabsInParts DEF IInv, Placed
  <2>5. ASSUME NEW t
        PROVE  t \in DOMAIN tabs' <=> t \in TabsIn(DOMAIN panes)'
    <3>1. t \in DOMAIN tabs' <=> t \in TabsOf(p)' \/ \E q \in DOMAIN panes : t \in TabsOf(q)'
      BY <1>1, <1>6, <2>4
    <3> QED BY <1>4, <2>3, <3>1
  <2> QED BY <2>1, <2>2, <2>5 DEF Placed
<1> QED BY <1>4, <1>5, <1>6, <1>9 DEF new

LEMMA NextTwoIds ==
    ASSUME NEW n \in Nat, NEW m \in Nat, n >= 1, n + 2 <= m, m <= MaxId + 1
    PROVE  /\ n \in Ids /\ n + 1 \in Ids /\ n # n + 1 /\ n # NoId /\ n + 1 # NoId
           /\ n \notin 1 .. n - 1 /\ n + 1 \notin 1 .. n - 1
           /\ n \in 1 .. m - 1 /\ n + 1 \in 1 .. m - 1
           /\ 1 .. n - 1 \subseteq 1 .. m - 1
           /\ m \in 1 .. MaxId + 1
BY Constants DEF Ids, NoId

LEMMA TerminalsStay ==
    ASSUME NEW s, NewTabs(s)
    PROVE  Terminals \subseteq Terminals'
BY DEF NewTabs, Terminals

LEMMA InsertWorkspaceStep ==
    ASSUME IInv, NEW s, NewTabs(s), Running', InsertWorkspace(s)
    PROVE  IInv'
<1> DEFINE none == [status |-> "idle", source |-> NoId]
<1>0. PICK w, p : w = nextId /\ p = nextId + 1
  OBVIOUS
<1>1. /\ order' = Append(order, w) /\ layout' = With(layout, w, LeafTree(p))
      /\ panes' = With(panes, p, NewPane(w, s)) /\ activePane' = With(activePane, w, p)
      /\ agent' = With(agent, w, none) /\ activeWs' = w
  BY <1>0 DEF InsertWorkspace
<1>2. /\ nextId \in Nat /\ w \in Ids /\ p \in Ids /\ w # p /\ w # NoId /\ p # NoId
      /\ w \notin 1 .. nextId - 1 /\ p \notin 1 .. nextId - 1
      /\ w \in 1 .. nextId' - 1 /\ p \in 1 .. nextId' - 1
      /\ 1 .. nextId - 1 \subseteq 1 .. nextId' - 1
      /\ nextId' \in 1 .. MaxId + 1
  <2>1. /\ nextId \in Nat /\ nextId >= 1 /\ MaxId \in Nat
        /\ nextId' \in Nat /\ nextId + 2 <= nextId' /\ nextId' <= MaxId + 1
    BY Constants DEF IInv, Ordering, NewTabs
  <2> QED BY <1>0, <2>1, NextTwoIds
<1>3. Elements(s) \subseteq 1 .. nextId' - 1 /\ w \notin Elements(s) /\ p \notin Elements(s)
      /\ Elements(s) \cap 1 .. nextId - 1 = {}
  BY <1>0, <1>2 DEF NewTabs
<1> HIDE DEF none
<1>4. w \notin Elements(order) /\ p \notin DOMAIN panes /\ w \notin DOMAIN panes
  BY <1>2 DEF IInv, Sorted
<1>5. /\ order' \in Seq(Ids) /\ order' # <<>> /\ Distinct(order')
      /\ Elements(order') = Elements(order) \cup {w}
  BY <1>1, <1>2, <1>4, AppendElements DEF IInv, Ordering
<1>6. Ordering'
  BY <1>1, <1>2, <1>5 DEF Ordering
<1>7. /\ DOMAIN panes' = DOMAIN panes \cup {p}
      /\ \A q \in DOMAIN panes : panes'[q] = panes[q]
      /\ panes'[p] = NewPane(w, s)
      /\ PanesOf(w)' = PanesOf(w) \cup {p}
      /\ \A v : v # w => PanesOf(v)' = PanesOf(v)
      /\ \A q \in DOMAIN panes : TabsOf(q)' = TabsOf(q)
      /\ TabsOf(p)' = Elements(s)
      /\ Placed'
  BY <1>1, <1>2, <1>4, <1>5, PaneAdded
<1>8. PanesOf(w) = {}
  BY <1>4, PlacedParts DEF PanesOf, IInv
<1>9. DOMAIN layout = Elements(order) /\ DOMAIN activePane = Elements(order) /\ DOMAIN agent = Elements(order)
  BY DEF IInv, Layouts, Sources
<1>10. /\ DOMAIN layout' = Elements(order') /\ layout'[w] = LeafTree(p)
       /\ \A v \in Elements(order) : v # w /\ layout'[v] = layout[v]
  BY <1>1, <1>4, <1>5, <1>9 DEF With
<1>11. SplitsOf(w)' = {} /\ \A v \in Elements(order) : SplitsOf(v)' = SplitsOf(v)
  BY <1>10, LeafTreeIsTree DEF SplitsOf
<1>12. Layouts'
  <2>1. /\ activePane' \in [Elements(order') -> Ids] /\ activePane'[w] = p
        /\ \A v \in Elements(order) : activePane'[v] = activePane[v]
    BY <1>1, <1>2, <1>4, <1>5, <1>9 DEF With, IInv, Layouts
  <2>2. /\ Tree(layout'[w]) /\ layout'[w].leaves = {p}
    BY <1>10, LeafTreeIsTree
  <2>3. ASSUME NEW v \in Elements(order)
        PROVE  /\ Tree(layout'[v]) /\ layout'[v].leaves = PanesOf(v)'
               /\ \A x \in SplitsOf(v)' : layout'[v].splits[x] \in SideSet
               /\ activePane'[v] \in PanesOf(v)'
    BY <1>7, <1>10, <1>11, <2>1 DEF IInv, Layouts
  <2> QED BY <1>5, <1>7, <1>8, <1>10, <1>11, <2>1, <2>2, <2>3 DEF Layouts
<1>13. AllSplits' = AllSplits
  <2>1. AllSplits = UNION {SplitsOf(v) : v \in Elements(order)}
    BY <1>9 DEF AllSplits, SplitsOf
  <2>2. AllSplits' = UNION {SplitsOf(v)' : v \in Elements(order')}
    BY <1>10 DEF AllSplits, SplitsOf
  <2> QED BY <1>5, <1>11, <2>1, <2>2
<1>14. Sorted'
  <2>1. DOMAIN tabs' = DOMAIN tabs \cup Elements(s)
    BY DEF NewTabs
  <2>2. \A u, v \in Elements(order') : u # v => SplitsOf(u)' \cap SplitsOf(v)' = {}
    BY <1>5, <1>11 DEF IInv, Sorted
  <2> DEFINE U == 1 .. nextId - 1
             V == 1 .. nextId' - 1
  <2>3. /\ Elements(order) \subseteq U /\ DOMAIN panes \subseteq U
        /\ DOMAIN tabs \subseteq U /\ AllSplits \subseteq U
    BY DEF IInv, Sorted
  <2>4. /\ U \subseteq V /\ w \in V /\ p \in V /\ Elements(s) \subseteq V
        /\ w \notin U /\ p \notin U /\ Elements(s) \cap U = {}
        /\ w # p /\ w \notin Elements(s) /\ p \notin Elements(s)
    BY <1>2, <1>3
  <2> HIDE DEF U, V
  <2>5. Elements(order') \cup DOMAIN panes' \cup DOMAIN tabs' \cup AllSplits' \subseteq V
    BY <1>5, <1>7, <1>13, <2>1, <2>3, <2>4
  <2>6. /\ Elements(order') \cap DOMAIN panes' = {} /\ Elements(order') \cap DOMAIN tabs' = {}
        /\ Elements(order') \cap AllSplits' = {} /\ DOMAIN panes' \cap DOMAIN tabs' = {}
        /\ DOMAIN panes' \cap AllSplits' = {} /\ DOMAIN tabs' \cap AllSplits' = {}
    BY <1>5, <1>7, <1>13, <2>1, <2>3, <2>4 DEF IInv, Sorted
  <2> QED BY <2>2, <2>5, <2>6 DEF Sorted, V
<1>15. ShownRead'
  <2> SUFFICES ASSUME NEW q \in DOMAIN panes', panes'[q].ws = w, panes'[q].active # NoId
               PROVE  ~tabs'[panes'[q].active].unread
    BY <1>1 DEF ShownRead
  <2>1. q = p
    BY <1>4, <1>7, PlacedParts DEF IInv
  <2>2. panes'[p].active \in Elements(s)
    BY <1>2, <1>7, <2>1, NewPaneParts DEF NewTabs
  <2> QED BY <2>1, <2>2 DEF NewTabs
<1>16. Sources'
  <2>1. none \in AgentSet /\ none.status = "idle" /\ none.source = NoId
    BY DEF AgentSet, none
  <2>2. /\ DOMAIN agent' = Elements(order') /\ agent'[w] = none
        /\ \A v \in Elements(order) : agent'[v] = agent[v]
    BY <1>1, <1>4, <1>5, <1>9 DEF With
  <2>3. agent' \in [Elements(order') -> AgentSet]
    <3>1. agent' = [v \in DOMAIN agent' |-> agent'[v]]
      BY <1>1 DEF With
    <3>2. \A v \in DOMAIN agent' : agent'[v] \in AgentSet
      BY <1>5, <2>1, <2>2 DEF IInv, Sources
    <3> QED BY <2>2, <3>1, <3>2
  <2>4. ASSUME NEW v \in Elements(order)
        PROVE  /\ agent'[v].status # "idle" => agent'[v].source # NoId
               /\ agent'[v].source # NoId =>
                     /\ agent'[v].source \in Terminals'
                     /\ \E q \in PanesOf(v)' : agent'[v].source \in TabsOf(q)'
    <3>1. PanesOf(v) \subseteq DOMAIN panes
      BY DEF PanesOf
    <3> QED BY <1>4, <1>7, <2>2, <3>1, TerminalsStay DEF IInv, Sources
  <2> QED BY <1>5, <2>1, <2>2, <2>3, <2>4 DEF Sources
<1> QED BY <1>6, <1>7, <1>12, <1>14, <1>15, <1>16 DEF IInv

LEMMA InsertPaneStep ==
    ASSUME IInv, NEW target \in DOMAIN panes, NEW s, NewTabs(s), Running', InsertPane(target, s)
    PROVE  IInv'
<1>0. PICK w, p, split : w = panes[target].ws /\ p = nextId /\ split = nextId + 1
  OBVIOUS
<1> DEFINE tree == SplitLeaf(layout[w], target, p, split)
<1>1. /\ layout' = [layout EXCEPT ![w] = tree]
      /\ panes' = With(panes, p, NewPane(w, s)) /\ activePane' = [activePane EXCEPT ![w] = p]
      /\ UNCHANGED <<order, activeWs, agent>>
  BY <1>0 DEF InsertPane
<1>2. /\ nextId \in Nat /\ p \in Ids /\ p # split /\ p # NoId
      /\ p \notin 1 .. nextId - 1 /\ split \notin 1 .. nextId - 1
      /\ p \in 1 .. nextId' - 1 /\ split \in 1 .. nextId' - 1
      /\ 1 .. nextId - 1 \subseteq 1 .. nextId' - 1
      /\ nextId' \in 1 .. MaxId + 1
  <2>1. /\ nextId \in Nat /\ nextId >= 1 /\ MaxId \in Nat
        /\ nextId' \in Nat /\ nextId + 2 <= nextId' /\ nextId' <= MaxId + 1
    BY Constants DEF IInv, Ordering, NewTabs
  <2> QED BY <1>0, <2>1, NextTwoIds
<1>3. Elements(s) \subseteq 1 .. nextId' - 1 /\ p \notin Elements(s) /\ split \notin Elements(s)
      /\ Elements(s) \cap 1 .. nextId - 1 = {}
  BY <1>0, <1>2 DEF NewTabs
<1>4. w \in Elements(order) /\ w \in Ids /\ target \in PanesOf(w)
  BY <1>0, PlacedParts DEF IInv, PanesOf
<1> HIDE DEF tree
<1>5. p \notin DOMAIN panes /\ split \notin AllSplits /\ p \notin AllSplits
  BY <1>2 DEF IInv, Sorted
<1>6. Ordering'
  BY <1>1, <1>2 DEF IInv, Ordering
<1>7. /\ DOMAIN panes' = DOMAIN panes \cup {p}
      /\ \A q \in DOMAIN panes : panes'[q] = panes[q]
      /\ panes'[p] = NewPane(w, s)
      /\ PanesOf(w)' = PanesOf(w) \cup {p}
      /\ \A v : v # w => PanesOf(v)' = PanesOf(v)
      /\ \A q \in DOMAIN panes : TabsOf(q)' = TabsOf(q)
      /\ TabsOf(p)' = Elements(s)
      /\ Placed'
  BY <1>1, <1>2, <1>4, <1>5, PaneAdded
<1>8. DOMAIN layout = Elements(order) /\ activePane \in [Elements(order) -> Ids]
  BY DEF IInv, Layouts
<1>9. /\ DOMAIN layout' = Elements(order) /\ layout'[w] = tree
      /\ \A v \in Elements(order) \ {w} : layout'[v] = layout[v]
  BY <1>1, <1>4, <1>8
<1>10. /\ Tree(layout[w]) /\ layout[w].leaves = PanesOf(w) /\ SplitsOf(w) \subseteq AllSplits
       /\ \A x \in DOMAIN layout[w].splits : layout[w].splits[x] \in SideSet
  BY <1>4, <1>8 DEF IInv, Layouts, AllSplits, SplitsOf
<1>11. Tree(tree)
  <2>1. p \notin layout[w].leaves /\ split \notin DOMAIN layout[w].splits /\ target \in layout[w].leaves
    BY <1>4, <1>5, <1>10 DEF PanesOf, SplitsOf
  <2> QED BY <1>10, <2>1, SplitLeafIsTree DEF tree
<1>12. tree.leaves = PanesOf(w) \cup {p} /\ DOMAIN tree.splits = SplitsOf(w) \cup {split}
  BY <1>10, SplitLeafParts DEF tree, SplitsOf
<1>13. \A x \in DOMAIN tree.splits : tree.splits[x] \in SideSet
  <2>1. target \in Ids
    BY InvariantTypes DEF TypeOK
  <2> QED BY <1>2, <1>10, <2>1, SplitLeafTyped DEF tree
<1>14. SplitsOf(w)' = SplitsOf(w) \cup {split} /\ \A v \in Elements(order) \ {w} : SplitsOf(v)' = SplitsOf(v)
  BY <1>9, <1>12 DEF SplitsOf
<1>15. Layouts'
  <2>1. /\ activePane' \in [Elements(order) -> Ids] /\ activePane'[w] = p
        /\ \A v \in Elements(order) \ {w} : activePane'[v] = activePane[v]
    BY <1>1, <1>2, <1>4, <1>8
  <2>2. ASSUME NEW v \in Elements(order) \ {w}
        PROVE  /\ Tree(layout'[v]) /\ layout'[v].leaves = PanesOf(v)'
               /\ \A x \in SplitsOf(v)' : layout'[v].splits[x] \in SideSet
               /\ activePane'[v] \in PanesOf(v)'
    BY <1>7, <1>9, <1>14, <2>1 DEF IInv, Layouts
  <2>3. /\ Tree(layout'[w]) /\ layout'[w].leaves = PanesOf(w)'
        /\ \A x \in SplitsOf(w)' : layout'[w].splits[x] \in SideSet
        /\ activePane'[w] \in PanesOf(w)'
    BY <1>7, <1>9, <1>11, <1>12, <1>13, <1>14, <2>1
  <2> QED BY <1>1, <1>9, <2>1, <2>2, <2>3 DEF Layouts
<1>16. AllSplits' = AllSplits \cup {split}
  <2>1. AllSplits = UNION {SplitsOf(v) : v \in Elements(order)}
    BY <1>8 DEF AllSplits, SplitsOf
  <2>2. AllSplits' = UNION {SplitsOf(v)' : v \in Elements(order)}
    BY <1>9 DEF AllSplits, SplitsOf
  <2> QED BY <1>4, <1>14, <2>1, <2>2
<1>17. Sorted'
  <2>1. DOMAIN tabs' = DOMAIN tabs \cup Elements(s)
    BY DEF NewTabs
  <2>2. \A v \in Elements(order) : split \notin SplitsOf(v)
    BY <1>5, <1>8 DEF AllSplits, SplitsOf
  <2>3. \A u, v \in Elements(order) : u # v => SplitsOf(u)' \cap SplitsOf(v)' = {}
    BY <1>14, <2>2 DEF IInv, Sorted
  <2> DEFINE U == 1 .. nextId - 1
             V == 1 .. nextId' - 1
  <2>4. /\ Elements(order) \subseteq U /\ DOMAIN panes \subseteq U
        /\ DOMAIN tabs \subseteq U /\ AllSplits \subseteq U
    BY DEF IInv, Sorted
  <2>5. /\ U \subseteq V /\ split \in V /\ p \in V /\ Elements(s) \subseteq V
        /\ split \notin U /\ p \notin U /\ Elements(s) \cap U = {}
        /\ p # split /\ split \notin Elements(s) /\ p \notin Elements(s)
    BY <1>2, <1>3
  <2> HIDE DEF U, V
  <2>6. Elements(order) \cup DOMAIN panes' \cup DOMAIN tabs' \cup AllSplits' \subseteq V
    BY <1>7, <1>16, <2>1, <2>4, <2>5
  <2>7. /\ Elements(order) \cap DOMAIN panes' = {} /\ Elements(order) \cap DOMAIN tabs' = {}
        /\ Elements(order) \cap AllSplits' = {} /\ DOMAIN panes' \cap DOMAIN tabs' = {}
        /\ DOMAIN panes' \cap AllSplits' = {} /\ DOMAIN tabs' \cap AllSplits' = {}
    BY <1>7, <1>16, <2>1, <2>4, <2>5 DEF IInv, Sorted
  <2> QED BY <1>1, <2>3, <2>6, <2>7 DEF Sorted, V
<1>18. ShownRead'
  <2> SUFFICES ASSUME NEW q \in DOMAIN panes', panes'[q].ws = activeWs, panes'[q].active # NoId
               PROVE  ~tabs'[panes'[q].active].unread
    BY <1>1 DEF ShownRead
  <2>1. CASE q = p
    <3>1. panes'[p].active \in Elements(s)
      BY <1>4, <1>7, <2>1, NewPaneParts DEF NewTabs
    <3> QED BY <2>1, <3>1 DEF NewTabs
  <2>2. CASE q \in DOMAIN panes
    <3>1. panes[q].active \in DOMAIN tabs
      BY <1>7, <2>2, PlacedParts DEF IInv
    <3> QED BY <1>7, <2>2, <3>1 DEF NewTabs, IInv, ShownRead
  <2> QED BY <1>7, <2>1, <2>2
<1>19. Sources'
  <2>1. \A v : PanesOf(v) \subseteq PanesOf(v)' /\ PanesOf(v) \subseteq DOMAIN panes
    BY <1>7 DEF PanesOf
  <2> QED BY <1>1, <1>7, <2>1, TerminalsStay DEF IInv, Sources
<1> QED BY <1>6, <1>7, <1>15, <1>17, <1>18, <1>19 DEF IInv

LEMMA CreateTabStep ==
    ASSUME IInv, NEW p \in DOMAIN panes, NEW kind, CreateTab(p, kind)
    PROVE  IInv'
<1>0. PICK id : id = nextId
  OBVIOUS
<1>1. /\ nextId <= MaxId /\ PrepareTab(kind, PeekId(0), id) /\ nextId' = nextId + 1
      /\ panes' = [panes EXCEPT ![p].tabs = Append(@, id), ![p].active = id]
      /\ UNCHANGED <<order, activeWs, layout, activePane, agent, started>>
  BY <1>0 DEF CreateTab
<1>2. /\ nextId \in Nat /\ id \in Ids /\ id \notin 1 .. nextId - 1 /\ id \in 1 .. nextId' - 1
      /\ 1 .. nextId - 1 \subseteq 1 .. nextId' - 1 /\ nextId' \in 1 .. MaxId + 1 /\ id # NoId
      /\ PeekId(0) = id
  BY <1>0, <1>1, Constants DEF IInv, Ordering, Ids, NoId, PeekId
<1>3. id \notin DOMAIN tabs /\ id \notin DOMAIN panes /\ id \notin Elements(order) /\ id \notin AllSplits
  BY <1>2 DEF IInv, Sorted
<1>4. /\ Running' /\ DOMAIN tabs' = DOMAIN tabs \cup {id}
      /\ \A t \in DOMAIN tabs : tabs'[t] = tabs[t]
      /\ ~tabs'[id].unread /\ Terminals \subseteq Terminals'
  BY <1>1, <1>2, <1>3, PrepareTabStep DEF IInv
<1>5. /\ panes[p] \in PaneSet /\ panes[p].tabs \in Seq(Ids) /\ Distinct(panes[p].tabs)
      /\ id \notin TabsOf(p)
  BY <1>3, PlacedParts DEF IInv, Placed
<1> DEFINE s == Append(panes[p].tabs, id)
<1>6. s \in Seq(Ids) /\ s # <<>> /\ Elements(s) = TabsOf(p) \cup {id} /\ Distinct(s)
  BY <1>2, <1>5, AppendElements DEF TabsOf
<1>7. /\ DOMAIN panes' = DOMAIN panes
      /\ \A q \in DOMAIN panes \ {p} : panes'[q] = panes[q]
      /\ panes'[p] = [panes[p] EXCEPT !.tabs = s, !.active = id]
  BY <1>1
<1> HIDE DEF s
<1>8. panes'[p] \in PaneSet /\ panes'[p].ws = panes[p].ws /\ panes'[p].tabs = s /\ panes'[p].active = id
  BY <1>2, <1>5, <1>6, <1>7 DEF PaneSet
<1>9. /\ TabsOf(p)' = TabsOf(p) \cup {id}
      /\ \A q \in DOMAIN panes \ {p} : TabsOf(q)' = TabsOf(q)
      /\ \A w : PanesOf(w)' = PanesOf(w)
  BY <1>6, <1>7, <1>8, ZenonT(60) DEF TabsOf, PanesOf
<1>10. Ordering'
  BY <1>1, <1>2 DEF IInv, Ordering
<1>11. Layouts'
  BY <1>1, <1>9 DEF IInv, Layouts, SplitsOf
<1>12. Placed'
  <2>1. ASSUME NEW q \in DOMAIN panes'
        PROVE  /\ panes'[q] \in PaneSet /\ panes'[q].ws \in Elements(order')
               /\ Distinct(panes'[q].tabs)
               /\ IF panes'[q].tabs = <<>> THEN panes'[q].active = NoId ELSE panes'[q].active \in TabsOf(q)'
    <3>1. CASE q = p
      <4>1. panes[p].ws \in Elements(order)
        BY DEF IInv, Placed
      <4> QED BY <1>1, <1>6, <1>8, <1>9, <3>1, <4>1
    <3>2. CASE q # p
      BY <1>1, <1>7, <1>9, <3>2 DEF IInv, Placed
    <3> QED BY <3>1, <3>2
  <2>2. \A q \in DOMAIN panes : id \notin TabsOf(q)
    BY <1>3, PlacedParts DEF IInv
  <2>3. ASSUME NEW q \in DOMAIN panes', NEW r \in DOMAIN panes', q # r
        PROVE  TabsOf(q)' \cap TabsOf(r)' = {}
    <3>1. TabsOf(q) \cap TabsOf(r) = {}
      BY <1>7, <2>3 DEF IInv, Placed
    <3> QED BY <1>7, <1>9, <2>2, <2>3, <3>1
  <2>4. \A t : t \in TabsIn(DOMAIN panes)' <=> \E q \in DOMAIN panes' : t \in TabsOf(q)'
    BY DEF TabsIn, TabsOf
  <2>5. \A t : t \in DOMAIN tabs <=> \E q \in DOMAIN panes : t \in TabsOf(q)
    BY TabsInParts DEF IInv, Placed
  <2>6. ASSUME NEW t PROVE t \in DOMAIN tabs' <=> t \in TabsIn(DOMAIN panes)'
    BY <1>4, <1>7, <1>9, <2>4, <2>5
  <2> QED BY <2>1, <2>3, <2>6 DEF Placed
<1>13. Sorted'
  <2>1. /\ DOMAIN layout' = DOMAIN layout /\ AllSplits' = AllSplits
        /\ \A v : SplitsOf(v)' = SplitsOf(v)
    BY <1>1 DEF AllSplits, SplitsOf
  <2> QED BY <1>1, <1>2, <1>3, <1>4, <1>7, <2>1 DEF IInv, Sorted
<1>14. ShownRead'
  <2> SUFFICES ASSUME NEW q \in DOMAIN panes, panes'[q].ws = activeWs, panes'[q].active # NoId
               PROVE  ~tabs'[panes'[q].active].unread
    BY <1>1, <1>7 DEF ShownRead
  <2>1. CASE q = p
    BY <1>4, <1>8, <2>1
  <2>2. CASE q # p
    <3>1. panes[q].active \in DOMAIN tabs
      BY <1>7, <2>2, PlacedParts DEF IInv
    <3> QED BY <1>4, <1>7, <2>2, <3>1 DEF IInv, ShownRead
  <2> QED BY <2>1, <2>2
<1>15. Sources'
  <2>1. \A q \in DOMAIN panes : TabsOf(q) \subseteq TabsOf(q)'
    BY <1>9
  <2>2. \A w : PanesOf(w) \subseteq DOMAIN panes
    BY DEF PanesOf
  <2> QED BY <1>1, <1>4, <1>9, <2>1, <2>2 DEF IInv, Sources
<1> QED BY <1>4, <1>10, <1>11, <1>12, <1>13, <1>14, <1>15 DEF IInv
-----------------------------------------------------------------------------
(* Steps that close. *)

\* The status of a workspace whose tab goes is reset with it.
LEMMA ResetAgentSourceStep ==
    ASSUME IInv, NEW w \in Elements(order), NEW gone, ResetAgentSource(w, gone),
           UNCHANGED order, Terminals' = Terminals \ gone,
           \A v \in Elements(order) \ {w} : \A q \in PanesOf(v) : TabsOf(q) \cap gone = {},
           \A v \in Elements(order) : \A q \in PanesOf(v) : \A t \in TabsOf(q) \ gone :
               \E r \in PanesOf(v)' : t \in TabsOf(r)'
    PROVE  Sources'
<1> DEFINE none == [status |-> "idle", source |-> NoId]
<1>1. none \in AgentSet /\ none.status = "idle" /\ none.source = NoId
  BY DEF AgentSet
<1>2. agent \in [Elements(order) -> AgentSet]
  BY DEF IInv, Sources
<1>3. agent' = [agent EXCEPT ![w] = IF agent[w].source \in gone THEN none ELSE agent[w]]
  BY DEF ResetAgentSource
<1> HIDE DEF none
<1>4. /\ agent' \in [Elements(order) -> AgentSet]
      /\ agent'[w] = IF agent[w].source \in gone THEN none ELSE agent[w]
      /\ \A v \in Elements(order) \ {w} : agent'[v] = agent[v]
  BY <1>1, <1>2, <1>3
<1>5. ASSUME NEW v \in Elements(order)
      PROVE  /\ agent'[v].status # "idle" => agent'[v].source # NoId
             /\ agent'[v].source # NoId =>
                   /\ agent'[v].source \in Terminals'
                   /\ \E q \in PanesOf(v)' : agent'[v].source \in TabsOf(q)'
  <2>1. CASE v = w /\ agent[w].source \in gone
    BY <1>1, <1>4, <2>1
  <2>2. CASE agent'[v] = agent[v] /\ (v # w \/ agent[v].source \notin gone)
    <3>1. agent'[v].status # "idle" => agent'[v].source # NoId
      BY <2>2 DEF IInv, Sources
    <3>2. ASSUME agent'[v].source # NoId
          PROVE  /\ agent'[v].source \in Terminals'
                 /\ \E q \in PanesOf(v)' : agent'[v].source \in TabsOf(q)'
      <4>1. PICK q \in PanesOf(v) : agent[v].source \in TabsOf(q) /\ agent[v].source \in Terminals
        BY <2>2, <3>2 DEF IInv, Sources
      <4>2. agent[v].source \notin gone
        BY <2>2, <4>1
      <4> QED BY <2>2, <4>1, <4>2
    <3> QED BY <3>1, <3>2
  <2> QED BY <1>4, <2>1, <2>2
<1> QED BY <1>4, <1>5 DEF Sources

\* A pane goes with its tabs, and its split with it.
LEMMA PaneGone ==
    ASSUME IInv, NEW p \in DOMAIN panes, NEW w, w = panes[p].ws, Cardinality(PanesOf(w)) > 1,
           CollapsePane(w, p), ResetAgentSource(w, TabsOf(p)), RetireTabs(TabsOf(p)),
           UNCHANGED <<order, activeWs, nextId, started, nextSession>>,
           DOMAIN tabs' = DOMAIN tabs \ TabsOf(p), tabs' \in [DOMAIN tabs' -> TabSet],
           \A t \in DOMAIN tabs' : /\ tabs'[t].kind = tabs[t].kind
                                   /\ tabs'[t].session = tabs[t].session
                                   /\ tabs'[t].unread => tabs[t].unread
    PROVE  IInv'
<1> DEFINE tree == RemoveLeaf(layout[w], p)
<1>1. /\ layout' = [layout EXCEPT ![w] = tree]
      /\ panes' = Only(panes, DOMAIN panes \ {p})
      /\ activePane' = [activePane EXCEPT ![w] = IF activePane[w] = p THEN FirstLeaf(tree) ELSE activePane[w]]
  BY DEF CollapsePane
<1>2. w \in Elements(order) /\ p \in PanesOf(w)
  BY PlacedParts DEF IInv, PanesOf
<1>3. /\ DOMAIN panes' = DOMAIN panes \ {p}
      /\ \A q \in DOMAIN panes \ {p} : panes'[q] = panes[q]
  BY <1>1 DEF Only
<1>4. /\ PanesOf(w)' = PanesOf(w) \ {p}
      /\ \A v : v # w => PanesOf(v)' = PanesOf(v)
      /\ \A q \in DOMAIN panes \ {p} : TabsOf(q)' = TabsOf(q)
  BY <1>3 DEF PanesOf, TabsOf
<1>5. /\ Tree(layout[w]) /\ layout[w].leaves = PanesOf(w) /\ p \in layout[w].leaves
      /\ \A x \in DOMAIN layout[w].splits : layout[w].splits[x] \in SideSet
  BY <1>2 DEF IInv, Layouts, SplitsOf
<1>6. layout[w].leaves # {p}
  <2> SUFFICES ASSUME PanesOf(w) = {p} PROVE FALSE
    BY <1>5
  <2>1. Cardinality({p}) = 1
    BY FS_Singleton
  <2>2. Cardinality(PanesOf(w)) = 1
    BY <2>1
  <2> QED BY <2>2
<1>7. /\ Tree(tree) /\ tree.leaves = PanesOf(w) \ {p}
      /\ \A x \in DOMAIN tree.splits : tree.splits[x] \in SideSet
      /\ DOMAIN tree.splits \subseteq SplitsOf(w)
  BY <1>5, <1>6, RemoveLeafIsTree, RemoveLeafTyped, RemoveLeafParts DEF SplitsOf
<1>8. FirstLeaf(tree) \in PanesOf(w) \ {p}
  BY <1>7, FirstLeafIn
<1>9. /\ DOMAIN layout = Elements(order) /\ activePane \in [Elements(order) -> Ids]
      /\ activePane[w] \in PanesOf(w)
  BY <1>2 DEF IInv, Layouts
<1> HIDE DEF tree
<1>10. /\ DOMAIN layout' = Elements(order) /\ layout'[w] = tree
       /\ \A v \in Elements(order) \ {w} : layout'[v] = layout[v]
  BY <1>1, <1>2, <1>9
<1>11. SplitsOf(w)' \subseteq SplitsOf(w) /\ \A v \in Elements(order) \ {w} : SplitsOf(v)' = SplitsOf(v)
  BY <1>7, <1>10 DEF SplitsOf
<1>12. Layouts'
  <2>1. PanesOf(w) \subseteq Ids
    BY InvariantTypes DEF PanesOf, TypeOK
  <2>2. /\ activePane' \in [Elements(order) -> Ids] /\ activePane'[w] \in PanesOf(w) \ {p}
        /\ \A v \in Elements(order) \ {w} : activePane'[v] = activePane[v]
    BY <1>1, <1>2, <1>8, <1>9, <2>1
  <2>3. ASSUME NEW v \in Elements(order) \ {w}
        PROVE  /\ Tree(layout'[v]) /\ layout'[v].leaves = PanesOf(v)'
               /\ \A x \in SplitsOf(v)' : layout'[v].splits[x] \in SideSet
               /\ activePane'[v] \in PanesOf(v)'
    BY <1>4, <1>10, <1>11, <2>2 DEF IInv, Layouts
  <2>4. /\ Tree(layout'[w]) /\ layout'[w].leaves = PanesOf(w)'
        /\ \A x \in SplitsOf(w)' : layout'[w].splits[x] \in SideSet
        /\ activePane'[w] \in PanesOf(w)'
    BY <1>4, <1>7, <1>10, <2>2 DEF SplitsOf
  <2> QED BY <1>10, <2>2, <2>3, <2>4 DEF Layouts
<1>13. Placed'
  <2>1. \A q \in DOMAIN panes \ {p} : TabsOf(q) \cap TabsOf(p) = {}
    BY DEF IInv, Placed
  <2>2. \A t : t \in TabsIn(DOMAIN panes)' <=> \E q \in DOMAIN panes' : t \in TabsOf(q)'
    BY DEF TabsIn, TabsOf
  <2>3. \A t : t \in DOMAIN tabs <=> \E q \in DOMAIN panes : t \in TabsOf(q)
    BY TabsInParts DEF IInv, Placed
  <2>4. ASSUME NEW t PROVE t \in DOMAIN tabs' <=> t \in TabsIn(DOMAIN panes)'
    <3>1. t \in DOMAIN tabs' => \E q \in DOMAIN panes \ {p} : t \in TabsOf(q)
      BY <2>3
    <3>2. (\E q \in DOMAIN panes \ {p} : t \in TabsOf(q)) => t \in DOMAIN tabs'
      BY <2>1, <2>3
    <3>3. (\E q \in DOMAIN panes \ {p} : t \in TabsOf(q)) <=> \E q \in DOMAIN panes' : t \in TabsOf(q)'
      BY <1>3, <1>4
    <3> QED BY <2>2, <3>1, <3>2, <3>3
  <2>5. ASSUME NEW q \in DOMAIN panes'
        PROVE  /\ panes'[q] \in PaneSet /\ panes'[q].ws \in Elements(order)
               /\ Distinct(panes'[q].tabs)
               /\ IF panes'[q].tabs = <<>> THEN panes'[q].active = NoId ELSE panes'[q].active \in TabsOf(q)'
    BY <1>3, <1>4 DEF IInv, Placed
  <2>6. \A q, r \in DOMAIN panes' : q # r => TabsOf(q)' \cap TabsOf(r)' = {}
    BY <1>3, <1>4 DEF IInv, Placed
  <2> QED BY <2>4, <2>5, <2>6 DEF Placed
<1>14. Sorted'
  <2>1. AllSplits = UNION {SplitsOf(v) : v \in Elements(order)}
    BY <1>9 DEF AllSplits, SplitsOf
  <2>2. AllSplits' = UNION {SplitsOf(v)' : v \in Elements(order)}
    BY <1>10 DEF AllSplits, SplitsOf
  <2>3. AllSplits' \subseteq AllSplits
    BY <1>11, <2>1, <2>2
  <2>4. \A u, v \in Elements(order) : u # v => SplitsOf(u)' \cap SplitsOf(v)' = {}
    BY <1>11 DEF IInv, Sorted
  <2> QED BY <1>3, <2>3, <2>4 DEF IInv, Sorted
<1>15. ShownRead'
  <2> SUFFICES ASSUME NEW q \in DOMAIN panes \ {p}, panes[q].ws = activeWs, panes[q].active # NoId
               PROVE  ~tabs'[panes[q].active].unread
    BY <1>3 DEF ShownRead
  <2>1. panes[q].active \in TabsOf(q) /\ TabsOf(q) \subseteq DOMAIN tabs /\ TabsOf(q) \cap TabsOf(p) = {}
    BY PlacedParts DEF IInv, Placed
  <2> QED BY <2>1 DEF IInv, ShownRead
<1>16. Sources'
  <2>1. \A v : PanesOf(v) \subseteq DOMAIN panes
    BY DEF PanesOf
  <2>2. \A v \in Elements(order) \ {w} : \A q \in PanesOf(v) : q # p
    BY DEF PanesOf
  <2>3. \A v \in Elements(order) \ {w} : \A q \in PanesOf(v) : TabsOf(q) \cap TabsOf(p) = {}
    BY <2>1, <2>2 DEF IInv, Placed
  <2>4. \A v \in Elements(order) : \A q \in PanesOf(v) : \A t \in TabsOf(q) \ TabsOf(p) :
           \E r \in PanesOf(v)' : t \in TabsOf(r)'
    BY <1>4, <2>1
  <2>5. Terminals' = Terminals \ TabsOf(p)
    BY DEF Terminals
  <2> QED BY <1>2, <2>3, <2>4, <2>5, ResetAgentSourceStep
<1>17. Running'
  BY RetireTabsStep DEF IInv
<1>18. Ordering'
  BY DEF IInv, Ordering
<1> QED BY <1>12, <1>13, <1>14, <1>15, <1>16, <1>17, <1>18 DEF IInv

LEMMA ClosePaneStep ==
    ASSUME IInv, NEW p \in DOMAIN panes, ClosePane(p)
    PROVE  IInv'
<1>1. TabsIn({p}) = TabsOf(p)
  BY DEF TabsIn, TabsOf
<1>2. PICK w : w = panes[p].ws
  OBVIOUS
<1>3. /\ Cardinality(PanesOf(w)) > 1 /\ CollapsePane(w, p) /\ ResetAgentSource(w, TabsOf(p))
      /\ RetireTabs(TabsOf(p)) /\ tabs' = Only(tabs, DOMAIN tabs \ TabsOf(p))
      /\ UNCHANGED <<order, activeWs, nextId, started, nextSession>>
  BY <1>1, <1>2 DEF ClosePane
<1>4. DOMAIN tabs' = DOMAIN tabs \ TabsOf(p) /\ \A t \in DOMAIN tabs' : tabs'[t] = tabs[t]
  BY <1>3 DEF Only
<1>5. tabs' \in [DOMAIN tabs' -> TabSet]
  <2>1. tabs' = [t \in DOMAIN tabs' |-> tabs'[t]]
    BY <1>3 DEF Only
  <2>2. \A t \in DOMAIN tabs' : tabs'[t] \in TabSet
    BY <1>4 DEF IInv, Running
  <2> QED BY <2>1, <2>2
<1> QED BY <1>2, <1>3, <1>4, <1>5, PaneGone

\* The tab that takes the place of another is one of those left.
LEMMA PromotedParts ==
    ASSUME NEW s \in Seq(Ids), Distinct(s), NEW t \in Elements(s)
    PROVE  LET i == Position(s, t)
               rest == RemoveAt(s, i)
           IN  IF rest = <<>> THEN Promoted(s, i) = NoId ELSE Promoted(s, i) \in Elements(rest)
<1> DEFINE i == Position(s, t)
           rest == RemoveAt(s, i)
<1>1. rest \in Seq(Ids) /\ Len(rest) = Len(s) - 1 /\ i \in DOMAIN s
  BY RemoveAtElements
<1>2. Promoted(s, i) = IF rest = <<>> THEN NoId ELSE rest[IF i > 1 THEN i - 1 ELSE 1]
  BY DEF Promoted
<1> HIDE DEF i, rest
<1>3. ASSUME rest # <<>> PROVE Promoted(s, i) \in Elements(rest)
  <2>1. i \in 1 .. Len(s) /\ Len(s) \in Nat /\ DOMAIN rest = 1 .. Len(s) - 1
    BY <1>1
  <2>2. Len(s) - 1 >= 1
    BY <1>1, <1>3, <2>1
  <2>3. (IF i > 1 THEN i - 1 ELSE 1) \in DOMAIN rest
    BY <2>1, <2>2
  <2> QED BY <1>2, <1>3, <2>3 DEF Elements
<1> QED BY <1>2, <1>3 DEF i, rest

LEMMA CloseTabStep ==
    ASSUME IInv, NEW t \in DOMAIN tabs, CloseTab(t)
    PROVE  IInv'
<1>0. PICK p, w : p = PaneOf(t) /\ w = panes[p].ws
  OBVIOUS
<1> DEFINE s == panes[p].tabs
           i == Position(s, t)
           rest == RemoveAt(s, i)
           active == IF panes[p].active = t THEN Promoted(s, i) ELSE panes[p].active
           kept == Read(PromotedInView(p, active))
<1>1. /\ tabs' = Only(kept, DOMAIN tabs \ {t})
      /\ IF rest = <<>> /\ Cardinality(PanesOf(w)) > 1
         THEN CollapsePane(w, p)
         ELSE /\ panes' = [panes EXCEPT ![p].tabs = rest, ![p].active = active]
              /\ UNCHANGED <<layout, activePane>>
      /\ ResetAgentSource(w, {t})
      /\ RetireTabs({t})
      /\ UNCHANGED <<order, activeWs, nextId, started, nextSession>>
  BY <1>0 DEF CloseTab
<1>2. /\ p \in DOMAIN panes /\ t \in TabsOf(p)
      /\ \A q \in DOMAIN panes : t \in TabsOf(q) => q = p
  BY <1>0, PaneOfTab DEF IInv
<1>3. s \in Seq(Ids) /\ Distinct(s) /\ TabsOf(p) = Elements(s) /\ w \in Elements(order)
  BY <1>0, <1>2, PlacedParts DEF IInv, TabsOf
<1>4. rest \in Seq(Ids) /\ Distinct(rest) /\ Elements(rest) = TabsOf(p) \ {t}
  BY <1>2, <1>3, RemoveAtElements
<1>5. panes[p] \in PaneSet /\ panes[p].active \in TabsOf(p)
  <2>1. s # <<>>
    BY <1>2, <1>3, SeqParts
  <2> QED BY <1>2, <2>1 DEF IInv, Placed
<1>6. IF rest = <<>> THEN active = NoId ELSE active \in Elements(rest)
  <2>1. IF rest = <<>> THEN Promoted(s, i) = NoId ELSE Promoted(s, i) \in Elements(rest)
    BY <1>2, <1>3, PromotedParts
  <2>2. panes[p].active # t => panes[p].active \in Elements(rest)
    BY <1>4, <1>5
  <2>3. rest = <<>> => Elements(rest) = {}
    BY <1>4, SeqParts
  <2> QED BY <2>1, <2>2, <2>3
<1>7. active \in Ids \cup {NoId}
  BY <1>4, <1>6, SeqParts
<1>8. /\ kept \in [DOMAIN tabs -> TabSet]
      /\ \A u \in DOMAIN tabs : /\ kept[u].kind = tabs[u].kind /\ kept[u].session = tabs[u].session
                                /\ kept[u].unread = (tabs[u].unread /\ u \notin PromotedInView(p, active))
  BY ReadParts DEF IInv, Running
<1> HIDE DEF s, i, rest, active, kept
<1>9. DOMAIN tabs' = DOMAIN tabs \ {t} /\ \A u \in DOMAIN tabs' : tabs'[u] = kept[u]
  BY <1>1, <1>8 DEF Only
<1>10. tabs' \in [DOMAIN tabs' -> TabSet]
  <2>1. tabs' = [u \in DOMAIN tabs' |-> tabs'[u]]
    BY <1>1 DEF Only
  <2>2. \A u \in DOMAIN tabs' : tabs'[u] \in TabSet
    BY <1>8, <1>9
  <2> QED BY <2>1, <2>2
<1>11. \A u \in DOMAIN tabs' : /\ tabs'[u].kind = tabs[u].kind /\ tabs'[u].session = tabs[u].session
                               /\ tabs'[u].unread => tabs[u].unread
  BY <1>8, <1>9
<1>12. CASE rest = <<>> /\ Cardinality(PanesOf(w)) > 1
  <2>1. TabsOf(p) = {t}
    <3>1. Elements(rest) = {}
      BY <1>12, NoElement
    <3> QED BY <1>2, <1>4, <3>1
  <2> QED BY <1>0, <1>1, <1>2, <1>9, <1>10, <1>11, <1>12, <2>1, PaneGone
<1>13. CASE ~(rest = <<>> /\ Cardinality(PanesOf(w)) > 1)
  <2>1. /\ panes' = [panes EXCEPT ![p].tabs = rest, ![p].active = active]
        /\ UNCHANGED <<layout, activePane>>
    BY <1>1, <1>13
  <2>2. /\ DOMAIN panes' = DOMAIN panes
        /\ \A q \in DOMAIN panes \ {p} : panes'[q] = panes[q]
        /\ panes'[p] = [panes[p] EXCEPT !.tabs = rest, !.active = active]
    BY <1>2, <2>1
  <2>3. panes'[p] \in PaneSet /\ panes'[p].ws = panes[p].ws /\ panes'[p].tabs = rest /\ panes'[p].active = active
    BY <1>4, <1>5, <1>7, <2>2 DEF PaneSet
  <2>4. /\ TabsOf(p)' = TabsOf(p) \ {t}
        /\ \A q \in DOMAIN panes \ {p} : TabsOf(q)' = TabsOf(q) /\ t \notin TabsOf(q)
        /\ \A v : PanesOf(v)' = PanesOf(v)
    BY <1>2, <1>4, <2>2, <2>3, ZenonT(60) DEF TabsOf, PanesOf
  <2>5. Ordering'
    BY <1>1 DEF IInv, Ordering
  <2>6. Layouts'
    BY <1>1, <2>1, <2>4 DEF IInv, Layouts, SplitsOf
  <2>7. Placed'
    <3>1. ASSUME NEW q \in DOMAIN panes'
          PROVE  /\ panes'[q] \in PaneSet /\ panes'[q].ws \in Elements(order')
                 /\ Distinct(panes'[q].tabs)
                 /\ IF panes'[q].tabs = <<>> THEN panes'[q].active = NoId ELSE panes'[q].active \in TabsOf(q)'
      <4>1. CASE q = p
        BY <1>0, <1>1, <1>3, <1>4, <1>6, <2>3, <2>4, <4>1
      <4>2. CASE q # p
        BY <1>1, <2>2, <2>4, <4>2 DEF IInv, Placed
      <4> QED BY <4>1, <4>2
    <3>2. ASSUME NEW q \in DOMAIN panes', NEW r \in DOMAIN panes', q # r
          PROVE  TabsOf(q)' \cap TabsOf(r)' = {}
      <4>1. TabsOf(q) \cap TabsOf(r) = {}
        BY <2>2, <3>2 DEF IInv, Placed
      <4> QED BY <2>2, <2>4, <4>1
    <3>3. \A u : u \in TabsIn(DOMAIN panes)' <=> \E q \in DOMAIN panes' : u \in TabsOf(q)'
      BY DEF TabsIn, TabsOf
    <3>4. \A u : u \in DOMAIN tabs <=> \E q \in DOMAIN panes : u \in TabsOf(q)
      BY TabsInParts DEF IInv, Placed
    <3>5. ASSUME NEW u PROVE u \in DOMAIN tabs' <=> u \in TabsIn(DOMAIN panes)'
      <4>1. u \in DOMAIN tabs' <=> u # t /\ \E q \in DOMAIN panes : u \in TabsOf(q)
        BY <1>9, <3>4
      <4>2. \A q \in DOMAIN panes : u \in TabsOf(q)' <=> u # t /\ u \in TabsOf(q)
        BY <2>4
      <4> QED BY <2>2, <3>3, <4>1, <4>2
    <3> QED BY <3>1, <3>2, <3>5 DEF Placed
  <2>8. Sorted'
    <3>1. AllSplits' = AllSplits /\ \A v : SplitsOf(v)' = SplitsOf(v)
      BY <2>1 DEF AllSplits, SplitsOf
    <3> QED BY <1>1, <1>9, <2>2, <3>1 DEF IInv, Sorted
  <2>9. ShownRead'
    <3> SUFFICES ASSUME NEW q \in DOMAIN panes, panes'[q].ws = activeWs, panes'[q].active # NoId
                 PROVE  ~tabs'[panes'[q].active].unread
      BY <1>1, <2>2 DEF ShownRead
    <3>1. CASE q = p
      <4>1. active \in Elements(rest) /\ active \in DOMAIN tabs'
        <5>1. active \in Elements(rest)
          BY <1>6, <2>3, <3>1
        <5> QED BY <1>2, <1>4, <1>9, <5>1, PlacedParts DEF IInv
      <4>2. CASE panes[p].active = active
        <5>1. ~tabs[active].unread
          BY <2>3, <3>1, <4>2 DEF IInv, ShownRead
        <5> QED BY <1>11, <2>3, <3>1, <4>1, <5>1
      <4>3. CASE panes[p].active # active
        <5>1. active \in PromotedInView(p, active)
          BY <2>3, <3>1, <4>3 DEF PromotedInView
        <5> QED BY <1>8, <1>9, <2>3, <3>1, <4>1, <5>1
      <4> QED BY <4>2, <4>3
    <3>2. CASE q # p
      <4>1. panes'[q] = panes[q] /\ panes[q].active \in TabsOf(q) /\ TabsOf(q) \subseteq DOMAIN tabs
        BY <2>2, <3>2, PlacedParts DEF IInv
      <4>2. panes[q].active \in DOMAIN tabs' /\ ~tabs[panes[q].active].unread
        BY <1>9, <2>4, <3>2, <4>1 DEF IInv, ShownRead
      <4> QED BY <1>11, <4>1, <4>2
    <3> QED BY <3>1, <3>2
  <2>10. Sources'
    <3>1. \A v : PanesOf(v) \subseteq DOMAIN panes
      BY DEF PanesOf
    <3>2. \A v \in Elements(order) \ {w} : \A q \in PanesOf(v) : TabsOf(q) \cap {t} = {}
      BY <1>0, <2>4, <3>1 DEF PanesOf
    <3>3. \A v \in Elements(order) : \A q \in PanesOf(v) : \A u \in TabsOf(q) \ {t} :
             \E r \in PanesOf(v)' : u \in TabsOf(r)'
      BY <2>4, <3>1
    <3>4. Terminals' = Terminals \ {t}
      BY <1>9, <1>11 DEF Terminals
    <3> QED BY <1>1, <1>3, <3>2, <3>3, <3>4, ResetAgentSourceStep
  <2>11. Running'
    BY <1>1, <1>9, <1>10, <1>11, RetireTabsStep DEF IInv
  <2> QED BY <2>5, <2>6, <2>7, <2>8, <2>9, <2>10, <2>11 DEF IInv
<1> QED BY <1>12, <1>13

LEMMA CloseWorkspaceStep ==
    ASSUME IInv, NEW w \in Elements(order), CloseWorkspace(w)
    PROVE  IInv'
<1>0. PICK rest : rest = RemoveAt(order, Position(order, w))
  OBVIOUS
<1> DEFINE gone == TabsIn(PanesOf(w))
           kept == IF activeWs = w /\ rest # <<>> THEN Read(Shown(rest[1])) ELSE tabs
<1>1. /\ order' = rest
      /\ activeWs' = IF activeWs # w THEN activeWs ELSE IF rest = <<>> THEN NoId ELSE rest[1]
      /\ tabs' = Only(kept, DOMAIN tabs \ gone)
      /\ panes' = Only(panes, DOMAIN panes \ PanesOf(w))
      /\ layout' = Only(layout, Elements(rest))
      /\ activePane' = Only(activePane, Elements(rest))
      /\ agent' = Only(agent, Elements(rest))
      /\ RetireTabs(gone)
      /\ UNCHANGED <<nextId, started, nextSession>>
  BY <1>0 DEF CloseWorkspace, OfWorkspaces
<1>2. rest \in Seq(Ids) /\ Distinct(rest) /\ Elements(rest) = Elements(order) \ {w}
  BY <1>0, RemoveAtElements DEF IInv, Ordering
<1>3. /\ kept \in [DOMAIN tabs -> TabSet]
      /\ \A t \in DOMAIN tabs : /\ kept[t].kind = tabs[t].kind /\ kept[t].session = tabs[t].session
                                /\ kept[t].unread => tabs[t].unread
      /\ activeWs = w /\ rest # <<>> => \A t \in DOMAIN tabs \cap Shown(rest[1]) : ~kept[t].unread
  <2>0. tabs \in [DOMAIN tabs -> TabSet]
    BY DEF IInv, Running
  <2>1. CASE activeWs = w /\ rest # <<>>
    <3>1. PICK S : S = Shown(rest[1])
      OBVIOUS
    <3>2. kept = Read(S)
      BY <2>1, <3>1
    <3> HIDE DEF kept
    <3> QED BY <2>0, <3>1, <3>2, ReadParts
  <2>2. CASE ~(activeWs = w /\ rest # <<>>)
    <3>1. kept = tabs
      BY <2>2
    <3> HIDE DEF kept
    <3> QED BY <2>0, <2>2, <3>1
  <2> QED BY <2>1, <2>2
<1> HIDE DEF kept, gone
<1>4. DOMAIN tabs' = DOMAIN tabs \ gone /\ \A t \in DOMAIN tabs' : tabs'[t] = kept[t]
  BY <1>1, <1>3 DEF Only
<1>5. tabs' \in [DOMAIN tabs' -> TabSet]
  <2>1. tabs' = [t \in DOMAIN tabs' |-> tabs'[t]]
    BY <1>1 DEF Only
  <2>2. \A t \in DOMAIN tabs' : tabs'[t] \in TabSet
    BY <1>3, <1>4
  <2> QED BY <2>1, <2>2
<1>6. \A t \in DOMAIN tabs' : /\ tabs'[t].kind = tabs[t].kind /\ tabs'[t].session = tabs[t].session
                              /\ tabs'[t].unread => tabs[t].unread
  BY <1>3, <1>4
<1>7. /\ DOMAIN panes' = DOMAIN panes \ PanesOf(w)
      /\ \A q \in DOMAIN panes' : panes'[q] = panes[q] /\ panes[q].ws # w /\ q \in DOMAIN panes
  BY <1>1 DEF Only, PanesOf
<1>8. /\ \A v \in Elements(rest) : PanesOf(v)' = PanesOf(v)
      /\ \A q \in DOMAIN panes' : TabsOf(q)' = TabsOf(q)
  BY <1>2, <1>7 DEF PanesOf, TabsOf
<1>9. DOMAIN layout = Elements(order) /\ DOMAIN activePane = Elements(order) /\ DOMAIN agent = Elements(order)
  BY DEF IInv, Layouts, Sources
<1>10. /\ DOMAIN layout' = Elements(rest) /\ DOMAIN activePane' = Elements(rest) /\ DOMAIN agent' = Elements(rest)
       /\ \A v \in Elements(rest) : /\ layout'[v] = layout[v] /\ activePane'[v] = activePane[v]
                                    /\ agent'[v] = agent[v] /\ v \in Elements(order)
  BY <1>1, <1>2, <1>9 DEF Only
<1>11. \A t : t \in gone <=> \E q \in PanesOf(w) : t \in TabsOf(q)
  BY TabsInParts DEF gone
<1>12. \A q \in DOMAIN panes' : TabsOf(q) \cap gone = {} /\ TabsOf(q) \subseteq DOMAIN tabs'
  <2> TAKE q \in DOMAIN panes'
  <2>1. \A r \in PanesOf(w) : r \in DOMAIN panes /\ r # q
    BY <1>7 DEF PanesOf
  <2>2. TabsOf(q) \cap gone = {}
    BY <1>7, <1>11, <2>1 DEF IInv, Placed
  <2>3. TabsOf(q) \subseteq DOMAIN tabs
    BY <1>7, PlacedParts DEF IInv
  <2> QED BY <1>4, <2>2, <2>3
<1>13. Ordering'
  <2>1. CASE activeWs # w
    <3>1. order # <<>> /\ activeWs # NoId /\ activeWs \in Elements(rest)
      BY <1>2, <2>1, SeqParts DEF IInv, Ordering
    <3>2. rest # <<>>
      BY <1>2, <3>1, SeqParts
    <3> QED BY <1>1, <1>2, <2>1, <3>1, <3>2 DEF IInv, Ordering
  <2>2. CASE activeWs = w
    <3>1. rest # <<>> => rest[1] \in Elements(rest) /\ rest[1] # NoId
      BY <1>2, SeqParts, Constants
    <3> QED BY <1>1, <1>2, <2>2, <3>1 DEF IInv, Ordering
  <2> QED BY <2>1, <2>2
<1>14. Layouts'
  <2>1. activePane' \in [Elements(rest) -> Ids]
    <3>1. activePane' = [v \in DOMAIN activePane' |-> activePane'[v]]
      BY <1>1 DEF Only
    <3>2. \A v \in Elements(rest) : activePane'[v] \in Ids
      BY <1>10 DEF IInv, Layouts
    <3> QED BY <1>10, <3>1, <3>2
  <2> QED BY <1>1, <1>8, <1>10, <2>1 DEF IInv, Layouts, SplitsOf
<1>15. Placed'
  <2>1. ASSUME NEW q \in DOMAIN panes'
        PROVE  /\ panes'[q] \in PaneSet /\ panes'[q].ws \in Elements(order')
               /\ Distinct(panes'[q].tabs)
               /\ IF panes'[q].tabs = <<>> THEN panes'[q].active = NoId ELSE panes'[q].active \in TabsOf(q)'
    <3>1. /\ q \in DOMAIN panes /\ panes'[q] = panes[q] /\ panes[q].ws # w
          /\ TabsOf(q)' = TabsOf(q)
      BY <1>7, <1>8
    <3>2. /\ panes[q] \in PaneSet /\ panes[q].ws \in Elements(order)
          /\ Distinct(panes[q].tabs)
          /\ IF panes[q].tabs = <<>> THEN panes[q].active = NoId ELSE panes[q].active \in TabsOf(q)
      BY <3>1 DEF IInv, Placed
    <3>3. Elements(order') = Elements(order) \ {w}
      BY <1>1, <1>2
    <3> QED BY <3>1, <3>2, <3>3
  <2>2. \A q, r \in DOMAIN panes' : q # r => TabsOf(q)' \cap TabsOf(r)' = {}
    BY <1>7, <1>8 DEF IInv, Placed
  <2>3. \A t : t \in TabsIn(DOMAIN panes)' <=> \E q \in DOMAIN panes' : t \in TabsOf(q)'
    BY DEF TabsIn, TabsOf
  <2>4. \A t : t \in DOMAIN tabs <=> \E q \in DOMAIN panes : t \in TabsOf(q)
    BY TabsInParts DEF IInv, Placed
  <2>5. ASSUME NEW t \in DOMAIN tabs' PROVE \E q \in DOMAIN panes' : t \in TabsOf(q)'
    <3>1. PICK q \in DOMAIN panes : t \in TabsOf(q)
      BY <1>4, <2>4
    <3>2. q \notin PanesOf(w)
      BY <1>4, <1>11, <3>1
    <3> QED BY <1>7, <1>8, <3>1, <3>2
  <2>6. ASSUME NEW t PROVE t \in DOMAIN tabs' <=> t \in TabsIn(DOMAIN panes)'
    BY <1>8, <1>12, <2>3, <2>5
  <2> QED BY <2>1, <2>2, <2>6 DEF Placed
<1>16. Sorted'
  <2>1. \A v \in Elements(rest) : SplitsOf(v)' = SplitsOf(v)
    BY <1>10 DEF SplitsOf
  <2>2. AllSplits' \subseteq AllSplits
    BY <1>9, <1>10 DEF AllSplits
  <2> QED BY <1>1, <1>2, <1>4, <1>7, <2>1, <2>2, ZenonT(60) DEF IInv, Sorted
<1>17. ShownRead'
  <2> SUFFICES ASSUME NEW q \in DOMAIN panes', panes[q].ws = activeWs', panes[q].active # NoId
               PROVE  ~tabs'[panes[q].active].unread
    BY <1>7 DEF ShownRead
  <2>1. panes[q].active \in DOMAIN tabs' /\ panes[q].ws \in Elements(order) /\ q \in DOMAIN panes
    BY <1>7, <1>12, PlacedParts DEF IInv
  <2>2. CASE activeWs # w
    BY <1>1, <1>6, <2>1, <2>2 DEF IInv, ShownRead
  <2>3. CASE activeWs = w
    <3>1. rest # <<>> /\ panes[q].ws = rest[1]
      <4>1. panes[q].ws # NoId
        BY <2>1, PlacedParts, Constants DEF IInv
      <4> QED BY <1>1, <2>3, <4>1
    <3>2. panes[q].active \in Shown(rest[1])
      BY <2>1, <3>1 DEF Shown, PanesOf
    <3> QED BY <1>3, <1>4, <2>1, <2>3, <3>1, <3>2
  <2> QED BY <2>2, <2>3
<1>18. Sources'
  <2>1. agent' \in [Elements(rest) -> AgentSet]
    <3>1. agent' = [v \in DOMAIN agent' |-> agent'[v]]
      BY <1>1 DEF Only
    <3>2. \A v \in Elements(rest) : agent'[v] \in AgentSet
      BY <1>10 DEF IInv, Sources
    <3> QED BY <1>10, <3>1, <3>2
  <2>2. \A v \in Elements(rest) : PanesOf(v) \subseteq DOMAIN panes'
    BY <1>2, <1>7 DEF PanesOf
  <2>3. Terminals' = Terminals \ gone
    BY <1>4, <1>6 DEF Terminals
  <2>4. ASSUME NEW v \in Elements(rest), agent[v].source # NoId
        PROVE  /\ agent[v].source \in Terminals'
               /\ \E q \in PanesOf(v)' : agent[v].source \in TabsOf(q)'
    <3>1. agent[v].source \in Terminals /\ \E q \in PanesOf(v) : agent[v].source \in TabsOf(q)
      BY <1>10, <2>4 DEF IInv, Sources
    <3>2. PICK q \in PanesOf(v) : agent[v].source \in TabsOf(q)
      BY <3>1
    <3>3. agent[v].source \notin gone /\ q \in DOMAIN panes'
      BY <1>12, <2>2, <3>2
    <3> QED BY <1>8, <2>3, <3>1, <3>2, <3>3
  <2>5. \A v \in Elements(rest) : agent'[v].status # "idle" => agent'[v].source # NoId
    BY <1>10 DEF IInv, Sources
  <2> QED BY <1>1, <1>10, <2>1, <2>4, <2>5 DEF Sources
<1>19. Running'
  BY <1>1, <1>4, <1>5, <1>6, RetireTabsStep DEF IInv
<1> QED BY <1>13, <1>14, <1>15, <1>16, <1>17, <1>18, <1>19 DEF IInv
-----------------------------------------------------------------------------
(* The next start of the application. *)

LEMMA WithoutTabsParts ==
    ASSUME IInv, NEW p \in DOMAIN panes, NEW unknown
    PROVE  LET k == WithoutTabs(p, unknown)
           IN  /\ k \in PaneSet /\ k.ws = panes[p].ws /\ Distinct(k.tabs)
               /\ Elements(k.tabs) = TabsOf(p) \ unknown
               /\ IF k.tabs = <<>> THEN k.active = NoId ELSE k.active \in Elements(k.tabs)
<1> DEFINE rest == Retained(panes[p].tabs, unknown)
           active == IF panes[p].active \notin unknown THEN panes[p].active
                     ELSE IF rest = <<>> THEN NoId ELSE rest[1]
           k == WithoutTabs(p, unknown)
<1>1. panes[p] \in PaneSet /\ panes[p].tabs \in Seq(Ids) /\ Distinct(panes[p].tabs)
  BY PlacedParts DEF IInv, Placed
<1>2. rest \in Seq(Ids) /\ Distinct(rest) /\ Elements(rest) = TabsOf(p) \ unknown
  BY <1>1, RetainedElements DEF TabsOf
<1>3. k = [panes[p] EXCEPT !.tabs = rest, !.active = active]
  BY DEF WithoutTabs
<1> HIDE DEF rest, k
<1>4. rest # <<>> => rest[1] \in Elements(rest) /\ rest[1] \in Ids
  BY <1>2, SeqParts
<1>5. active \in Ids \cup {NoId}
  BY <1>1, <1>4 DEF PaneSet
<1> HIDE DEF active
<1>6. k \in PaneSet /\ k.ws = panes[p].ws /\ k.tabs = rest /\ k.active = active
  BY <1>1, <1>2, <1>3, <1>5 DEF PaneSet
<1>7. IF rest = <<>> THEN active = NoId ELSE active \in Elements(rest)
  <2>1. CASE panes[p].active \notin unknown /\ panes[p].active # NoId
    <3>1. panes[p].active \in Elements(rest)
      BY <1>2, <2>1, PlacedParts DEF IInv
    <3>2. rest # <<>>
      BY <3>1, NoElement
    <3> QED BY <2>1, <3>1, <3>2 DEF active
  <2>2. CASE panes[p].active = NoId
    <3>1. panes[p].tabs = <<>>
      <4>1. NoId \notin TabsOf(p)
        BY <1>1, SeqParts, Constants DEF TabsOf
      <4> QED BY <2>2, <4>1 DEF IInv, Placed
    <3>2. Elements(rest) = {}
      BY <1>2, <3>1, NoElement DEF TabsOf
    <3>3. rest = <<>>
      BY <1>2, <3>2, SeqParts
    <3> QED BY <2>2, <3>3 DEF active
  <2>3. CASE panes[p].active \in unknown
    BY <1>4, <2>3 DEF active
  <2> QED BY <2>1, <2>2, <2>3
<1> QED BY <1>2, <1>6, <1>7 DEF k

LEMMA RestartStep ==
    ASSUME IInv, NEW unknown \in SUBSET MayBeUnknown, Restart(unknown)
    PROVE  IInv'
<1>1. started' = {} /\ nextSession' = 1 /\ shells' = [s \in {} |-> <<>>]
  BY DEF Restart
<1>2. CASE Empty'
  <2>1. Init'
    BY <1>1, <1>2 DEF Init
  <2> QED BY <2>1, InitInvariant, PTL
<1>3. CASE Restored(unknown)
  <2> DEFINE none == [status |-> "idle", source |-> NoId]
  <2>1. /\ panes' = [p \in DOMAIN panes |-> WithoutTabs(p, unknown)]
        /\ tabs' = [t \in DOMAIN tabs \ unknown |-> Sanitized(t)]
        /\ agent' = [w \in DOMAIN agent |-> none]
        /\ UNCHANGED <<order, activeWs, nextId, layout, activePane>>
    BY <1>3 DEF Restored
  <2>2. none \in AgentSet /\ none.status = "idle" /\ none.source = NoId
    BY DEF AgentSet
  <2> HIDE DEF none
  <2>3. /\ DOMAIN panes' = DOMAIN panes
        /\ \A p \in DOMAIN panes :
              /\ panes'[p] \in PaneSet /\ panes'[p].ws = panes[p].ws /\ Distinct(panes'[p].tabs)
              /\ TabsOf(p)' = TabsOf(p) \ unknown
              /\ IF panes'[p].tabs = <<>> THEN panes'[p].active = NoId ELSE panes'[p].active \in TabsOf(p)'
    BY <2>1, WithoutTabsParts DEF TabsOf
  <2>4. \A w : PanesOf(w)' = PanesOf(w)
    BY <2>3 DEF PanesOf
  <2>5. /\ DOMAIN tabs' = DOMAIN tabs \ unknown
        /\ \A t \in DOMAIN tabs' : tabs'[t] = Sanitized(t) /\ tabs[t] \in TabSet
    BY <2>1 DEF IInv, Running
  <2>6. \A t \in DOMAIN tabs' : tabs'[t] \in TabSet /\ tabs'[t].session = NoId /\ tabs'[t].unread = FALSE
    <3> TAKE t \in DOMAIN tabs'
    <3>1. tabs'[t] = [tabs[t] EXCEPT !.session = NoId, !.unread = FALSE,
                          !.status = IF tabs[t].status = "notStarted" THEN "running" ELSE tabs[t].status]
      BY <2>5 DEF Sanitized
    <3>2. tabs[t] \in TabSet
      BY <2>5
    <3> QED BY <3>1, <3>2 DEF TabSet
  <2>7. Ordering'
    BY <2>1 DEF IInv, Ordering
  <2>8. Layouts'
    BY <2>1, <2>4 DEF IInv, Layouts, SplitsOf
  <2>9. Placed'
    <3>1. \A t : t \in TabsIn(DOMAIN panes)' <=> \E q \in DOMAIN panes' : t \in TabsOf(q)'
      BY DEF TabsIn, TabsOf
    <3>2. \A t : t \in DOMAIN tabs <=> \E q \in DOMAIN panes : t \in TabsOf(q)
      BY TabsInParts DEF IInv, Placed
    <3>3. ASSUME NEW t PROVE t \in DOMAIN tabs' <=> t \in TabsIn(DOMAIN panes)'
      <4>1. t \in DOMAIN tabs' <=> t \notin unknown /\ \E q \in DOMAIN panes : t \in TabsOf(q)
        BY <2>5, <3>2
      <4>2. \A q \in DOMAIN panes : t \in TabsOf(q)' <=> t \notin unknown /\ t \in TabsOf(q)
        BY <2>3
      <4> QED BY <2>3, <3>1, <4>1, <4>2
    <3>4. \A q, r \in DOMAIN panes' : q # r => TabsOf(q)' \cap TabsOf(r)' = {}
      BY <2>3 DEF IInv, Placed
    <3>5. \A q \in DOMAIN panes' : panes'[q].ws \in Elements(order')
      BY <2>1, <2>3 DEF IInv, Placed
    <3> QED BY <2>3, <3>3, <3>4, <3>5 DEF Placed
  <2>10. Sorted'
    <3>1. AllSplits' = AllSplits /\ \A v : SplitsOf(v)' = SplitsOf(v)
      BY <2>1 DEF AllSplits, SplitsOf
    <3> QED BY <2>1, <2>3, <2>5, <3>1 DEF IInv, Sorted
  <2>11. ShownRead'
    <3>1. \A q \in DOMAIN panes' : panes'[q].active # NoId => panes'[q].active \in DOMAIN tabs'
      <4>1. \A t : t \in TabsIn(DOMAIN panes)' <=> \E q \in DOMAIN panes' : t \in TabsOf(q)'
        BY DEF TabsIn, TabsOf
      <4> QED BY <2>3, <2>9, <4>1 DEF Placed
    <3> QED BY <2>6, <3>1 DEF ShownRead
  <2>12. Sources'
    <3>1. DOMAIN agent = Elements(order)
      BY DEF IInv, Sources
    <3>2. agent' \in [Elements(order') -> AgentSet] /\ \A w \in Elements(order') : agent'[w] = none
      BY <2>1, <2>2, <3>1
    <3> QED BY <2>2, <3>2 DEF Sources
  <2>13. Running'
    <3>1. tabs' \in [DOMAIN tabs' -> TabSet]
      <4>1. tabs' = [t \in DOMAIN tabs' |-> tabs'[t]]
        BY <2>1
      <4> QED BY <2>6, <4>1
    <3>2. DOMAIN shells' = {} /\ shells' \in [DOMAIN shells' -> ShellSet] /\ nextSession' \in 1 .. MaxSession + 1
      BY <1>1, Constants
    <3> QED BY <1>1, <2>6, <3>1, <3>2 DEF Running
  <2> QED BY <2>7, <2>8, <2>9, <2>10, <2>11, <2>12, <2>13 DEF IInv
<1> QED BY <1>2, <1>3 DEF Restart
-----------------------------------------------------------------------------
(* Every step. *)

LEMMA NextInvariant == IInv /\ [Next]_vars => IInv'
<1> SUFFICES ASSUME IInv, [Next]_vars PROVE IInv'
  OBVIOUS
<1>1. CASE WorkspaceCommand
  <2>1. CASE CreateWorkspace
    BY <2>1, NoNewTab, InsertWorkspaceStep DEF CreateWorkspace, InsertWorkspace
  <2>2. ASSUME NEW kind \in TabKinds, CreateWorkspaceWithTab(kind) PROVE IInv'
    BY <2>2, OneNewTab, InsertWorkspaceStep DEF CreateWorkspaceWithTab, InsertWorkspace
  <2>3. ASSUME NEW w \in Elements(order), SwitchWorkspace(w) PROVE IInv'
    BY <2>3, SwitchWorkspaceStep
  <2>4. ASSUME NEW w \in Elements(order), CloseWorkspace(w) PROVE IInv'
    BY <2>4, CloseWorkspaceStep
  <2>5. ASSUME NEW w \in Elements(order), NEW before \in Elements(order) \cup {NoId},
               MoveWorkspace(w, before)
        PROVE  IInv'
    BY <2>5, MoveWorkspaceStep
  <2> QED BY <1>1, <2>1, <2>2, <2>3, <2>4, <2>5 DEF WorkspaceCommand
<1>2. CASE PaneCommand
  <2> SUFFICES ASSUME NEW p \in DOMAIN panes,
                      \/ FocusPane(p) \/ SplitPane(p) \/ ClosePane(p)
                      \/ \E kind \in TabKinds : SplitPaneWithTab(p, kind) \/ CreateTab(p, kind)
               PROVE  IInv'
    BY <1>2 DEF PaneCommand
  <2>1. CASE FocusPane(p)
    BY <2>1, FocusPaneStep
  <2>2. CASE SplitPane(p)
    BY <2>2, NoNewTab, InsertPaneStep DEF SplitPane, InsertPane
  <2>3. CASE ClosePane(p)
    BY <2>3, ClosePaneStep
  <2>4. ASSUME NEW kind \in TabKinds, SplitPaneWithTab(p, kind) PROVE IInv'
    BY <2>4, OneNewTab, InsertPaneStep DEF SplitPaneWithTab, InsertPane
  <2>5. ASSUME NEW kind \in TabKinds, CreateTab(p, kind) PROVE IInv'
    BY <2>5, CreateTabStep
  <2> QED BY <2>1, <2>2, <2>3, <2>4, <2>5
<1>3. CASE TabCommand
  BY <1>3, ActivateTabStep, CloseTabStep, RespawnTabStep, RespawnFailsStep DEF TabCommand
<1>4. CASE SessionReport
  <2> SUFFICES ASSUME NEW s \in 1 .. nextSession - 1,
                      \/ SessionExited(s) \/ SessionStartupTimeout(s)
                      \/ \E d \in Deltas : ApplyOsc(s, d)
               PROVE  IInv'
    BY <1>4 DEF SessionReport
  <2>1. CASE SessionExited(s)
    BY <2>1, SessionExitedStep
  <2>2. CASE SessionStartupTimeout(s)
    BY <2>2, SessionStartupTimeoutStep
  <2>3. ASSUME NEW d \in Deltas, ApplyOsc(s, d) PROVE IInv'
    BY <2>3, ApplyOscStep
  <2> QED BY <2>1, <2>2, <2>3
<1>5. ASSUME NEW unknown \in SUBSET MayBeUnknown, Restart(unknown) PROVE IInv'
  BY <1>5, RestartStep
<1>6. CASE UNCHANGED vars
  <2> USE <1>6 DEF vars, modelVars, hostVars
  <2>1. Ordering' = Ordering
    BY DEF Ordering
  <2>2. Layouts' = Layouts
    BY DEF Layouts, PanesOf, SplitsOf
  <2>3. Placed' = Placed
    BY DEF Placed, TabsIn, TabsOf
  <2>4. Sorted' = Sorted
    BY DEF Sorted, SplitsOf, AllSplits
  <2>5. ShownRead' = ShownRead
    BY DEF ShownRead
  <2>6. Sources' = Sources
    BY DEF Sources, PanesOf, TabsOf, Terminals
  <2>7. Running' = Running
    BY DEF Running, Terminals
  <2> QED BY <2>1, <2>2, <2>3, <2>4, <2>5, <2>6, <2>7 DEF IInv
<1> QED BY <1>1, <1>2, <1>3, <1>4, <1>5, <1>6 DEF Next

\* What every command, every event and every start of the application keeps,
\* for any number of ids and of shells.
THEOREM Invariant == Spec => []IInv
BY InitInvariant, NextInvariant, PTL DEF Spec

\* After every command the next start accepts the state: validate_app and
\* Workspace::validate hold, layouts are trees over the panes, a tab is in one
\* pane, ids in use are not handed out again, what is in view is read and a
\* status belongs to a tab.
THEOREM StateIsWellFormed == Spec => []WellFormed
<1>1. IInv => WellFormed
  BY InvariantWellFormed
<1> QED BY <1>1, Invariant, PTL

\* Every shell that nobody asked to end is the session of exactly one tab and
\* writes its history file, and every session of a tab is such a shell.
THEOREM ShellsAreOwned == Spec => []ShellsOwned
<1>1. IInv => ShellsOwned
  BY InvariantShells
<1> QED BY <1>1, Invariant, PTL
-----------------------------------------------------------------------------
(* What the next start keeps. *)

\* Whatever tabs the next start does not know, it does not put the state aside.
Accepted ==
    \A unknown \in SUBSET MayBeUnknown :
        ValidApp([p \in DOMAIN panes |-> WithoutTabs(p, unknown)])

LEMMA InvariantAccepted ==
    ASSUME IInv
    PROVE  ValidApp(panes) /\ Accepted
<1>1. ASSUME NEW unknown \in SUBSET MayBeUnknown
      PROVE  ValidApp([p \in DOMAIN panes |-> WithoutTabs(p, unknown)])
  <2> DEFINE pns == [p \in DOMAIN panes |-> WithoutTabs(p, unknown)]
  <2>1. /\ DOMAIN pns = DOMAIN panes
        /\ \A p \in DOMAIN panes :
              /\ pns[p].ws = panes[p].ws /\ Distinct(pns[p].tabs)
              /\ Elements(pns[p].tabs) = TabsOf(p) \ unknown
              /\ IF pns[p].tabs = <<>> THEN pns[p].active = NoId
                 ELSE pns[p].active \in Elements(pns[p].tabs)
    BY WithoutTabsParts
  <2> HIDE DEF pns
  <2>2. IdsDistinct(pns)
    BY <2>1, IdsCounted
  <2>3. ASSUME NEW w \in Elements(order) PROVE ValidWorkspace(w, pns)
    <3>1. layout[w].leaves = PanesOf(w) /\ activePane[w] \in PanesOf(w)
      BY DEF IInv, Layouts
    <3>2. PanesOf(w) = {p \in DOMAIN pns : pns[p].ws = w}
      BY <2>1 DEF PanesOf
    <3>3. \A p \in PanesOf(w) : pns[p].active = NoId \/ pns[p].active \in Elements(pns[p].tabs)
      BY <2>1 DEF PanesOf
    <3> QED BY <3>1, <3>2, <3>3 DEF ValidWorkspace
  <2> QED BY <2>2, <2>3 DEF IInv, Ordering, ValidApp, pns
<1>2. ValidApp(panes)
  BY InvariantWellFormed DEF WellFormed
<1> QED BY <1>1, <1>2 DEF Accepted

\* load never puts a state this application saved aside for an empty one,
\* whatever kinds of tabs the version that loads it does not know: what is
\* left of the file when those tabs are gone is still valid.
THEOREM NextStartAccepts == Spec => [](ValidApp(panes) /\ Accepted)
<1>1. IInv => ValidApp(panes) /\ Accepted
  BY InvariantAccepted
<1> QED BY <1>1, Invariant, PTL

-----------------------------------------------------------------------------
(* Waiting for input. *)

LEMMA WaitStep ==
    ASSUME IInv, [Next]_vars
    PROVE  WaitEnds
<1> SUFFICES ASSUME NEW w \in Elements(order) \cap Elements(order'),
                    agent[w].status = "needsInput", agent'[w].status # "needsInput"
             PROVE  \/ agent'[w].source = agent[w].source
                    \/ agent[w].source \notin DOMAIN tabs'
                    \/ tabs'[agent[w].source].session # tabs[agent[w].source].session
                    \/ nextSession' = 1
  BY DEF WaitEnds
<1>1. agent'[w] # agent[w] /\ agent' # agent
  OBVIOUS
<1>2. DOMAIN agent = Elements(order) /\ agent[w].source \in DOMAIN tabs
  BY DEF IInv, Sources, Terminals
<1>3. ASSUME NEW v, NEW gone, ResetAgentSource(v, gone), DOMAIN tabs' = DOMAIN tabs \ gone
      PROVE  agent[w].source \notin DOMAIN tabs'
  BY <1>1, <1>2, <1>3 DEF ResetAgentSource
<1>4. CASE WorkspaceCommand
  <2>1. ASSUME NEW s, InsertWorkspace(s) PROVE FALSE
    <3>1. nextId \notin Elements(order)
      BY Constants DEF IInv, Sorted, Ordering
    <3> QED BY <1>1, <1>2, <2>1, <3>1 DEF InsertWorkspace, With
  <2>2. ASSUME NEW v, CloseWorkspace(v) PROVE FALSE
    BY <1>1, <1>2, <2>2 DEF CloseWorkspace, OfWorkspaces, Only
  <2> QED BY <1>1, <1>4, <2>1, <2>2
      DEF WorkspaceCommand, CreateWorkspace, CreateWorkspaceWithTab, SwitchWorkspace, MoveWorkspace
<1>5. CASE PaneCommand
  <2>1. ASSUME NEW p, ClosePane(p) PROVE agent[w].source \notin DOMAIN tabs'
    <3>1. ResetAgentSource(panes[p].ws, TabsIn({p})) /\ DOMAIN tabs' = DOMAIN tabs \ TabsIn({p})
      BY <2>1 DEF ClosePane, Only
    <3> QED BY <1>3, <3>1
  <2> QED BY <1>1, <1>5, <2>1
      DEF PaneCommand, FocusPane, SplitPane, SplitPaneWithTab, InsertPane, CreateTab
<1>6. CASE TabCommand
  <2>1. ASSUME NEW t, CloseTab(t) PROVE agent[w].source \notin DOMAIN tabs'
    <3>1. ResetAgentSource(panes[PaneOf(t)].ws, {t}) /\ DOMAIN tabs' = DOMAIN tabs \ {t}
      BY <2>1 DEF CloseTab, Only, Read
    <3> QED BY <1>3, <3>1
  <2> QED BY <1>1, <1>6, <2>1 DEF TabCommand, ActivateTab, RespawnTab, RespawnFails
<1>7. ASSUME NEW s, SessionExited(s)
      PROVE  tabs'[agent[w].source].session # tabs[agent[w].source].session
  <2>1. s \in DOMAIN shells /\ s # NoId
    <3>1. s \in DOMAIN shells /\ s \in 1 .. nextSession - 1
      BY <1>7 DEF SessionExited, IInv, Running
    <3>2. nextSession - 1 \in Int
      BY Constants DEF IInv, Running
    <3> QED BY <3>1, <3>2 DEF NoId
  <2>2. agent[w].source \in Locate(s)
    BY <1>1, <1>2, <1>7 DEF SessionExited
  <2>3. tabs[agent[w].source] \in TabSet /\ tabs[agent[w].source].session = s
    BY <1>2, <2>2 DEF Locate, IInv, Running
  <2>4. tabs'[agent[w].source] = [tabs[agent[w].source] EXCEPT !.session = NoId, !.status = "exited"]
    BY <1>2, <1>7, <2>2 DEF SessionExited
  <2> QED BY <2>1, <2>3, <2>4 DEF TabSet
<1>8. ASSUME NEW s, NEW d, ApplyOsc(s, d) PROVE agent'[w].source = agent[w].source
  <2>1. PICK t : agent' = [agent EXCEPT ![WsOf(t)] = AgentAfter(@, t, d.status)]
    BY <1>1, <1>8 DEF ApplyOsc
  <2>2. agent'[w] = AgentAfter(agent[w], t, d.status)
    BY <1>1, <1>2, <2>1
  <2> QED BY <1>1, <2>2 DEF AgentAfter
<1>9. CASE SessionReport
  <2>1. ASSUME NEW s, SessionStartupTimeout(s) PROVE FALSE
    BY <1>1, <2>1 DEF SessionStartupTimeout
  <2> QED BY <1>7, <1>8, <1>9, <2>1 DEF SessionReport
<1>10. ASSUME NEW unknown, Restart(unknown) PROVE nextSession' = 1
  BY <1>10 DEF Restart
<1>11. CASE UNCHANGED vars
  BY <1>1, <1>11 DEF vars, modelVars
<1> QED BY <1>4, <1>5, <1>6, <1>9, <1>10, <1>11 DEF Next

\* A workspace that waits for input stops waiting only because the tab it
\* waits for reported, ended or went away, or because the application was
\* started again: the report of another tab never hides a question
\* (apply_delta).
THEOREM WaitsForItsSource == Spec => WaitEndsBySource
<1>1. IInv /\ [Next]_vars => [WaitEnds]_vars
  BY WaitStep
<1> QED BY <1>1, Invariant, PTL DEF Spec, WaitEndsBySource
================================================================================
