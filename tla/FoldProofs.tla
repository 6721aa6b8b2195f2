----------------------------- MODULE FoldProofs -----------------------------
(***************************************************************************)
(* Facts about folds over sequences, for any operator Op(p, x, e) with a   *)
(* parameter p: a module that folds takes an instance of this one for each *)
(* operator that it folds with.                                            *)
(*                                                                         *)
(* The provers cannot apply a theorem to a formula, so induction is stated *)
(* of sets of numbers: the numbers of which something is true.             *)
(***************************************************************************)
EXTENDS SequencesExt, WellFoundedInduction, TLAPS

CONSTANT Op(_, _, _)

\* A set of natural numbers with a member has a least one.
LEMMA LeastNumber ==
  ASSUME NEW T \in SUBSET Nat, T # {}
  PROVE  \E n \in T : \A m \in T : n <= m
<1>1. PICK x \in T : \A y \in T : ~ (<<y, x>> \in OpToRel(<, Nat))
  BY WFMin, NatLessThanWellFounded
<1>2. \A y \in T : ~ (y < x)
  BY <1>1 DEF OpToRel
<1> QED
  BY <1>2

\* A set with 0 and the successors of its members has every natural number.
LEMMA Induction ==
  ASSUME NEW T \in SUBSET Nat, 0 \in T, \A n \in T : n + 1 \in T
  PROVE  T = Nat
<1> SUFFICES ASSUME T # Nat PROVE FALSE
  OBVIOUS
<1>1. PICK n \in Nat \ T : \A m \in Nat \ T : n <= m
  BY LeastNumber
<1> QED
  BY <1>1

\* The same from 0 to some bound.
LEMMA BoundedInduction ==
  ASSUME NEW n \in Nat, NEW T \in SUBSET (0 .. n), 0 \in T,
         \A k \in 0 .. n - 1 : k \in T => k + 1 \in T
  PROVE  T = 0 .. n
<1> DEFINE U == {k \in Nat : k <= n => k \in T}
<1>1. 0 \in U
  OBVIOUS
<1>2. ASSUME NEW k \in U
      PROVE  k + 1 \in U
  <2>1. k \in Nat /\ (k <= n => k \in T)
    OBVIOUS
  <2>2. k + 1 <= n => k \in 0 .. n - 1 /\ k \in T
    BY <2>1
  <2>3. k + 1 <= n => k + 1 \in T
    BY <2>2
  <2> QED
    BY <2>1, <2>3
<1> HIDE DEF U
<1>3. U = Nat
  BY <1>1, <1>2, Induction DEF U
<1>4. \A k \in 0 .. n : k \in Nat /\ k <= n
  OBVIOUS
<1> QED
  BY <1>3, <1>4 DEF U

------------------------------------------------------------------------------
(***************************************************************************)
(* Functions defined by recursion over the indices of a sequence exist:    *)
(* the first value is the first element, the others are what Op makes of   *)
(* the value before and the element.                                       *)
(***************************************************************************)
Recurses(p, s, n, f) ==
  f = [i \in 1 .. n |-> IF i = 1 THEN s[i] ELSE Op(p, f[i - 1], s[i])]

LEMMA RecursionExists ==
  ASSUME NEW p, NEW s, NEW n \in Nat
  PROVE  \E f : Recurses(p, s, n, f)
<1> DEFINE T == {k \in Nat : \E f : Recurses(p, s, k, f)}
<1>1. 0 \in T
  <2> DEFINE f == [i \in 1 .. 0 |-> s[i]]
  <2>1. Recurses(p, s, 0, f)
    BY DEF Recurses
  <2> QED
    BY <2>1
<1>2. ASSUME NEW k \in T
      PROVE  k + 1 \in T
  <2>1. PICK f : Recurses(p, s, k, f)
    OBVIOUS
  <2> DEFINE g == [i \in 1 .. k + 1 |-> IF i \in 1 .. k THEN f[i]
                                       ELSE IF i = 1 THEN s[i] ELSE Op(p, f[k], s[i])]
  <2>2. ASSUME NEW i \in 1 .. k + 1
        PROVE  g[i] = IF i = 1 THEN s[i] ELSE Op(p, g[i - 1], s[i])
    <3>1. CASE i \in 1 .. k
      <4>1. f[i] = IF i = 1 THEN s[i] ELSE Op(p, f[i - 1], s[i])
        BY <2>1, <3>1 DEF Recurses
      <4>2. i # 1 => g[i - 1] = f[i - 1]
        BY <3>1
      <4> QED
        BY <3>1, <4>1, <4>2
    <3>2. CASE i \notin 1 .. k
      <4>1. i = k + 1 /\ (i # 1 => i - 1 \in 1 .. k /\ i - 1 = k)
        BY <3>2
      <4> QED
        BY <3>2, <4>1
    <3> QED
      BY <3>1, <3>2
  <2>3. Recurses(p, s, k + 1, g)
    BY <2>2 DEF Recurses
  <2> QED
    BY <2>3
<1> HIDE DEF T
<1>3. T = Nat
  BY <1>1, <1>2, Induction DEF T
<1> QED
  BY <1>3 DEF T

\* Its values.
LEMMA RecursionValues ==
  ASSUME NEW p, NEW s, NEW n \in Nat \ {0}, NEW f, Recurses(p, s, n, f)
  PROVE  f[1] = s[1] /\ \A i \in 2 .. n : f[i] = Op(p, f[i - 1], s[i])
BY DEF Recurses

------------------------------------------------------------------------------
(***************************************************************************)
(* FoldLeft.  It is defined by taking the last index off the domain of the *)
(* sequence, over and over; Iterates says so of a function it, defined on  *)
(* the subsets of D.                                                       *)
(***************************************************************************)
Folded(p, base, s) == FoldLeft(LAMBDA x, e : Op(p, x, e), base, s)

Iterates(p, base, s, it, D) ==
  it = [t \in SUBSET D |->
          IF t = {} THEN base ELSE Op(p, it[t \ {Max(t)}], s[Max(t)])]

\* The greatest element of a set of indices.
LEMMA MaxIs ==
  ASSUME NEW k \in Nat, NEW t \in SUBSET (1 .. k), k \in t
  PROVE  Max(t) = k
<1> DEFINE Top(x) == \A y \in t : x >= y
<1>1. Top(k)
  OBVIOUS
<1>2. \A x \in t : Top(x) => x = k
  <2> SUFFICES ASSUME NEW x \in t, Top(x) PROVE x = k
    OBVIOUS
  <2>1. x >= k /\ x \in 1 .. k
    OBVIOUS
  <2> QED
    BY <2>1
<1> HIDE DEF Top
<1>3. (CHOOSE x \in t : Top(x)) = k
  BY <1>1, <1>2
<1> QED
  BY <1>3 DEF Max, Top

\* There is such a function: the indices are taken off one at a time.
LEMMA IterationExists ==
  ASSUME NEW p, NEW base, NEW s, NEW n \in Nat
  PROVE  \E it : Iterates(p, base, s, it, 1 .. n)
<1> DEFINE T == {k \in Nat : \E f : Iterates(p, base, s, f, 1 .. k)}
<1>1. 0 \in T
  <2> DEFINE f == [t \in SUBSET (1 .. 0) |-> base]
  <2>1. \A t \in SUBSET (1 .. 0) : t = {}
    OBVIOUS
  <2>2. Iterates(p, base, s, f, 1 .. 0)
    BY <2>1 DEF Iterates
  <2> QED
    BY <2>2
<1>2. ASSUME NEW k \in T
      PROVE  k + 1 \in T
  <2>1. PICK f : Iterates(p, base, s, f, 1 .. k)
    OBVIOUS
  <2> DEFINE g == [t \in SUBSET (1 .. k + 1) |->
                     IF k + 1 \in t THEN Op(p, f[t \ {k + 1}], s[k + 1]) ELSE f[t]]
  <2>2. ASSUME NEW t \in SUBSET (1 .. k + 1)
        PROVE  g[t] = IF t = {} THEN base ELSE Op(p, g[t \ {Max(t)}], s[Max(t)])
    <3>1. CASE k + 1 \in t
      <4>1. Max(t) = k + 1
        BY <3>1, MaxIs
      <4>2. g[t \ {k + 1}] = f[t \ {k + 1}]
        OBVIOUS
      <4> QED
        BY <3>1, <4>1, <4>2
    <3>2. CASE k + 1 \notin t
      <4>1. t \in SUBSET (1 .. k)
        BY <3>2
      <4>2. f[t] = IF t = {} THEN base ELSE Op(p, f[t \ {Max(t)}], s[Max(t)])
        BY <4>1, <2>1 DEF Iterates
      <4>3. g[t \ {Max(t)}] = f[t \ {Max(t)}] /\ g[t] = f[t]
        BY <3>2
      <4> QED
        BY <4>2, <4>3
    <3> QED
      BY <3>1, <3>2
  <2>3. Iterates(p, base, s, g, 1 .. k + 1)
    BY <2>2 DEF Iterates
  <2> QED
    BY <2>3
<1> HIDE DEF T
<1>3. T = Nat
  BY <1>1, <1>2, Induction DEF T
<1> QED
  BY <1>3 DEF T

(***************************************************************************)
(* The fold is the last of a row of values: the base, and then what Op     *)
(* makes of each value and the next element of the sequence.               *)
(***************************************************************************)
LEMMA FoldTrace ==
  ASSUME NEW p, NEW base, NEW S, NEW s \in Seq(S)
  PROVE  \E f : /\ f[0] = base
                /\ \A i \in 1 .. Len(s) : f[i] = Op(p, f[i - 1], s[i])
                /\ Folded(p, base, s) = f[Len(s)]
<1> DEFINE it == CHOOSE it : Iterates(p, base, s, it, DOMAIN s)
<1>1. DOMAIN s = 1 .. Len(s) /\ Len(s) \in Nat
  OBVIOUS
<1>2. Iterates(p, base, s, it, 1 .. Len(s))
  BY <1>1, IterationExists
<1>3. Folded(p, base, s) = it[DOMAIN s]
  BY DEF Folded, FoldLeft, MapThenFoldSet, Iterates
<1> HIDE DEF it
<1> DEFINE f == [i \in 0 .. Len(s) |-> it[1 .. i]]
<1>4. f[0] = base
  BY <1>1, <1>2 DEF Iterates
<1>5. ASSUME NEW i \in 1 .. Len(s)
      PROVE  f[i] = Op(p, f[i - 1], s[i])
  <2>1. Max(1 .. i) = i
    BY MaxIs
  <2>2. (1 .. i) \ {i} = 1 .. i - 1
    OBVIOUS
  <2>3. 1 .. i \in SUBSET (1 .. Len(s)) /\ i \in 1 .. i
    BY <1>1
  <2>4. it[1 .. i] = Op(p, it[1 .. i - 1], s[i])
    BY <1>2, <2>1, <2>2, <2>3 DEF Iterates
  <2> QED
    BY <2>4, <1>1
<1> HIDE DEF f
<1>6. Folded(p, base, s) = f[Len(s)]
  BY <1>1, <1>3 DEF f
<1> QED
  BY <1>4, <1>5, <1>6

\* It is the last of any such row.
LEMMA FoldIs ==
  ASSUME NEW p, NEW base, NEW S, NEW s \in Seq(S), NEW f, f[0] = base,
         \A i \in 1 .. Len(s) : f[i] = Op(p, f[i - 1], s[i])
  PROVE  Folded(p, base, s) = f[Len(s)]
<1>1. Len(s) \in Nat
  OBVIOUS
<1>2. PICK g : /\ g[0] = base
               /\ \A i \in 1 .. Len(s) : g[i] = Op(p, g[i - 1], s[i])
               /\ Folded(p, base, s) = g[Len(s)]
  BY FoldTrace
<1> DEFINE T == {i \in 0 .. Len(s) : f[i] = g[i]}
<1>3. 0 \in T
  BY <1>1, <1>2
<1>4. ASSUME NEW i \in 0 .. Len(s) - 1, i \in T
      PROVE  i + 1 \in T
  <2>1. i + 1 \in 1 .. Len(s) /\ (i + 1) - 1 = i
    BY <1>1
  <2>2. f[i + 1] = Op(p, f[i], s[i + 1]) /\ g[i + 1] = Op(p, g[i], s[i + 1])
    BY <1>2, <2>1
  <2> QED
    BY <1>1, <1>4, <2>1, <2>2
<1> HIDE DEF T
<1>5. T = 0 .. Len(s)
  BY <1>1, <1>3, <1>4, BoundedInduction DEF T
<1>6. Len(s) \in T
  BY <1>1, <1>5
<1> QED
  BY <1>2, <1>6 DEF T

\* Nothing folded is the base, and one element what Op makes of it.
LEMMA FoldOfFew ==
  ASSUME NEW p, NEW base, NEW S, NEW s \in Seq(S)
  PROVE  /\ Len(s) = 0 => Folded(p, base, s) = base
         /\ Len(s) = 1 => Folded(p, base, s) = Op(p, base, s[1])
<1>1. PICK f : /\ f[0] = base
               /\ \A i \in 1 .. Len(s) : f[i] = Op(p, f[i - 1], s[i])
               /\ Folded(p, base, s) = f[Len(s)]
  BY FoldTrace
<1>2. 1 \in 1 .. 1 /\ 1 - 1 = 0
  OBVIOUS
<1> QED
  BY <1>1, <1>2

\* What the base is and every application of Op keeps, the fold is.
LEMMA FoldInvariant ==
  ASSUME NEW p, NEW base, NEW S, NEW s \in Seq(S), NEW R, base \in R,
         \A x \in R : \A i \in 1 .. Len(s) : Op(p, x, s[i]) \in R
  PROVE  Folded(p, base, s) \in R
<1>1. Len(s) \in Nat /\ s \in Seq(S)
  OBVIOUS
<1>2. PICK f : /\ f[0] = base
               /\ \A i \in 1 .. Len(s) : f[i] = Op(p, f[i - 1], s[i])
               /\ Folded(p, base, s) = f[Len(s)]
  BY ONLY <1>1, FoldTrace
<1> DEFINE T == {i \in 0 .. Len(s) : f[i] \in R}
<1>3. 0 \in T
  BY <1>1, <1>2
<1>4. ASSUME NEW i \in 0 .. Len(s) - 1, i \in T
      PROVE  i + 1 \in T
  <2>1. i + 1 \in 1 .. Len(s) /\ (i + 1) - 1 = i
    BY <1>1
  <2>2. f[i + 1] = Op(p, f[i], s[i + 1])
    BY <1>2, <2>1
  <2> QED
    BY <1>1, <1>4, <2>1, <2>2
<1> HIDE DEF T
<1>5. T = 0 .. Len(s)
  BY <1>1, <1>3, <1>4, BoundedInduction DEF T
<1>6. Len(s) \in T
  BY <1>1, <1>5
<1> QED
  BY <1>2, <1>6 DEF T

\* Of nothing it is the base.
LEMMA FoldOfNone ==
  ASSUME NEW p, NEW base
  PROVE  Folded(p, base, <<>>) = base
<1>1. PICK s \in Seq(Nat) : s = <<>> /\ Len(s) = 0
  <2>1. <<>> \in Seq(Nat) /\ Len(<<>>) = 0
    OBVIOUS
  <2> QED
    BY <2>1
<1>2. \A x \in {base} : \A i \in 1 .. Len(s) : Op(p, x, s[i]) \in {base}
  BY <1>1
<1>3. base \in {base} /\ s \in Seq(Nat)
  OBVIOUS
<1>4. Folded(p, base, s) \in {base}
  BY ONLY <1>2, <1>3, FoldInvariant
<1> QED
  BY <1>1, <1>4

\* Two sequences, one after the other.
LEMMA FoldOfConcat ==
  ASSUME NEW p, NEW base, NEW S, NEW s \in Seq(S), NEW t \in Seq(S)
  PROVE  Folded(p, base, s \o t) = Folded(p, Folded(p, base, s), t)
<1> DEFINE st == s \o t
<1>1. /\ Len(s) \in Nat /\ Len(t) \in Nat /\ st \in Seq(S)
      /\ Len(st) = Len(s) + Len(t)
      /\ \A i \in 1 .. Len(s) : st[i] = s[i]
      /\ \A i \in 1 .. Len(t) : st[Len(s) + i] = t[i]
  OBVIOUS
<1> HIDE DEF st
<1>2. PICK f : /\ f[0] = base
               /\ \A i \in 1 .. Len(st) : f[i] = Op(p, f[i - 1], st[i])
               /\ Folded(p, base, st) = f[Len(st)]
  <2>1. \A u \in Seq(S) : \E f : /\ f[0] = base
                                 /\ \A i \in 1 .. Len(u) : f[i] = Op(p, f[i - 1], u[i])
                                 /\ Folded(p, base, u) = f[Len(u)]
    BY FoldTrace
  <2> QED
    BY <1>1, <2>1
<1>3. Folded(p, base, s) = f[Len(s)]
  <2>1. \A i \in 1 .. Len(s) : f[i] = Op(p, f[i - 1], s[i])
    BY <1>1, <1>2
  <2> QED
    BY <1>2, <2>1, FoldIs
<1> DEFINE g == [i \in 0 .. Len(t) |-> f[Len(s) + i]]
<1>4. g[0] = f[Len(s)]
  BY <1>1
<1>5. ASSUME NEW i \in 1 .. Len(t)
      PROVE  g[i] = Op(p, g[i - 1], t[i])
  <2>1. /\ Len(s) + i \in 1 .. Len(st) /\ i \in 0 .. Len(t) /\ i - 1 \in 0 .. Len(t)
        /\ (Len(s) + i) - 1 = Len(s) + (i - 1)
    BY <1>1
  <2>2. f[Len(s) + i] = Op(p, f[Len(s) + (i - 1)], st[Len(s) + i])
    BY <1>2, <2>1
  <2> QED
    BY <1>1, <2>1, <2>2
<1>6. g[Len(t)] = f[Len(st)]
  BY <1>1
<1> HIDE DEF g
<1>7. Folded(p, f[Len(s)], t) = g[Len(t)]
  BY <1>4, <1>5, FoldIs
<1> QED
  BY <1>2, <1>3, <1>6, <1>7 DEF st

\* One more element.
LEMMA FoldOfAppend ==
  ASSUME NEW p, NEW base, NEW S, NEW s \in Seq(S), NEW e \in S
  PROVE  Folded(p, base, Append(s, e)) = Op(p, Folded(p, base, s), e)
<1> DEFINE last == <<e>>
<1>1. /\ Append(s, e) = s \o last /\ last \in Seq(S) /\ Len(last) = 1 /\ last[1] = e
  OBVIOUS
<1> HIDE DEF last
<1>2. Folded(p, base, s \o last) = Folded(p, Folded(p, base, s), last)
  BY <1>1, FoldOfConcat
<1>3. Folded(p, Folded(p, base, s), last) = Op(p, Folded(p, base, s), e)
  BY <1>1, FoldOfFew
<1> QED
  BY <1>1, <1>2, <1>3

------------------------------------------------------------------------------
(***************************************************************************)
(* Folds that add a number for each element.                               *)
(***************************************************************************)
Adds(p, e) == Op(p, 0, e) \in Int /\ \A x \in Int : Op(p, x, e) = x + Op(p, 0, e)

\* The sum does not depend on where it starts.
LEMMA FoldAdds ==
  ASSUME NEW p, NEW base \in Int, NEW S, NEW s \in Seq(S),
         \A i \in 1 .. Len(s) : Adds(p, s[i])
  PROVE  Folded(p, 0, s) \in Int /\ Folded(p, base, s) = base + Folded(p, 0, s)
<1>1. PICK f : /\ f[0] = base
               /\ \A i \in 1 .. Len(s) : f[i] = Op(p, f[i - 1], s[i])
               /\ Folded(p, base, s) = f[Len(s)]
  BY FoldTrace
<1>2. PICK g : /\ g[0] = 0
               /\ \A i \in 1 .. Len(s) : g[i] = Op(p, g[i - 1], s[i])
               /\ Folded(p, 0, s) = g[Len(s)]
  BY FoldTrace
<1>3. Len(s) \in Nat
  OBVIOUS
<1> DEFINE T == {k \in 0 .. Len(s) : g[k] \in Int /\ f[k] = base + g[k]}
<1>4. 0 \in T
  BY <1>1, <1>2, <1>3
<1>5. ASSUME NEW k \in 0 .. Len(s) - 1, k \in T
      PROVE  k + 1 \in T
  <2>1. PICK i \in 1 .. Len(s) : i = k + 1 /\ i - 1 = k
    BY <1>3
  <2>2. f[i] = Op(p, f[k], s[i]) /\ g[i] = Op(p, g[k], s[i])
    BY <1>1, <1>2, <2>1
  <2>3. PICK a \in Int : a = Op(p, 0, s[i])
    BY DEF Adds
  <2>4. \A x \in Int : Op(p, x, s[i]) = x + a
    BY <2>3 DEF Adds
  <2>5. PICK b \in Int : b = g[k] /\ f[k] = base + b
    BY <1>5
  <2>6. g[i] = b + a /\ f[i] = (base + b) + a
    <3>1. b \in Int /\ base + b \in Int
      OBVIOUS
    <3> QED
      BY <2>2, <2>4, <2>5, <3>1
  <2>7. g[i] \in Int /\ f[i] = base + g[i] /\ i \in 0 .. Len(s)
    BY <1>3, <2>6
  <2> QED
    BY <2>1, <2>7
<1> HIDE DEF T
<1>6. T = 0 .. Len(s)
  BY <1>3, <1>4, <1>5, BoundedInduction DEF T
<1>7. Len(s) \in T
  BY <1>3, <1>6
<1> QED
  BY <1>1, <1>2, <1>7 DEF T

\* Of n parts s put together, f[k] being the first k of them, it is g[n], where
\* g sums up the parts.
Parts(S, n, s, f) ==
  f[0] = <<>> /\ \A i \in 1 .. n : s[i] \in Seq(S) /\ f[i] = f[i - 1] \o s[i]
PartsAdd(p, n, s) == \A i \in 1 .. n : \A j \in 1 .. Len(s[i]) : Adds(p, s[i][j])
PartSums(p, n, s, g) == g[0] = 0 /\ \A i \in 1 .. n : g[i] = g[i - 1] + Folded(p, 0, s[i])

LEMMA FoldOfParts ==
  ASSUME NEW p, NEW S, NEW n \in Nat, NEW s, NEW f, NEW g,
         Parts(S, n, s, f), PartsAdd(p, n, s), PartSums(p, n, s, g)
  PROVE  Folded(p, 0, f[n]) = g[n] /\ g[n] \in Int
<1>0. /\ f[0] = <<>> /\ g[0] = 0
      /\ \A i \in 1 .. n : s[i] \in Seq(S) /\ f[i] = f[i - 1] \o s[i]
      /\ \A i \in 1 .. n : \A j \in 1 .. Len(s[i]) : Adds(p, s[i][j])
      /\ \A i \in 1 .. n : g[i] = g[i - 1] + Folded(p, 0, s[i])
  BY DEF Parts, PartsAdd, PartSums
<1> DEFINE T == {k \in 0 .. n : f[k] \in Seq(S) /\ g[k] \in Int /\ Folded(p, 0, f[k]) = g[k]}
<1>1. 0 \in T
  <2>1. Folded(p, 0, <<>>) = 0
    BY FoldOfNone
  <2>2. f[0] \in Seq(S) /\ g[0] \in Int /\ 0 \in 0 .. n
    BY <1>0
  <2> QED
    BY <1>0, <2>1, <2>2
<1>2. ASSUME NEW k \in 0 .. n - 1, k \in T
      PROVE  k + 1 \in T
  <2>1. PICK i \in 1 .. n : i = k + 1 /\ i - 1 = k
    OBVIOUS
  <2>2. PICK a \in Seq(S), b \in Seq(S) : a = f[k] /\ b = s[i]
    BY <1>0, <1>2, <2>1
  <2>3. f[i] = a \o b /\ f[i] \in Seq(S)
    <3>1. f[i] = f[k] \o s[i]
      BY <1>0, <2>1
    <3>2. a \o b \in Seq(S)
      BY ONLY <2>2
    <3> QED
      BY <2>2, <3>1, <3>2
  <2>4. PICK m \in Int : m = Folded(p, 0, a) /\ m = g[k]
    BY <1>2, <2>2
  <2>5. Folded(p, 0, a \o b) = Folded(p, m, b)
    BY <2>4, FoldOfConcat
  <2>6. \A j \in 1 .. Len(b) : Adds(p, b[j])
    BY <1>0, <2>2
  <2>7. Folded(p, 0, b) \in Int /\ Folded(p, m, b) = m + Folded(p, 0, b)
    BY <2>6, FoldAdds
  <2>8. g[i] = m + Folded(p, 0, b)
    BY <1>0, <2>1, <2>2, <2>4
  <2>9. g[i] \in Int /\ Folded(p, 0, f[i]) = g[i]
    BY <2>3, <2>5, <2>7, <2>8
  <2>10. i \in 0 .. n
    OBVIOUS
  <2> QED
    BY <2>1, <2>3, <2>9, <2>10
<1> HIDE DEF T
<1>3. T = 0 .. n
  BY <1>1, <1>2, BoundedInduction DEF T
<1>4. n \in T
  BY <1>3
<1> QED
  BY <1>4 DEF T
=============================================================================
