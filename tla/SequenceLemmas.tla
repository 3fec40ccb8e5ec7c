--------------------------- MODULE SequenceLemmas ---------------------------
(***************************************************************************)
(* Induction over natural numbers, intervals and sequences, stated for the *)
(* set of what has a property; that a recursion along an interval has a    *)
(* solution; and the elements of sequences.                                *)
(***************************************************************************)
EXTENDS SequencesExt, SequenceTheorems, WellFoundedInduction, TLAPS

\* Every set of natural numbers that is not empty has a least element.
LEMMA LeastNatural ==
  ASSUME NEW S, S \subseteq Nat, S # {}
  PROVE  \E n \in S : \A m \in S : n <= m
<1>1. IsWellFoundedOn(OpToRel(<, Nat), Nat)
  BY NatLessThanWellFounded
<1> DEFINE R == OpToRel(<, Nat)
<1>2. \A x, y \in Nat : x < y => <<x, y>> \in R
  BY Zenon DEF OpToRel
<1>3. IsWellFoundedOn(R, Nat)
  BY <1>1
<1> HIDE DEF R
<1>4. PICK x \in S : \A y \in S : ~ (<<y, x>> \in R)
  BY <1>3, WFMin
<1>5. \A y \in S : ~ (y < x)
  BY <1>2, <1>4
<1>6. QED
  BY <1>5

\* What holds of 0, and of n + 1 where it holds of n, holds of all natural numbers.
LEMMA NaturalInduction ==
  ASSUME NEW S, 0 \in S, \A n \in Nat : n \in S => n + 1 \in S
  PROVE  Nat \subseteq S
<1> SUFFICES ASSUME Nat \ S # {} PROVE FALSE
  OBVIOUS
<1>1. PICK n \in Nat \ S : \A m \in Nat \ S : n <= m
  BY LeastNatural
<1>2. n - 1 \in Nat /\ n - 1 \in S
  BY <1>1
<1>3. QED
  BY <1>1, <1>2

\* The same along an interval.
LEMMA IntervalInduction ==
  ASSUME NEW n \in Nat, NEW S, 0 \in S, \A i \in 1 .. n : i - 1 \in S => i \in S
  PROVE  0 .. n \subseteq S
<1> DEFINE T == S \cup {i \in Nat : i > n}
<1>1. \A i \in Nat : i \in T => i + 1 \in T
  <2> SUFFICES ASSUME NEW i \in Nat, i \in T, i + 1 <= n PROVE i + 1 \in S
    OBVIOUS
  <2>1. i \in S /\ i + 1 \in 1 .. n
    OBVIOUS
  <2>2. QED
    BY <2>1
<1>2. Nat \subseteq T
  <2> HIDE DEF T
  <2>1. 0 \in T
    BY DEF T
  <2>2. QED
    BY <1>1, <2>1, NaturalInduction
<1>3. QED
  BY <1>2

\* What holds of the empty sequence, and of a longer one where it holds of the one
\* without its last element, holds of all sequences.
LEMMA SequenceInduction ==
  ASSUME NEW X, NEW S, <<>> \in S,
         \A list \in Seq(X), x \in X : list \in S => Append(list, x) \in S
  PROVE  Seq(X) \subseteq S
<1> DEFINE T == {n \in Nat : \A list \in Seq(X) : Len(list) = n => list \in S}
<1>1. 0 \in T
  BY EmptySeq
<1>2. ASSUME NEW n \in Nat, n \in T PROVE n + 1 \in T
  <2> SUFFICES ASSUME NEW list \in Seq(X), Len(list) = n + 1 PROVE list \in S
    OBVIOUS
  <2>1. list # <<>>
    BY EmptySeq
  <2>2. PICK s \in Seq(X), x \in X : list = Append(s, x)
    BY <2>1, SequenceEmptyOrAppend
  <2>3. Len(s) = n
    BY <2>2
  <2>4. QED
    BY <1>2, <2>2, <2>3
<1>3. Nat \subseteq T
  <2> HIDE DEF T
  <2>1. QED
    BY <1>1, <1>2, NaturalInduction
<1>4. QED
  BY <1>3

\* A function on 0 .. n given by its value at 0 and each value from the one before.
IsRecursion(f, n, S, a, G) ==
  f \in [0 .. n -> S] /\ f[0] = a /\ \A i \in 1 .. n : f[i] = G[i][f[i - 1]]

\* There is one, whatever the step is.
LEMMA PrefixRecursion ==
  ASSUME NEW n \in Nat, NEW S, NEW a \in S, NEW G \in [1 .. n -> [S -> S]]
  PROVE  \E f : IsRecursion(f, n, S, a, G)
<1> DEFINE P(m) == \E f \in [0 .. m -> S] :
                     f[0] = a /\ \A i \in 1 .. m : f[i] = G[i][f[i - 1]]
           T == {m \in 0 .. n : P(m)}
<1>1. 0 \in T
  <2>1. P(0)
    <3> DEFINE f == [i \in 0 .. 0 |-> a]
    <3>1. f \in [0 .. 0 -> S]
      OBVIOUS
    <3>2. f[0] = a
      OBVIOUS
    <3>3. \A i \in 1 .. 0 : f[i] = G[i][f[i - 1]]
      OBVIOUS
    <3> HIDE DEF f
    <3>4. QED
      BY <3>1, <3>2, <3>3
  <2>2. QED
    BY <2>1
<1>2. ASSUME NEW m \in 1 .. n, m - 1 \in T PROVE m \in T
  <2>1. PICK f \in [0 .. m - 1 -> S] :
          f[0] = a /\ \A i \in 1 .. m - 1 : f[i] = G[i][f[i - 1]]
    BY <1>2
  <2> DEFINE g == [i \in 0 .. m |-> IF i = m THEN G[m][f[m - 1]] ELSE f[i]]
  <2>2. G[m][f[m - 1]] \in S
    OBVIOUS
  <2>3. g \in [0 .. m -> S]
    BY <2>2
  <2>4. g[0] = a
    BY <2>1
  <2>5. \A i \in 1 .. m : g[i] = G[i][g[i - 1]]
    BY <2>1
  <2>6. P(m)
    BY <2>3, <2>4, <2>5
  <2>7. m \in 0 .. n
    OBVIOUS
  <2>8. QED
    BY <2>6, <2>7, Zenon
<1>3. 0 .. n \subseteq T
  <2> HIDE DEF T
  <2>1. QED
    BY <1>1, <1>2, IntervalInduction
<1>4. n \in T
  BY <1>3
<1>5. QED
  BY <1>4 DEF IsRecursion

\* The empty sequence has no elements.
LEMMA ToSetEmpty == ToSet(<<>>) = {}
BY DEF ToSet

\* The elements of a longer sequence,
LEMMA ToSetAppend ==
  ASSUME NEW X, NEW list \in Seq(X), NEW x \in X
  PROVE  ToSet(Append(list, x)) = ToSet(list) \cup {x}
<1> DEFINE long == Append(list, x)
           n == Len(list)
<1>1. n \in Nat /\ DOMAIN list = 1 .. n /\ DOMAIN long = 1 .. n + 1 /\ long[n + 1] = x
      /\ \A i \in 1 .. n : long[i] = list[i]
  OBVIOUS
<1> HIDE DEF long, n
<1>2. ToSet(long) = ToSet(list) \cup {x}
  BY <1>1 DEF ToSet
<1>3. QED
  BY <1>2, Zenon DEF long

\* and those of a sequence that is taken apart.
LEMMA HeadAndRest ==
  ASSUME NEW X, NEW list \in Seq(X), list # <<>>
  PROVE  /\ ToSet(list) = {Head(list)} \cup ToSet(Tail(list))
         /\ Head(list) \in X /\ Tail(list) \in Seq(X)
<1> DEFINE rest == Tail(list)
           n == Len(list)
<1>1. /\ n \in Nat \ {0} /\ DOMAIN list = 1 .. n /\ DOMAIN rest = 1 .. n - 1
      /\ \A i \in 1 .. n - 1 : rest[i] = list[i + 1]
      /\ Head(list) = list[1] /\ rest \in Seq(X)
  OBVIOUS
<1> HIDE DEF rest, n
<1>2. \A i \in 2 .. n : list[i] = rest[i - 1] /\ i - 1 \in 1 .. n - 1
  BY <1>1
<1>3. ToSet(list) \subseteq {list[1]} \cup ToSet(rest)
  <2> SUFFICES ASSUME NEW i \in 1 .. n PROVE list[i] \in {list[1]} \cup ToSet(rest)
    BY <1>1 DEF ToSet
  <2>1. CASE i = 1
    BY <2>1
  <2>2. CASE i # 1
    <3>1. i \in 2 .. n
      BY <1>1, <2>2
    <3>2. QED
      BY <1>1, <1>2, <3>1 DEF ToSet
  <2>3. QED
    BY <2>1, <2>2
<1>4. ToSet(rest) \subseteq ToSet(list) /\ list[1] \in ToSet(list)
  BY <1>1 DEF ToSet
<1>5. QED
  BY <1>1, <1>3, <1>4 DEF rest

=============================================================================
