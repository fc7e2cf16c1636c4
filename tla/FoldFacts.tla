------------------------------- MODULE FoldFacts -------------------------------
(***************************************************************************)
(* What a fold from the left computes, for any operator op: the proofs     *)
(* about a model that folds an operator of its own over a sequence         *)
(* instantiate this module with it, and reason about the steps of the fold *)
(* by induction.  Fold is FoldLeft of the community modules with their     *)
(* definitions written out; besides the value and the element, op may      *)
(* depend on two things that the fold does not change.  What every step    *)
(* preserves, holds, may depend on them too.                               *)
(***************************************************************************)
EXTENDS Integers, Sequences, WellFoundedInduction, TLAPS

CONSTANTS op(_, _, _, _), holds(_, _, _)

Top(S) == CHOOSE x \in S : \A y \in S : x >= y
Fold(c, d, b, s) ==
    LET iter[S \in SUBSET DOMAIN s] ==
          IF S = {} THEN b ELSE op(c, d, iter[S \ {Top(S)}], s[Top(S)])
    IN  iter[DOMAIN s]

\* A function that obeys the recursion of Fold on the subsets of D.
Obeys(it, c, d, b, s, D) ==
    it = [S \in SUBSET D |->
            IF S = {} THEN b ELSE op(c, d, it[S \ {Top(S)}], s[Top(S)])]

\* The values between the elements: f[i] is what the first i elements make of b.
Steps(f, c, d, b, s, n) ==
    /\ f[0] = b
    /\ \A i \in 1..n : f[i] = op(c, d, f[i - 1], s[i])

-----------------------------------------------------------------------------
(***************************************************************************)
(* A set of numbers that holds 0 and the successor of each of its members  *)
(* holds every number: induction, where a set stands for the property.     *)
(***************************************************************************)
LEMMA SetInduction ==
  ASSUME NEW P, 0 \in P, \A n \in Nat : n \in P => n + 1 \in P
  PROVE  \A n \in Nat : n \in P
<1> SUFFICES ASSUME {n \in Nat : n \notin P} # {}
             PROVE  FALSE
  OBVIOUS
<1> DEFINE less == {ss \in Nat \X Nat : ss[1] < ss[2]}
           T == {n \in Nat : n \notin P}
<1>1. IsWellFoundedOn(less, Nat)
  BY NatLessThanWellFounded DEF OpToRel
<1>2. T \subseteq Nat /\ T # {}
  OBVIOUS
<1>3. PICK m \in T : \A k \in T : ~(<<k, m>> \in less)
  BY <1>1, <1>2, WFMin
<1>4. m \in Nat /\ m - 1 \in Nat
  BY <1>3
<1>5. m - 1 \notin T
  <2>1. <<m - 1, m>> \in less
    BY <1>4
  <2> HIDE DEF less, T
  <2> QED
    BY <1>3, <2>1
<1>6. m - 1 \in P
  BY <1>4, <1>5
<1>7. (m - 1) + 1 \in P
  BY <1>4, <1>6
<1> QED
  BY <1>3, <1>4, <1>7

\* A set of numbers has a least member.
LEMMA LeastOf ==
  ASSUME NEW S, S \subseteq Nat, S # {}
  PROVE  \E m \in S : \A k \in S : m <= k
<1> DEFINE less == {ss \in Nat \X Nat : ss[1] < ss[2]}
<1>1. IsWellFoundedOn(less, Nat)
  BY NatLessThanWellFounded DEF OpToRel
<1>2. PICK m \in S : \A k \in S : ~(<<k, m>> \in less)
  BY <1>1, WFMin
<1>3. ASSUME NEW k \in S PROVE m <= k
  <2>1. k \in Nat /\ m \in Nat /\ <<k, m>> \notin less
    <3> HIDE DEF less
    <3> QED
      BY <1>2
  <2>2. k < m => <<k, m>> \in less
    BY <2>1
  <2> HIDE DEF less
  <2> QED
    BY <2>1, <2>2
<1> QED
  BY <1>3

\* The same up to a bound.
LEMMA BoundedInduction ==
  ASSUME NEW n \in Nat, NEW P, 0 \in P, \A i \in 1..n : i - 1 \in P => i \in P
  PROVE  \A i \in 0..n : i \in P
<1> DEFINE Q == {i \in Nat : i <= n => i \in P}
<1>1. 0 \in Q
  OBVIOUS
<1>2. \A i \in Nat : i \in Q => i + 1 \in Q
  <2> SUFFICES ASSUME NEW i \in Nat, i \in Q, i + 1 <= n
               PROVE  i + 1 \in P
    OBVIOUS
  <2>1. i \in P /\ i + 1 \in 1..n /\ (i + 1) - 1 = i
    OBVIOUS
  <2> QED
    BY <2>1
<1>3. \A i \in Nat : i \in Q
  <2> HIDE DEF Q
  <2> QED
    BY <1>1, <1>2, SetInduction
<1> QED
  BY <1>3

-----------------------------------------------------------------------------
\* A set of numbers up to n has a greatest one.
LEMMA TopOf ==
  ASSUME NEW n \in Nat, NEW S \in SUBSET (1..n), S # {}
  PROVE  /\ Top(S) \in S
         /\ \A y \in S : y <= Top(S)
         /\ S \ {Top(S)} \in SUBSET (1..(Top(S) - 1))
<1>1. \E x \in S : \A y \in S : x >= y
  <2> SUFFICES ASSUME ~\E x \in S : \A y \in S : x >= y
               PROVE  FALSE
    OBVIOUS
  <2> DEFINE Q == {i \in Nat : \E x \in S : x >= i}
  <2>1. 0 \in Q
    <3>1. PICK x \in S : TRUE
      OBVIOUS
    <3> QED
      BY <3>1
  <2>2. \A i \in Nat : i \in Q => i + 1 \in Q
    <3> SUFFICES ASSUME NEW i \in Nat, NEW x \in S, x >= i
                 PROVE  \E y \in S : y >= i + 1
      OBVIOUS
    <3>1. PICK y \in S : ~(x >= y)
      OBVIOUS
    <3> QED
      BY <3>1
  <2>3. \A i \in Nat : i \in Q
    <3> HIDE DEF Q
    <3> QED
      BY <2>1, <2>2, SetInduction
  <2>4. n + 1 \in Q
    <3>1. n + 1 \in Nat
      OBVIOUS
    <3> HIDE DEF Q
    <3> QED
      BY <2>3, <3>1
  <2>5. PICK x \in S : x >= n + 1
    BY <2>4
  <2>6. x \in 1..n
    OBVIOUS
  <2> QED
    BY <2>5, <2>6
<1>2. Top(S) \in S /\ \A y \in S : Top(S) >= y
  BY <1>1 DEF Top
<1>3. PICK t \in 1..n : t = Top(S)
  BY <1>2
<1>4. \A y \in S : y \in Int /\ y <= t /\ y >= 1
  BY <1>2, <1>3
<1>5. S \ {t} \subseteq 1..(t - 1)
  BY <1>4
<1> QED
  BY <1>2, <1>3, <1>4, <1>5

LEMMA TopOfRange ==
  ASSUME NEW i \in Nat, i > 0
  PROVE  Top(1..i) = i /\ (1..i) \ {i} = 1..(i - 1)
<1>1. 1..i \in SUBSET (1..i) /\ 1..i # {} /\ i \in 1..i
  OBVIOUS
<1>2. Top(1..i) \in 1..i /\ \A y \in 1..i : y <= Top(1..i)
  BY <1>1, TopOf
<1> QED
  BY <1>1, <1>2

-----------------------------------------------------------------------------
(***************************************************************************)
(* The recursion of Fold has a solution, by induction on the length.       *)
(***************************************************************************)
LEMMA FoldIsDefined ==
  ASSUME NEW c, NEW d, NEW b, NEW s, NEW n \in Nat
  PROVE  \E it : Obeys(it, c, d, b, s, 1..n)
<1> DEFINE P == {m \in Nat : \E it : Obeys(it, c, d, b, s, 1..m)}
<1>1. 0 \in P
  <2> DEFINE it == [S \in SUBSET (1..0) |-> b]
  <2>1. \A S \in SUBSET (1..0) : S = {}
    OBVIOUS
  <2>2. Obeys(it, c, d, b, s, 1..0)
    BY <2>1 DEF Obeys
  <2> QED
    BY <2>2
<1>2. ASSUME NEW m \in Nat, m \in P
      PROVE  m + 1 \in P
  <2>1. PICK it : Obeys(it, c, d, b, s, 1..m)
    BY <1>2
  <2> DEFINE now(S) == IF S = {} THEN b ELSE op(c, d, it[S \ {Top(S)}], s[Top(S)])
             more == [S \in SUBSET (1..(m + 1)) |-> now(S)]
  <2>2. \A S \in SUBSET (1..m) : it[S] = now(S)
    BY <2>1 DEF Obeys
  <2>3. \A S \in SUBSET (1..m) : S \in SUBSET (1..(m + 1)) /\ more[S] = it[S]
    BY <2>2
  <2>4. ASSUME NEW S \in SUBSET (1..(m + 1)), S # {}
        PROVE  more[S] = op(c, d, more[S \ {Top(S)}], s[Top(S)])
    <3>1. m + 1 \in Nat
      OBVIOUS
    <3>2. Top(S) \in 1..(m + 1) /\ S \ {Top(S)} \in SUBSET (1..(Top(S) - 1))
      BY <2>4, <3>1, TopOf
    <3>3. S \ {Top(S)} \in SUBSET (1..m)
      BY <3>2
    <3>4. more[S \ {Top(S)}] = it[S \ {Top(S)}]
      BY <2>3, <3>3
    <3> QED
      BY <2>4, <3>4
  <2>5. more[{}] = b
    OBVIOUS
  <2> HIDE DEF more
  <2>6. more = [S \in SUBSET (1..(m + 1)) |-> now(S)]
    BY DEF more
  <2>7. \A S \in SUBSET (1..(m + 1)) :
           now(S) = IF S = {} THEN b ELSE op(c, d, more[S \ {Top(S)}], s[Top(S)])
    BY <2>4, <2>5, <2>6
  <2>8. Obeys(more, c, d, b, s, 1..(m + 1))
    BY <2>6, <2>7 DEF Obeys
  <2> QED
    BY <2>8
<1>3. \A m \in Nat : m \in P
  <2> HIDE DEF P
  <2> QED
    BY <1>1, <1>2, SetInduction
<1> QED
  BY <1>3

(***************************************************************************)
(* A fold goes through the sequence step by step: what comes out is the    *)
(* last of the values between the elements.                                *)
(***************************************************************************)
THEOREM FoldSteps ==
  ASSUME NEW c, NEW d, NEW b, NEW n \in Nat, NEW s, DOMAIN s = 1..n
  PROVE  \E f : Steps(f, c, d, b, s, n) /\ Fold(c, d, b, s) = f[n]
<1> DEFINE it == CHOOSE it : Obeys(it, c, d, b, s, 1..n)
<1>1. Obeys(it, c, d, b, s, 1..n)
  BY FoldIsDefined
<1>2. Fold(c, d, b, s) = it[1..n]
  BY DEF Fold, Obeys
<1> HIDE DEF it
<1>3. \A S \in SUBSET (1..n) :
         it[S] = IF S = {} THEN b ELSE op(c, d, it[S \ {Top(S)}], s[Top(S)])
  BY <1>1 DEF Obeys
<1>4. \A i \in 1..n : it[1..i] = op(c, d, it[1..(i - 1)], s[i])
  <2> TAKE i \in 1..n
  <2>1. i \in Nat /\ i > 0
    OBVIOUS
  <2>2. 1..i \in SUBSET (1..n) /\ 1..i # {}
    OBVIOUS
  <2>3. it[1..i] = op(c, d, it[(1..i) \ {Top(1..i)}], s[Top(1..i)])
    BY <1>3, <2>2
  <2> QED
    BY <2>1, <2>3, TopOfRange
<1>5. it[1..0] = b
  <2>1. 1..0 = {} /\ 1..0 \in SUBSET (1..n)
    OBVIOUS
  <2> QED
    BY <1>3, <2>1
<1> DEFINE f == [i \in 0..n |-> it[1..i]]
<1>6. f[0] = b /\ f[n] = it[1..n]
  BY <1>5
<1>7. \A i \in 1..n : f[i] = op(c, d, f[i - 1], s[i])
  BY <1>4
<1> QED
  BY <1>2, <1>6, <1>7 DEF Steps

(***************************************************************************)
(* What holds at first and is preserved by every step holds at the end.    *)
(***************************************************************************)
THEOREM FoldHolds ==
  ASSUME NEW c, NEW d, NEW b, NEW n \in Nat, NEW s, DOMAIN s = 1..n,
         holds(c, d, b),
         \A i \in 1..n : \A x : holds(c, d, x) => holds(c, d, op(c, d, x, s[i]))
  PROVE  holds(c, d, Fold(c, d, b, s))
<1>1. PICK f : Steps(f, c, d, b, s, n) /\ Fold(c, d, b, s) = f[n]
  BY FoldSteps
<1> DEFINE P == {i \in 0..n : holds(c, d, f[i])}
<1>2. 0 \in P
  BY <1>1 DEF Steps
<1>3. ASSUME NEW i \in 1..n, i - 1 \in P PROVE i \in P
  <2>1. f[i] = op(c, d, f[i - 1], s[i])
    BY <1>1 DEF Steps
  <2>2. holds(c, d, f[i - 1]) /\ i \in 0..n
    BY <1>3
  <2>3. holds(c, d, op(c, d, f[i - 1], s[i]))
    BY <2>2
  <2> QED
    BY <2>1, <2>2, <2>3
<1>4. \A i \in 0..n : i \in P
  <2> HIDE DEF P
  <2> QED
    BY <1>2, <1>3, BoundedInduction
<1>5. n \in P
  BY <1>4
<1> QED
  BY <1>1, <1>5
-----------------------------------------------------------------------------
(***************************************************************************)
(* FlattenSeq, with its definition written out: what is put together of    *)
(* sequences of elements of S is one.                                      *)
(***************************************************************************)
Flat(ss) ==
    IF Len(ss) = 0 THEN ss
    ELSE LET flatten[i \in 1..Len(ss)] ==
               IF i = 1 THEN ss[i] ELSE flatten[i - 1] \o ss[i]
         IN  flatten[Len(ss)]

Joins(g, ss, n) == g = [i \in 1..n |-> IF i = 1 THEN ss[i] ELSE g[i - 1] \o ss[i]]

LEMMA JoiningIsDefined ==
  ASSUME NEW n \in Nat, NEW ss
  PROVE  \E g : Joins(g, ss, n)
<1> DEFINE P == {m \in 0..n : \E g : Joins(g, ss, m)}
<1>1. 0 \in P
  <2>1. Joins([i \in 1..0 |-> ss[i]], ss, 0)
    BY DEF Joins
  <2> QED
    BY <2>1
<1>2. ASSUME NEW m \in 1..n, m - 1 \in P PROVE m \in P
  <2>1. PICK g : Joins(g, ss, m - 1)
    BY <1>2
  <2> DEFINE next(h, i) == IF i = 1 THEN ss[i] ELSE h[i - 1] \o ss[i]
             more == [i \in 1..m |-> next(g, i)]
  <2>2. \A i \in 1..(m - 1) : g[i] = next(g, i)
    BY <2>1 DEF Joins
  <2>3. \A i \in 1..(m - 1) : i \in 1..m /\ more[i] = g[i]
    BY <2>2
  <2>4. ASSUME NEW i \in 1..m PROVE next(g, i) = next(more, i)
    <3>1. CASE i = 1
      BY <3>1
    <3>2. CASE i # 1
      <4>1. i - 1 \in 1..(m - 1)
        BY <3>2
      <4>2. more[i - 1] = g[i - 1]
        BY <2>3, <4>1
      <4> HIDE DEF more
      <4> QED
        BY <3>2, <4>2
    <3> QED
      BY <3>1, <3>2
  <2>5. more = [i \in 1..m |-> next(more, i)]
    <3> DEFINE again == [i \in 1..m |-> next(more, i)]
    <3>1. \A i \in 1..m : more[i] = next(g, i) /\ again[i] = next(more, i)
      OBVIOUS
    <3>2. more = again
      BY <2>4
    <3> QED
      BY <3>2
  <2>6. Joins(more, ss, m)
    BY <2>5 DEF Joins
  <2> QED
    BY <2>6
<1>3. \A i \in 0..n : i \in P
  <2> HIDE DEF P
  <2> QED
    BY <1>1, <1>2, BoundedInduction
<1> QED
  BY <1>3

THEOREM FlatType ==
  ASSUME NEW S, NEW n \in Nat, NEW ss \in [1..n -> Seq(S)]
  PROVE  Flat(ss) \in Seq(S)
<1>1. DOMAIN ss = 1..n /\ Len(ss) = n
  OBVIOUS
<1> DEFINE G == CHOOSE g : Joins(g, ss, n)
<1>2. Joins(G, ss, n)
  BY JoiningIsDefined
<1>3. n = 0 \/ Flat(ss) = G[n]
  BY <1>1 DEF Flat, Joins
<1> HIDE DEF G
<1> DEFINE Q == {i \in 0..n : i > 0 => G[i] \in Seq(S)}
<1>4. \A i \in 0..n : i \in Q
  <2>1. 0 \in Q
    OBVIOUS
  <2>2. ASSUME NEW i \in 1..n, i - 1 \in Q PROVE i \in Q
    <3>1. G[i] = IF i = 1 THEN ss[i] ELSE G[i - 1] \o ss[i]
      BY <1>2 DEF Joins
    <3>2. ss[i] \in Seq(S)
      OBVIOUS
    <3>3. i # 1 => G[i - 1] \in Seq(S)
      <4>1. i - 1 \in 0..n /\ (i # 1 => i - 1 > 0)
        OBVIOUS
      <4> QED
        BY <4>1, <2>2
    <3>4. i # 1 => G[i - 1] \o ss[i] \in Seq(S)
      BY <3>2, <3>3
    <3>5. i \in 0..n
      OBVIOUS
    <3> HIDE DEF Joins
    <3> QED
      BY <3>1, <3>2, <3>4, <3>5
  <2> HIDE DEF Q
  <2> QED
    BY <2>1, <2>2, BoundedInduction
<1>5. n = 0 => Flat(ss) = ss /\ ss \in Seq(S)
  BY <1>1 DEF Flat
<1> QED
  BY <1>3, <1>4, <1>5
=============================================================================
