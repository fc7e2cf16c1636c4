----------------------------- MODULE StartUpProofs -----------------------------
(***************************************************************************)
(* Theorems about StartUp, for every configuration, command line and set   *)
(* of collaterals: that nothing of a large collateral is lost between its  *)
(* division and its merge, whatever becomes of the processes of its parts, *)
(* that what the command line asks for is what the run is built with, and  *)
(* that the second walk over the configuration finds what the first left.  *)
(***************************************************************************)
EXTENDS StartUp, FiniteSetTheorems, TLAPS

(***************************************************************************)
(* Sequences of sequences.                                                 *)
(***************************************************************************)
Always(c, d, x) == TRUE   \* where only the steps of a fold are used

SizeIn(c, d, n, s) == n + 1 + Cardinality(DOMAIN s.vals)
Fs == INSTANCE FoldFacts WITH op <- SizeIn, holds <- Always

\* What is put together of sequences of elements of S is one.
LEMMA FlattenType ==
  ASSUME NEW S, NEW n \in Nat, NEW ss \in [1..n -> Seq(S)]
  PROVE  FlattenSeq(ss) \in Seq(S)
<1>1. FlattenSeq(ss) = Fs!Flat(ss)
  BY DEF FlattenSeq, Fs!Flat
<1> QED
  BY <1>1, Fs!FlatType

-----------------------------------------------------------------------------
(***************************************************************************)
(* The order of the parts: counting those before one gives every place once. *)
(***************************************************************************)
Before(R, n, i) == {j \in 1..n : <<j, i>> \in R}
IsOrder(R, n) ==
    /\ \A i \in 1..n : <<i, i>> \notin R
    /\ \A i, j \in 1..n : i # j => <<i, j>> \in R \/ <<j, i>> \in R
    /\ \A i, j, k \in 1..n : <<i, j>> \in R /\ <<j, k>> \in R => <<i, k>> \in R

LEMMA EveryPlace ==
  ASSUME NEW n \in Nat, NEW R, IsOrder(R, n)
  PROVE  /\ \A i \in 1..n : Cardinality(Before(R, n, i)) \in 0..n-1
         /\ \A i, j \in 1..n :
               Cardinality(Before(R, n, i)) = Cardinality(Before(R, n, j)) => i = j
         /\ \A k \in 0..n-1 : \E i \in 1..n : Cardinality(Before(R, n, i)) = k
<1> DEFINE D == 1..n
           rank(i) == Cardinality(Before(R, n, i))
<1>1. IsFiniteSet(D) /\ Cardinality(D) = n
  BY FS_Interval
<1>2. ASSUME NEW i \in D
      PROVE  /\ IsFiniteSet(Before(R, n, i)) /\ rank(i) \in Nat /\ rank(i) < n
             /\ rank(i) \in 0..n-1
  <2>1. Before(R, n, i) \in SUBSET D /\ i \notin Before(R, n, i)
    BY DEF Before, IsOrder
  <2> HIDE DEF D
  <2>2. /\ IsFiniteSet(Before(R, n, i)) /\ Cardinality(Before(R, n, i)) <= n
        /\ n = Cardinality(Before(R, n, i)) => D = Before(R, n, i)
    BY <1>1, <2>1, FS_Subset
  <2>3. rank(i) \in Nat
    BY <2>2, FS_CardinalityType
  <2> QED
    BY <2>1, <2>2, <2>3
<1>3. ASSUME NEW i \in D, NEW j \in D, <<i, j>> \in R
      PROVE  rank(i) < rank(j)
  <2>1. Before(R, n, i) \in SUBSET Before(R, n, j)
    BY <1>3 DEF Before, IsOrder
  <2>2. i \in Before(R, n, j) /\ i \notin Before(R, n, i)
    BY <1>3 DEF Before, IsOrder
  <2>3. IsFiniteSet(Before(R, n, j)) /\ rank(i) \in Nat /\ rank(j) \in Nat
    BY <1>2
  <2>4. /\ rank(i) <= rank(j)
        /\ rank(j) = rank(i) => Before(R, n, j) = Before(R, n, i)
    BY <2>1, <2>3, FS_Subset
  <2> QED
    BY <2>2, <2>3, <2>4
<1>4. ASSUME NEW i \in D, NEW j \in D, rank(i) = rank(j) PROVE i = j
  <2>1. rank(i) \in Nat
    BY <1>2
  <2>2. <<i, j>> \notin R /\ <<j, i>> \notin R
    BY <2>1, <1>3, <1>4
  <2> QED
    BY <2>2 DEF IsOrder
<1> DEFINE K == 0..n-1
           f == [i \in D |-> rank(i)]
<1>5. IsFiniteSet(K) /\ Cardinality(K) = n
  <2>1. 0 \in Int /\ n - 1 \in Int
    OBVIOUS
  <2>2. IsFiniteSet(0..(n-1)) /\ Cardinality(0..(n-1)) = IF 0 > n - 1 THEN 0 ELSE (n - 1) - 0 + 1
    BY <2>1, FS_Interval
  <2> QED
    BY <2>2
<1>6. f \in Injection(D, K)
  <2>1. f \in [D -> K]
    BY <1>2
  <2>2. \A i, j \in D : f[i] = f[j] => i = j
    BY <1>4
  <2> HIDE DEF f
  <2> QED
    BY <2>1, <2>2 DEF Injection, IsInjective
<1>7. f \in Surjection(D, K)
  <2> HIDE DEF f, D, K
  <2> QED
    BY <1>1, <1>5, <1>6, FS_Injection
<1>8. \A k \in K : \E i \in D : f[i] = k
  BY <1>7 DEF Surjection
<1> QED
  BY <1>2, <1>4, <1>8

-----------------------------------------------------------------------------
(***************************************************************************)
(* The sizes of blocks are numbers, also of those a block is divided into.   *)
(***************************************************************************)
Countable(b) ==
    /\ IsFiniteSet(DOMAIN b.vals)
    /\ IsSequence(b.subs)
    /\ \A k \in DOMAIN b.subs : IsFiniteSet(DOMAIN b.subs[k].vals)

LEMMA SizeType ==
  ASSUME NEW b, Countable(b)
  PROVE  Size(b) \in Int
<1> DEFINE subs == b.subs
           n == Len(subs)
           sum == FoldLeft(LAMBDA m, s : m + 1 + Cardinality(DOMAIN s.vals), 0, subs)
<1>1. n \in Nat /\ DOMAIN subs = 1..n
  BY DEF Countable, IsSequence
<1>2. sum = Fs!Fold(0, 0, 0, subs)
  BY DEF SizeIn, FoldLeft, MapThenFoldSet, Max, Fs!Fold, Fs!Top
<1>3. \A k \in 1..n : Cardinality(DOMAIN subs[k].vals) \in Int
  <2> TAKE k \in 1..n
  <2>1. IsFiniteSet(DOMAIN subs[k].vals)
    BY <1>1 DEF Countable
  <2>2. Cardinality(DOMAIN subs[k].vals) \in Nat
    BY <2>1, FS_CardinalityType
  <2> QED
    BY <2>2
<1>4. Cardinality(DOMAIN b.vals) \in Nat
  BY FS_CardinalityType DEF Countable
<1>5. Size(b) = 1 + Cardinality(DOMAIN b.vals) + sum
  BY DEF Size
<1> HIDE DEF subs, n, sum
<1>6. PICK f : Fs!Steps(f, 0, 0, 0, subs, n) /\ Fs!Fold(0, 0, 0, subs) = f[n]
  BY <1>1, Fs!FoldSteps
<1> DEFINE P == {i \in 0..n : f[i] \in Int}
<1>7. 0 \in P
  BY <1>1, <1>6 DEF Fs!Steps
<1>8. ASSUME NEW i \in 1..n, i - 1 \in P PROVE i \in P
  <2>1. f[i] = f[i - 1] + 1 + Cardinality(DOMAIN subs[i].vals)
    BY <1>6 DEF Fs!Steps, SizeIn
  <2>2. f[i - 1] \in Int /\ i \in 0..n
    BY <1>8, <1>1
  <2>3. Cardinality(DOMAIN subs[i].vals) \in Int
    BY <1>3
  <2> QED
    BY <2>1, <2>2, <2>3
<1>9. \A i \in 0..n : i \in P
  <2> HIDE DEF P
  <2> QED
    BY <1>1, <1>7, <1>8, Fs!BoundedInduction
<1>10. n \in P
  BY <1>1, <1>9
<1> QED
  BY <1>2, <1>4, <1>5, <1>6, <1>10

\* Nodes are grouped, and nothing else.
GroupIn(entry, most, a, s) ==
    IF s.node \in DOMAIN entry.subs THEN Grouped(entry, a, s, most) ELSE a
Fg == INSTANCE FoldFacts WITH op <- GroupIn, holds <- Always

LEMMA GroupingsType ==
  ASSUME NEW entry, NEW b, IsSequence(b.subs)
  PROVE  Groupings(entry, b) \in Seq(Seq(Range(b.subs)))
<1> DEFINE subs == b.subs
           X == Range(subs)
           n == Len(subs)
           a0 == [count |-> 1, group |-> <<>>, closed |-> <<>>]
           isNode(s) == s.node \in DOMAIN entry.subs
           most == Cardinality({i \in DOMAIN subs : isNode(subs[i])})
                     \div (Size(b) \div SecondLevel)
           all == FoldLeft(LAMBDA a, s : IF isNode(s) THEN Grouped(entry, a, s, most) ELSE a,
                           a0, subs)
<1>1. n \in Nat /\ DOMAIN subs = 1..n /\ \A i \in 1..n : subs[i] \in X
  BY DEF IsSequence
<1>2. all = Fg!Fold(entry, most, a0, subs)
  BY DEF GroupIn, FoldLeft, MapThenFoldSet, Max, Fg!Fold, Fg!Top
<1>3. Groupings(entry, b) = all.closed
  BY DEF Groupings
<1> HIDE DEF all, most, n, X, subs, a0
<1>4. PICK f : Fg!Steps(f, entry, most, a0, subs, n) /\ Fg!Fold(entry, most, a0, subs) = f[n]
  BY <1>1, Fg!FoldSteps
<1> DEFINE P == {i \in 0..n : /\ DOMAIN f[i] = {"count", "group", "closed"}
                              /\ f[i].group \in Seq(X) /\ f[i].closed \in Seq(Seq(X))}
<1>5. 0 \in P
  <2>1. f[0] = a0 /\ 0 \in 0..n
    BY <1>1, <1>4 DEF Fg!Steps
  <2>2. <<>> \in Seq(X) /\ <<>> \in Seq(Seq(X))
    OBVIOUS
  <2>3. DOMAIN a0 = {"count", "group", "closed"} /\ a0.group = <<>> /\ a0.closed = <<>>
    BY DEF a0
  <2> QED
    BY <2>1, <2>2, <2>3
<1>6. ASSUME NEW i \in 1..n, i - 1 \in P PROVE i \in P
  <2> DEFINE a == f[i - 1]
             s == subs[i]
  <2>1. f[i] = IF isNode(s) THEN Grouped(entry, a, s, most) ELSE a
    BY <1>4 DEF Fg!Steps, GroupIn
  <2>2. /\ DOMAIN a = {"count", "group", "closed"}
        /\ a.group \in Seq(X) /\ a.closed \in Seq(Seq(X))
    BY <1>6
  <2>3. s \in X /\ i \in 0..n
    BY <1>1
  <2> HIDE DEF a, s
  <2>4. Append(a.group, s) \in Seq(X)
    BY <2>2, <2>3
  <2> DEFINE group == Append(a.group, s)
             count == a.count + Elements(entry, s)
  <2>5. Grouped(entry, a, s, most) =
          IF count > most THEN [count |-> 1, group |-> <<>>, closed |-> Append(a.closed, group)]
          ELSE [a EXCEPT !.count = count, !.group = group]
    BY DEF Grouped
  <2>6. Append(a.closed, group) \in Seq(Seq(X)) /\ <<>> \in Seq(X) /\ group \in Seq(X)
    BY <2>2, <2>4
  <2> DEFINE g == Grouped(entry, a, s, most)
  <2> HIDE DEF group, count
  <2>7. /\ DOMAIN g = {"count", "group", "closed"}
        /\ g.group \in Seq(X) /\ g.closed \in Seq(Seq(X))
    BY <2>2, <2>5, <2>6
  <2> HIDE DEF g
  <2> QED
    BY <2>1, <2>2, <2>3, <2>7 DEF g
<1>7. \A i \in 0..n : i \in P
  <2> HIDE DEF P
  <2> QED
    BY <1>1, <1>5, <1>6, Fg!BoundedInduction
<1>8. n \in P
  BY <1>1, <1>7
<1> QED
  BY <1>2, <1>3, <1>4, <1>8 DEF X, subs

IsBlock(b) == DOMAIN b = {"node", "vals", "subs"} /\ Countable(b)

LEMMA BlockPartsType ==
  ASSUME NEW entry, NEW b, IsBlock(b)
  PROVE  /\ IsSequence(BlockParts(entry, b))
         /\ \A i \in DOMAIN BlockParts(entry, b) : Countable(BlockParts(entry, b)[i])
<1>1. IsSequence(b.subs)
  BY DEF IsBlock, Countable
<1> DEFINE groups == Groupings(entry, b)
           divided == [i \in DOMAIN groups |-> [b EXCEPT !.subs = groups[i]]]
<1>2. groups \in Seq(Seq(Range(b.subs)))
  BY <1>1, GroupingsType
<1>3. BlockParts(entry, b) = divided \/ BlockParts(entry, b) = <<b>>
  BY DEF BlockParts
<1> HIDE DEF groups
<1>4. IsSequence(divided)
  <2>1. DOMAIN divided = 1..Len(groups) /\ Len(groups) \in Nat
    BY <1>2
  <2>2. divided = [i \in 1..Len(groups) |-> divided[i]]
    BY <2>1
  <2> HIDE DEF divided
  <2>3. \A i \in 1..Len(groups) : divided[i] \in Range(divided)
    BY <2>1 DEF Range
  <2> QED
    BY <2>1, <2>2, <2>3 DEF IsSequence
<1>5. ASSUME NEW i \in DOMAIN divided PROVE Countable(divided[i])
  <2> DEFINE g == groups[i]
             d == [b EXCEPT !.subs = g]
  <2>1. divided[i] = d /\ g \in Seq(Range(b.subs))
    BY <1>2
  <2> HIDE DEF g
  <2>2. d.subs = g /\ d.vals = b.vals
    BY DEF IsBlock
  <2>3. IsSequence(g)
    BY <2>1 DEF IsSequence, Range
  <2>4. \A k \in DOMAIN g : IsFiniteSet(DOMAIN g[k].vals)
    <3> TAKE k \in DOMAIN g
    <3>1. PICK m \in DOMAIN b.subs : g[k] = b.subs[m]
      BY <2>1 DEF Range
    <3> QED
      BY <3>1 DEF IsBlock, Countable
  <2>5. IsFiniteSet(DOMAIN b.vals)
    BY DEF IsBlock, Countable
  <2> HIDE DEF d
  <2> QED
    BY <2>1, <2>2, <2>3, <2>4, <2>5 DEF Countable
<1>6. IsSequence(<<b>>) /\ \A i \in DOMAIN <<b>> : Countable(<<b>>[i])
  BY DEF IsSequence, IsBlock, Range
<1> HIDE DEF divided
<1> QED
  BY <1>3, <1>4, <1>5, <1>6

(***************************************************************************)
(* The parts of a text are a sequence, and each part of an XML text has a    *)
(* size.                                                                     *)
(***************************************************************************)
Sized(type, pieces) == type = "xml" => \A i \in DOMAIN pieces : Size(pieces[i][1]) \in Int

LEMMA PartsType ==
  ASSUME NEW type, NEW entry, NEW path \in DOMAIN Texts,
         type = "xml" => IsXml(Texts[path])
  PROVE  /\ IsSequence(Parts(type, entry, Texts[path]))
         /\ Sized(type, Parts(type, entry, Texts[path]))
<1> DEFINE text == Texts[path]
           n == Len(text)
<1>1. n \in Nat /\ DOMAIN text = 1..n
  BY TextAssumption DEF IsSequence
<1>2. CASE type # "xml"
  <2> DEFINE lines == LineParts(text)
             q == (n + LinesPerPart - 1) \div LinesPerPart
  <2>1. n + LinesPerPart - 1 \in Nat /\ LinesPerPart \in Nat \ {0}
    BY <1>1, PartLimits
  <2>2. \A x \in Nat, y \in Nat \ {0} : x \div y \in Nat
    OBVIOUS
  <2>3. q \in Nat
    BY <2>1, <2>2
  <2>4. DOMAIN lines = 1..q /\ lines = [i \in 1..q |-> lines[i]]
    BY DEF LineParts
  <2> HIDE DEF lines, q
  <2>5. lines \in Seq(Range(lines))
    BY <2>3, <2>4 DEF Range
  <2> QED
    BY <1>2, <2>5 DEF Parts, Sized, IsSequence, lines
<1>3. CASE type = "xml"
  <2> DEFINE own(i) == IF text[i].node = entry.node THEN BlockParts(entry, text[i]) ELSE <<>>
             ss == [i \in DOMAIN text |-> own(i)]
             S == {x \in UNION {Range(own(i)) : i \in 1..n} : Countable(x)}
             blocks == FlattenSeq(ss)
             pieces == [i \in DOMAIN blocks |-> <<blocks[i]>>]
  <2>1. ASSUME NEW i \in 1..n PROVE own(i) \in Seq(S)
    <3>1. IsBlock(text[i])
      <4>1. i \in DOMAIN text /\ IsXml(text)
        BY <1>1, <1>3
      <4> QED
        BY <4>1, TextAssumption DEF IsBlock, Countable, IsSequence
    <3> DEFINE bs == BlockParts(entry, text[i])
    <3>2. IsSequence(bs) /\ \A k \in DOMAIN bs : Countable(bs[k])
      BY <3>1, BlockPartsType
    <3>3. CASE text[i].node = entry.node
      <4>1. own(i) = bs
        BY <3>3
      <4> HIDE DEF own, bs
      <4>2. \A k \in DOMAIN bs : bs[k] \in S
        <5> TAKE k \in DOMAIN bs
        <5>1. bs[k] \in Range(own(i))
          BY <4>1 DEF Range
        <5>2. bs[k] \in UNION {Range(own(j)) : j \in 1..n}
          BY <5>1
        <5> QED
          BY <5>2, <3>2
      <4>3. Len(bs) \in Nat /\ DOMAIN bs = 1..Len(bs) /\ bs = [k \in 1..Len(bs) |-> bs[k]]
        BY <3>2 DEF IsSequence
      <4> HIDE DEF S
      <4> QED
        BY <4>1, <4>2, <4>3
    <3>4. CASE text[i].node # entry.node
      <4>1. own(i) = <<>>
        BY <3>4
      <4> HIDE DEF own, S
      <4> QED
        BY <4>1
    <3> QED
      BY <3>3, <3>4
  <2>2. ss \in [1..n -> Seq(S)]
    BY <1>1, <2>1
  <2>3. pieces = Parts(type, entry, text)
    BY <1>3 DEF Parts, XmlParts
  <2>4. \A x \in S : Countable(x)
    OBVIOUS
  <2> HIDE DEF ss, S, n
  <2>5. blocks \in Seq(S)
    BY <1>1, <2>2, FlattenType
  <2> HIDE DEF blocks
  <2>6. \A i \in DOMAIN pieces : Size(pieces[i][1]) \in Int
    <3> TAKE i \in DOMAIN pieces
    <3>1. Countable(blocks[i]) /\ pieces[i][1] = blocks[i]
      BY <2>4, <2>5
    <3> QED
      BY <3>1, SizeType
  <2>7. IsSequence(pieces)
    <3>1. pieces = [i \in 1..Len(blocks) |-> pieces[i]] /\ Len(blocks) \in Nat
      BY <2>5
    <3> HIDE DEF pieces
    <3> QED
      BY <3>1 DEF IsSequence, Range
  <2> HIDE DEF pieces
  <2> QED
    BY <2>3, <2>6, <2>7 DEF Sized
<1> QED
  BY <1>2, <1>3

\* Both orders of the parts go through all of them, each once.
LEMMA OrdersArePermutations ==
  ASSUME NEW type, NEW pieces, NEW n \in Nat, DOMAIN pieces = 1..n, Sized(type, pieces)
  PROVE  /\ \A k \in 1..n : /\ MergeOrder(type, pieces, k) \in 1..n
                            /\ SubmitOrder(type, pieces, k) \in 1..n
         /\ \A k, l \in 1..n :
               SubmitOrder(type, pieces, k) = SubmitOrder(type, pieces, l) => k = l
         /\ \A i \in 1..n : \E k \in 1..n : MergeOrder(type, pieces, k) = i
<1>1. CASE type # "xml"
  BY <1>1 DEF MergeOrder, SubmitOrder
<1>2. CASE type = "xml"
  <2> DEFINE R == {x \in (1..n) \X (1..n) : Smaller(pieces, x[1], x[2])}
             L == {x \in (1..n) \X (1..n) : Larger(pieces, x[1], x[2])}
  <2>1. \A i \in 1..n : Size(pieces[i][1]) \in Int
    BY <1>2 DEF Sized
  <2>2. \A i, j \in 1..n : (<<i, j>> \in R <=> Smaller(pieces, i, j))
                           /\ (<<i, j>> \in L <=> Larger(pieces, i, j))
    OBVIOUS
  <2> HIDE DEF R, L
  <2>3. IsOrder(R, n)
    BY <2>1, <2>2 DEF IsOrder, Smaller
  <2>4. IsOrder(L, n)
    BY <2>1, <2>2 DEF IsOrder, Larger
  <2>5. \A i \in 1..n : Before(R, n, i) = {j \in DOMAIN pieces : Smaller(pieces, j, i)}
    BY <2>2 DEF Before
  <2>6. \A i \in 1..n : Before(L, n, i) = {j \in DOMAIN pieces : Larger(pieces, j, i)}
    BY <2>2 DEF Before
  <2>7. /\ \A i \in 1..n : Cardinality(Before(R, n, i)) \in 0..n-1
        /\ \A i, j \in 1..n :
              Cardinality(Before(R, n, i)) = Cardinality(Before(R, n, j)) => i = j
        /\ \A k \in 0..n-1 : \E i \in 1..n : Cardinality(Before(R, n, i)) = k
    BY <2>3, EveryPlace
  <2>8. /\ \A i \in 1..n : Cardinality(Before(L, n, i)) \in 0..n-1
        /\ \A i, j \in 1..n :
              Cardinality(Before(L, n, i)) = Cardinality(Before(L, n, j)) => i = j
        /\ \A k \in 0..n-1 : \E i \in 1..n : Cardinality(Before(L, n, i)) = k
    BY <2>4, EveryPlace
  <2> DEFINE m(k) == MergeOrder(type, pieces, k)
             s(k) == SubmitOrder(type, pieces, k)
  <2>9. ASSUME NEW k \in 1..n
        PROVE  m(k) \in 1..n /\ Cardinality(Before(R, n, m(k))) = k - 1
    <3>1. k - 1 \in 0..n-1
      OBVIOUS
    <3>2. PICK i \in DOMAIN pieces :
             Cardinality({j \in DOMAIN pieces : Smaller(pieces, j, i)}) = k - 1
      BY <3>1, <2>5, <2>7
    <3>3. /\ m(k) \in DOMAIN pieces
          /\ Cardinality({j \in DOMAIN pieces : Smaller(pieces, j, m(k))}) = k - 1
      BY <3>2, <1>2 DEF MergeOrder
    <3> HIDE DEF m
    <3> QED
      BY <3>3, <2>5
  <2>10. ASSUME NEW k \in 1..n
         PROVE  s(k) \in 1..n /\ Cardinality(Before(L, n, s(k))) = k - 1
    <3>1. k - 1 \in 0..n-1
      OBVIOUS
    <3>2. PICK i \in DOMAIN pieces :
             Cardinality({j \in DOMAIN pieces : Larger(pieces, j, i)}) = k - 1
      BY <3>1, <2>6, <2>8
    <3>3. /\ s(k) \in DOMAIN pieces
          /\ Cardinality({j \in DOMAIN pieces : Larger(pieces, j, s(k))}) = k - 1
      BY <3>2, <1>2 DEF SubmitOrder
    <3> HIDE DEF s
    <3> QED
      BY <3>3, <2>6
  <2>11. ASSUME NEW k \in 1..n, NEW l \in 1..n, s(k) = s(l) PROVE k = l
    <3>1. k - 1 = l - 1
      <4> HIDE DEF s
      <4> QED
        BY <2>10, <2>11
    <3> QED
      BY <3>1
  <2>12. ASSUME NEW i \in 1..n PROVE \E k \in 1..n : m(k) = i
    <3> DEFINE k == Cardinality(Before(R, n, i)) + 1
    <3>1. k \in 1..n /\ k - 1 = Cardinality(Before(R, n, i))
      BY <2>7
    <3>2. m(k) \in 1..n /\ Cardinality(Before(R, n, m(k))) = k - 1
      BY <2>9, <3>1
    <3> HIDE DEF m, k
    <3> QED
      BY <3>1, <3>2, <2>7
  <2> QED
    BY <2>9, <2>10, <2>11, <2>12
<1> QED
  BY <1>1, <1>2

-----------------------------------------------------------------------------
(***************************************************************************)
(* A merge loses nothing that is undisputed: not what was merged before, and *)
(* not what is merged now.                                                   *)
(***************************************************************************)
LEMMA MergeKeeps ==
  ASSUME NEW into, NEW i, NEW m \in DOMAIN parts, HeldIn(into, i), i \in DOMAIN parts
  PROVE  HeldIn(Merge(into, file[m].res), i)
<1> DEFINE a == into
           b == file[m].res
<1> SUFFICES ASSUME NEW p \in DOMAIN file[i].res, file[i].res[p] # Empty, ~Disputed(p)
             PROVE  /\ p \in DOMAIN Merge(a, b)
                    /\ ListOnly(p) => /\ Merge(a, b)[p].kind = "list"
                                      /\ file[i].res[p].vals \subseteq Merge(a, b)[p].vals
  BY DEF HeldIn
<1>1. /\ p \in DOMAIN a
      /\ ListOnly(p) => a[p].kind = "list" /\ file[i].res[p].vals \subseteq a[p].vals
  BY DEF HeldIn
<1>2. \A q \in DOMAIN b : ~Below(p, q) /\ ~Below(q, p)
  BY DEF Disputed
<1> DEFINE lost == {q \in DOMAIN a : \E x \in DOMAIN b :
                       Below(x, q) \/ (Below(q, x) /\ b[x] # Empty)}
           idle == {x \in DOMAIN b : b[x] = Empty /\ \E q \in DOMAIN a : Below(q, x)}
           D == (DOMAIN a \ lost) \cup (DOMAIN b \ idle)
           both(x) == x \in DOMAIN a /\ a[x].kind = "list" /\ b[x].kind = "list"
           v(x) == IF x \notin DOMAIN b THEN a[x]
                   ELSE IF both(x) THEN List(a[x].vals \cup b[x].vals) ELSE b[x]
<1>3. Merge(a, b) = [x \in D |-> v(x)]
  BY DEF Merge
<1>4. p \in D
  BY <1>1, <1>2
<1>5. ASSUME ListOnly(p)
      PROVE  v(p).kind = "list" /\ file[i].res[p].vals \subseteq v(p).vals
  <2>1. a[p].kind = "list" /\ file[i].res[p].vals \subseteq a[p].vals
    BY <1>1, <1>5
  <2>2. p \in DOMAIN b => b[p].kind = "list"
    BY <1>5 DEF ListOnly
  <2>3. \A X : List(X).kind = "list" /\ List(X).vals = X
    BY DEF List
  <2>4. CASE p \in DOMAIN b
    <3>1. both(p)
      BY <1>1, <2>1, <2>2, <2>4
    <3>2. v(p) = List(a[p].vals \cup b[p].vals)
      BY <2>4, <3>1
    <3> HIDE DEF v
    <3> QED
      BY <3>2, <2>1, <2>3
  <2>5. CASE p \notin DOMAIN b
    BY <2>1, <2>5
  <2> QED
    BY <2>4, <2>5
<1> HIDE DEF v, D
<1> QED
  BY <1>3, <1>4, <1>5

LEMMA MergeAdds ==
  ASSUME NEW into, NEW m \in DOMAIN parts
  PROVE  HeldIn(Merge(into, file[m].res), m)
<1> DEFINE a == into
           b == file[m].res
<1> SUFFICES ASSUME NEW p \in DOMAIN b, b[p] # Empty
             PROVE  /\ p \in DOMAIN Merge(a, b)
                    /\ ListOnly(p) => /\ Merge(a, b)[p].kind = "list"
                                      /\ b[p].vals \subseteq Merge(a, b)[p].vals
  BY DEF HeldIn
<1> DEFINE lost == {q \in DOMAIN a : \E x \in DOMAIN b :
                       Below(x, q) \/ (Below(q, x) /\ b[x] # Empty)}
           idle == {x \in DOMAIN b : b[x] = Empty /\ \E q \in DOMAIN a : Below(q, x)}
           D == (DOMAIN a \ lost) \cup (DOMAIN b \ idle)
           both(x) == x \in DOMAIN a /\ a[x].kind = "list" /\ b[x].kind = "list"
           v(x) == IF x \notin DOMAIN b THEN a[x]
                   ELSE IF both(x) THEN List(a[x].vals \cup b[x].vals) ELSE b[x]
<1>1. Merge(a, b) = [x \in D |-> v(x)]
  BY DEF Merge
<1>2. p \in D
  OBVIOUS
<1>3. ASSUME ListOnly(p)
      PROVE  v(p).kind = "list" /\ b[p].vals \subseteq v(p).vals
  <2>1. b[p].kind = "list"
    BY <1>3 DEF ListOnly
  <2>2. \A X : List(X).kind = "list" /\ List(X).vals = X
    BY DEF List
  <2>3. CASE both(p)
    <3>1. v(p) = List(a[p].vals \cup b[p].vals)
      BY <2>3
    <3> HIDE DEF v
    <3> QED
      BY <3>1, <2>2
  <2>4. CASE ~both(p)
    <3>1. v(p) = b[p]
      BY <2>4
    <3> HIDE DEF v
    <3> QED
      BY <3>1, <2>1
  <2> QED
    BY <2>3, <2>4
<1> HIDE DEF v, D
<1> QED
  BY <1>1, <1>2, <1>3

-----------------------------------------------------------------------------
(***************************************************************************)
(* What holds of the parts of a large collateral: they are submitted in      *)
(* their order, a file is whole only when its process ended, nothing is      *)
(* merged before all are submitted, and what was merged is held.             *)
(***************************************************************************)
States == {"none", "running", "ended", "dead", "master"}

Busy ==
    proc # <<>> => /\ phase \in {"parse", "failed"}
                   /\ jobs # <<>> /\ Job.large
                   /\ Sized(Job.type, parts)

Filling == \A i \in DOMAIN parts :
    /\ proc[i] \in States
    /\ proc[i] \in {"none", "running"} => file[i] = Wrong
    /\ file[i].ok => proc[i] \in {"ended", "master"}

InTurn ==
    /\ Submitted = {SubmitOrder(Job.type, parts, k) : k \in 1..Cardinality(Submitted)}
    /\ Submitted # DOMAIN parts => merged = 0

MergedSoFar == \A k \in 1..merged :
    LET i == MergeOrder(Job.type, parts, k)
    IN  /\ file[i].ok
        /\ Job.type = "tab" => HeldIn(coll, i)
        /\ Job.type = "xml" => HeldIn(res, i)
        /\ Job.type = "csv" /\ k = merged => coll = file[i].res

PartsShape ==
    /\ IsSequence(parts) /\ merged \in 0..Len(parts)
    /\ proc = [i \in DOMAIN parts |-> proc[i]]
    /\ file = [i \in DOMAIN parts |-> file[i]]

PartsInv == PartsShape /\ Busy /\ Filling /\ InTurn /\ MergedSoFar

Blank == parts = <<>> /\ proc = <<>> /\ file = <<>> /\ merged = 0

LEMMA BlankIsInvariant == Blank => PartsInv
<1> SUFFICES ASSUME Blank PROVE PartsInv
  OBVIOUS
<1>1. DOMAIN parts = {} /\ Len(parts) = 0 /\ Submitted = {} /\ DOMAIN proc = {}
  BY DEF Blank, Submitted
<1>2. PartsShape
  BY <1>1 DEF PartsShape, Blank, IsSequence
<1>3. Busy /\ Filling
  BY <1>1 DEF Busy, Filling, Blank
<1>4. Cardinality({}) = 0
  BY FS_EmptySet
<1>5. InTurn
  BY <1>1, <1>4 DEF InTurn
<1>6. MergedSoFar
  BY DEF MergedSoFar, Blank
<1> QED
  BY <1>2, <1>3, <1>5, <1>6 DEF PartsInv

LEMMA BlankIsInvariantNext == Blank' => PartsInv'
<1> SUFFICES ASSUME Blank' PROVE PartsInv'
  OBVIOUS
<1>1. DOMAIN parts' = {} /\ Len(parts') = 0 /\ Submitted' = {} /\ DOMAIN proc' = {}
  BY DEF Blank, Submitted
<1>2. PartsShape'
  BY <1>1 DEF PartsShape, Blank, IsSequence
<1>3. Busy' /\ Filling'
  BY <1>1 DEF Busy, Filling, Blank
<1>4. Cardinality({}) = 0
  BY FS_EmptySet
<1>5. InTurn'
  BY <1>1, <1>4 DEF InTurn
<1>6. MergedSoFar'
  BY DEF MergedSoFar, Blank
<1> QED
  BY <1>2, <1>3, <1>5, <1>6 DEF PartsInv

LEMMA NothingToDo == PartsInv /\ proc = <<>> => Blank
<1> SUFFICES ASSUME PartsInv, proc = <<>> PROVE Blank
  OBVIOUS
<1>1. DOMAIN parts = DOMAIN proc /\ DOMAIN file = DOMAIN parts /\ DOMAIN proc = {}
  BY DEF PartsInv, PartsShape
<1>2. parts \in Seq(Range(parts)) /\ merged \in 0..Len(parts) /\ file = [i \in DOMAIN parts |-> file[i]]
  BY DEF PartsInv, PartsShape, IsSequence
<1>3. Len(parts) = 0
  BY <1>1, <1>2
<1> QED
  BY <1>1, <1>2, <1>3 DEF Blank

\* The file of a part is the error, or what its process made of it.
LEMMA FilesAre ==
  ASSUME NEW type, NEW entry, NEW part, NEW c
  PROVE  LET r == InFile(type, entry, part, c) IN r.ok \in BOOLEAN /\ (~r.ok => r = Wrong)
<1>1. \A x : Good(x).ok = TRUE
  BY DEF Good
<1>2. Wrong.ok = FALSE
  BY DEF Wrong
<1> QED
  BY <1>1, <1>2 DEF InFile

LEMMA WrongHoldsNothing == Wrong.ok = FALSE /\ DOMAIN Wrong.res = {}
BY DEF Wrong, Nothing

\* What is submitted next has no process yet.
LEMMA NextIsNew ==
  ASSUME PartsInv, Submitting
  PROVE  /\ NextPart \in DOMAIN parts /\ proc[NextPart] = "none"
         /\ Cardinality(Submitted) \in Nat /\ IsFiniteSet(Submitted)
         /\ merged = 0
<1> DEFINE n == Len(parts)
           c == Cardinality(Submitted)
<1>1. n \in Nat /\ DOMAIN parts = 1..n /\ DOMAIN proc = 1..n
  BY DEF PartsInv, PartsShape, IsSequence
<1>2. Sized(Job.type, parts)
  BY DEF PartsInv, Busy, Submitting
<1>3. IsFiniteSet(1..n) /\ Cardinality(1..n) = n
  <2>1. 1 \in Int /\ n \in Int
    BY <1>1
  <2> HIDE DEF n
  <2>2. IsFiniteSet(1..n) /\ Cardinality(1..n) = IF 1 > n THEN 0 ELSE n - 1 + 1
    BY <2>1, FS_Interval
  <2> QED
    BY <1>1, <2>2
<1>4. Submitted \in SUBSET (1..n) /\ Submitted # 1..n
  BY <1>1 DEF Submitted, Submitting
<1>5. IsFiniteSet(Submitted) /\ c <= n /\ (n = c => 1..n = Submitted)
  BY <1>3, <1>4, FS_Subset
<1>6. c \in Nat
  BY <1>5, FS_CardinalityType
<1>7. c + 1 \in 1..n
  BY <1>1, <1>4, <1>5, <1>6
<1>8. /\ NextPart \in 1..n
      /\ \A k \in 1..n : SubmitOrder(Job.type, parts, k) = NextPart => k = c + 1
  BY <1>1, <1>2, <1>7, OrdersArePermutations DEF NextPart
<1>9. Submitted = {SubmitOrder(Job.type, parts, k) : k \in 1..c}
  BY DEF PartsInv, InTurn
<1>10. NextPart \notin Submitted
  <2> SUFFICES ASSUME NextPart \in Submitted PROVE FALSE
    OBVIOUS
  <2>1. PICK k \in 1..c : NextPart = SubmitOrder(Job.type, parts, k)
    BY <1>9
  <2>2. k \in 1..n /\ k # c + 1
    BY <1>5, <1>6, <1>1, <2>1
  <2> QED
    BY <1>8, <2>1, <2>2
<1>11. proc[NextPart] = "none"
  BY <1>1, <1>8, <1>10 DEF Submitted
<1>12. merged = 0
  BY <1>1, <1>4 DEF PartsInv, InTurn
<1> QED
  BY <1>1, <1>5, <1>6, <1>8, <1>11, <1>12

\* Submitting the next part, by a process or by the master.
LEMMA SubmitsInTurn ==
  ASSUME PartsInv, Submitting, UNCHANGED <<parts, jobs, merged>>,
         NEW st \in States \ {"none"}, proc' = [proc EXCEPT ![NextPart] = st]
  PROVE  InTurn'
<1> DEFINE c == Cardinality(Submitted)
           so(k) == SubmitOrder(Job.type, parts, k)
<1>1. /\ NextPart \in DOMAIN parts /\ proc[NextPart] = "none"
      /\ c \in Nat /\ IsFiniteSet(Submitted) /\ merged = 0
  BY NextIsNew
<1>2. DOMAIN proc = DOMAIN parts /\ NextPart = so(c + 1)
  BY DEF PartsInv, PartsShape, NextPart
<1>3. NextPart \notin Submitted
  BY <1>1 DEF Submitted
<1>4. Submitted' = Submitted \cup {NextPart}
  <2>1. DOMAIN proc' = DOMAIN proc /\ proc'[NextPart] = st /\ st # "none"
        /\ \A i \in DOMAIN proc : i # NextPart => proc'[i] = proc[i]
    BY <1>1, <1>2
  <2> HIDE DEF so
  <2> QED
    BY <2>1, <1>1, <1>2 DEF Submitted
<1>5. Cardinality(Submitted') = c + 1
  BY <1>1, <1>3, <1>4, FS_AddElement
<1>6. Submitted = {so(k) : k \in 1..c}
  BY DEF PartsInv, InTurn
<1>7. {so(k) : k \in 1..(c + 1)} = {so(k) : k \in 1..c} \cup {so(c + 1)}
  <2>1. 1..(c + 1) = (1..c) \cup {c + 1}
    BY <1>1
  <2> HIDE DEF so, c
  <2> QED
    BY <2>1
<1>8. Submitted' = {so(k) : k \in 1..Cardinality(Submitted')}
  <2> HIDE DEF so, c
  <2> QED
    BY <1>2, <1>4, <1>5, <1>6, <1>7
<1> QED
  BY <1>1, <1>8 DEF InTurn, Job

\* A change of files that only fills them keeps what was merged.
LEMMA HeldInStays ==
  ASSUME NEW into, NEW i, HeldIn(into, i), UNCHANGED parts, i \in DOMAIN parts,
         file'[i] = file[i],
         \A j \in DOMAIN parts : file'[j] = file[j] \/ file[j] = Wrong
  PROVE  \A p \in DOMAIN file'[i].res :
            file'[i].res[p] # Empty /\ ~(Disputed(p)') =>
              /\ p \in DOMAIN into
              /\ ListOnly(p)' => /\ into[p].kind = "list"
                                 /\ file'[i].res[p].vals \subseteq into[p].vals
<1>1. \A p : Disputed(p) => Disputed(p)'
  BY WrongHoldsNothing DEF Disputed
<1>2. \A p : ListOnly(p)' => ListOnly(p)
  BY WrongHoldsNothing DEF ListOnly
<1> QED
  BY <1>1, <1>2 DEF HeldIn

\* A process that ends fills its file at most.
LEMMA WorkerStep ==
  ASSUME PartsInv, NEW w \in Alive, NEW st \in {"ended", "dead"},
         UNCHANGED <<phase, jobs, parts, merged, res, coll>>,
         proc' = [proc EXCEPT ![w] = st],
         \/ UNCHANGED file
         \/ \E r : /\ file' = [file EXCEPT ![w] = r]
                   /\ r.ok \in BOOLEAN /\ (r.ok => st = "ended")
  PROVE  PartsInv'
<1>1. w \in DOMAIN parts /\ DOMAIN proc = DOMAIN parts /\ DOMAIN file = DOMAIN parts
  BY DEF Alive, PartsInv, PartsShape
<1>2. proc[w] = "running" /\ file[w] = Wrong
  BY <1>1 DEF Alive, PartsInv, Filling
<1>3. /\ DOMAIN proc' = DOMAIN proc /\ proc'[w] = st
      /\ \A i \in DOMAIN parts : i # w => proc'[i] = proc[i]
  BY <1>1
<1>4. /\ DOMAIN file' = DOMAIN file
      /\ \A i \in DOMAIN parts : i # w => file'[i] = file[i]
      /\ file'[w] = file[w] \/ (file'[w].ok => st = "ended")
  BY <1>1
<1>5. PartsShape'
  <2>1. proc' = [i \in DOMAIN parts |-> proc'[i]]
    BY <1>1
  <2>2. file' = [i \in DOMAIN parts |-> file'[i]]
    BY <1>1 DEF PartsInv, PartsShape
  <2> QED
    BY <2>1, <2>2 DEF PartsInv, PartsShape
<1>6. Busy'
  <2>1. proc # <<>>
    BY <1>1
  <2>2. Busy
    BY DEF PartsInv
  <2> QED
    BY <2>1, <2>2 DEF Busy, Job
<1>7. Filling'
  <2>1. Wrong.ok = FALSE
    BY WrongHoldsNothing
  <2>2. ASSUME NEW i \in DOMAIN parts
        PROVE  /\ proc'[i] \in States
               /\ proc'[i] \in {"none", "running"} => file'[i] = Wrong
               /\ file'[i].ok => proc'[i] \in {"ended", "master"}
    BY <1>2, <1>3, <1>4, <2>1 DEF PartsInv, Filling, States
  <2> QED
    BY <2>2 DEF Filling
<1>8. Submitted' = Submitted
  BY <1>1, <1>2, <1>3 DEF Submitted
<1>9. InTurn'
  BY <1>8 DEF PartsInv, InTurn, Job
<1>10. MergedSoFar'
  <2> SUFFICES ASSUME NEW k \in 1..merged
               PROVE  LET i == MergeOrder(Job.type, parts, k)
                      IN  /\ file'[i].ok
                          /\ Job.type = "tab" => HeldIn(coll, i)'
                          /\ Job.type = "xml" => HeldIn(res, i)'
                          /\ Job.type = "csv" /\ k = merged => coll = file'[i].res
    BY DEF MergedSoFar, Job
  <2> DEFINE i == MergeOrder(Job.type, parts, k)
             n == Len(parts)
  <2>1. n \in Nat /\ DOMAIN parts = 1..n /\ merged \in 0..n /\ Sized(Job.type, parts)
    BY <1>1 DEF PartsInv, PartsShape, IsSequence, Busy
  <2>2. i \in DOMAIN parts
    <3>1. k \in 1..n
      BY <2>1
    <3> HIDE DEF n
    <3> QED
      BY <2>1, <3>1, OrdersArePermutations
  <2>3. /\ file[i].ok
        /\ Job.type = "tab" => HeldIn(coll, i)
        /\ Job.type = "xml" => HeldIn(res, i)
        /\ Job.type = "csv" /\ k = merged => coll = file[i].res
    BY DEF PartsInv, MergedSoFar
  <2>9. i' = i
    BY DEF Job
  <2> HIDE DEF i
  <2>4. i # w
    BY <1>2, <2>3, WrongHoldsNothing
  <2>5. file'[i] = file[i]
    BY <1>4, <2>2, <2>4
  <2>6. \A j \in DOMAIN parts : file'[j] = file[j] \/ file[j] = Wrong
    BY <1>2, <1>4
  <2>7. HeldIn(coll, i) => HeldIn(coll, i)'
    <3> SUFFICES ASSUME HeldIn(coll, i) PROVE HeldIn(coll, i)'
      OBVIOUS
    <3>1. coll' = coll
      OBVIOUS
    <3>2. \A p \in DOMAIN file'[i].res :
            file'[i].res[p] # Empty /\ ~(Disputed(p)') =>
              /\ p \in DOMAIN coll
              /\ ListOnly(p)' => /\ coll[p].kind = "list"
                                 /\ file'[i].res[p].vals \subseteq coll[p].vals
      BY <2>2, <2>5, <2>6, HeldInStays
    <3> QED
      BY <3>1, <3>2, <2>9 DEF HeldIn
  <2>8. HeldIn(res, i) => HeldIn(res, i)'
    <3> SUFFICES ASSUME HeldIn(res, i) PROVE HeldIn(res, i)'
      OBVIOUS
    <3>1. res' = res
      OBVIOUS
    <3>2. \A p \in DOMAIN file'[i].res :
            file'[i].res[p] # Empty /\ ~(Disputed(p)') =>
              /\ p \in DOMAIN res
              /\ ListOnly(p)' => /\ res[p].kind = "list"
                                 /\ file'[i].res[p].vals \subseteq res[p].vals
      BY <2>2, <2>5, <2>6, HeldInStays
    <3> QED
      BY <3>1, <3>2, <2>9 DEF HeldIn
  <2> QED
    BY <2>3, <2>5, <2>7, <2>8 DEF i
<1> QED
  BY <1>5, <1>6, <1>7, <1>9, <1>10 DEF PartsInv

\* When nothing is in progress, a step that leaves the parts alone keeps it so.
LEMMA IdleStep ==
  ASSUME PartsInv, proc = <<>>, UNCHANGED <<parts, proc, file, merged>>
  PROVE  PartsInv'
BY NothingToDo, BlankIsInvariantNext DEF Blank

\* A step that changes nothing of the parts but the phase.
LEMMA StopStep ==
  ASSUME PartsInv, UNCHANGED <<jobs, res, coll, parts, proc, file, merged>>,
         phase' \in {phase, "failed"}
  PROVE  PartsInv'
<1>1. PartsShape' /\ Busy'
  BY DEF PartsInv, PartsShape, Busy, Job
<1>2. Filling'
  BY DEF PartsInv, Filling
<1>3. InTurn'
  BY DEF PartsInv, InTurn, Submitted, Job
<1>4. MergedSoFar'
  BY DEF PartsInv, MergedSoFar, Job, HeldIn, Disputed, ListOnly
<1> QED
  BY <1>1, <1>2, <1>3, <1>4 DEF PartsInv

LEMMA DivideStep == ASSUME PartsInv, Divide PROVE PartsInv'
<1> DEFINE pieces == Parts(Job.type, Entry, Texts[Job.path])
<1>1. IsSequence(pieces) /\ Sized(Job.type, pieces)
  BY PartsType DEF Divide, Readable
<1>2. /\ parts' = pieces /\ pieces # <<>>
      /\ proc' = [i \in DOMAIN pieces |-> "none"]
      /\ file' = [i \in DOMAIN pieces |-> Wrong]
      /\ UNCHANGED <<phase, jobs, res, coll, merged>>
  BY DEF Divide
<1>3. merged = 0 /\ phase = "parse" /\ jobs # <<>> /\ Job.large
  BY NothingToDo DEF Divide, Blank, Parsing
<1> HIDE DEF pieces
<1>4. Len(pieces) \in Nat
  BY <1>1 DEF IsSequence
<1>5. PartsShape'
  BY <1>1, <1>2, <1>3, <1>4 DEF PartsShape, IsSequence
<1>6. Busy'
  BY <1>1, <1>2, <1>3 DEF Busy, Job
<1>7. Filling'
  BY <1>2, WrongHoldsNothing DEF Filling, States
<1>8. Submitted' = {}
  BY <1>2 DEF Submitted
<1>9. InTurn'
  BY <1>2, <1>3, <1>8, FS_EmptySet DEF InTurn
<1>10. MergedSoFar'
  BY <1>2, <1>3 DEF MergedSoFar
<1> QED
  BY <1>5, <1>6, <1>7, <1>9, <1>10 DEF PartsInv

LEMMA SubmitStep == ASSUME PartsInv, Submit PROVE PartsInv'
<1>1. /\ UNCHANGED <<phase, jobs, res, coll, parts, file, merged>>
      /\ proc' = [proc EXCEPT ![NextPart] = "running"] /\ Submitting
  BY DEF Submit
<1>2. NextPart \in DOMAIN parts /\ proc[NextPart] = "none" /\ merged = 0
  BY <1>1, NextIsNew
<1>3. InTurn'
  BY <1>1, SubmitsInTurn DEF States
<1>4. PartsShape'
  BY <1>1 DEF PartsInv, PartsShape
<1>5. Busy'
  BY <1>1 DEF PartsInv, Busy, Submitting, Job
<1>6. Filling'
  BY <1>1, <1>2, WrongHoldsNothing DEF PartsInv, PartsShape, Filling, States
<1>7. MergedSoFar'
  BY <1>1, <1>2 DEF MergedSoFar
<1> QED
  BY <1>3, <1>4, <1>5, <1>6, <1>7 DEF PartsInv

LEMMA SerialStep == ASSUME PartsInv, ProcessSerially PROVE PartsInv'
<1> DEFINE r == InFile(Job.type, Entry, parts[NextPart], CompressorName)
<1>1. CASE ~r.ok
  BY <1>1, StopStep DEF ProcessSerially, Stop, buildVars
<1>2. CASE r.ok
  <2>1. /\ UNCHANGED <<phase, jobs, res, coll, parts, merged>> /\ Submitting
        /\ proc' = [proc EXCEPT ![NextPart] = "master"]
        /\ file' = [file EXCEPT ![NextPart] = r]
    BY <1>2 DEF ProcessSerially
  <2> HIDE DEF r
  <2>2. NextPart \in DOMAIN parts /\ proc[NextPart] = "none" /\ merged = 0
    BY <2>1, NextIsNew
  <2>3. InTurn'
    BY <2>1, SubmitsInTurn DEF States
  <2>4. PartsShape'
    BY <2>1 DEF PartsInv, PartsShape
  <2>5. Busy'
    BY <2>1 DEF PartsInv, Busy, Submitting, Job
  <2>6. Filling'
    <3> SUFFICES ASSUME NEW i \in DOMAIN parts
                 PROVE  /\ proc'[i] \in States
                        /\ proc'[i] \in {"none", "running"} => file'[i] = Wrong
                        /\ file'[i].ok => proc'[i] \in {"ended", "master"}
      BY <2>1 DEF Filling
    <3>1. DOMAIN proc = DOMAIN parts /\ DOMAIN file = DOMAIN parts
      BY DEF PartsInv, PartsShape
    <3>2. CASE i = NextPart
      BY <2>1, <3>1, <3>2 DEF States
    <3>3. CASE i # NextPart
      BY <2>1, <3>1, <3>3 DEF PartsInv, Filling
    <3> QED
      BY <3>2, <3>3
  <2>7. MergedSoFar'
    BY <2>1, <2>2 DEF MergedSoFar
  <2> QED
    BY <2>3, <2>4, <2>5, <2>6, <2>7 DEF PartsInv
<1> QED
  BY <1>1, <1>2

LEMMA MergeStep == ASSUME PartsInv, MergePart PROVE PartsInv'
<1> DEFINE m == NextMerged
           r == file[m]
<1>1. CASE ~r.ok
  BY <1>1, StopStep DEF MergePart, Stop, buildVars
<1>2. CASE r.ok
  <2>1. /\ UNCHANGED <<phase, jobs, parts, proc, file>> /\ merged' = merged + 1
        /\ Job.type = "xml" => res' = Merge(res, r.res)
        /\ Job.type = "csv" => coll' = r.res
        /\ Job.type = "tab" => coll' = Merge(coll, r.res)
    BY <1>2 DEF MergePart
  <2>2. /\ proc # <<>> /\ Submitted = DOMAIN proc /\ merged < Len(parts)
        /\ DOMAIN proc = DOMAIN parts /\ phase = "parse"
        /\ jobs # <<>> /\ Job.large /\ Sized(Job.type, parts)
        /\ IsSequence(parts) /\ merged \in 0..Len(parts)
    BY DEF MergePart, Merging, Parsing, PartsInv, PartsShape, Busy
  <2> DEFINE n == Len(parts)
             at(k) == MergeOrder(Job.type, parts, k)
  <2>3. n \in Nat /\ DOMAIN parts = 1..n /\ merged \in 0..n /\ merged + 1 \in 1..n
    BY <2>2 DEF IsSequence
  <2>4. \A k \in 1..n : at(k) \in 1..n
    BY <2>2, <2>3, OrdersArePermutations
  <2>5. m = at(merged + 1)
    BY DEF NextMerged
  <2>6. PartsShape'
    BY <2>1, <2>3 DEF PartsInv, PartsShape
  <2>7. Busy'
    BY <2>1 DEF PartsInv, Busy, Job
  <2>8. Filling'
    BY <2>1 DEF PartsInv, Filling
  <2>9. InTurn'
    BY <2>1, <2>2 DEF PartsInv, InTurn, Submitted, Job
  <2>10. MergedSoFar'
    <3> SUFFICES ASSUME NEW k \in 1..(merged + 1)
                 PROVE  /\ file[at(k)].ok
                        /\ Job.type = "tab" => HeldIn(coll', at(k))
                        /\ Job.type = "xml" => HeldIn(res', at(k))
                        /\ Job.type = "csv" /\ k = merged + 1 => coll' = file[at(k)].res
      BY <2>1 DEF MergedSoFar, Job, HeldIn, Disputed, ListOnly
    <3>1. k \in 1..n /\ at(k) \in DOMAIN parts /\ m \in DOMAIN parts
      BY <2>3, <2>4, <2>5
    <3>2. CASE k = merged + 1
      <4>1. at(k) = m
        BY <2>5, <3>2
      <4> HIDE DEF m
      <4> QED
        BY <1>2, <2>1, <3>1, <4>1, MergeAdds
    <3>3. CASE k # merged + 1
      <4>1. k \in 1..merged
        BY <2>3, <3>3
      <4>2. /\ file[at(k)].ok
            /\ Job.type = "tab" => HeldIn(coll, at(k))
            /\ Job.type = "xml" => HeldIn(res, at(k))
        BY <4>1 DEF PartsInv, MergedSoFar
      <4> HIDE DEF m, at
      <4> QED
        BY <2>1, <3>1, <3>3, <4>2, MergeKeeps
    <3> QED
      BY <3>2, <3>3
  <2> QED
    BY <2>6, <2>7, <2>8, <2>9, <2>10 DEF PartsInv
<1> QED
  BY <1>1, <1>2

\* The invariant of the parts, one case per action.
LEMMA PartsNext == PartsInv /\ [Next]_vars => PartsInv'
<1> SUFFICES ASSUME PartsInv, [Next]_vars
             PROVE  PartsInv'
  OBVIOUS
<1>1. proc # <<>> => phase \in {"parse", "failed"} /\ jobs # <<>> /\ Job.large
  BY DEF PartsInv, Busy
<1>2. CASE ReadCommandLine
  BY <1>1, <1>2, IdleStep DEF ReadCommandLine, buildVars
<1>3. CASE ReadDocument
  BY <1>1, <1>3, IdleStep DEF ReadDocument, buildVars
<1>4. CASE Define
  BY <1>1, <1>4, IdleStep DEF Define, buildVars
<1>5. CASE Overrides
  BY <1>1, <1>5, IdleStep DEF Overrides, buildVars
<1>6. CASE ParseSmall
  <2> DEFINE r == Whole(Job.type, Job.entries, res, Texts[Job.path], Job.patterns)
  <2>1. CASE r.ok
    <3>1. JobEnds(r.res)
      BY <1>6, <2>1 DEF ParseSmall
    <3> QED
      BY <3>1, BlankIsInvariantNext DEF JobEnds, Blank
  <2>2. CASE ~r.ok
    BY <1>6, <2>2, StopStep DEF ParseSmall, Stop, buildVars
  <2> QED
    BY <2>1, <2>2
<1>7. CASE NoCollateral
  BY <1>7, StopStep DEF NoCollateral, Stop, buildVars
<1>8. CASE Divide
  BY <1>8, DivideStep
<1>9. CASE NoParts
  BY <1>9, BlankIsInvariantNext DEF NoParts, JobEnds, Blank
<1>10. CASE Submit
  BY <1>10, SubmitStep
<1>11. CASE ProcessSerially
  BY <1>11, SerialStep
<1>12. CASE MergePart
  BY <1>12, MergeStep
<1>13. CASE EndLarge
  BY <1>13, BlankIsInvariantNext DEF EndLarge, JobEnds, Blank
<1>14. CASE SignalAliases
  BY <1>1, <1>14, IdleStep DEF SignalAliases, buildVars
<1>15. CASE RegisterAccess
  BY <1>1, <1>15, IdleStep DEF RegisterAccess, buildVars
<1>16. CASE MakeFlows
  BY <1>1, <1>16, IdleStep DEF MakeFlows, buildVars
<1>20. CASE LoadCfg
  BY <1>1, <1>20, IdleStep DEF LoadCfg, buildVars
<1>17. ASSUME NEW w \in DOMAIN proc, WorkerEnds(w) PROVE PartsInv'
  <2> DEFINE r == InFile(Job.type, Entry, parts[w], CompressorName)
             st == IF r.ok THEN "ended" ELSE "dead"
  <2>1. /\ UNCHANGED <<phase, jobs, parts, merged, res, coll>> /\ w \in Alive
        /\ proc' = [proc EXCEPT ![w] = st] /\ file' = [file EXCEPT ![w] = r]
    BY <1>17 DEF WorkerEnds
  <2>2. r.ok \in BOOLEAN
    BY FilesAre
  <2>3. st \in {"ended", "dead"} /\ (r.ok => st = "ended")
    BY <2>2
  <2> HIDE DEF r, st
  <2> QED
    BY <2>1, <2>2, <2>3, WorkerStep
<1>18. ASSUME NEW w \in DOMAIN proc, WorkerKilled(w) PROVE PartsInv'
  <2>1. /\ UNCHANGED <<phase, jobs, parts, merged, res, coll, file>> /\ w \in Alive
        /\ proc' = [proc EXCEPT ![w] = "dead"]
    BY <1>18 DEF WorkerKilled
  <2> QED
    BY <2>1, WorkerStep
<1>19. CASE UNCHANGED vars
  BY <1>19, StopStep DEF vars, buildVars
<1> QED
  BY <1>2, <1>3, <1>4, <1>5, <1>6, <1>7, <1>8, <1>9, <1>10, <1>11, <1>12, <1>13,
     <1>14, <1>15, <1>16, <1>17, <1>18, <1>19, <1>20
     DEF Next, Master, Worker, Ended

LEMMA PartsInvariant == Spec => []PartsInv
<1>1. Init => PartsInv
  BY BlankIsInvariant DEF Init, Blank
<1> QED
  BY <1>1, PartsNext, PTL DEF Spec

(***************************************************************************)
(* Nothing is lost: when a large collateral is done, every part of it was    *)
(* processed to its end, by a process or by the master, and what its file    *)
(* holds is in the dictionary, but for what another part disputes - for any  *)
(* number of parts and processes, in whatever order the processes end and    *)
(* whichever of them are killed.                                             *)
(***************************************************************************)
THEOREM NothingIsLost == Spec => PartsMerged
<1> DEFINE Done == Parsing /\ proc # <<>> /\ jobs' # jobs =>
              \A i \in DOMAIN parts :
                 /\ proc[i] \in {"ended", "master"}
                 /\ file[i].ok
                 /\ Job.type = "tab" => HeldIn(coll, i)
                 /\ Job.type = "xml" => HeldIn(res, i)
                 /\ Job.type = "csv" /\ i = Len(parts) => coll = file[i].res
<1>1. PartsInv /\ [Next]_vars => [Done]_vars
  <2> SUFFICES ASSUME PartsInv, Next, Parsing, proc # <<>>, jobs' # jobs,
                      NEW i \in DOMAIN parts
               PROVE  /\ proc[i] \in {"ended", "master"}
                      /\ file[i].ok
                      /\ Job.type = "tab" => HeldIn(coll, i)
                      /\ Job.type = "xml" => HeldIn(res, i)
                      /\ Job.type = "csv" /\ i = Len(parts) => coll = file[i].res
    OBVIOUS
  <2>1. /\ phase = "parse" /\ Job.large /\ Sized(Job.type, parts) /\ jobs # <<>>
        /\ IsSequence(parts)
    BY DEF PartsInv, PartsShape, Busy, Parsing
  <2>2. merged = Len(parts)
    <3>1. EndLarge
      BY <2>1 DEF Next, Master, Worker, Ended, ReadCommandLine, ReadDocument, Define,
                  Overrides, ParseSmall, NoCollateral, Divide, NoParts, Submit,
                  ProcessSerially, MergePart, SignalAliases, RegisterAccess, LoadCfg, MakeFlows,
                  WorkerEnds, WorkerKilled, Stop, vars
    <3> QED
      BY <3>1 DEF EndLarge, AllMerged
  <2>3. Len(parts) \in Nat /\ DOMAIN parts = 1..Len(parts)
    BY <2>1 DEF IsSequence
  <2>4. PICK k \in 1..Len(parts) : MergeOrder(Job.type, parts, k) = i
    BY <2>1, <2>3, OrdersArePermutations
  <2>5. /\ file[i].ok
        /\ Job.type = "tab" => HeldIn(coll, i)
        /\ Job.type = "xml" => HeldIn(res, i)
        /\ Job.type = "csv" /\ k = merged => coll = file[i].res
    BY <2>2, <2>4 DEF PartsInv, MergedSoFar
  <2>6. proc[i] \in {"ended", "master"}
    BY <2>5 DEF PartsInv, Filling
  <2>7. Job.type = "csv" => k = i
    BY <2>4 DEF MergeOrder
  <2> QED
    BY <2>2, <2>5, <2>6, <2>7
<1> HIDE DEF Done
<1>2. Spec => [][Done]_vars
  BY <1>1, PartsInvariant, PTL DEF Spec
<1> QED
  BY <1>2 DEF PartsMerged, Done

-----------------------------------------------------------------------------
(***************************************************************************)
(* The environment.  What the command line gave to a name is what its last   *)
(* word says.                                                                *)
(***************************************************************************)
SetByWordIn(c, d, env, w) == SetByWord(env, w)
LastSays(env, line, i) == \A name \in Range(EnvArgs) :
    LET at == {j \in 1..i : IsEnvWord(line[j]) /\ EnvArgs[line[j].name] = name}
    IN  at # {} => name \in DOMAIN env
                   /\ \E j \in at : env[name] = line[j].value /\ \A k \in at : k <= j
Fe == INSTANCE FoldFacts WITH op <- SetByWordIn, holds <- Always

LEMMA EnvGivenIsLast ==
  ASSUME NEW line, IsSequence(line)
  PROVE  LastSays(EnvGiven(line), line, Len(line))
<1> DEFINE n == Len(line)
<1>1. n \in Nat /\ DOMAIN line = 1..n
  BY DEF IsSequence
<1>2. EnvGiven(line) = Fe!Fold(0, 0, NoMap, line)
  BY DEF EnvGiven, SetByWordIn, FoldLeft, MapThenFoldSet, Max, Fe!Fold, Fe!Top
<1> HIDE DEF n
<1>3. PICK f : Fe!Steps(f, 0, 0, NoMap, line, n) /\ Fe!Fold(0, 0, NoMap, line) = f[n]
  BY <1>1, Fe!FoldSteps
<1> DEFINE P == {i \in 0..n : LastSays(f[i], line, i)}
<1>4. 0 \in P
  BY <1>1 DEF LastSays
<1>5. ASSUME NEW i \in 1..n, i - 1 \in P PROVE i \in P
  <2> DEFINE w == line[i]
             env == f[i - 1]
  <2>1. f[i] = SetByWord(env, w)
    BY <1>3 DEF Fe!Steps, SetByWordIn
  <2>2. LastSays(env, line, i - 1) /\ i \in 0..n /\ i \in Nat
    BY <1>1, <1>5
  <2> HIDE DEF env
  <2>3. ASSUME NEW name \in Range(EnvArgs)
        PROVE  LET at == {j \in 1..i : IsEnvWord(line[j]) /\ EnvArgs[line[j].name] = name}
               IN  at # {} => name \in DOMAIN f[i]
                     /\ \E j \in at : f[i][name] = line[j].value /\ \A k \in at : k <= j
    <3> DEFINE at == {j \in 1..i : IsEnvWord(line[j]) /\ EnvArgs[line[j].name] = name}
               old == {j \in 1..(i-1) : IsEnvWord(line[j]) /\ EnvArgs[line[j].name] = name}
    <3>1. CASE IsEnvWord(w) /\ EnvArgs[w.name] = name
      <4>1. f[i] = Put(env, name, w.value)
        BY <2>1, <3>1 DEF SetByWord
      <4>2. name \in DOMAIN f[i] /\ f[i][name] = w.value
        BY <4>1 DEF Put
      <4>3. i \in at /\ \A k \in at : k <= i
        BY <2>2, <3>1
      <4> HIDE DEF at
      <4>4. \E j \in at : f[i][name] = line[j].value /\ \A k \in at : k <= j
        BY <4>2, <4>3
      <4> QED
        BY <4>2, <4>4 DEF at
    <3>2. CASE ~(IsEnvWord(w) /\ EnvArgs[w.name] = name)
      <4>1. at = old
        BY <2>2, <3>2
      <4>2. name \in DOMAIN env => name \in DOMAIN f[i] /\ f[i][name] = env[name]
        BY <2>1, <3>2 DEF SetByWord, Put
      <4>3. old # {} => name \in DOMAIN env
                        /\ \E j \in old : env[name] = line[j].value /\ \A k \in old : k <= j
        BY <2>2 DEF LastSays
      <4> HIDE DEF at, old
      <4>4. at # {} => name \in DOMAIN f[i]
                       /\ \E j \in at : f[i][name] = line[j].value /\ \A k \in at : k <= j
        BY <4>1, <4>2, <4>3
      <4> QED
        BY <4>4 DEF at
    <3> QED
      BY <3>1, <3>2
  <2>4. LastSays(f[i], line, i)
    BY <2>3 DEF LastSays
  <2> QED
    BY <2>2, <2>4
<1>6. \A i \in 0..n : i \in P
  <2> HIDE DEF P
  <2> QED
    BY <1>1, <1>4, <1>5, Fe!BoundedInduction
<1>7. n \in P
  BY <1>1, <1>6
<1> QED
  BY <1>2, <1>3, <1>7 DEF n

(***************************************************************************)
(* What a step on the configuration may do: read it and add to it, in which  *)
(* case the environment stays, or set the environment, but for what the      *)
(* command line gave.                                                        *)
(***************************************************************************)
Config(t) == DOMAIN t = DOMAIN NoConfig

SameEnv(t, u) ==
    /\ Config(u)
    /\ u.env = t.env /\ u.cmdEnv = t.cmdEnv /\ u.envOnly = t.envOnly
    /\ u.functors = t.functors

IsMap(f) == f = [x \in DOMAIN f |-> f[x]]

Sets(t, u) ==
    /\ Config(u)
    /\ IsMap(t.env) => IsMap(u.env)
    /\ u.cmdEnv = t.cmdEnv /\ u.envOnly = t.envOnly /\ u.cfg = t.cfg
    /\ \A name \in t.cmdEnv \cap DOMAIN t.env : name \in DOMAIN u.env
                                                /\ u.env[name] = t.env[name]

LEMMA FailIs ==
  ASSUME NEW t, Config(t)
  PROVE  /\ SameEnv(t, Fail(t)) /\ SameEnv(t, t)
         /\ Fail(t).failed = TRUE /\ Fail(t).cfg = t.cfg
         /\ Sets(t, Fail(t)) /\ Sets(t, t)
BY DEF Config, NoConfig, SameEnv, Sets, Fail

\* A filter admits a node, passes it over, or ends the program.
LEMMA FilteredIs ==
  ASSUME NEW t, NEW f, NEW u
  PROVE  Filtered(t, f, u) \in {t, u, Fail(t)}
BY DEF Filtered

\* One step of reading documents.
DefineFunctorIn(c, d, t, f) == IF t.failed THEN t ELSE DefineFunctor(t, f)
SetIn(c, d, t, s) == Set(t, s.node, s.set)
SetsFrom(c, t, u) == Sets(t, u)
Ff == INSTANCE FoldFacts WITH op <- DefineFunctorIn, holds <- SetsFrom
Fn == INSTANCE FoldFacts WITH op <- SetIn, holds <- SetsFrom

LEMMA SetsAgain ==
  ASSUME NEW t, NEW u, NEW v, Sets(t, u), Sets(u, v)
  PROVE  Sets(t, v)
BY DEF Sets

LEMMA DefineFunctorSets ==
  ASSUME NEW t, NEW f, Config(t)
  PROVE  Sets(t, DefineFunctor(t, f))
<1>1. Sets(t, Fail(t))
  BY FailIs
<1>2. Sets(t, [t EXCEPT !.functors = Put(@, f.name, f.path)])
  BY DEF Sets, Config, NoConfig
<1> QED
  BY <1>1, <1>2 DEF DefineFunctor

LEMMA PutIsMap == ASSUME NEW f, NEW k, NEW v PROVE IsMap(Put(f, k, v))
BY DEF IsMap, Put

LEMMA SetSets ==
  ASSUME NEW t, NEW node, NEW set, Config(t)
  PROVE  Sets(t, Set(t, node, set))
<1>1. ASSUME NEW u, Config(u), NEW name PROVE Sets(u, Sourced(u, node, name))
  <2>1. Sets(u, [u EXCEPT !.sourceme = Append(@, <<name, u.env[name]>>)])
    BY <1>1 DEF Sets, Config, NoConfig
  <2> QED
    BY <1>1, <2>1, FailIs DEF Sourced
<1> DEFINE v == Resolved(set.value, t)
           after == [t EXCEPT !.env = Put(@, set.name, v)]
           admitted == IF v = Bad THEN Fail(t) ELSE Sourced(after, node, set.name)
<1>2. ASSUME set.name \notin t.cmdEnv PROVE Sets(t, after)
  <2> HIDE DEF v
  <2>1. /\ Config(after) /\ after.cmdEnv = t.cmdEnv /\ after.envOnly = t.envOnly
        /\ after.cfg = t.cfg /\ after.env = Put(t.env, set.name, v)
    BY DEF Config, NoConfig
  <2>2. \A name \in DOMAIN t.env : name # set.name =>
           name \in DOMAIN Put(t.env, set.name, v) /\ Put(t.env, set.name, v)[name] = t.env[name]
    BY DEF Put
  <2>3. IsMap(Put(t.env, set.name, v))
    BY PutIsMap
  <2> HIDE DEF after
  <2> QED
    BY <1>2, <2>1, <2>2, <2>3 DEF Sets
<1>3. ASSUME set.name \notin t.cmdEnv PROVE Sets(t, admitted)
  <2>1. Sets(t, after) /\ Config(after)
    BY <1>2, <1>3 DEF Sets
  <2> HIDE DEF after, v
  <2>2. Sets(after, Sourced(after, node, set.name))
    BY <1>1, <2>1
  <2>3. Sets(t, Sourced(after, node, set.name))
    BY <2>1, <2>2, SetsAgain
  <2> QED
    BY <2>3, FailIs
<1>4. Set(t, node, set) = IF t.failed THEN t
                          ELSE IF set.name \in t.cmdEnv THEN Sourced(t, node, set.name)
                          ELSE Filtered(t, node.filter, admitted)
  BY DEF Set
<1> HIDE DEF admitted
<1>5. Filtered(t, node.filter, admitted) \in {t, admitted, Fail(t)}
  BY FilteredIs
<1>6. Sets(t, t) /\ Sets(t, Fail(t)) /\ Sets(t, Sourced(t, node, set.name))
  BY <1>1, FailIs
<1> QED
  BY <1>3, <1>4, <1>5, <1>6

\* What a document sets is a sequence of single settings.
Singly(node) == [k \in DOMAIN node.sets |-> [node |-> node, set |-> node.sets[k]]]
SettingsOf(doc) == UNION {Range(Singly(node)) : node \in Range(doc.setenvs)}

LEMMA SettingsType ==
  ASSUME NEW name \in DOMAIN Documents
  PROVE  Settings(Documents[name]) \in Seq(SettingsOf(Documents[name]))
<1> DEFINE doc == Documents[name]
           es == doc.setenvs
           n == Len(es)
           ss == [i \in DOMAIN es |-> Singly(es[i])]
           S == SettingsOf(doc)
<1>1. IsSequence(es) /\ \A i \in DOMAIN es : IsSequence(es[i].sets)
  <2>1. "setenvs" \in DOMAIN doc
    BY DocumentAssumption DEF NoDocument
  <2> QED
    BY <2>1, DocumentAssumption
<1>2. n \in Nat /\ DOMAIN es = 1..n
  BY <1>1 DEF IsSequence
<1>3. Settings(doc) = FlattenSeq(ss)
  BY DEF Settings, Singly
<1>4. ASSUME NEW i \in 1..n PROVE ss[i] \in Seq(S)
  <2> DEFINE sets == es[i].sets
  <2>1. Len(sets) \in Nat /\ DOMAIN sets = 1..Len(sets)
    BY <1>1, <1>2, <1>4 DEF IsSequence
  <2>2. ss[i] = Singly(es[i]) /\ Singly(es[i]) = [k \in 1..Len(sets) |-> [node |-> es[i], set |-> sets[k]]]
    BY <1>2, <1>4, <2>1 DEF Singly
  <2>3. Range(Singly(es[i])) \subseteq S
    BY <1>2, <1>4 DEF SettingsOf, Range
  <2> HIDE DEF S, es, ss, sets
  <2>4. \A k \in 1..Len(sets) : Singly(es[i])[k] \in S
    BY <2>2, <2>3 DEF Range
  <2>5. [k \in 1..Len(sets) |-> Singly(es[i])[k]] \in Seq(S)
    BY <2>1, <2>4
  <2> QED
    BY <2>2, <2>5
<1>5. ss \in [1..n -> Seq(S)]
  BY <1>2, <1>4
<1> HIDE DEF ss, S, n, es, doc
<1>6. FlattenSeq(ss) \in Seq(S)
  BY <1>2, <1>5, FlattenType
<1> QED
  BY <1>3, <1>6 DEF S, doc

\* A document is a fold over its functors and another one over its settings.
LEMMA PreparedIs ==
  ASSUME NEW t, NEW doc, NEW d
  PROVE  Prepared(t, doc) = Fn!Fold(0, d, Ff!Fold(0, d, t, doc.functors), Settings(doc))
<1> DEFINE defined == FoldLeft(LAMBDA u, f : IF u.failed THEN u ELSE DefineFunctor(u, f),
                               t, doc.functors)
<1>1. Prepared(t, doc) = FoldLeft(LAMBDA u, s : Set(u, s.node, s.set), defined, Settings(doc))
  BY DEF Prepared
<1>2. defined = Ff!Fold(0, d, t, doc.functors)
  BY DEF DefineFunctorIn, FoldLeft, MapThenFoldSet, Max, Ff!Fold, Ff!Top
<1> HIDE DEF defined
<1>3. Prepared(t, doc) = Fn!Fold(0, d, defined, Settings(doc))
  BY <1>1 DEF SetIn, FoldLeft, MapThenFoldSet, Max, Fn!Fold, Fn!Top
<1> QED
  BY <1>2, <1>3

LEMMA PreparedSets ==
  ASSUME NEW t, NEW name \in DOMAIN Documents, Config(t)
  PROVE  Sets(t, Prepared(t, Documents[name]))
<1> DEFINE doc == Documents[name]
           fs == doc.functors
           es == Settings(doc)
           defined == Ff!Fold(0, t, t, fs)
           set == Fn!Fold(0, t, defined, es)
<1>1. IsSequence(fs)
  BY DocumentAssumption DEF NoDocument
<1>2. Prepared(t, doc) = set
  BY PreparedIs
<1>3. Len(fs) \in Nat /\ DOMAIN fs = 1..Len(fs)
  BY <1>1 DEF IsSequence
<1>4. Len(es) \in Nat /\ DOMAIN es = 1..Len(es)
  <2>1. es \in Seq(SettingsOf(doc))
    BY SettingsType
  <2> HIDE DEF es, doc
  <2> QED
    BY <2>1
<1> HIDE DEF fs, es, doc, set, defined
<1>5. SetsFrom(0, t, t)
  BY FailIs DEF SetsFrom
<1>6. SetsFrom(0, t, defined)
  <2>1. \A i \in 1..Len(fs) : \A x : SetsFrom(0, t, x) => SetsFrom(0, t, DefineFunctorIn(0, t, x, fs[i]))
    <3> SUFFICES ASSUME NEW i \in 1..Len(fs), NEW x, Sets(t, x)
                 PROVE  Sets(t, IF x.failed THEN x ELSE DefineFunctor(x, fs[i]))
      BY DEF SetsFrom, DefineFunctorIn
    <3>1. Sets(x, DefineFunctor(x, fs[i]))
      BY DefineFunctorSets DEF Sets
    <3>2. Sets(t, DefineFunctor(x, fs[i]))
      BY <3>1, SetsAgain
    <3> QED
      BY <3>2
  <2> QED
    BY <1>3, <1>5, <2>1, Ff!FoldHolds DEF defined
<1>7. SetsFrom(0, t, set)
  <2>1. \A i \in 1..Len(es) : \A x : SetsFrom(0, t, x) => SetsFrom(0, t, SetIn(0, t, x, es[i]))
    <3> SUFFICES ASSUME NEW i \in 1..Len(es), NEW x, Sets(t, x)
                 PROVE  Sets(t, Set(x, es[i].node, es[i].set))
      BY DEF SetsFrom, SetIn
    <3>1. Sets(x, Set(x, es[i].node, es[i].set))
      BY SetSets DEF Sets
    <3> QED
      BY <3>1, SetsAgain
  <2> QED
    BY <1>4, <1>6, <2>1, Fn!FoldHolds DEF set
<1> QED
  BY <1>2, <1>7 DEF doc, SetsFrom

-----------------------------------------------------------------------------
(***************************************************************************)
(* Collaterals, dictionaries, CFG, signals and access leave the environment  *)
(* alone; signals and access only add to CFG.                                *)
(***************************************************************************)
Adds(t, u) ==
    /\ SameEnv(t, u)
    /\ \A p \in DOMAIN t.cfg : p \in DOMAIN u.cfg /\ u.cfg[p] = t.cfg[p]

LEMMA SameEnvAgain ==
  ASSUME NEW t, NEW u, NEW v, SameEnv(t, u), SameEnv(u, v)
  PROVE  SameEnv(t, v)
BY DEF SameEnv

LEMMA AddsAgain ==
  ASSUME NEW t, NEW u, NEW v, Adds(t, u), Adds(u, v)
  PROVE  Adds(t, v)
BY SameEnvAgain DEF Adds

LEMMA DefineCollateralSame ==
  ASSUME NEW t, NEW c, Config(t)
  PROVE  SameEnv(t, DefineCollateral(t, c))
<1> DEFINE path == Resolved(c.path, t)
           type == IF c.type # None THEN c.type ELSE IF Matches(".xml", path) THEN "xml" ELSE None
           defined == [t EXCEPT !.colls = Put(@, c.name, [path |-> path, type |-> type])]
           u == IF path = Bad \/ type = None THEN Fail(t) ELSE defined
<1>1. DefineCollateral(t, c) = Filtered(t, c.filter, u)
  BY DEF DefineCollateral
<1> HIDE DEF path, type
<1>2. SameEnv(t, defined)
  BY DEF SameEnv, Config, NoConfig
<1> HIDE DEF defined
<1>3. SameEnv(t, u)
  BY <1>2, FailIs
<1> HIDE DEF u
<1>4. Filtered(t, c.filter, u) \in {t, u, Fail(t)}
  BY FilteredIs
<1> QED
  BY <1>1, <1>3, <1>4, FailIs

LEMMA DefineDictionarySame ==
  ASSUME NEW t, NEW x, Config(t)
  PROVE  SameEnv(t, DefineDictionary(t, x))
<1> DEFINE r == References(t, x)
           entity == [colls |-> r.refs, entries |-> x.entries, large |-> x.large,
                      patterns |-> x.patterns]
           old == IF x.name \in DOMAIN t.dicts THEN t.dicts[x.name] ELSE <<>>
           defined == [t EXCEPT !.dicts = Put(@, x.name, Append(old, entity)),
                                !.order = IF old = <<>> THEN Append(@, x.name) ELSE @]
           u == IF r.te.failed \/ r.refs = <<>> THEN Fail(t)
                ELSE IF ~EntriesOk(t, r.refs, x) THEN Fail(t)
                ELSE defined
<1>1. DefineDictionary(t, x) = Filtered(t, x.filter, u)
  BY DEF DefineDictionary
<1> HIDE DEF r, entity, old
<1>2. SameEnv(t, defined)
  BY DEF SameEnv, Config, NoConfig
<1> HIDE DEF defined
<1>3. SameEnv(t, u)
  BY <1>2, FailIs
<1> HIDE DEF u
<1>4. Filtered(t, x.filter, u) \in {t, u, Fail(t)}
  BY FilteredIs
<1> QED
  BY <1>1, <1>3, <1>4, FailIs

LEMMA ReadVarSame ==
  ASSUME NEW t, NEW cat, NEW var, Config(t)
  PROVE  SameEnv(t, ReadVar(t, cat, var))
<1> DEFINE v == Resolved(var.value, t)
           path == VarPath(cat, var)
           read == [t EXCEPT !.cfg = Assign(@, path, v)]
           u == IF v = Bad \/ (var.attr # None /\ IsScalar(t.cfg, <<cat, var.key>>))
                  THEN Fail(t) ELSE read
<1>1. ReadVar(t, cat, var) = Filtered(t, var.filter, u)
  BY DEF ReadVar
<1> HIDE DEF v, path
<1>2. SameEnv(t, read)
  BY DEF SameEnv, Config, NoConfig
<1> HIDE DEF read
<1>3. SameEnv(t, u)
  BY <1>2, FailIs
<1> HIDE DEF u
<1>4. Filtered(t, var.filter, u) \in {t, u, Fail(t)}
  BY FilteredIs
<1> QED
  BY <1>1, <1>3, <1>4, FailIs

SameFrom(c, t, u) == SameEnv(t, u)
AddsFrom(c, t, u) == Adds(t, u)
ReadVarIn(cat, d, t, v) == ReadVar(t, cat, v)
Fr == INSTANCE FoldFacts WITH op <- ReadVarIn, holds <- SameFrom

LEMMA ReadCategorySame ==
  ASSUME NEW t, NEW c, Config(t), IsSequence(c.vars)
  PROVE  SameEnv(t, ReadCategory(t, c))
<1> DEFINE opened == [t EXCEPT !.cats = @ \cup {c.cat},
                               !.dynamic = IF c.dynamic THEN @ \cup {c.cat} ELSE @]
           values == [p \in DOMAIN c.other |-> Resolved(c.other[p], t)]
           reads == c.vars
           n == Len(reads)
           cat == c.cat
           all == FoldLeft(LAMBDA x, v : ReadVar(x, cat, v), opened, reads)
           kept == {p \in DOMAIN t.cfg : \A top \in DOMAIN values : ~IsUnder(p, <<c.cat>> \o top)}
           table == [p \in kept \cup {<<c.cat>> \o r : r \in DOMAIN values} |->
                       IF p \in kept THEN opened.cfg[p] ELSE values[Tail(p)]]
           other == [opened EXCEPT !.cfg = table]
           u == IF c.vars # <<>> /\ DOMAIN c.other # {} THEN Fail(t)
                ELSE IF c.vars # <<>> THEN all ELSE other
<1>1. ReadCategory(t, c) = Filtered(t, c.filter, u)
  BY DEF ReadCategory
<1>2. SameEnv(t, opened)
  BY DEF SameEnv, Config, NoConfig
<1>3. n \in Nat /\ DOMAIN reads = 1..n
  BY DEF IsSequence
<1> HIDE DEF opened, kept, table, reads, n, cat
<1>4. SameEnv(t, other)
  BY <1>2 DEF SameEnv, Config, NoConfig
<1>5. all = Fr!Fold(cat, t, opened, reads)
  BY DEF ReadVarIn, FoldLeft, MapThenFoldSet, Max, Fr!Fold, Fr!Top
<1>6. SameEnv(t, all)
  <2>1. \A i \in 1..n : \A x : SameFrom(cat, t, x) => SameFrom(cat, t, ReadVarIn(cat, t, x, reads[i]))
    <3> SUFFICES ASSUME NEW i \in 1..n, NEW x, SameEnv(t, x)
                 PROVE  SameEnv(t, ReadVar(x, cat, reads[i]))
      BY DEF SameFrom, ReadVarIn
    <3>1. SameEnv(x, ReadVar(x, cat, reads[i]))
      BY ReadVarSame DEF SameEnv
    <3> QED
      BY <3>1, SameEnvAgain
  <2>2. SameFrom(cat, t, opened)
    BY <1>2 DEF SameFrom
  <2>3. SameFrom(cat, t, Fr!Fold(cat, t, opened, reads))
    BY <1>3, <2>1, <2>2, Fr!FoldHolds
  <2> QED
    BY <1>5, <2>3 DEF SameFrom
<1> HIDE DEF all, other, values
<1>7. SameEnv(t, u)
  BY <1>4, <1>6, FailIs
<1> HIDE DEF u
<1>8. Filtered(t, c.filter, u) \in {t, u, Fail(t)}
  BY FilteredIs
<1> QED
  BY <1>1, <1>7, <1>8, FailIs

LEMMA OverrideSame ==
  ASSUME NEW t, NEW path, NEW v, Config(t)
  PROVE  SameEnv(t, Override(t, path, v))
<1>1. SameEnv(t, [t EXCEPT !.cfg = Assign(@, path, v)])
  BY DEF SameEnv, Config, NoConfig
<1> QED
  BY <1>1, FailIs DEF Override

LEMMA ChooseCompressorSame ==
  ASSUME NEW t, Config(t)
  PROVE  SameEnv(t, ChooseCompressor(t))
<1>1. SameEnv(t, [t EXCEPT !.cfg = Assign(@, Compressor, <<"json">>)])
  BY DEF SameEnv, Config, NoConfig
<1> QED
  BY <1>1, FailIs DEF ChooseCompressor

LEMMA AliasAdds ==
  ASSUME NEW t, NEW l, Config(t)
  PROVE  Adds(t, Alias(t, l))
<1>1. Adds(t, t) /\ Adds(t, Fail(t))
  BY FailIs DEF Adds
<1> DEFINE path == <<"FlowSignals", l[1]>>
           cfg == Assign(t.cfg, path, <<l[2]>>)
           u == [t EXCEPT !.cfg = cfg, !.cats = @ \cup {"FlowSignals"}]
<1>2. ASSUME ~Known(t.cfg, path) PROVE Adds(t, u)
  <2>1. IsUnder(path, path)
    <3>1. path \in Seq({"FlowSignals", l[1]})
      OBVIOUS
    <3> HIDE DEF path
    <3>2. SubSeq(path, 1, Len(path)) = path /\ Len(path) \in Nat
      BY <3>1
    <3> QED
      BY <3>2 DEF IsUnder
  <2> HIDE DEF path
  <2>2. \A p \in DOMAIN t.cfg : ~IsUnder(p, path)
    BY <1>2 DEF Known
  <2>3. \A p \in DOMAIN t.cfg : p # path
    BY <2>1, <2>2
  <2>4. \A p \in DOMAIN t.cfg : p \in DOMAIN cfg /\ cfg[p] = t.cfg[p]
    BY <2>2, <2>3 DEF Assign, Put
  <2> HIDE DEF cfg
  <2>5. SameEnv(t, u) /\ u.cfg = cfg
    BY DEF SameEnv, Config, NoConfig
  <2> HIDE DEF u
  <2> QED
    BY <2>4, <2>5 DEF Adds
<1>3. Alias(t, l) = IF t.failed \/ Len(l) < 2 THEN Fail(t)
                    ELSE IF Known(t.cfg, path) THEN t ELSE u
  BY DEF Alias
<1> HIDE DEF path, u
<1> QED
  BY <1>1, <1>2, <1>3

AliasIn(c, d, t, l) == Alias(t, l)
Fa == INSTANCE FoldFacts WITH op <- AliasIn, holds <- AddsFrom

LEMMA ReadSignalsAdds ==
  ASSUME NEW t, Config(t)
  PROVE  Adds(t, ReadSignals(t, Signals))
<1> DEFINE named == {n \in {"HTD_SIGNALS_MAP", "SBFT_SIGNALS_MAP"} : n \in DOMAIN t.env}
           linesOf(n) == IF n \in named THEN Signals[t.env[n]] ELSE <<>>
           lines == linesOf("HTD_SIGNALS_MAP") \o linesOf("SBFT_SIGNALS_MAP")
           all == FoldLeft(LAMBDA x, l : Alias(x, l), t, lines)
           gone == \E n \in named : t.env[n] \notin DOMAIN Signals
           m == Len(lines)
<1>1. ReadSignals(t, Signals) = IF gone THEN Fail(t) ELSE all
  BY DEF ReadSignals
<1>2. Adds(t, t) /\ Adds(t, Fail(t))
  BY FailIs DEF Adds
<1>3. ASSUME ~gone PROVE m \in Nat /\ DOMAIN lines = 1..m
  <2>1. \A n \in {"HTD_SIGNALS_MAP", "SBFT_SIGNALS_MAP"} : \E S : linesOf(n) \in Seq(S)
    BY <1>3, TextAssumption DEF IsSequence
  <2> HIDE DEF linesOf
  <2>2. PICK S : linesOf("HTD_SIGNALS_MAP") \in Seq(S)
    BY <2>1
  <2>3. PICK S2 : linesOf("SBFT_SIGNALS_MAP") \in Seq(S2)
    BY <2>1
  <2>4. /\ linesOf("HTD_SIGNALS_MAP") \in Seq(S \cup S2)
        /\ linesOf("SBFT_SIGNALS_MAP") \in Seq(S \cup S2)
    BY <2>2, <2>3
  <2>5. lines \in Seq(S \cup S2)
    BY <2>4
  <2> HIDE DEF lines
  <2> QED
    BY <2>5
<1> HIDE DEF lines, m
<1>4. all = Fa!Fold(0, t, t, lines)
  BY DEF AliasIn, FoldLeft, MapThenFoldSet, Max, Fa!Fold, Fa!Top
<1>5. ASSUME ~gone PROVE Adds(t, all)
  <2>1. \A i \in 1..m : \A x : AddsFrom(0, t, x) => AddsFrom(0, t, AliasIn(0, t, x, lines[i]))
    <3> SUFFICES ASSUME NEW i \in 1..m, NEW x, Adds(t, x)
                 PROVE  Adds(t, Alias(x, lines[i]))
      BY DEF AddsFrom, AliasIn
    <3>1. Adds(x, Alias(x, lines[i]))
      BY AliasAdds DEF Adds, SameEnv
    <3> QED
      BY <3>1, AddsAgain
  <2>2. AddsFrom(0, t, t)
    BY <1>2 DEF AddsFrom
  <2>3. m \in Nat /\ DOMAIN lines = 1..m
    BY <1>3, <1>5
  <2>4. AddsFrom(0, t, Fa!Fold(0, t, t, lines))
    BY <2>1, <2>2, <2>3, Fa!FoldHolds
  <2> QED
    BY <1>4, <2>4 DEF AddsFrom
<1> HIDE DEF gone, all
<1> QED
  BY <1>1, <1>2, <1>5

LEMMA ReadAccessAdds ==
  ASSUME NEW t, NEW a, NEW built2, Config(t)
  PROVE  Adds(t, ReadAccess(t, a, built2))
<1> DEFINE dict == Resolved(a.dictionary, t)
           read == [t EXCEPT !.access = Put(@, a.cat, dict)]
           u == IF a.cat \in DOMAIN t.access \/ dict = Bad THEN Fail(t)
                ELSE IF dict # <<"NONE">> /\ dict \notin built2 THEN Fail(t) ELSE read
<1>1. ReadAccess(t, a, built2) = Filtered(t, a.filter, u)
  BY DEF ReadAccess
<1> HIDE DEF dict
<1>2. Adds(t, t) /\ Adds(t, Fail(t))
  BY FailIs DEF Adds
<1>3. Adds(t, read)
  BY DEF Adds, SameEnv, Config, NoConfig
<1> HIDE DEF read
<1>4. Adds(t, u)
  BY <1>2, <1>3
<1> HIDE DEF u
<1>5. Filtered(t, a.filter, u) \in {t, u, Fail(t)}
  BY FilteredIs
<1> QED
  BY <1>1, <1>2, <1>4, <1>5

(***************************************************************************)
(* The nodes of all the documents read, which are documents that exist.      *)
(***************************************************************************)
NodesOf(read, field) == FlattenSeq([i \in DOMAIN read |-> Documents[read[i]][field]])

LEMMA NodesType ==
  ASSUME NEW read \in Seq(DOMAIN Documents), NEW field \in DOMAIN NoDocument
  PROVE  NodesOf(read, field) \in Seq(UNION {Range(Documents[name][field]) :
                                               name \in DOMAIN Documents})
<1> DEFINE S == UNION {Range(Documents[name][field]) : name \in DOMAIN Documents}
           n == Len(read)
           ss == [i \in DOMAIN read |-> Documents[read[i]][field]]
<1>1. n \in Nat /\ DOMAIN read = 1..n /\ \A i \in 1..n : read[i] \in DOMAIN Documents
  OBVIOUS
<1>2. ASSUME NEW i \in 1..n PROVE Documents[read[i]][field] \in Seq(S)
  <2> DEFINE s == Documents[read[i]][field]
  <2>1. s \in Seq(Range(s))
    <3>1. DOMAIN Documents[read[i]] = DOMAIN NoDocument
      BY <1>1, DocumentAssumption
    <3> QED
      BY <1>1, <3>1, DocumentAssumption DEF IsSequence
  <2>2. Range(s) \subseteq S
    BY <1>1
  <2> HIDE DEF s, S
  <2> QED
    BY <2>1, <2>2 DEF s
<1>3. ss \in [1..n -> Seq(S)]
  BY <1>1, <1>2
<1> HIDE DEF ss, S, n
<1>4. FlattenSeq(ss) \in Seq(S)
  BY <1>1, <1>3, FlattenType
<1> QED
  BY <1>4 DEF NodesOf, ss, S

ReadCollateralIn(c, d, t, x) == DefineCollateral(t, x)
ReadDictionaryIn(c, d, t, x) == IF t.failed THEN t ELSE DefineDictionary(t, x)
ReadCategoryIn(c, d, t, x) == ReadCategory(t, x)
ReadAccessIn(dicts, d, t, x) == IF t.failed THEN t ELSE ReadAccess(t, x, dicts)
Rc == INSTANCE FoldFacts WITH op <- ReadCollateralIn, holds <- SameFrom
Rd == INSTANCE FoldFacts WITH op <- ReadDictionaryIn, holds <- SameFrom
Rg == INSTANCE FoldFacts WITH op <- ReadCategoryIn, holds <- SameFrom
Ra == INSTANCE FoldFacts WITH op <- ReadAccessIn, holds <- AddsFrom

LEMMA ReadCollateralsSame ==
  ASSUME NEW t, NEW read \in Seq(DOMAIN Documents), Config(t)
  PROVE  SameEnv(t, ReadCollaterals(t, read))
<1> DEFINE nodes == NodesOf(read, "collaterals")
<1>1. ReadCollaterals(t, read) = Rc!Fold(0, t, t, nodes)
  BY DEF ReadCollaterals, AllOf, NodesOf, ReadCollateralIn, FoldLeft, MapThenFoldSet, Max,
         Rc!Fold, Rc!Top
<1>2. \E S : nodes \in Seq(S)
  BY NodesType DEF NoDocument
<1> HIDE DEF nodes
<1>3. Len(nodes) \in Nat /\ DOMAIN nodes = 1..Len(nodes)
  BY <1>2
<1>4. \A i \in 1..Len(nodes) : \A x :
         SameFrom(0, t, x) => SameFrom(0, t, ReadCollateralIn(0, t, x, nodes[i]))
  <2> SUFFICES ASSUME NEW i \in 1..Len(nodes), NEW x, SameEnv(t, x)
               PROVE  SameEnv(t, DefineCollateral(x, nodes[i]))
    BY DEF SameFrom, ReadCollateralIn
  <2>1. SameEnv(x, DefineCollateral(x, nodes[i]))
    BY DefineCollateralSame DEF SameEnv
  <2> QED
    BY <2>1, SameEnvAgain
<1>5. SameFrom(0, t, t)
  BY FailIs DEF SameFrom
<1>6. SameFrom(0, t, Rc!Fold(0, t, t, nodes))
  BY <1>3, <1>4, <1>5, Rc!FoldHolds
<1> QED
  BY <1>1, <1>6 DEF SameFrom

LEMMA ReadDictionariesSame ==
  ASSUME NEW t, NEW read \in Seq(DOMAIN Documents), Config(t)
  PROVE  SameEnv(t, ReadDictionaries(t, read))
<1> DEFINE nodes == NodesOf(read, "dictionaries")
<1>1. ReadDictionaries(t, read) = Rd!Fold(0, t, t, nodes)
  BY DEF ReadDictionaries, AllOf, NodesOf, ReadDictionaryIn, FoldLeft, MapThenFoldSet, Max,
         Rd!Fold, Rd!Top
<1>2. \E S : nodes \in Seq(S)
  BY NodesType DEF NoDocument
<1> HIDE DEF nodes
<1>3. Len(nodes) \in Nat /\ DOMAIN nodes = 1..Len(nodes)
  BY <1>2
<1>4. \A i \in 1..Len(nodes) : \A x :
         SameFrom(0, t, x) => SameFrom(0, t, ReadDictionaryIn(0, t, x, nodes[i]))
  <2> SUFFICES ASSUME NEW i \in 1..Len(nodes), NEW x, SameEnv(t, x)
               PROVE  SameEnv(t, IF x.failed THEN x ELSE DefineDictionary(x, nodes[i]))
    BY DEF SameFrom, ReadDictionaryIn
  <2>1. SameEnv(x, DefineDictionary(x, nodes[i]))
    BY DefineDictionarySame DEF SameEnv
  <2>2. SameEnv(t, DefineDictionary(x, nodes[i]))
    BY <2>1, SameEnvAgain
  <2> QED
    BY <2>2
<1>5. SameFrom(0, t, t)
  BY FailIs DEF SameFrom
<1>6. SameFrom(0, t, Rd!Fold(0, t, t, nodes))
  BY <1>3, <1>4, <1>5, Rd!FoldHolds
<1> QED
  BY <1>1, <1>6 DEF SameFrom

LEMMA ReadCfgSame ==
  ASSUME NEW t, NEW read \in Seq(DOMAIN Documents), Config(t)
  PROVE  SameEnv(t, ReadCfg(t, read))
<1> DEFINE nodes == NodesOf(read, "cfgs")
           S == UNION {Range(Documents[name]["cfgs"]) : name \in DOMAIN Documents}
<1>1. ReadCfg(t, read) = Rg!Fold(0, t, t, nodes)
  BY DEF ReadCfg, AllOf, NodesOf, ReadCategoryIn, FoldLeft, MapThenFoldSet, Max,
         Rg!Fold, Rg!Top
<1>2. nodes \in Seq(S)
  BY NodesType DEF NoDocument
<1>3. \A x \in S : IsSequence(x.vars)
  BY DocumentAssumption DEF Range, NoDocument
<1> HIDE DEF nodes, S
<1>4. /\ Len(nodes) \in Nat /\ DOMAIN nodes = 1..Len(nodes)
      /\ \A i \in 1..Len(nodes) : IsSequence(nodes[i].vars)
  BY <1>2, <1>3
<1>5. \A i \in 1..Len(nodes) : \A x :
         SameFrom(0, t, x) => SameFrom(0, t, ReadCategoryIn(0, t, x, nodes[i]))
  <2> SUFFICES ASSUME NEW i \in 1..Len(nodes), NEW x, SameEnv(t, x)
               PROVE  SameEnv(t, ReadCategory(x, nodes[i]))
    BY DEF SameFrom, ReadCategoryIn
  <2>1. SameEnv(x, ReadCategory(x, nodes[i]))
    BY <1>4, ReadCategorySame DEF SameEnv
  <2> QED
    BY <2>1, SameEnvAgain
<1>6. SameFrom(0, t, t)
  BY FailIs DEF SameFrom
<1>7. SameFrom(0, t, Rg!Fold(0, t, t, nodes))
  BY <1>4, <1>5, <1>6, Rg!FoldHolds
<1> QED
  BY <1>1, <1>7 DEF SameFrom

LEMMA ReadAccessesAdds ==
  ASSUME NEW t, NEW read \in Seq(DOMAIN Documents), NEW dicts, Config(t)
  PROVE  Adds(t, ReadAccesses(t, read, dicts))
<1> DEFINE nodes == NodesOf(read, "accesses")
<1>1. ReadAccesses(t, read, dicts) = Ra!Fold(dicts, t, t, nodes)
  BY DEF ReadAccesses, AllOf, NodesOf, ReadAccessIn, FoldLeft, MapThenFoldSet, Max,
         Ra!Fold, Ra!Top
<1>2. \E S : nodes \in Seq(S)
  BY NodesType DEF NoDocument
<1> HIDE DEF nodes
<1>3. Len(nodes) \in Nat /\ DOMAIN nodes = 1..Len(nodes)
  BY <1>2
<1>4. \A i \in 1..Len(nodes) : \A x :
         AddsFrom(dicts, t, x) => AddsFrom(dicts, t, ReadAccessIn(dicts, t, x, nodes[i]))
  <2> SUFFICES ASSUME NEW i \in 1..Len(nodes), NEW x, Adds(t, x)
               PROVE  Adds(t, IF x.failed THEN x ELSE ReadAccess(x, nodes[i], dicts))
    BY DEF AddsFrom, ReadAccessIn
  <2>1. Adds(x, ReadAccess(x, nodes[i], dicts))
    BY ReadAccessAdds DEF Adds, SameEnv
  <2>2. Adds(t, ReadAccess(x, nodes[i], dicts))
    BY <2>1, AddsAgain
  <2> QED
    BY <2>2
<1>5. AddsFrom(dicts, t, t)
  BY FailIs DEF AddsFrom, Adds
<1>6. AddsFrom(dicts, t, Ra!Fold(dicts, t, t, nodes))
  BY <1>3, <1>4, <1>5, Ra!FoldHolds
<1> QED
  BY <1>1, <1>6 DEF AddsFrom

\* Imports that exist.
ImportIn(t, d, files, i) == IF IsLoaded(i, t) THEN Append(files, FileOf(i.file, t)) ELSE files
FilesExist(t, d, files) == files \in Seq(DOMAIN Documents)
Fi == INSTANCE FoldFacts WITH op <- ImportIn, holds <- FilesExist

LEMMA ImportedFilesType ==
  ASSUME NEW t, NEW name \in DOMAIN Documents, ImportsExist(t, Documents[name])
  PROVE  ImportedFiles(t, Documents[name]) \in Seq(DOMAIN Documents)
<1> DEFINE doc == Documents[name]
           is == doc.imports
<1>1. IsSequence(is)
  BY DocumentAssumption DEF NoDocument
<1>2. ImportedFiles(t, doc) = Fi!Fold(t, 0, <<>>, is)
  BY DEF ImportedFiles, ImportIn, FoldLeft, MapThenFoldSet, Max, Fi!Fold, Fi!Top
<1>3. \A i \in DOMAIN is : IsLoaded(is[i], t) => FileOf(is[i].file, t) \in DOMAIN Documents
  BY DEF ImportsExist
<1> HIDE DEF doc, is
<1>4. Len(is) \in Nat /\ DOMAIN is = 1..Len(is)
  BY <1>1 DEF IsSequence
<1>5. \A i \in 1..Len(is) : \A x : FilesExist(t, 0, x) => FilesExist(t, 0, ImportIn(t, 0, x, is[i]))
  <2> SUFFICES ASSUME NEW i \in 1..Len(is), NEW x \in Seq(DOMAIN Documents)
               PROVE  (IF IsLoaded(is[i], t) THEN Append(x, FileOf(is[i].file, t)) ELSE x)
                        \in Seq(DOMAIN Documents)
    BY DEF FilesExist, ImportIn
  <2> DEFINE loaded == IsLoaded(is[i], t)
             one == FileOf(is[i].file, t)
  <2>1. loaded => one \in DOMAIN Documents
    BY <1>3, <1>4
  <2> HIDE DEF loaded, one
  <2>2. CASE loaded
    <3>1. Append(x, one) \in Seq(DOMAIN Documents)
      BY <2>1, <2>2
    <3> QED
      BY <2>2, <3>1 DEF loaded, one
  <2>3. CASE ~loaded
    BY <2>3 DEF loaded
  <2> QED
    BY <2>2, <2>3
<1>6. FilesExist(t, 0, <<>>)
  BY DEF FilesExist
<1>7. FilesExist(t, 0, Fi!Fold(t, 0, <<>>, is))
  BY <1>4, <1>5, <1>6, Fi!FoldHolds
<1> QED
  BY <1>2, <1>7 DEF FilesExist, doc

(***************************************************************************)
(* What holds of the configuration at every step: the documents to be read   *)
(* exist, what the command line gave to the environment is in it, and the    *)
(* command line was fit to be divided into arguments.                        *)
(***************************************************************************)
Walks ==
    /\ tops \in Seq(DOMAIN Documents) /\ roots \in Seq(DOMAIN Documents)
    /\ queue \in Seq(DOMAIN Documents) /\ docs \in Seq(DOMAIN Documents)

HasGiven(t, line) ==
    /\ t.cmdEnv = DOMAIN EnvGiven(line) /\ t.envOnly = EnvOnlyMode(line)
    /\ \A name \in DOMAIN EnvGiven(line) : name \in DOMAIN t.env
                                           /\ t.env[name] = EnvGiven(line)[name]

EnvInv ==
    /\ start \in Starts
    /\ Config(te)
    /\ Walks
    /\ phase # "env" => HasGiven(te, Line)
    /\ phase \notin {"env", "failed"} => Arguments(Line).ok

LEMMA GivenStays ==
  ASSUME NEW t, NEW u, NEW line, HasGiven(t, line), Sets(t, u) \/ SameEnv(t, u)
  PROVE  HasGiven(u, line)
BY DEF HasGiven, Sets, SameEnv

\* A step that keeps the documents and the environment.
LEMMA EnvStep ==
  ASSUME EnvInv, start' = start, Walks', phase \notin {"env", "failed"}, phase' # "env",
         Sets(te, te') \/ SameEnv(te, te')
  PROVE  EnvInv'
<1>1. Config(te') /\ HasGiven(te', Line)
  BY GivenStays DEF EnvInv, Sets, SameEnv
<1> QED
  BY <1>1 DEF EnvInv, Line

LEMMA EnvUnchanged ==
  ASSUME EnvInv, UNCHANGED <<start, te, walkVars>>, phase # "env", phase' # "env",
         phase = "failed" => phase' = "failed"
  PROVE  EnvInv'
BY DEF EnvInv, Line, Walks, walkVars

LEMMA CommandLineStep == ASSUME EnvInv, ReadCommandLine PROVE EnvInv'
<1> DEFINE env == OnTopOf(EnvGiven(Line), start.env)
           now == [te EXCEPT !.env = env, !.cmdEnv = Overwritten(Line),
                             !.envOnly = EnvOnlyMode(Line)]
           main == Documents[start.main]
           args == Arguments(Line).ok
           ok == ~ModesClash(Line) /\ args /\ SplitsExist(now, main)
<1>1. /\ te' = now /\ phase' = IF ok THEN "walk" ELSE "failed"
      /\ tops' = IF ok THEN <<start.main>> \o SplitFiles(now, main) ELSE <<>>
      /\ roots' = tops' /\ UNCHANGED <<start, queue, docs>>
  BY DEF ReadCommandLine
<1>2. start \in Starts /\ Config(te) /\ Walks
  BY DEF EnvInv
<1>3. /\ Config(now) /\ now.cmdEnv = Overwritten(Line) /\ now.envOnly = EnvOnlyMode(Line)
      /\ now.env = env
  BY <1>2 DEF Config, NoConfig
<1>4. \A name \in DOMAIN EnvGiven(Line) : name \in DOMAIN env /\ env[name] = EnvGiven(Line)[name]
  BY DEF OnTopOf
<1> HIDE DEF now, env
<1>5. HasGiven(now, Line)
  BY <1>3, <1>4 DEF HasGiven, Overwritten
<1>6. ASSUME ok PROVE <<start.main>> \o SplitFiles(now, main) \in Seq(DOMAIN Documents)
  <2>1. start.main \in DOMAIN Documents
    BY <1>2, StartAssumption
  <2>2. IsSequence(main.splits)
    BY <2>1, DocumentAssumption DEF NoDocument
  <2> DEFINE sp == main.splits
  <2>3. \A i \in DOMAIN sp : FileOf(sp[i], now) \in DOMAIN Documents
    BY <1>6 DEF SplitsExist
  <2>4. SplitFiles(now, main) = [i \in DOMAIN sp |-> FileOf(sp[i], now)]
    BY DEF SplitFiles
  <2>5. Len(sp) \in Nat /\ DOMAIN sp = 1..Len(sp)
    BY <2>2 DEF IsSequence
  <2> HIDE DEF sp, main
  <2>6. SplitFiles(now, main) \in Seq(DOMAIN Documents)
    BY <2>3, <2>4, <2>5
  <2> QED
    BY <2>1, <2>6
<1> HIDE DEF main
<1>7. tops' \in Seq(DOMAIN Documents)
  <2>1. <<>> \in Seq(DOMAIN Documents)
    OBVIOUS
  <2> HIDE DEF ok
  <2> QED
    BY <1>1, <1>6, <2>1
<1>8. Walks'
  BY <1>1, <1>2, <1>7 DEF Walks
<1>9. phase' # "failed" => args
  BY <1>1
<1> HIDE DEF ok
<1> QED
  BY <1>1, <1>2, <1>3, <1>5, <1>8, <1>9 DEF EnvInv, Line

LEMMA ReadDocumentSets ==
  ASSUME EnvInv, ReadDocument
  PROVE  Sets(te, te') /\ Walks' /\ EnvInv'
<1> DEFINE name == IF queue # <<>> THEN Head(queue) ELSE Head(roots)
           doc == Documents[name]
           next == Prepared(te, doc)
           exist == ImportsExist(next, doc)
           files == ImportedFiles(next, doc)
           ok == ~next.failed /\ exist
<1>1. /\ phase \in {"walk", "rewalk"} /\ (queue # <<>> \/ roots # <<>>)
      /\ te' = next /\ docs' = Append(docs, name)
      /\ queue' = (IF queue # <<>> THEN Tail(queue) ELSE <<>>) \o (IF ok THEN files ELSE <<>>)
      /\ roots' = IF queue # <<>> THEN roots ELSE Tail(roots)
      /\ phase' = IF ok THEN phase ELSE "failed"
      /\ UNCHANGED <<start, tops>>
  BY DEF ReadDocument
<1>2. Walks /\ Config(te)
  BY DEF EnvInv
<1>3. name \in DOMAIN Documents
  BY <1>1, <1>2 DEF Walks
<1> HIDE DEF name
<1>4. Sets(te, next)
  BY <1>2, <1>3, PreparedSets
<1> HIDE DEF next
<1>5. exist => files \in Seq(DOMAIN Documents)
  BY <1>3, ImportedFilesType
<1> HIDE DEF files, exist
<1>6. (IF ok THEN files ELSE <<>>) \in Seq(DOMAIN Documents)
  <2>1. <<>> \in Seq(DOMAIN Documents)
    OBVIOUS
  <2>2. ok => exist
    OBVIOUS
  <2> HIDE DEF ok
  <2> QED
    BY <1>5, <2>1, <2>2
<1>7. (IF queue # <<>> THEN Tail(queue) ELSE <<>>) \in Seq(DOMAIN Documents)
  <2>1. \A q \in Seq(DOMAIN Documents) : q # <<>> => Tail(q) \in Seq(DOMAIN Documents)
    OBVIOUS
  <2>2. <<>> \in Seq(DOMAIN Documents) /\ queue \in Seq(DOMAIN Documents)
    BY <1>2 DEF Walks
  <2> QED
    BY <2>1, <2>2
<1>8. queue' \in Seq(DOMAIN Documents)
  BY <1>1, <1>6, <1>7
<1>9. roots' \in Seq(DOMAIN Documents)
  <2>1. \A q \in Seq(DOMAIN Documents) : q # <<>> => Tail(q) \in Seq(DOMAIN Documents)
    OBVIOUS
  <2>2. roots \in Seq(DOMAIN Documents)
    BY <1>2 DEF Walks
  <2> QED
    BY <1>1, <2>1, <2>2
<1>10. docs' \in Seq(DOMAIN Documents)
  BY <1>1, <1>2, <1>3 DEF Walks
<1>11. Walks'
  BY <1>1, <1>2, <1>8, <1>9, <1>10 DEF Walks
<1>12. phase \notin {"env", "failed"} /\ phase' # "env"
  BY <1>1
<1> QED
  BY <1>1, <1>4, <1>11, <1>12, EnvStep

LEMMA DefineSame == ASSUME EnvInv, Define PROVE SameEnv(te, te') /\ EnvInv'
<1> DEFINE colls == ReadCollaterals(te, docs)
           dicts == ReadDictionaries(colls, docs)
           next == ReadCfg(dicts, docs)
<1>1. /\ phase = "walk" /\ te' = next /\ phase' \in {"failed", "ended", "override"}
      /\ UNCHANGED <<start, walkVars>>
  BY DEF Define
<1>2. Config(te) /\ docs \in Seq(DOMAIN Documents) /\ Walks
  BY DEF EnvInv, Walks
<1>3. SameEnv(te, colls)
  BY <1>2, ReadCollateralsSame
<1> HIDE DEF colls
<1>4. SameEnv(colls, dicts)
  BY <1>2, <1>3, ReadDictionariesSame DEF SameEnv
<1> HIDE DEF dicts
<1>5. SameEnv(dicts, next)
  BY <1>2, <1>4, ReadCfgSame DEF SameEnv
<1> HIDE DEF next
<1>6. SameEnv(te, next)
  BY <1>3, <1>4, <1>5, SameEnvAgain
<1>7. Walks'
  BY <1>1, <1>2 DEF Walks, walkVars
<1> QED
  BY <1>1, <1>6, <1>7, EnvStep

LEMMA SignalAliasesAdds == ASSUME EnvInv, SignalAliases PROVE Adds(te, te') /\ EnvInv'
<1>1. /\ te' = ReadSignals(te, Signals) /\ phase = "parse"
      /\ phase' \in {"failed", "load", "rewalk"} /\ roots' = tops /\ docs' = <<>>
      /\ UNCHANGED <<start, tops, queue>>
  BY DEF SignalAliases, AfterSignals
<1>2. Adds(te, te')
  BY <1>1, ReadSignalsAdds DEF EnvInv
<1>3. Walks'
  BY <1>1 DEF EnvInv, Walks
<1> QED
  BY <1>1, <1>2, <1>3, EnvStep DEF Adds

LEMMA RegisterAccessAdds == ASSUME EnvInv, RegisterAccess PROVE Adds(te, te') /\ EnvInv'
<1> DEFINE names == {<<d>> : d \in DOMAIN built}
<1>1. /\ te' = ReadAccesses(te, docs, names) /\ phase = "rewalk"
      /\ phase' \in {"failed", "load"} /\ UNCHANGED <<start, walkVars>>
  BY DEF RegisterAccess
<1> HIDE DEF names
<1>2. Adds(te, te')
  BY <1>1, ReadAccessesAdds DEF EnvInv, Walks
<1>3. Walks'
  BY <1>1 DEF EnvInv, Walks, walkVars
<1> QED
  BY <1>1, <1>2, <1>3, EnvStep DEF Adds

\* The overrides of CFG leave the environment alone.
OverrideIn(given, d, t, path) == Override(t, path, given[path])
Fo == INSTANCE FoldFacts WITH op <- OverrideIn, holds <- SameFrom

LEMMA SetToSeqIs ==
  ASSUME NEW S, IsFiniteSet(S)
  PROVE  /\ Cardinality(S) \in Nat /\ DOMAIN SetToSeq(S) = 1..Cardinality(S)
         /\ \A i \in 1..Cardinality(S) : SetToSeq(S)[i] \in S
         /\ \A i, j \in 1..Cardinality(S) : SetToSeq(S)[i] = SetToSeq(S)[j] => i = j
         /\ \A x \in S : \E i \in 1..Cardinality(S) : SetToSeq(S)[i] = x
<1> DEFINE n == Cardinality(S)
<1>1. n \in Nat /\ ExistsBijection(1..n, S)
  BY FS_CardinalityType
<1> HIDE DEF n
<1>2. PICK b : b \in Bijection(1..n, S)
  BY <1>1 DEF ExistsBijection
<1>3. b \in [1..n -> S] /\ IsInjective(b)
  BY <1>2 DEF Bijection, Injection, IsInjective
<1>4. SetToSeq(S) \in [1..n -> S] /\ IsInjective(SetToSeq(S))
  BY <1>3 DEF SetToSeq, n
<1> DEFINE q == SetToSeq(S)
<1>5. q \in Injection(1..n, S)
  BY <1>4 DEF Injection, IsInjective
<1>6. IsFiniteSet(1..n) /\ Cardinality(1..n) = n
  <2>1. 1 \in Int /\ n \in Int
    BY <1>1
  <2>2. IsFiniteSet(1..n) /\ Cardinality(1..n) = IF 1 > n THEN 0 ELSE n - 1 + 1
    BY <2>1, FS_Interval
  <2> QED
    BY <1>1, <2>2
<1> HIDE DEF q
<1>7. q \in Surjection(1..n, S)
  BY <1>5, <1>6, FS_Injection DEF n
<1>8. \A x \in S : \E i \in 1..n : q[i] = x
  BY <1>7 DEF Surjection
<1> QED
  BY <1>1, <1>4, <1>8 DEF n, q, IsInjective

(***************************************************************************)
(* The arguments of the manager are finitely many, and so are the overrides. *)
(***************************************************************************)
WordKinds == {"flow", "end", "arg", "help", "single"}
Few(p) == DOMAIN p = DOMAIN NoArguments /\ IsFiniteSet(DOMAIN p.args)
WordIn(c, d, p, w) == Word(p, w)
FewFrom(c, d, p) == Few(p)
Fw == INSTANCE FoldFacts WITH op <- WordIn, holds <- FewFrom

LEMMA PutIsFinite ==
  ASSUME NEW f, IsFiniteSet(DOMAIN f), NEW k, NEW v
  PROVE  IsFiniteSet(DOMAIN Put(f, k, v))
<1>1. DOMAIN Put(f, k, v) = DOMAIN f \cup {k}
  BY DEF Put
<1> QED
  BY <1>1, FS_AddElement

LEMMA WordFew ==
  ASSUME NEW p, NEW w, Few(p), w.kind \in WordKinds
  PROVE  Few(Word(p, w))
<1>1. Few(Broken(p))
  BY DEF Few, NoArguments, Broken
<1>2. ASSUME NEW n PROVE Few([p EXCEPT !.flow = n])
  BY DEF Few, NoArguments
<1>3. ASSUME NEW x PROVE Few([p EXCEPT !.flows = x])
  BY DEF Few, NoArguments
<1>4. ASSUME NEW x, IsFiniteSet(DOMAIN x) PROVE Few([p EXCEPT !.args = x])
  BY <1>4 DEF Few, NoArguments
<1>5. Few(EndOfFlow(p))
  BY <1>1, <1>2 DEF EndOfFlow
<1>6. Few(ArgumentOfFlow(p, w))
  <2> DEFINE old == IF p.flow \in DOMAIN p.flows THEN p.flows[p.flow] ELSE NoMap
             x == Put(p.flows, p.flow, Put(old, w.name, w.value))
  <2>1. ArgumentOfFlow(p, w) = Broken(p) \/ ArgumentOfFlow(p, w) = [p EXCEPT !.flows = x]
    BY DEF ArgumentOfFlow
  <2> HIDE DEF x
  <2> QED
    BY <2>1, <1>1, <1>3
<1>7. ASSUME w.kind # "flow" PROVE Few(ArgumentOfManager(p, w))
  <2> DEFINE help == Put(Put(p.args, "help", <<"1">>), "silent_mode", <<"1">>)
             old == IF w.name \in DOMAIN p.args THEN p.args[w.name] ELSE <<>>
             more == Put(p.args, w.name, Append(old, w.value))
  <2>1. ArgumentOfManager(p, w) \in {[p EXCEPT !.args = help], p, Broken(p), [p EXCEPT !.args = more]}
    <3>1. CASE w.kind = "help"
      <4>1. ArgumentOfManager(p, w) = [p EXCEPT !.args = help]
        BY <3>1 DEF ArgumentOfManager
      <4> HIDE DEF help
      <4> QED
        BY <4>1
    <3>2. CASE w.kind = "single"
      BY <3>2 DEF ArgumentOfManager
    <3>3. CASE w.kind = "end"
      BY <3>3 DEF ArgumentOfManager
    <3>4. CASE w.kind = "arg"
      <4>1. ArgumentOfManager(p, w) = IF w.value = None THEN Broken(p) ELSE [p EXCEPT !.args = more]
        BY <3>4 DEF ArgumentOfManager
      <4> HIDE DEF more
      <4> QED
        BY <4>1
    <3> QED
      BY <3>1, <3>2, <3>3, <3>4, <1>7 DEF WordKinds
  <2>2. IsFiniteSet(DOMAIN help) /\ IsFiniteSet(DOMAIN more)
    <3>1. IsFiniteSet(DOMAIN p.args)
      BY DEF Few
    <3>2. IsFiniteSet(DOMAIN Put(p.args, "help", <<"1">>))
      BY <3>1, PutIsFinite
    <3> HIDE DEF old
    <3> QED
      BY <3>1, <3>2, PutIsFinite
  <2> HIDE DEF help, more
  <2>3. Few([p EXCEPT !.args = help]) /\ Few([p EXCEPT !.args = more])
    BY <1>4, <2>2
  <2> QED
    BY <2>1, <2>3, <1>1
<1> QED
  BY <1>1, <1>2, <1>5, <1>6, <1>7 DEF Word

LEMMA GivenIsFinite ==
  ASSUME NEW s \in Starts
  PROVE  IsFiniteSet(DOMAIN CfgGiven(s.line))
<1> DEFINE line == s.line
           n == Len(line)
           q == FoldLeft(LAMBDA x, w : Word(x, w), NoArguments, line)
           args == Arguments(line).args
           names == DOMAIN args \cap DOMAIN CfgArgs
<1>1. IsSequence(line) /\ \A i \in DOMAIN line : line[i].kind \in WordKinds
  BY StartAssumption DEF WordKinds
<1>2. n \in Nat /\ DOMAIN line = 1..n
  BY <1>1 DEF IsSequence
<1>3. q = Fw!Fold(0, 0, NoArguments, line)
  BY DEF WordIn, FoldLeft, MapThenFoldSet, Max, Fw!Fold, Fw!Top
<1>4. Arguments(line) = IF q.flow # Outside THEN Broken(q) ELSE q
  BY DEF Arguments
<1>5. DOMAIN CfgGiven(line) = {CfgArgs[k] : k \in names}
  BY DEF CfgGiven
<1> HIDE DEF line, n, q
<1>6. Few(q)
  <2>1. \A i \in 1..n : \A x : FewFrom(0, 0, x) => FewFrom(0, 0, WordIn(0, 0, x, line[i]))
    BY <1>1, <1>2, WordFew DEF FewFrom, WordIn
  <2>2. FewFrom(0, 0, NoArguments)
    BY FS_EmptySet DEF FewFrom, Few, NoArguments, NoMap
  <2>3. FewFrom(0, 0, Fw!Fold(0, 0, NoArguments, line))
    BY <1>2, <2>1, <2>2, Fw!FoldHolds
  <2> QED
    BY <1>3, <2>3 DEF FewFrom
<1>7. IsFiniteSet(DOMAIN args)
  BY <1>4, <1>6 DEF Few, NoArguments, Broken
<1> HIDE DEF args
<1>8. IsFiniteSet(names)
  BY <1>7, FS_Subset
<1> DEFINE paths == {CfgArgs[k] : k \in names}
           f == [k \in names |-> CfgArgs[k]]
<1>9. f \in Surjection(names, paths)
  BY DEF Surjection
<1> HIDE DEF names, f, paths
<1>10. IsFiniteSet(paths)
  BY <1>8, <1>9, FS_Surjection
<1> QED
  BY <1>5, <1>10 DEF line, paths

(***************************************************************************)
(* What an argument of the manager was given is a list of values.            *)
(***************************************************************************)
Lists(p) == DOMAIN p = DOMAIN NoArguments /\ \A k \in DOMAIN p.args : IsSequence(p.args[k])
ListsFrom(c, d, p) == Lists(p)
Fl == INSTANCE FoldFacts WITH op <- WordIn, holds <- ListsFrom

LEMMA AppendIsSequence ==
  ASSUME NEW s, IsSequence(s), NEW v
  PROVE  IsSequence(Append(s, v))
<1>1. s \in Seq(Range(s)) /\ Len(s) \in Nat
  BY DEF IsSequence
<1> DEFINE S == Range(s) \cup {v}
           t == Append(s, v)
<1>2. s \in Seq(S) /\ v \in S
  <2>1. Range(s) \subseteq S /\ v \in S
    OBVIOUS
  <2> HIDE DEF S
  <2> QED
    BY <1>1, <2>1
<1> HIDE DEF S
<1>3. t \in Seq(S)
  BY <1>2
<1> HIDE DEF t
<1>4. DOMAIN t = 1..Len(t) /\ Len(t) \in Nat /\ t \in [1..Len(t) -> S]
  BY <1>3
<1>5. t \in [1..Len(t) -> Range(t)]
  BY <1>4 DEF Range
<1>6. t \in Seq(Range(t))
  BY <1>4, <1>5
<1> QED
  BY <1>6 DEF IsSequence, t

LEMMA WordLists ==
  ASSUME NEW p, NEW w, Lists(p), w.kind \in WordKinds
  PROVE  Lists(Word(p, w))
<1>1. Lists(Broken(p))
  BY DEF Lists, NoArguments, Broken
<1>2. ASSUME NEW n PROVE Lists([p EXCEPT !.flow = n])
  BY DEF Lists, NoArguments
<1>3. ASSUME NEW x PROVE Lists([p EXCEPT !.flows = x])
  BY DEF Lists, NoArguments
<1>4. ASSUME NEW x, \A k \in DOMAIN x : IsSequence(x[k]) PROVE Lists([p EXCEPT !.args = x])
  BY <1>4 DEF Lists, NoArguments
<1>5. Lists(EndOfFlow(p))
  BY <1>1, <1>2 DEF EndOfFlow
<1>6. Lists(ArgumentOfFlow(p, w))
  <2> DEFINE old == IF p.flow \in DOMAIN p.flows THEN p.flows[p.flow] ELSE NoMap
             x == Put(p.flows, p.flow, Put(old, w.name, w.value))
  <2>1. ArgumentOfFlow(p, w) = Broken(p) \/ ArgumentOfFlow(p, w) = [p EXCEPT !.flows = x]
    BY DEF ArgumentOfFlow
  <2> HIDE DEF x
  <2> QED
    BY <2>1, <1>1, <1>3
<1>7. ASSUME w.kind # "flow" PROVE Lists(ArgumentOfManager(p, w))
  <2> DEFINE one == <<"1">>
             helped == Put(p.args, "help", one)
             help == Put(helped, "silent_mode", one)
             old == IF w.name \in DOMAIN p.args THEN p.args[w.name] ELSE <<>>
             longer == Append(old, w.value)
             more == Put(p.args, w.name, longer)
  <2>1. \A k \in DOMAIN p.args : IsSequence(p.args[k])
    BY DEF Lists
  <2>2. IsSequence(one)
    <3>1. one \in Seq({"1"}) /\ Range(one) = {"1"}
      BY DEF Range
    <3> QED
      BY <3>1 DEF IsSequence
  <2>3. IsSequence(longer)
    <3>1. IsSequence(<<>>)
      BY DEF IsSequence
    <3>2. IsSequence(old)
      BY <2>1, <3>1
    <3> HIDE DEF old
    <3> QED
      BY <3>2, AppendIsSequence
  <2>4. CASE w.kind = "help"
    <3>1. ArgumentOfManager(p, w) = [p EXCEPT !.args = help]
      BY <2>4 DEF ArgumentOfManager
    <3> HIDE DEF one
    <3>2. \A k \in DOMAIN helped : IsSequence(helped[k])
      BY <2>1, <2>2 DEF Put
    <3> HIDE DEF helped
    <3>3. \A k \in DOMAIN help : IsSequence(help[k])
      BY <2>2, <3>2 DEF Put
    <3> HIDE DEF help
    <3> QED
      BY <1>4, <3>1, <3>3
  <2>5. CASE w.kind = "single"
    BY <2>5 DEF ArgumentOfManager
  <2>6. CASE w.kind = "end"
    BY <1>1, <2>6 DEF ArgumentOfManager
  <2>7. CASE w.kind = "arg"
    <3>1. ArgumentOfManager(p, w) = IF w.value = None THEN Broken(p) ELSE [p EXCEPT !.args = more]
      BY <2>7 DEF ArgumentOfManager
    <3> HIDE DEF longer
    <3>2. \A k \in DOMAIN more : IsSequence(more[k])
      BY <2>1, <2>3 DEF Put
    <3> HIDE DEF more
    <3>3. Lists([p EXCEPT !.args = more])
      BY <1>4, <3>2
    <3> QED
      BY <1>1, <3>1, <3>3
  <2> QED
    BY <1>7, <2>4, <2>5, <2>6, <2>7 DEF WordKinds
<1> QED
  BY <1>1, <1>2, <1>5, <1>6, <1>7 DEF Word

LEMMA LoadedIsList ==
  ASSUME NEW s \in Starts
  PROVE  IsSequence(Loaded(s.line))
<1> DEFINE line == s.line
           n == Len(line)
           q == FoldLeft(LAMBDA x, w : Word(x, w), NoArguments, line)
           args == Arguments(line).args
<1>1. IsSequence(line) /\ \A i \in DOMAIN line : line[i].kind \in WordKinds
  BY StartAssumption DEF WordKinds
<1>2. n \in Nat /\ DOMAIN line = 1..n
  BY <1>1 DEF IsSequence
<1>3. q = Fl!Fold(0, 0, NoArguments, line)
  BY DEF WordIn, FoldLeft, MapThenFoldSet, Max, Fl!Fold, Fl!Top
<1>4. Arguments(line) = IF q.flow # Outside THEN Broken(q) ELSE q
  BY DEF Arguments
<1>5. Loaded(line) = IF "load_cfg" \in DOMAIN args THEN args["load_cfg"] ELSE <<>>
  BY DEF Loaded
<1> HIDE DEF line, n, q
<1>6. Lists(q)
  <2>1. \A i \in 1..n : \A x : ListsFrom(0, 0, x) => ListsFrom(0, 0, WordIn(0, 0, x, line[i]))
    BY <1>1, <1>2, WordLists DEF ListsFrom, WordIn
  <2>2. ListsFrom(0, 0, NoArguments)
    BY DEF ListsFrom, Lists, NoArguments, NoMap
  <2>3. ListsFrom(0, 0, Fl!Fold(0, 0, NoArguments, line))
    BY <1>2, <2>1, <2>2, Fl!FoldHolds
  <2> QED
    BY <1>3, <2>3 DEF ListsFrom
<1>7. \A k \in DOMAIN args : IsSequence(args[k])
  BY <1>4, <1>6 DEF Lists, NoArguments, Broken
<1> HIDE DEF args
<1>8. IsSequence(<<>>)
  BY DEF IsSequence
<1> QED
  BY <1>5, <1>7, <1>8 DEF line

(***************************************************************************)
(* No override is undone by a later one: no path is above another.           *)
(***************************************************************************)
Fd == INSTANCE FoldFacts WITH op <- OverrideIn, holds <- Always

Apart(given) == \A p, q \in DOMAIN given : IsUnder(p, q) => p = q

LEMMA GivenApart == ASSUME NEW line PROVE Apart(CfgGiven(line))
<1> SUFFICES ASSUME NEW p \in DOMAIN CfgGiven(line), NEW q \in DOMAIN CfgGiven(line),
                    IsUnder(p, q)
             PROVE  p = q
  BY DEF Apart
<1>1. PICK a, b \in DOMAIN CfgArgs : p = CfgArgs[a] /\ q = CfgArgs[b]
  BY DEF CfgGiven
<1>2. p \in Seq(Range(p)) /\ q \in Seq(Range(q))
  BY <1>1, NamesApart
<1>3. Len(q) <= Len(p) /\ SubSeq(p, 1, Len(q)) = q
  BY <1>2 DEF IsUnder
<1>4. SubSeq(q, 1, Len(q)) = q
  BY <1>2
<1>5. IsPrefix(q, p)
  BY <1>3, <1>4 DEF IsPrefix
<1>6. b = a
  BY <1>1, <1>5, NamesApart
<1> QED
  BY <1>1, <1>6

StandsTo(given, order, i, u) ==
    /\ Config(u)
    /\ ~u.failed => \A j \in 1..i : /\ order[j] \in DOMAIN u.cfg
                                    /\ u.cfg[order[j]] = given[order[j]]

LEMMA OverridesStand ==
  ASSUME NEW t, Config(t), NEW given, IsFiniteSet(DOMAIN given), Apart(given)
  PROVE  LET u == OverrideAll(t, given)
         IN  /\ SameEnv(t, u)
             /\ ~u.failed => \A p \in DOMAIN given : p \in DOMAIN u.cfg /\ u.cfg[p] = given[p]
<1> DEFINE order == SetToSeq(DOMAIN given)
           n == Cardinality(DOMAIN given)
           u == OverrideAll(t, given)
<1>1. /\ n \in Nat /\ DOMAIN order = 1..n
      /\ \A i \in 1..n : order[i] \in DOMAIN given
      /\ \A i, j \in 1..n : order[i] = order[j] => i = j
      /\ \A x \in DOMAIN given : \E i \in 1..n : order[i] = x
  BY SetToSeqIs
<1>2. u = Fd!Fold(given, t, t, order)
  BY DEF OverrideAll, OverrideIn, FoldLeft, MapThenFoldSet, Max, Fd!Fold, Fd!Top
<1>3. u = Fo!Fold(given, t, t, order)
  BY DEF OverrideAll, OverrideIn, FoldLeft, MapThenFoldSet, Max, Fo!Fold, Fo!Top
<1> HIDE DEF order, n, u
<1>4. SameEnv(t, u)
  <2>1. \A i \in 1..n : \A x : SameFrom(given, t, x) => SameFrom(given, t, OverrideIn(given, t, x, order[i]))
    <3> SUFFICES ASSUME NEW i \in 1..n, NEW x, SameEnv(t, x)
                 PROVE  SameEnv(t, Override(x, order[i], given[order[i]]))
      BY DEF SameFrom, OverrideIn
    <3>1. SameEnv(x, Override(x, order[i], given[order[i]]))
      BY OverrideSame DEF SameEnv
    <3> QED
      BY <3>1, SameEnvAgain
  <2>2. SameFrom(given, t, t)
    BY FailIs DEF SameFrom
  <2>3. SameFrom(given, t, Fo!Fold(given, t, t, order))
    BY <1>1, <2>1, <2>2, Fo!FoldHolds
  <2> QED
    BY <1>3, <2>3 DEF SameFrom
<1>5. PICK f : Fd!Steps(f, given, t, t, order, n) /\ Fd!Fold(given, t, t, order) = f[n]
  <2>1. n \in Nat /\ DOMAIN order = 1..n
    BY <1>1
  <2> QED
    BY <2>1, Fd!FoldSteps
<1> DEFINE P == {i \in 0..n : StandsTo(given, order, i, f[i])}
<1>6. 0 \in P
  BY <1>1, <1>5 DEF Fd!Steps, StandsTo
<1>7. ASSUME NEW i \in 1..n, i - 1 \in P PROVE i \in P
  <2> DEFINE x == f[i - 1]
             path == order[i]
             v == given[path]
             cfg == Assign(x.cfg, path, v)
             set == [x EXCEPT !.cfg = cfg]
  <2>1. f[i] = Override(x, path, v)
    BY <1>5 DEF Fd!Steps, OverrideIn
  <2>2. StandsTo(given, order, i - 1, x) /\ i \in 0..n
    BY <1>1, <1>7
  <2> HIDE DEF x
  <2>5. CASE x.failed
    <3>1. f[i] = x
      BY <2>1, <2>5 DEF Override
    <3> QED
      BY <2>2, <2>5, <3>1 DEF StandsTo
  <2>6. CASE ~x.failed /\ Override(x, path, v) = Fail(x)
    <3>1. Config(x)
      BY <2>2 DEF StandsTo
    <3>2. Config(Fail(x)) /\ Fail(x).failed = TRUE
      BY <3>1, FailIs DEF SameEnv
    <3> QED
      BY <2>1, <2>2, <2>6, <3>2 DEF StandsTo
  <2>7. CASE ~x.failed /\ Override(x, path, v) = set
    <3>1. \A j \in 1..(i-1) : order[j] \in DOMAIN x.cfg /\ x.cfg[order[j]] = given[order[j]]
      BY <2>2, <2>7 DEF StandsTo
    <3>2. ASSUME NEW j \in 1..(i-1)
          PROVE  order[j] \in DOMAIN cfg /\ cfg[order[j]] = given[order[j]]
      <4>1. j \in 1..n /\ j # i
        BY <1>1
      <4>2. order[j] # path /\ order[j] \in DOMAIN given /\ path \in DOMAIN given
        BY <1>1, <4>1
      <4>3. ~IsUnder(order[j], path)
        BY <4>2 DEF Apart
      <4> HIDE DEF path, v
      <4> QED
        BY <3>1, <4>2, <4>3 DEF Assign, Put
    <3>3. path \in DOMAIN cfg /\ cfg[path] = v
      BY DEF Assign, Put
    <3> HIDE DEF cfg
    <3>4. Config(set) /\ set.cfg = cfg
      BY <2>2 DEF StandsTo, Config, NoConfig
    <3>5. \A j \in 1..i : j \in 1..(i-1) \/ j = i
      OBVIOUS
    <3> HIDE DEF set
    <3> QED
      BY <2>1, <2>2, <2>7, <3>2, <3>3, <3>4, <3>5 DEF StandsTo
  <2>8. ~x.failed => Override(x, path, v) \in {Fail(x), set}
    BY DEF Override
  <2> QED
    BY <2>5, <2>6, <2>7, <2>8
<1>8. \A i \in 0..n : i \in P
  <2> HIDE DEF P
  <2> QED
    BY <1>1, <1>6, <1>7, Fd!BoundedInduction
<1>9. StandsTo(given, order, n, u)
  BY <1>1, <1>2, <1>5, <1>8
<1> QED
  BY <1>1, <1>4, <1>9 DEF StandsTo, u

Stands(t) == \A path \in DOMAIN CfgGiven(Line) :
    ~NoChoice(path, CfgGiven(Line)[path]) =>
        path \in DOMAIN t.cfg /\ t.cfg[path] = CfgGiven(Line)[path]

\* The choice of the compressor replaces no override but one that is none.
LEMMA ChoiceStands ==
  ASSUME NEW t, Config(t), Stands(t)
  PROVE  Stands(ChooseCompressor(t))
<1> DEFINE cfg == Assign(t.cfg, Compressor, <<"json">>)
           given == CfgGiven(Line)
<1>1. CASE ChooseCompressor(t).cfg = t.cfg
  BY <1>1 DEF Stands
<1>2. CASE ~(Got(t.cfg, Compressor) \in {<<"pickle">>, <<"json">>}) /\ ChooseCompressor(t).cfg = cfg
  <2> SUFFICES ASSUME NEW path \in DOMAIN given, ~NoChoice(path, given[path])
               PROVE  path \in DOMAIN cfg /\ cfg[path] = given[path]
    BY <1>2 DEF Stands
  <2>1. path \in DOMAIN t.cfg /\ t.cfg[path] = given[path]
    BY DEF Stands
  <2> HIDE DEF given
  <2>2. path # Compressor
    <3> SUFFICES ASSUME path = Compressor PROVE FALSE
      OBVIOUS
    <3>1. SubSeq(Compressor, 1, 2) = Compressor /\ Len(Compressor) = 2
      <4>1. Compressor \in Seq({"INFO", "collateral_compressor"})
        BY DEF Compressor
      <4>2. Len(Compressor) = 2
        BY DEF Compressor
      <4>3. SubSeq(Compressor, 1, Len(Compressor)) = Compressor
        BY <4>1
      <4> QED
        BY <4>2, <4>3
    <3>2. IsUnder(path, Compressor)
      BY <3>1 DEF IsUnder
    <3>3. given[path] \in {<<"pickle">>, <<"json">>}
      BY <3>2 DEF NoChoice, given
    <3> QED
      BY <1>2, <2>1, <3>3 DEF Got
  <2>3. ~IsUnder(path, Compressor)
    BY <2>2 DEF NoChoice
  <2> QED
    BY <2>1, <2>2, <2>3 DEF Assign, Put
<1>3. Fail(t).cfg = t.cfg /\ [t EXCEPT !.cfg = cfg].cfg = cfg
  BY DEF Fail, Config, NoConfig
<1> HIDE DEF cfg
<1> QED
  BY <1>1, <1>2, <1>3 DEF ChooseCompressor, cfg

LEMMA OverridesStep ==
  ASSUME EnvInv, Overrides
  PROVE  EnvInv' /\ SameEnv(te, te') /\ (phase' = "parse" => Stands(te'))
<1> DEFINE given == CfgGiven(Line)
           next == OverrideAll(te, given)
           done == IF next.failed THEN next ELSE ChooseCompressor(next)
<1>1. /\ phase = "override" /\ te' = done /\ phase' \in {"parse", "failed"}
      /\ phase' = "parse" => ~done.failed
      /\ UNCHANGED <<start, walkVars>>
  BY DEF Overrides
<1>2. Config(te) /\ start \in Starts /\ Walks
  BY DEF EnvInv
<1>3. /\ SameEnv(te, next)
      /\ ~next.failed => \A p \in DOMAIN given : p \in DOMAIN next.cfg /\ next.cfg[p] = given[p]
  BY <1>2, GivenIsFinite, GivenApart, OverridesStand DEF Line
<1>4. ~next.failed => Stands(next)
  BY <1>3 DEF Stands
<1> HIDE DEF next, given
<1>5. SameEnv(te, done)
  BY <1>3, ChooseCompressorSame, SameEnvAgain DEF SameEnv
<1>6. ~done.failed => Stands(done)
  BY <1>3, <1>4, ChoiceStands DEF SameEnv
<1> HIDE DEF done
<1>7. Walks'
  BY <1>1, <1>2 DEF Walks, walkVars
<1>8. EnvInv'
  BY <1>1, <1>5, <1>7, EnvStep
<1> QED
  BY <1>1, <1>5, <1>6, <1>8

(***************************************************************************)
(* A document of -load_cfg leaves the environment alone, and what it does    *)
(* not name in CFG.                                                          *)
(***************************************************************************)
Has(t, q, v) == Config(t) /\ q \in DOMAIN t.cfg /\ t.cfg[q] = v
Unnamed(q, S) == \A p \in S : q # p /\ ~IsUnder(q, p)
HasFrom(c, d, t) == Has(t, d[1], d[2])
Hv == INSTANCE FoldFacts WITH op <- ReadVarIn, holds <- HasFrom
Hc == INSTANCE FoldFacts WITH op <- ReadCategoryIn, holds <- HasFrom

LEMMA HasStill ==
  ASSUME NEW t, NEW q, NEW v, Has(t, q, v), NEW u, u \in {t, Fail(t)} \/ Adds(t, u)
  PROVE  Has(u, q, v)
BY FailIs DEF Has, Adds, SameEnv

LEMMA ReadVarKeeps ==
  ASSUME NEW t, NEW cat, NEW var, NEW q, NEW v, Has(t, q, v), Unnamed(q, {VarPath(cat, var)})
  PROVE  Has(ReadVar(t, cat, var), q, v)
<1> DEFINE x == Resolved(var.value, t)
           path == VarPath(cat, var)
           cfg == Assign(t.cfg, path, x)
           read == [t EXCEPT !.cfg = cfg]
           u == IF x = Bad \/ (var.attr # None /\ IsScalar(t.cfg, <<cat, var.key>>))
                  THEN Fail(t) ELSE read
<1>1. ReadVar(t, cat, var) = Filtered(t, var.filter, u)
  BY DEF ReadVar
<1>2. q # path /\ ~IsUnder(q, path)
  BY DEF Unnamed
<1> HIDE DEF x, path
<1>3. q \in DOMAIN cfg /\ cfg[q] = v
  BY <1>2 DEF Has, Assign, Put
<1> HIDE DEF cfg
<1>4. Has(read, q, v)
  BY <1>3 DEF Has, Config, NoConfig
<1> HIDE DEF read
<1>5. Has(Fail(t), q, v)
  BY HasStill
<1>6. Has(u, q, v)
  BY <1>4, <1>5
<1> HIDE DEF u
<1>7. Filtered(t, var.filter, u) \in {t, u, Fail(t)}
  BY FilteredIs
<1> QED
  BY <1>1, <1>5, <1>6, <1>7

LEMMA ReadCategoryKeeps ==
  ASSUME NEW t, NEW c, NEW q, NEW v, Has(t, q, v), IsSequence(c.vars), Unnamed(q, Targets(c))
  PROVE  Has(ReadCategory(t, c), q, v)
<1> DEFINE opened == [t EXCEPT !.cats = @ \cup {c.cat},
                               !.dynamic = IF c.dynamic THEN @ \cup {c.cat} ELSE @]
           values == [p \in DOMAIN c.other |-> Resolved(c.other[p], t)]
           reads == c.vars
           n == Len(reads)
           cat == c.cat
           d == <<q, v>>
           all == FoldLeft(LAMBDA x, w : ReadVar(x, cat, w), opened, reads)
           kept == {p \in DOMAIN t.cfg : \A top \in DOMAIN values : ~IsUnder(p, <<c.cat>> \o top)}
           table == [p \in kept \cup {<<c.cat>> \o r : r \in DOMAIN values} |->
                       IF p \in kept THEN opened.cfg[p] ELSE values[Tail(p)]]
           other == [opened EXCEPT !.cfg = table]
           u == IF c.vars # <<>> /\ DOMAIN c.other # {} THEN Fail(t)
                ELSE IF c.vars # <<>> THEN all ELSE other
<1>1. ReadCategory(t, c) = Filtered(t, c.filter, u)
  BY DEF ReadCategory
<1>2. Has(opened, q, v) /\ opened.cfg = t.cfg
  BY DEF Has, Config, NoConfig
<1>3. n \in Nat /\ DOMAIN reads = 1..n
  BY DEF IsSequence
<1>4. c.vars = <<>> => \A top \in DOMAIN values : ~IsUnder(q, <<c.cat>> \o top)
  BY DEF Unnamed, Targets
<1>5. c.vars # <<>> => \A i \in 1..n : Unnamed(q, {VarPath(cat, reads[i])})
  BY <1>3 DEF Unnamed, Targets
<1> HIDE DEF opened
<1>6. c.vars = <<>> => Has(other, q, v)
  <2> SUFFICES ASSUME c.vars = <<>> PROVE Has(other, q, v)
    OBVIOUS
  <2>1. q \in kept
    BY <1>2, <1>4 DEF Has
  <2> HIDE DEF kept, values
  <2>2. q \in DOMAIN table /\ table[q] = opened.cfg[q]
    BY <2>1
  <2> HIDE DEF table
  <2> QED
    BY <1>2, <2>2 DEF Has, Config, NoConfig
<1> HIDE DEF reads, n, cat, table, other, values
<1>7. all = Hv!Fold(cat, d, opened, reads)
  BY DEF ReadVarIn, FoldLeft, MapThenFoldSet, Max, Hv!Fold, Hv!Top
<1>8. c.vars # <<>> => Has(all, q, v)
  <2> SUFFICES ASSUME c.vars # <<>> PROVE Has(all, q, v)
    OBVIOUS
  <2>1. \A i \in 1..n : \A x : HasFrom(cat, d, x) => HasFrom(cat, d, ReadVarIn(cat, d, x, reads[i]))
    <3> SUFFICES ASSUME NEW i \in 1..n, NEW x, Has(x, q, v)
                 PROVE  Has(ReadVar(x, cat, reads[i]), q, v)
      BY DEF HasFrom, ReadVarIn
    <3> QED
      BY <1>5, ReadVarKeeps
  <2>2. HasFrom(cat, d, opened)
    BY <1>2 DEF HasFrom
  <2> HIDE DEF d
  <2>3. HasFrom(cat, d, Hv!Fold(cat, d, opened, reads))
    BY <1>3, <2>1, <2>2, Hv!FoldHolds
  <2> QED
    BY <1>7, <2>3 DEF HasFrom, d
<1> HIDE DEF all
<1>9. Has(Fail(t), q, v)
  BY HasStill
<1>10. Has(u, q, v)
  BY <1>6, <1>8, <1>9
<1> HIDE DEF u
<1>11. Filtered(t, c.filter, u) \in {t, u, Fail(t)}
  BY FilteredIs
<1> QED
  BY <1>1, <1>9, <1>10, <1>11

LEMMA ReadCfgKeeps ==
  ASSUME NEW t, NEW name \in DOMAIN Documents, NEW q, NEW v, Has(t, q, v),
         \A i \in DOMAIN Documents[name].cfgs : Unnamed(q, Targets(Documents[name].cfgs[i]))
  PROVE  Has(ReadCfg(t, <<name>>), q, v)
<1> DEFINE read == <<name>>
           cfgs == Documents[name].cfgs
           nodes == NodesOf(read, "cfgs")
           S == Range(cfgs)
           d == <<q, v>>
<1>1. ReadCfg(t, <<name>>) = Hc!Fold(0, d, t, nodes)
  BY DEF ReadCfg, AllOf, NodesOf, ReadCategoryIn, FoldLeft, MapThenFoldSet, Max,
         Hc!Fold, Hc!Top
<1>2. \A x \in S : IsSequence(x.vars) /\ Unnamed(q, Targets(x))
  BY DocumentAssumption DEF Range
<1>3. nodes \in Seq(S)
  <2>1. cfgs \in Seq(S)
    BY DocumentAssumption DEF IsSequence, NoDocument
  <2> DEFINE ss == [i \in DOMAIN read |-> Documents[read[i]]["cfgs"]]
  <2>2. ss \in [1..1 -> Seq(S)]
    <3>1. DOMAIN read = 1..1 /\ read[1] = name
      OBVIOUS
    <3> HIDE DEF read, S
    <3> QED
      BY <2>1, <3>1
  <2> HIDE DEF ss, S
  <2>3. FlattenSeq(ss) \in Seq(S)
    BY <2>2, FlattenType
  <2> QED
    BY <2>3 DEF NodesOf, ss
<1> HIDE DEF nodes, S, d
<1>4. /\ Len(nodes) \in Nat /\ DOMAIN nodes = 1..Len(nodes)
      /\ \A i \in 1..Len(nodes) : IsSequence(nodes[i].vars) /\ Unnamed(q, Targets(nodes[i]))
  BY <1>2, <1>3
<1>5. \A i \in 1..Len(nodes) : \A x :
         HasFrom(0, d, x) => HasFrom(0, d, ReadCategoryIn(0, d, x, nodes[i]))
  <2> SUFFICES ASSUME NEW i \in 1..Len(nodes), NEW x, Has(x, q, v)
               PROVE  Has(ReadCategory(x, nodes[i]), q, v)
    BY DEF HasFrom, ReadCategoryIn, d
  <2> QED
    BY <1>4, ReadCategoryKeeps
<1>6. HasFrom(0, d, t)
  BY DEF HasFrom, d
<1>7. HasFrom(0, d, Hc!Fold(0, d, t, nodes))
  BY <1>4, <1>5, <1>6, Hc!FoldHolds
<1> QED
  BY <1>1, <1>7 DEF HasFrom, d

ReadFileIn(dicts, d, t, name) == ReadCfgFile(t, name, dicts)
Sl == INSTANCE FoldFacts WITH op <- ReadFileIn, holds <- SameFrom
Hl == INSTANCE FoldFacts WITH op <- ReadFileIn, holds <- HasFrom

LEMMA ReadCfgFileSame ==
  ASSUME NEW t, NEW name, NEW dicts, Config(t)
  PROVE  SameEnv(t, ReadCfgFile(t, name, dicts))
<1> DEFINE u == ReadCfg(t, <<name>>)
<1>1. SameEnv(t, Fail(t))
  BY FailIs
<1>2. ASSUME name \in DOMAIN Documents PROVE SameEnv(t, ReadAccesses(u, <<name>>, dicts))
  <2>1. <<name>> \in Seq(DOMAIN Documents)
    BY <1>2
  <2>2. SameEnv(t, u)
    BY <2>1, ReadCfgSame
  <2> HIDE DEF u
  <2>3. Adds(u, ReadAccesses(u, <<name>>, dicts))
    BY <2>1, <2>2, ReadAccessesAdds DEF SameEnv
  <2>4. SameEnv(u, ReadAccesses(u, <<name>>, dicts))
    BY <2>3 DEF Adds
  <2> QED
    BY <2>2, <2>4, SameEnvAgain
<1> QED
  BY <1>1, <1>2 DEF ReadCfgFile

LEMMA ReadCfgFileKeeps ==
  ASSUME NEW t, NEW name, NEW dicts, NEW q, NEW v, Has(t, q, v),
         name \in DOMAIN Documents =>
           \A i \in DOMAIN Documents[name].cfgs : Unnamed(q, Targets(Documents[name].cfgs[i]))
  PROVE  Has(ReadCfgFile(t, name, dicts), q, v)
<1> DEFINE u == ReadCfg(t, <<name>>)
<1>1. Has(Fail(t), q, v)
  BY HasStill
<1>2. ASSUME name \in DOMAIN Documents PROVE Has(ReadAccesses(u, <<name>>, dicts), q, v)
  <2>1. <<name>> \in Seq(DOMAIN Documents)
    BY <1>2
  <2>2. Has(u, q, v)
    BY <1>2, ReadCfgKeeps
  <2> HIDE DEF u
  <2>3. Adds(u, ReadAccesses(u, <<name>>, dicts))
    BY <2>1, <2>2, ReadAccessesAdds DEF Has
  <2> QED
    BY <2>2, <2>3, HasStill
<1> QED
  BY <1>1, <1>2 DEF ReadCfgFile

LEMMA LoadCfgKeeps ==
  ASSUME EnvInv, LoadCfg
  PROVE  /\ EnvInv' /\ SameEnv(te, te')
         /\ \A q \in DOMAIN te.cfg : ~NamedAgain(q) /\ IsUnder(q, q) =>
               q \in DOMAIN te'.cfg /\ te'.cfg[q] = te.cfg[q]
<1> DEFINE dicts == {<<x>> : x \in DOMAIN built}
           files == Loaded(Line)
           n == Len(files)
<1>1. /\ te' = ReadCfgFiles(te, files, dicts) /\ phase = "load"
      /\ phase' \in {"failed", "ended", "flows"} /\ UNCHANGED <<start, walkVars>>
  BY DEF LoadCfg
<1>2. Config(te) /\ start \in Starts /\ Walks
  BY DEF EnvInv
<1>3. IsSequence(files)
  BY <1>2, LoadedIsList DEF Line
<1>4. n \in Nat /\ DOMAIN files = 1..n
  BY <1>3 DEF IsSequence
<1>5. ASSUME NEW q, ~NamedAgain(q), NEW i \in 1..n, files[i] \in DOMAIN Documents
      PROVE  ~Names(Documents[files[i]], q)
  BY <1>4, <1>5 DEF NamedAgain, Range
<1> HIDE DEF dicts, files, n
<1>6. ReadCfgFiles(te, files, dicts) = Sl!Fold(dicts, te, te, files)
  BY DEF ReadCfgFiles, ReadFileIn, FoldLeft, MapThenFoldSet, Max, Sl!Fold, Sl!Top
<1>7. SameEnv(te, te')
  <2>1. \A i \in 1..n : \A x : SameFrom(dicts, te, x) => SameFrom(dicts, te, ReadFileIn(dicts, te, x, files[i]))
    <3> SUFFICES ASSUME NEW i \in 1..n, NEW x, SameEnv(te, x)
                 PROVE  SameEnv(te, ReadCfgFile(x, files[i], dicts))
      BY DEF SameFrom, ReadFileIn
    <3>1. SameEnv(x, ReadCfgFile(x, files[i], dicts))
      BY ReadCfgFileSame DEF SameEnv
    <3> QED
      BY <3>1, SameEnvAgain
  <2>2. SameFrom(dicts, te, te)
    BY <1>2, FailIs DEF SameFrom
  <2>3. SameFrom(dicts, te, Sl!Fold(dicts, te, te, files))
    BY <1>4, <2>1, <2>2, Sl!FoldHolds
  <2> QED
    BY <1>1, <1>6, <2>3 DEF SameFrom
<1>8. ASSUME NEW q \in DOMAIN te.cfg, ~NamedAgain(q), IsUnder(q, q)
      PROVE  q \in DOMAIN te'.cfg /\ te'.cfg[q] = te.cfg[q]
  <2> DEFINE v == te.cfg[q]
             d == <<q, v>>
  <2>1. ASSUME NEW i \in 1..n, files[i] \in DOMAIN Documents,
               NEW k \in DOMAIN Documents[files[i]].cfgs
        PROVE  Unnamed(q, Targets(Documents[files[i]].cfgs[k]))
    <3>1. ~Names(Documents[files[i]], q)
      BY <1>5, <1>8, <2>1
    <3>2. ASSUME NEW p \in Targets(Documents[files[i]].cfgs[k])
          PROVE  ~IsUnder(q, p)
      BY <2>1, <3>1, <3>2 DEF Names
    <3>3. IsUnder(q, q)
      BY <1>8
    <3> QED
      BY <3>2, <3>3 DEF Unnamed
  <2>2. ReadCfgFiles(te, files, dicts) = Hl!Fold(dicts, d, te, files)
    BY DEF ReadCfgFiles, ReadFileIn, FoldLeft, MapThenFoldSet, Max, Hl!Fold, Hl!Top
  <2>3. HasFrom(dicts, d, te)
    BY <1>2 DEF HasFrom, Has
  <2>4. \A i \in 1..n : \A x : HasFrom(dicts, d, x) => HasFrom(dicts, d, ReadFileIn(dicts, d, x, files[i]))
    <3> SUFFICES ASSUME NEW i \in 1..n, NEW x, Has(x, q, v)
                 PROVE  Has(ReadCfgFile(x, files[i], dicts), q, v)
      BY DEF HasFrom, ReadFileIn
    <3> HIDE DEF v
    <3> QED
      BY <2>1, ReadCfgFileKeeps
  <2> HIDE DEF d
  <2>5. HasFrom(dicts, d, Hl!Fold(dicts, d, te, files))
    BY <1>4, <2>3, <2>4, Hl!FoldHolds
  <2> QED
    BY <1>1, <2>2, <2>5 DEF HasFrom, Has, d
<1>9. Walks'
  BY <1>1, <1>2 DEF Walks, walkVars
<1>10. EnvInv'
  BY <1>1, <1>7, <1>9, EnvStep
<1> QED
  BY <1>7, <1>8, <1>10

\* A path of an override is under itself.
LEMMA GivenIsPath ==
  ASSUME NEW line, NEW q \in DOMAIN CfgGiven(line)
  PROVE  IsUnder(q, q)
<1>1. PICK a \in DOMAIN CfgArgs : q = CfgArgs[a]
  BY DEF CfgGiven
<1>2. q \in Seq(Range(q))
  BY <1>1, NamesApart
<1> QED
  BY <1>2 DEF IsUnder

\* A step that is not about the configuration.
LEMMA EnvIdle ==
  ASSUME EnvInv, UNCHANGED <<start, te, walkVars, phase>>
  PROVE  EnvInv'
BY DEF EnvInv, Line, Walks, walkVars

CfgInv == EnvInv /\ CfgKept

LEMMA CfgIdle ==
  ASSUME CfgInv, UNCHANGED <<start, te, walkVars>>,
         phase' = phase \/ (phase # "env" /\ phase' = "failed")
  PROVE  CfgInv'
<1>1. EnvInv'
  BY EnvIdle, EnvUnchanged DEF CfgInv
<1>2. CASE phase' = "failed"
  BY <1>1, <1>2 DEF CfgInv, CfgKept, Overridden
<1>3. CASE phase' = phase
  <2>1. \A path : SetAgain(path)' <=> SetAgain(path)
    BY <1>3 DEF SetAgain, NamedAgain, Line
  <2> QED
    BY <1>1, <1>3, <2>1 DEF CfgInv, CfgKept, Overridden, Line
<1> QED
  BY <1>2, <1>3

LEMMA CfgStands ==
  ASSUME CfgInv, start' = start, EnvInv', Overridden, te'.cfg = te.cfg \/ Adds(te, te'),
         phase \in {"flows", "ended"} => phase' \in {"flows", "ended", "failed"}
  PROVE  CfgInv'
<1>1. CfgKept'
  <2> SUFFICES ASSUME Overridden', NEW path \in DOMAIN CfgGiven(Line'),
                      ~NoChoice(path, CfgGiven(Line')[path]), ~SetAgain(path)'
               PROVE  path \in DOMAIN te'.cfg /\ te'.cfg[path] = CfgGiven(Line')[path]
    BY DEF CfgKept
  <2>1. Line' = Line /\ (NamedAgain(path)' <=> NamedAgain(path))
    BY DEF Line, NamedAgain
  <2>2. ~SetAgain(path)
    BY <2>1 DEF SetAgain, Overridden
  <2>3. path \in DOMAIN te.cfg /\ te.cfg[path] = CfgGiven(Line)[path]
    BY <2>1, <2>2 DEF CfgInv, CfgKept
  <2> QED
    BY <2>1, <2>3 DEF Adds
<1> QED
  BY <1>1 DEF CfgInv

LEMMA CfgNext == CfgInv /\ [Next]_vars => CfgInv'
<1> SUFFICES ASSUME CfgInv, [Next]_vars
             PROVE  CfgInv'
  OBVIOUS
<1>1. EnvInv
  BY DEF CfgInv
<1>2. CASE ReadCommandLine
  <2>1. phase' \in {"walk", "failed"}
    BY <1>2 DEF ReadCommandLine
  <2> QED
    BY <1>1, <1>2, <2>1, CommandLineStep DEF CfgInv, CfgKept, Overridden
<1>3. CASE ReadDocument
  <2>1. phase' \in {phase, "failed"} /\ phase \in {"walk", "rewalk"} /\ start' = start
    BY <1>3 DEF ReadDocument
  <2>2. EnvInv' /\ te'.cfg = te.cfg
    BY <1>1, <1>3, ReadDocumentSets DEF Sets
  <2>3. CASE phase = "rewalk"
    BY <2>1, <2>2, <2>3, CfgStands DEF Overridden
  <2>4. CASE phase = "walk"
    BY <2>1, <2>2, <2>4 DEF CfgInv, CfgKept, Overridden
  <2> QED
    BY <2>1, <2>3, <2>4
<1>4. CASE Define
  <2>1. phase' \in {"failed", "override"} \/ (phase' = "ended" /\ te'.envOnly)
    BY <1>4 DEF Define
  <2> QED
    BY <1>1, <1>4, <2>1, DefineSame DEF CfgInv, CfgKept, Overridden
<1>5. CASE Overrides
  <2>1. EnvInv' /\ (phase' = "parse" => Stands(te'))
    BY <1>1, <1>5, OverridesStep
  <2>2. phase' \in {"parse", "failed"} /\ Line' = Line
    BY <1>5 DEF Overrides, Line
  <2>3. CfgKept'
    BY <2>1, <2>2 DEF CfgKept, Stands, Overridden
  <2> QED
    BY <2>1, <2>3 DEF CfgInv
<1>6. CASE ParseSmall
  BY <1>6, CfgIdle DEF ParseSmall, Stop, Parsing
<1>7. CASE NoCollateral
  BY <1>7, CfgIdle DEF NoCollateral, Stop, Parsing
<1>8. CASE Divide
  BY <1>8, CfgIdle DEF Divide
<1>9. CASE NoParts
  BY <1>9, CfgIdle DEF NoParts
<1>10. CASE Submit
  BY <1>10, CfgIdle DEF Submit
<1>11. CASE ProcessSerially
  BY <1>11, CfgIdle DEF ProcessSerially, Stop, Submitting, Parsing
<1>12. CASE MergePart
  BY <1>12, CfgIdle DEF MergePart, Stop, Merging, Parsing
<1>13. CASE EndLarge
  BY <1>13, CfgIdle DEF EndLarge
<1>14. CASE SignalAliases
  <2>1. start' = start /\ phase = "parse"
    BY <1>14 DEF SignalAliases
  <2> QED
    BY <1>1, <1>14, <2>1, SignalAliasesAdds, CfgStands DEF Overridden
<1>15. CASE RegisterAccess
  <2>1. start' = start /\ phase = "rewalk"
    BY <1>15 DEF RegisterAccess
  <2> QED
    BY <1>1, <1>15, <2>1, RegisterAccessAdds, CfgStands DEF Overridden
<1>16. CASE MakeFlows
  <2>1. phase = "flows" /\ phase' \in {"ended", "failed"} /\ UNCHANGED <<start, te, walkVars>>
    BY <1>16 DEF MakeFlows
  <2>2. EnvInv'
    BY <1>1, <2>1, EnvUnchanged
  <2> QED
    BY <2>1, <2>2, CfgStands DEF Overridden
<1>19. CASE LoadCfg
  <2>1. start' = start /\ phase = "load" /\ phase' \in {"failed", "ended", "flows"}
    BY <1>19 DEF LoadCfg
  <2>2. EnvInv'
    BY <1>1, <1>19, LoadCfgKeeps
  <2>3. CfgKept'
    <3> SUFFICES ASSUME Overridden', NEW path \in DOMAIN CfgGiven(Line'),
                        ~NoChoice(path, CfgGiven(Line')[path]), ~SetAgain(path)'
                 PROVE  path \in DOMAIN te'.cfg /\ te'.cfg[path] = CfgGiven(Line')[path]
      BY DEF CfgKept
    <3>1. Line' = Line /\ (NamedAgain(path)' <=> NamedAgain(path))
      BY <2>1 DEF Line, NamedAgain
    <3>2. ~NamedAgain(path) /\ ~SetAgain(path)
      BY <2>1, <3>1 DEF SetAgain, Overridden
    <3>3. path \in DOMAIN te.cfg /\ te.cfg[path] = CfgGiven(Line)[path]
      BY <2>1, <3>1, <3>2 DEF CfgInv, CfgKept, Overridden
    <3>4. IsUnder(path, path)
      BY <3>1, GivenIsPath
    <3> QED
      BY <1>1, <1>19, <3>1, <3>2, <3>3, <3>4, LoadCfgKeeps
  <2> QED
    BY <2>2, <2>3 DEF CfgInv
<1>17. ASSUME NEW w \in DOMAIN proc, Worker(w) PROVE CfgInv'
  BY <1>17, CfgIdle DEF Worker, WorkerEnds, WorkerKilled
<1>18. CASE UNCHANGED vars
  BY <1>18, CfgIdle DEF vars
<1> QED
  BY <1>2, <1>3, <1>4, <1>5, <1>6, <1>7, <1>8, <1>9, <1>10, <1>11, <1>12, <1>13,
     <1>14, <1>15, <1>16, <1>17, <1>18, <1>19
     DEF Next, Master, Ended

LEMMA CfgInvariant == Spec => []CfgInv
<1>1. Init => CfgInv
  <2>1. <<>> \in Seq(DOMAIN Documents)
    OBVIOUS
  <2> QED
    BY <2>1 DEF Init, CfgInv, EnvInv, CfgKept, Overridden, Walks, Config
<1> QED
  BY <1>1, CfgNext, PTL DEF Spec

LEMMA EnvHolds == EnvInv => EnvKept
<1> SUFFICES ASSUME EnvInv, NEW name \in Range(EnvArgs), phase # "env", WordsFor(name) # {}
             PROVE  name \in DOMAIN te.env /\ te.env[name] = Line[Max(WordsFor(name))].value
  BY DEF EnvKept
<1> DEFINE at == {j \in 1..Len(Line) : IsEnvWord(Line[j]) /\ EnvArgs[Line[j].name] = name}
           given == EnvGiven(Line)
<1>1. IsSequence(Line)
  BY StartAssumption DEF EnvInv, Line
<1>2. Len(Line) \in Nat /\ DOMAIN Line = 1..Len(Line)
  BY <1>1 DEF IsSequence
<1>3. WordsFor(name) = at
  BY <1>2 DEF WordsFor
<1>4. name \in DOMAIN given /\ \E j \in at : given[name] = Line[j].value /\ \A k \in at : k <= j
  BY <1>1, <1>3, EnvGivenIsLast DEF LastSays
<1>5. name \in DOMAIN te.env /\ te.env[name] = given[name]
  BY <1>4 DEF EnvInv, HasGiven
<1> HIDE DEF given
<1>6. PICK j \in at : given[name] = Line[j].value /\ \A k \in at : k <= j
  BY <1>4
<1>7. \A k \in at : k \in Int
  BY <1>2
<1> HIDE DEF at
<1>8. Max(at) = j
  BY <1>6, <1>7 DEF Max
<1> QED
  BY <1>3, <1>5, <1>6, <1>8

-----------------------------------------------------------------------------
(***************************************************************************)
(* The division of a command line.  After the first i words: which mark of a *)
(* flow is open, what the words after a mark gave to its flow, and that each *)
(* end belongs to a mark.                                                    *)
(***************************************************************************)
IsMark(w) == w.kind \in {"flow", "end"}
Follow(line, a, i) == {j \in a+1..i : \A k \in a+1..j : ~IsMark(line[k])}
Opened(line, a, i) == line[a].kind = "flow" /\ \A k \in a+1..i : ~IsMark(line[k])
Closes(line, a, e) == /\ a < e /\ line[a].kind = "flow" /\ line[e].kind = "end"
                      /\ line[a].n = line[e].n /\ \A k \in a+1..e-1 : ~IsMark(line[k])
OneEach(line) == \A a, b \in 1..Len(line) :
    line[a].kind = "flow" /\ line[b].kind = "flow" /\ line[a].n = line[b].n => a = b

\* The words say what the map m says, the last of equal names.
Give(line, words, m) ==
    /\ \A j \in words : line[j].kind = "arg" /\ line[j].name \in DOMAIN m
    /\ \A k \in DOMAIN m : \E j \in words :
          /\ line[j].name = k /\ m[k] = line[j].value
          /\ \A l \in words : line[l].name = k => l <= j

FlowOf(p, g) == IF g \in DOMAIN p.flows THEN p.flows[g] ELSE NoMap

InTheFlow(line, i, p) == \E a \in 1..i : Opened(line, a, i) /\ p.flow = line[a].n
InNoFlow(line, i, p) == p.flow = Outside /\ \A a \in 1..i : ~Opened(line, a, i)
FlowsMarked(line, i, p) == \A g \in DOMAIN p.flows : \E a \in 1..i :
    line[a].kind = "flow" /\ line[a].n = g
FlowsGiven(line, i, p) == \A a \in 1..i : line[a].kind = "flow" =>
    Give(line, Follow(line, a, i), FlowOf(p, line[a].n))
EndsClose(line, i) == \A e \in 1..i : line[e].kind = "end" => \E a \in 1..i : Closes(line, a, e)

Divided(line, i, p) ==
    /\ DOMAIN p = DOMAIN NoArguments
    /\ p.ok => /\ InTheFlow(line, i, p) \/ InNoFlow(line, i, p)
               /\ FlowsMarked(line, i, p)
               /\ FlowsGiven(line, i, p)
               /\ EndsClose(line, i)

IsLine(line) ==
    /\ Len(line) \in Nat /\ OneEach(line)
    /\ \A i \in 1..Len(line) : /\ line[i].kind \in WordKinds
                               /\ line[i].kind = "flow" => line[i].n \in Nat

LEMMA GiveNothing == ASSUME NEW line PROVE Give(line, {}, NoMap)
BY DEF Give, NoMap

\* A word after which nothing more follows an older mark.
LEMMA FollowSame ==
  ASSUME NEW line, NEW i \in Nat, i > 0, NEW a \in 1..(i-1),
         IsMark(line[i]) \/ line[a].kind # "flow" \/ ~Opened(line, a, i - 1)
  PROVE  line[a].kind = "flow" => Follow(line, a, i) = Follow(line, a, i - 1)
<1> SUFFICES ASSUME line[a].kind = "flow" PROVE Follow(line, a, i) = Follow(line, a, i - 1)
  OBVIOUS
<1>1. i \notin Follow(line, a, i)
  BY DEF Follow, Opened
<1>2. Follow(line, a, i - 1) = Follow(line, a, i) \ {i}
  BY DEF Follow
<1> QED
  BY <1>1, <1>2

LEMMA MarkDivides ==
  ASSUME NEW line, IsLine(line), NEW i \in 1..Len(line), NEW p, p.ok,
         Divided(line, i - 1, p), line[i].kind = "flow"
  PROVE  Divided(line, i, [p EXCEPT !.flow = line[i].n])
<1> DEFINE q == [p EXCEPT !.flow = line[i].n]
<1>1. DOMAIN q = DOMAIN NoArguments /\ q.flow = line[i].n /\ q.flows = p.flows
  BY DEF Divided, NoArguments
<1>2. i \in Nat /\ i > 0 /\ i - 1 \in Nat /\ \A a \in 1..i : a = i \/ a \in 1..(i-1)
  BY DEF IsLine
<1> HIDE DEF q
<1>3. InTheFlow(line, i, q)
  <2>1. Opened(line, i, i)
    BY <1>2 DEF Opened
  <2> QED
    BY <2>1, <1>1, <1>2 DEF InTheFlow
<1>4. FlowsMarked(line, i, q)
  BY <1>1, <1>2 DEF FlowsMarked, Divided
<1>5. FlowsGiven(line, i, q)
  <2> SUFFICES ASSUME NEW a \in 1..i, line[a].kind = "flow"
               PROVE  Give(line, Follow(line, a, i), FlowOf(q, line[a].n))
    BY DEF FlowsGiven
  <2>1. CASE a = i
    <3>1. line[a].n \notin DOMAIN p.flows
      BY <2>1, <1>2 DEF Divided, FlowsMarked, IsLine, OneEach
    <3>2. Follow(line, a, i) = {}
      BY <2>1, <1>2 DEF Follow
    <3> QED
      BY <3>1, <3>2, <1>1, GiveNothing DEF FlowOf
  <2>2. CASE a \in 1..(i-1)
    <3>1. Follow(line, a, i) = Follow(line, a, i - 1)
      BY <1>2, <2>2, FollowSame DEF IsMark
    <3> QED
      BY <2>2, <3>1, <1>1 DEF Divided, FlowsGiven, FlowOf
  <2> QED
    BY <1>2, <2>1, <2>2
<1>6. EndsClose(line, i)
  BY <1>2 DEF Divided, EndsClose
<1> QED
  BY <1>1, <1>3, <1>4, <1>5, <1>6 DEF Divided, q

LEMMA EndDivides ==
  ASSUME NEW line, IsLine(line), NEW i \in 1..Len(line), NEW p, p.ok,
         Divided(line, i - 1, p), line[i].kind = "end", line[i].n = p.flow
  PROVE  Divided(line, i, EndOfFlow(p))
<1> DEFINE q == [p EXCEPT !.flow = Outside]
<1>1. DOMAIN q = DOMAIN NoArguments /\ q.flow = Outside /\ q.flows = p.flows
  BY DEF Divided, NoArguments
<1>2. i \in Nat /\ i > 0 /\ i - 1 \in Nat /\ \A a \in 1..i : a = i \/ a \in 1..(i-1)
  BY DEF IsLine
<1>3. DOMAIN Broken(p) = DOMAIN NoArguments /\ Broken(p).ok = FALSE
  BY DEF Divided, NoArguments, Broken
<1>4. EndOfFlow(p) = Broken(p) \/ (EndOfFlow(p) = q /\ p.flow \in DOMAIN p.flows)
  BY DEF EndOfFlow
<1> HIDE DEF q
<1>5. ASSUME p.flow \in DOMAIN p.flows PROVE Divided(line, i, q)
  <2>1. PICK b \in 1..(i-1) : line[b].kind = "flow" /\ line[b].n = p.flow
    BY <1>5 DEF Divided, FlowsMarked
  <2>2. p.flow # Outside
    BY <1>2, <2>1 DEF IsLine, Outside
  <2>3. PICK a \in 1..(i-1) : Opened(line, a, i - 1) /\ p.flow = line[a].n
    BY <2>2 DEF Divided, InTheFlow, InNoFlow
  <2>4. Closes(line, a, i)
    BY <1>2, <2>3 DEF Closes, Opened
  <2>5. EndsClose(line, i)
    BY <1>2, <2>3, <2>4 DEF Divided, EndsClose
  <2>6. \A c \in 1..i : ~Opened(line, c, i)
    BY <1>2 DEF Opened, IsMark
  <2>7. InNoFlow(line, i, q)
    BY <1>1, <2>6 DEF InNoFlow
  <2>8. FlowsMarked(line, i, q)
    BY <1>1, <1>2 DEF FlowsMarked, Divided
  <2>9. ASSUME NEW c \in 1..i, line[c].kind = "flow"
        PROVE  Give(line, Follow(line, c, i), FlowOf(q, line[c].n))
    <3>1. c \in 1..(i-1)
      BY <1>2, <2>9
    <3>2. Follow(line, c, i) = Follow(line, c, i - 1)
      BY <1>2, <2>9, <3>1, FollowSame DEF IsMark
    <3> QED
      BY <2>9, <3>1, <3>2, <1>1 DEF Divided, FlowsGiven, FlowOf
  <2> QED
    BY <1>1, <2>5, <2>7, <2>8, <2>9 DEF Divided, FlowsGiven
<1> QED
  BY <1>3, <1>4, <1>5 DEF Divided

LEMMA ArgumentDivides ==
  ASSUME NEW line, IsLine(line), NEW i \in 1..Len(line), NEW p, p.ok,
         Divided(line, i - 1, p), line[i].kind # "flow", p.flow # Outside
  PROVE  Divided(line, i, ArgumentOfFlow(p, line[i]))
<1> DEFINE w == line[i]
           old == FlowOf(p, p.flow)
           m == Put(old, w.name, w.value)
           all == Put(p.flows, p.flow, m)
           q == [p EXCEPT !.flows = all]
<1>1. DOMAIN q = DOMAIN NoArguments /\ q.flow = p.flow /\ q.flows = all
  BY DEF Divided, NoArguments
<1>2. i \in Nat /\ i > 0 /\ i - 1 \in Nat /\ \A a \in 1..i : a = i \/ a \in 1..(i-1)
  BY DEF IsLine
<1>3. DOMAIN Broken(p) = DOMAIN NoArguments /\ Broken(p).ok = FALSE
  BY DEF Divided, NoArguments, Broken
<1>4. ArgumentOfFlow(p, w) = Broken(p) \/ (ArgumentOfFlow(p, w) = q /\ w.kind = "arg")
  BY DEF ArgumentOfFlow, FlowOf
<1>5. DOMAIN all = DOMAIN p.flows \cup {p.flow} /\ all[p.flow] = m
      /\ \A g \in DOMAIN p.flows : g # p.flow => all[g] = p.flows[g]
  BY DEF Put
<1>6. DOMAIN m = DOMAIN old \cup {w.name} /\ m[w.name] = w.value
      /\ \A k \in DOMAIN old : k # w.name => m[k] = old[k]
  BY DEF Put
<1> HIDE DEF q, all, m, old
<1>7. ASSUME w.kind = "arg" PROVE Divided(line, i, q)
  <2>1. PICK a \in 1..(i-1) : Opened(line, a, i - 1) /\ p.flow = line[a].n
    BY DEF Divided, InTheFlow, InNoFlow
  <2>2. Opened(line, a, i) /\ a \in 1..i
    BY <1>2, <1>7, <2>1 DEF Opened, IsMark
  <2>3. InTheFlow(line, i, q)
    BY <1>1, <2>1, <2>2 DEF InTheFlow
  <2>4. FlowsMarked(line, i, q)
    BY <1>1, <1>2, <1>5, <2>1 DEF FlowsMarked, Divided, Opened
  <2>5. Give(line, Follow(line, a, i), m)
    <3> DEFINE before == Follow(line, a, i - 1)
               words == Follow(line, a, i)
    <3>1. words = before \cup {i} /\ \A j \in before : j \in Int /\ j <= i
      BY <1>2, <2>1, <2>2 DEF Follow, Opened
    <3>2. Give(line, before, old)
      BY <2>1 DEF Divided, FlowsGiven, Opened, old
    <3> HIDE DEF before, words
    <3>3. \A j \in words : line[j].kind = "arg" /\ line[j].name \in DOMAIN m
      BY <1>6, <1>7, <3>1, <3>2 DEF Give
    <3>4. ASSUME NEW k \in DOMAIN m
          PROVE  \E j \in words : /\ line[j].name = k /\ m[k] = line[j].value
                                  /\ \A l \in words : line[l].name = k => l <= j
      <4>1. CASE k = w.name
        BY <1>2, <1>6, <3>1, <4>1
      <4>2. CASE k # w.name
        <5>1. PICK j \in before : /\ line[j].name = k /\ old[k] = line[j].value
                                  /\ \A l \in before : line[l].name = k => l <= j
          BY <1>6, <3>2, <4>2 DEF Give
        <5> QED
          BY <1>6, <3>1, <4>2, <5>1
      <4> QED
        BY <4>1, <4>2
    <3> QED
      BY <3>3, <3>4 DEF Give, words
  <2>6. ASSUME NEW c \in 1..i, line[c].kind = "flow"
        PROVE  Give(line, Follow(line, c, i), FlowOf(q, line[c].n))
    <3>1. CASE c = a
      BY <1>1, <1>5, <2>1, <2>5, <3>1 DEF FlowOf
    <3>2. CASE c # a
      <4>1. c \in 1..(i-1)
        BY <1>2, <2>6
      <4>2. line[c].n # p.flow
        BY <1>2, <2>1, <2>6, <3>2, <4>1 DEF IsLine, OneEach, Opened
      <4>3. ~Opened(line, c, i - 1)
        BY <1>2, <2>1, <2>6, <3>2, <4>1 DEF Opened, IsMark
      <4>4. Follow(line, c, i) = Follow(line, c, i - 1)
        BY <1>2, <2>6, <4>1, <4>3, FollowSame
      <4>5. FlowOf(q, line[c].n) = FlowOf(p, line[c].n)
        BY <1>1, <1>5, <4>2 DEF FlowOf
      <4> QED
        BY <2>6, <4>1, <4>4, <4>5 DEF Divided, FlowsGiven
    <3> QED
      BY <3>1, <3>2
  <2>7. EndsClose(line, i)
    BY <1>2, <1>7 DEF Divided, EndsClose
  <2> QED
    BY <1>1, <2>3, <2>4, <2>6, <2>7 DEF Divided, FlowsGiven
<1> QED
  BY <1>3, <1>4, <1>7 DEF Divided

LEMMA ManagerDivides ==
  ASSUME NEW line, IsLine(line), NEW i \in 1..Len(line), NEW p, p.ok,
         Divided(line, i - 1, p), line[i].kind # "flow", p.flow = Outside
  PROVE  Divided(line, i, ArgumentOfManager(p, line[i]))
<1> DEFINE w == line[i]
           q == ArgumentOfManager(p, w)
<1>1. i \in Nat /\ i > 0 /\ i - 1 \in Nat /\ \A a \in 1..i : a = i \/ a \in 1..(i-1)
  BY DEF IsLine
<1>2. DOMAIN Broken(p) = DOMAIN NoArguments /\ Broken(p).ok = FALSE
  BY DEF Divided, NoArguments, Broken
<1>3. \A x : /\ DOMAIN [p EXCEPT !.args = x] = DOMAIN NoArguments
             /\ [p EXCEPT !.args = x].flow = p.flow /\ [p EXCEPT !.args = x].flows = p.flows
  BY DEF Divided, NoArguments
<1>4. q = Broken(p) \/ (w.kind # "end" /\ (q = p \/ \E x : q = [p EXCEPT !.args = x]))
  <2>1. CASE w.kind = "help"
    BY <2>1 DEF ArgumentOfManager
  <2>2. CASE w.kind = "single"
    BY <2>2 DEF ArgumentOfManager
  <2>3. CASE w.kind = "end"
    BY <2>3 DEF ArgumentOfManager
  <2>4. CASE w.kind = "arg"
    <3> DEFINE old == IF w.name \in DOMAIN p.args THEN p.args[w.name] ELSE <<>>
               x == Put(p.args, w.name, Append(old, w.value))
    <3>1. q = Broken(p) \/ q = [p EXCEPT !.args = x]
      BY <2>4 DEF ArgumentOfManager
    <3> HIDE DEF x, q
    <3> QED
      BY <2>4, <3>1
  <2> QED
    BY <2>1, <2>2, <2>3, <2>4 DEF IsLine, WordKinds
<1> SUFFICES Divided(line, i, q)
  OBVIOUS
<1> HIDE DEF q
<1>5. ASSUME w.kind # "end", DOMAIN q = DOMAIN NoArguments, q.flow = p.flow, q.flows = p.flows
      PROVE  Divided(line, i, q)
  <2>1. InNoFlow(line, i - 1, p)
    <3> SUFFICES ASSUME NEW a \in 1..(i-1), Opened(line, a, i - 1), p.flow = line[a].n
                 PROVE  FALSE
      BY DEF Divided, InTheFlow
    <3>1. a \in 1..Len(line) /\ line[a].kind = "flow"
      BY <1>1 DEF Opened
    <3>2. line[a].n \in Nat
      BY <3>1 DEF IsLine
    <3> QED
      BY <3>2 DEF Outside
  <2>2. \A a \in 1..i : ~Opened(line, a, i)
    BY <1>1, <2>1 DEF InNoFlow, Opened
  <2>3. InNoFlow(line, i, q)
    BY <1>5, <2>2 DEF InNoFlow
  <2>4. FlowsMarked(line, i, q)
    BY <1>1, <1>5 DEF FlowsMarked, Divided
  <2>5. ASSUME NEW c \in 1..i, line[c].kind = "flow"
        PROVE  Give(line, Follow(line, c, i), FlowOf(q, line[c].n))
    <3>1. c \in 1..(i-1)
      BY <1>1, <2>5
    <3>2. Follow(line, c, i) = Follow(line, c, i - 1)
      BY <1>1, <2>1, <2>5, <3>1, FollowSame DEF InNoFlow
    <3> QED
      BY <1>5, <2>5, <3>1, <3>2 DEF Divided, FlowsGiven, FlowOf
  <2>6. EndsClose(line, i)
    BY <1>1, <1>5 DEF Divided, EndsClose
  <2> QED
    BY <1>5, <2>3, <2>4, <2>5, <2>6 DEF Divided, FlowsGiven
<1>6. CASE q = Broken(p)
  BY <1>2, <1>6 DEF Divided
<1>7. CASE w.kind # "end" /\ q = p
  BY <1>5, <1>7 DEF Divided
<1>8. CASE w.kind # "end" /\ \E x : q = [p EXCEPT !.args = x]
  BY <1>3, <1>5, <1>8
<1> QED
  BY <1>4, <1>6, <1>7, <1>8

LEMMA WordDivides ==
  ASSUME NEW line, IsLine(line), NEW i \in 1..Len(line), NEW p, Divided(line, i - 1, p)
  PROVE  Divided(line, i, Word(p, line[i]))
<1> DEFINE w == line[i]
<1>1. CASE ~p.ok
  BY <1>1 DEF Word, Divided
<1>2. CASE p.ok /\ w.kind = "flow"
  BY <1>2, MarkDivides DEF Word
<1>3. CASE p.ok /\ w.kind = "end" /\ w.n = p.flow
  BY <1>3, EndDivides DEF Word
<1>4. CASE p.ok /\ w.kind # "flow" /\ ~(w.kind = "end" /\ w.n = p.flow) /\ p.flow # Outside
  BY <1>4, ArgumentDivides DEF Word
<1>5. CASE p.ok /\ w.kind # "flow" /\ ~(w.kind = "end" /\ w.n = p.flow) /\ p.flow = Outside
  BY <1>5, ManagerDivides DEF Word
<1> QED
  BY <1>1, <1>2, <1>3, <1>4, <1>5

Dw == INSTANCE FoldFacts WITH op <- WordIn, holds <- Always

LEMMA LineDivides ==
  ASSUME NEW line, IsLine(line), Arguments(line).ok
  PROVE  Divided(line, Len(line), Arguments(line)) /\ Arguments(line).flow = Outside
<1> DEFINE n == Len(line)
           q == FoldLeft(LAMBDA x, w : Word(x, w), NoArguments, line)
<1>1. n \in Nat
  BY DEF IsLine
<1>2. q = Dw!Fold(0, 0, NoArguments, line)
  BY DEF WordIn, FoldLeft, MapThenFoldSet, Max, Dw!Fold, Dw!Top
<1>3. Arguments(line) = IF q.flow # Outside THEN Broken(q) ELSE q
  BY DEF Arguments
<1> HIDE DEF n, q
<1>4. PICK f : Dw!Steps(f, 0, 0, NoArguments, line, n) /\ Dw!Fold(0, 0, NoArguments, line) = f[n]
  BY <1>1, Dw!FoldSteps DEF n
<1> DEFINE P == {i \in 0..n : Divided(line, i, f[i])}
<1>5. 0 \in P
  <2>1. f[0] = NoArguments /\ 0 \in 0..n
    BY <1>1, <1>4 DEF Dw!Steps
  <2>2. NoArguments.flow = Outside /\ DOMAIN NoArguments.flows = {}
    BY DEF NoArguments, NoMap
  <2>3. Divided(line, 0, NoArguments)
    BY <2>2 DEF Divided, InNoFlow, FlowsMarked, FlowsGiven, EndsClose
  <2> QED
    BY <2>1, <2>3
<1>6. ASSUME NEW i \in 1..n, i - 1 \in P PROVE i \in P
  <2>1. f[i] = Word(f[i - 1], line[i])
    BY <1>4 DEF Dw!Steps, WordIn
  <2>2. Divided(line, i - 1, f[i - 1]) /\ i \in 0..n /\ i \in 1..Len(line)
    BY <1>1, <1>6 DEF n
  <2>3. Divided(line, i, f[i])
    BY <2>1, <2>2, WordDivides
  <2> QED
    BY <2>2, <2>3
<1>7. \A i \in 0..n : i \in P
  <2> HIDE DEF P
  <2> QED
    BY <1>1, <1>5, <1>6, Dw!BoundedInduction
<1>8. Divided(line, n, q)
  BY <1>1, <1>2, <1>4, <1>7
<1>9. DOMAIN Broken(q) = DOMAIN q /\ ("ok" \in DOMAIN q => Broken(q).ok = FALSE)
  BY DEF Broken
<1>10. "ok" \in DOMAIN NoArguments
  BY DEF NoArguments
<1> QED
  BY <1>3, <1>8, <1>9, <1>10 DEF Divided, n

(***************************************************************************)
(* Where flows follow one another, each with its own number, a flow has what *)
(* the words between its marks say.                                          *)
(***************************************************************************)
LEMMA FlowIsBetween ==
  ASSUME start \in Starts, Bracketed, Arguments(Line).ok,
         NEW g \in DOMAIN Arguments(Line).flows
  PROVE  LET m == Arguments(Line).flows[g]
         IN  /\ DOMAIN m = {Inside(g)[i].name : i \in DOMAIN Inside(g)}
             /\ \A k \in DOMAIN m : m[k] = GivenValue(Inside(g), k)
<1> DEFINE line == Line
           n == Len(line)
           p == Arguments(line)
           m == p.flows[g]
<1>1. n \in Nat /\ DOMAIN line = 1..n /\ line \in Seq(Range(line))
  BY StartAssumption DEF Line, IsSequence
<1>2. IsLine(line)
  <2>1. OneEach(line)
    BY <1>1 DEF OneEach, Bracketed, Marks
  <2> QED
    BY <1>1, <2>1, StartAssumption DEF IsLine, Line, WordKinds
<1>3. Divided(line, n, p)
  BY <1>2, LineDivides
<1>4. PICK a \in 1..n : line[a].kind = "flow" /\ line[a].n = g
  BY <1>3 DEF Divided, FlowsMarked
<1>5. Give(line, Follow(line, a, n), m)
  BY <1>3, <1>4 DEF Divided, FlowsGiven, FlowOf
<1>6. PICK b \in 1..n : /\ line[b].kind = "end" /\ b > a /\ line[b].n = g
                        /\ \A k \in a+1..b-1 : line[k].kind \notin {"flow", "end"}
  BY <1>1, <1>4 DEF Bracketed, Marks
<1>7. (CHOOSE i \in Marks("flow") : Line[i].n = g) = a
  <2>1. \A i \in Marks("flow") : Line[i].n = g <=> i = a
    BY <1>1, <1>2, <1>4 DEF Marks, IsLine, OneEach
  <2>2. a \in Marks("flow")
    BY <1>1, <1>4 DEF Marks
  <2> QED
    BY <2>1, <2>2
<1>8. ASSUME NEW e \in 1..n, line[e].kind = "end", line[e].n = g PROVE e = b
  <2>1. PICK c \in 1..n : Closes(line, c, e)
    BY <1>3, <1>8 DEF Divided, EndsClose
  <2>2. c = a
    BY <1>2, <1>4, <1>8, <2>1 DEF Closes, IsLine, OneEach
  <2>3. ~(e < b)
    BY <1>1, <1>6, <1>8, <2>1, <2>2 DEF Closes
  <2>4. ~(b < e)
    BY <1>1, <1>6, <1>8, <2>1, <2>2 DEF Closes, IsMark
  <2> QED
    BY <1>1, <2>3, <2>4
<1>9. (CHOOSE j \in Marks("end") : Line[j].n = g) = b
  <2>1. \A j \in Marks("end") : Line[j].n = g <=> j = b
    BY <1>1, <1>6, <1>8 DEF Marks
  <2>2. b \in Marks("end")
    BY <1>1, <1>6 DEF Marks
  <2> QED
    BY <2>1, <2>2
<1>10. Follow(line, a, n) = a+1..b-1
  BY <1>1, <1>6 DEF Follow, IsMark
<1> DEFINE inside == Inside(g)
           len == b - 1 - a
<1>11. inside = SubSeq(line, a + 1, b - 1)
  BY <1>7, <1>9 DEF Inside
<1>12. len \in Nat
  BY <1>1, <1>6
<1> HIDE DEF line, n, p, m, inside
<1>13. DOMAIN inside = 1..len /\ \A i \in 1..len : inside[i] = line[a + i]
  BY <1>1, <1>6, <1>11, <1>12
<1>14. DOMAIN m = {inside[i].name : i \in DOMAIN inside}
  <2>1. ASSUME NEW k \in DOMAIN m PROVE \E i \in DOMAIN inside : inside[i].name = k
    <3>1. PICK j \in a+1..b-1 : line[j].name = k
      BY <1>5, <1>10 DEF Give
    <3>2. j - a \in 1..len /\ a + (j - a) = j
      BY <1>1
    <3> HIDE DEF len
    <3> QED
      BY <1>13, <3>1, <3>2
  <2>2. ASSUME NEW i \in DOMAIN inside PROVE inside[i].name \in DOMAIN m
    <3>1. a + i \in a+1..b-1
      BY <1>1, <1>13
    <3> QED
      BY <1>5, <1>10, <1>13, <3>1 DEF Give
  <2> QED
    BY <2>1, <2>2
<1>15. ASSUME NEW k \in DOMAIN m PROVE m[k] = GivenValue(inside, k)
  <2> DEFINE at == {i \in DOMAIN inside : inside[i].kind = "arg" /\ inside[i].name = k}
  <2>1. PICK j \in a+1..b-1 : /\ line[j].name = k /\ m[k] = line[j].value
                              /\ \A l \in a+1..b-1 : line[l].name = k => l <= j
    BY <1>5, <1>10 DEF Give
  <2>2. line[j].kind = "arg"
    BY <1>5, <1>10 DEF Give
  <2>3. j - a \in 1..len /\ a + (j - a) = j /\ j - a \in Int
    BY <1>1
  <2>4. inside[j - a] = line[j]
    BY <1>13, <2>3
  <2>5. j - a \in at
    BY <1>13, <2>1, <2>2, <2>3, <2>4
  <2>6. ASSUME NEW i \in at PROVE i \in Int /\ i <= j - a
    <3>1. i \in 1..len /\ inside[i] = line[a + i] /\ inside[i].name = k
      BY <1>13
    <3>2. a + i \in a+1..b-1
      BY <1>1, <3>1
    <3>3. a + i <= j
      BY <2>1, <3>1, <3>2
    <3> QED
      BY <1>1, <3>1, <3>3
  <2> HIDE DEF at
  <2>7. Max(at) = j - a
    BY <2>3, <2>5, <2>6 DEF Max
  <2> QED
    BY <2>1, <2>4, <2>7 DEF GivenValue, at
<1> QED
  BY <1>14, <1>15 DEF m, p, line, inside

FlowsInv ==
    Bracketed => \A n \in DOMAIN flows :
        ~flows[n].external =>
            flows[n].params =
                [k \in {Inside(n)[i].name : i \in DOMAIN Inside(n)} \ {"flow_name"} |->
                    GivenValue(Inside(n), k)]

LEMMA FlowObjectIs ==
  ASSUME NEW line, NEW cfg, NEW files, NEW env,
         NEW n \in DOMAIN FlowObjects(line, cfg, files, env),
         FlowObjects(line, cfg, files, env)[n].ok
  PROVE  LET o == FlowObjects(line, cfg, files, env)[n]
         IN  /\ n \in DOMAIN Arguments(line).flows
             /\ ~o.external => o.params = FlowParams(Arguments(line).flows[n])
<1> DEFINE given == Arguments(line).flows[n]
           fine == ParamsOk(given) /\ RevisionOk(given["flow_name"], cfg)
           none == [ok |-> FALSE, ignored |-> FALSE, external |-> FALSE, type |-> <<>>,
                    params |-> NoMap]
           o == FlowObjects(line, cfg, files, env)[n]
           made == FlowObject(given, cfg, files, env)
<1>1. n \in DOMAIN Arguments(line).flows /\ o = IF fine THEN made ELSE none
  BY DEF FlowObjects
<1>2. ~none.ok
  OBVIOUS
<1>3. ~made.external => made.params = FlowParams(given)
  BY DEF FlowObject
<1> HIDE DEF fine, made, none, given
<1>4. o = made
  BY <1>1, <1>2
<1> HIDE DEF o
<1> QED
  BY <1>1, <1>3, <1>4 DEF o, given

LEMMA MakeFlowsStep == ASSUME EnvInv, FlowsInv, MakeFlows PROVE FlowsInv'
<1> DEFINE objects == FlowObjects(Line, te.cfg, start.files, te.env)
           fine == /\ Paired(Line) /\ ManagerArgsOk(Arguments(Line).args)
                   /\ FlowsOk(objects)
<1>1. /\ phase = "flows" /\ start' = start
      /\ flows' = IF fine THEN [n \in FlowsKept(objects) |-> objects[n]] ELSE flows
  BY DEF MakeFlows
<1>2. Line' = Line /\ Bracketed' = Bracketed /\ \A n : Inside(n)' = Inside(n)
  BY <1>1 DEF Line, Bracketed, Inside, Marks
<1>3. CASE ~fine
  BY <1>1, <1>2, <1>3 DEF FlowsInv
<1>4. CASE fine
  <2> SUFFICES ASSUME Bracketed, NEW n \in DOMAIN flows', ~flows'[n].external
               PROVE  flows'[n].params =
                        [k \in {Inside(n)[i].name : i \in DOMAIN Inside(n)} \ {"flow_name"} |->
                            GivenValue(Inside(n), k)]
    BY <1>2 DEF FlowsInv
  <2> DEFINE m == Arguments(Line).flows[n]
  <2>1. n \in DOMAIN objects /\ flows'[n] = objects[n]
    BY <1>1, <1>4 DEF FlowsKept
  <2>2. objects[n].ok
    BY <1>4, <2>1 DEF FlowsOk
  <2>3. n \in DOMAIN Arguments(Line).flows /\ objects[n].params = FlowParams(m)
    BY <2>1, <2>2, FlowObjectIs
  <2>4. start \in Starts /\ Arguments(Line).ok
    BY <1>1 DEF EnvInv
  <2>5. /\ DOMAIN m = {Inside(n)[i].name : i \in DOMAIN Inside(n)}
        /\ \A k \in DOMAIN m : m[k] = GivenValue(Inside(n), k)
    BY <2>3, <2>4, FlowIsBetween
  <2> HIDE DEF m, objects
  <2>6. FlowParams(m) = [k \in DOMAIN m \ {"flow_name"} |-> m[k]]
    BY DEF FlowParams
  <2> QED
    BY <2>1, <2>3, <2>5, <2>6
<1> QED
  BY <1>3, <1>4

LEMMA FlowsNext == EnvInv /\ FlowsInv /\ [Next]_vars => FlowsInv'
<1> SUFFICES ASSUME EnvInv, FlowsInv, [Next]_vars
             PROVE  FlowsInv'
  OBVIOUS
<1>1. CASE MakeFlows
  BY <1>1, MakeFlowsStep
<1>2. CASE UNCHANGED <<start, flows>>
  <2>1. Line' = Line /\ Bracketed' = Bracketed /\ \A n : Inside(n)' = Inside(n)
    BY <1>2 DEF Line, Bracketed, Inside, Marks
  <2> QED
    BY <1>2, <2>1 DEF FlowsInv
<1> QED
  BY <1>1, <1>2 DEF Next, Master, Worker, Ended, ReadCommandLine, ReadDocument, Define,
     Overrides, ParseSmall, NoCollateral, Divide, NoParts, Submit, ProcessSerially,
     MergePart, EndLarge, SignalAliases, RegisterAccess, LoadCfg, WorkerEnds, WorkerKilled, Stop,
     vars

(***************************************************************************)
(* What the command line says holds at every later point: the environment    *)
(* keeps the values given to it through both walks, the overrides of CFG     *)
(* stand from the moment they are made, and the flows get exactly the        *)
(* arguments between their marks - for any documents, any command line and   *)
(* any interleaving of the processes.                                        *)
(***************************************************************************)
THEOREM CommandLineStands == Spec => []CommandLineKept
<1>1. Init => FlowsInv
  BY DEF Init, FlowsInv, NoMap
<1>2. CfgInv /\ FlowsInv /\ [Next]_vars => FlowsInv'
  BY FlowsNext DEF CfgInv
<1>3. Spec => []FlowsInv
  BY <1>1, <1>2, CfgInvariant, PTL DEF Spec
<1>4. CfgInv /\ FlowsInv => CommandLineKept
  BY EnvHolds DEF CfgInv, FlowsInv, CommandLineKept, FlowsKeepArguments
<1> QED
  BY <1>3, <1>4, CfgInvariant, PTL

-----------------------------------------------------------------------------
(***************************************************************************)
(* The second walk over the documents.  Two environments, and two           *)
(* configurations, agree on what an expression, a filter or a setting reads. *)
(***************************************************************************)
SameAt(f, g, x) == (x \in DOMAIN f <=> x \in DOMAIN g) /\ (x \in DOMAIN f => f[x] = g[x])
SameOn(a, b, names) == \A x \in names : SameAt(a.env, b.env, x)
SameCalls(a, b, names) == \A x \in names : Called(x, a) = Called(x, b)

LEMMA ResolvedSame ==
  ASSUME NEW a, NEW b, NEW expr, IsExpression(expr), a.envOnly = b.envOnly,
         SameOn(a, b, NamesIn(expr, "env")), SameCalls(a, b, NamesIn(expr, "fun"))
  PROVE  /\ Unknown(expr, a) <=> Unknown(expr, b)
         /\ Resolved(expr, a) = Resolved(expr, b)
<1>1. ASSUME NEW i \in DOMAIN expr, expr[i].kind = "env"
      PROVE  SameAt(a.env, b.env, expr[i].s)
  BY <1>1 DEF SameOn, NamesIn
<1>2. ASSUME NEW i \in DOMAIN expr, expr[i].kind = "fun"
      PROVE  Called(expr[i].s, a) = Called(expr[i].s, b)
  BY <1>2 DEF SameCalls, NamesIn
<1>3. Unknown(expr, a) <=> Unknown(expr, b)
  BY <1>1 DEF Unknown, SameAt
<1>4. CASE Unknown(expr, a)
  BY <1>3, <1>4 DEF Resolved
<1>5. CASE ~Unknown(expr, a)
  <2> DEFINE fa == \E i \in DOMAIN expr : expr[i].kind = "fun" /\ Called(expr[i].s, a) = Bad
             fb == \E i \in DOMAIN expr : expr[i].kind = "fun" /\ Called(expr[i].s, b) = Bad
             ta == [i \in DOMAIN expr |-> Token(expr[i], a)]
             tb == [i \in DOMAIN expr |-> Token(expr[i], b)]
  <2>1. fa <=> fb
    BY <1>2
  <2>2. ASSUME NEW i \in DOMAIN expr PROVE Token(expr[i], a) = Token(expr[i], b)
    <3>1. CASE expr[i].kind = "text"
      BY <3>1 DEF Token
    <3>2. CASE expr[i].kind = "env"
      <4>1. expr[i].s \in DOMAIN a.env
        BY <1>5, <3>2 DEF Unknown
      <4>2. a.env[expr[i].s] = b.env[expr[i].s]
        BY <1>1, <3>2, <4>1 DEF SameAt
      <4> QED
        BY <3>2, <4>2 DEF Token
    <3>3. CASE expr[i].kind = "fun"
      BY <1>2, <3>3 DEF Token
    <3> QED
      BY <3>1, <3>2, <3>3 DEF IsExpression
  <2>3. ta = tb
    BY <2>2
  <2>4. Resolved(expr, a) = IF fa THEN Bad ELSE FlattenSeq(ta)
    BY <1>5 DEF Resolved
  <2>5. Resolved(expr, b) = IF fb THEN Bad ELSE FlattenSeq(tb)
    BY <1>3, <1>5 DEF Resolved
  <2> HIDE DEF fa, fb, ta, tb
  <2> QED
    BY <1>3, <2>1, <2>3, <2>4, <2>5
<1> QED
  BY <1>3, <1>4, <1>5

\* The functors of a are functors of b too.
FunctorsOf(a, b) == \A x \in DOMAIN a.functors : x \in DOMAIN b.functors
                                                 /\ a.functors[x] = b.functors[x]

LEMMA FilterSame ==
  ASSUME NEW a, NEW b, NEW f, SameOn(a, b, f.env \cup f.noEnv), FunctorsOf(a, b),
         Filter(f, a) # "error"
  PROVE  Filter(f, b) = Filter(f, a)
<1>1. EnvFilter(f, a) = EnvFilter(f, b)
  <2>1. \A x \in f.env : x \in DOMAIN a.env <=> x \in DOMAIN b.env
    BY DEF SameOn, SameAt
  <2>2. \A x \in f.env : x \in DOMAIN a.env => a.env[x] = b.env[x]
    BY DEF SameOn, SameAt
  <2>3. f.env \subseteq DOMAIN a.env <=> f.env \subseteq DOMAIN b.env
    BY <2>1
  <2>4. f.env \subseteq DOMAIN a.env =>
           ((\A n \in f.env : Matches(f.exp, a.env[n])) <=> \A n \in f.env : Matches(f.exp, b.env[n]))
    BY <2>2
  <2> QED
    BY <2>3, <2>4 DEF EnvFilter
<1>2. f.noEnv \cap DOMAIN a.env # {} <=> f.noEnv \cap DOMAIN b.env # {}
  BY DEF SameOn, SameAt
<1>3. FunctorFilter(f, a) # "error" => FunctorFilter(f, b) = FunctorFilter(f, a)
  <2>1. ASSUME f.functor \in DOMAIN a.functors
        PROVE  f.functor \in DOMAIN b.functors /\ Called(f.functor, a) = Called(f.functor, b)
    BY <2>1 DEF FunctorsOf, Called
  <2> QED
    BY <2>1 DEF FunctorFilter
<1> QED
  BY <1>1, <1>2, <1>3 DEF Filter

(***************************************************************************)
(* What a setting makes of a configuration that has not failed.             *)
(***************************************************************************)
LEMMA SourcedIs ==
  ASSUME NEW t, NEW node, NEW name, Config(t)
  PROVE  /\ Sourced(t, node, name).env = t.env
         /\ Sourced(t, node, name).functors = t.functors
         /\ Sourced(t, node, name).failed = t.failed
BY DEF Sourced, Config, NoConfig

Puts(t, u, name, v) == u.env = Put(t.env, name, v) /\ u.failed = t.failed
Leaves(t, u) == u.env = t.env /\ u.failed = t.failed

LEMMA SetIs ==
  ASSUME NEW t, NEW node, NEW set, Config(t), ~t.failed
  PROVE  LET u == Set(t, node, set)
             v == Resolved(set.value, t)
         IN  /\ u.functors = t.functors
             /\ set.name \in t.cmdEnv => Leaves(t, u)
             /\ set.name \notin t.cmdEnv =>
                  /\ Filter(node.filter, t) = "out" => Leaves(t, u)
                  /\ Filter(node.filter, t) = "in" => IF v = Bad THEN u.failed
                                                      ELSE Puts(t, u, set.name, v)
                  /\ Filter(node.filter, t) \notin {"in", "out"} => u.failed
             /\ u.failed \/ Leaves(t, u) \/ \E x : Puts(t, u, set.name, x)
<1> DEFINE u == Set(t, node, set)
           v == Resolved(set.value, t)
           after == [t EXCEPT !.env = Put(@, set.name, v)]
           admitted == IF v = Bad THEN Fail(t) ELSE Sourced(after, node, set.name)
           in == Filter(node.filter, t)
<1>1. u = IF set.name \in t.cmdEnv THEN Sourced(t, node, set.name)
          ELSE Filtered(t, node.filter, admitted)
  BY DEF Set
<1>2. /\ in = "in" => Filtered(t, node.filter, admitted) = admitted
      /\ in = "out" => Filtered(t, node.filter, admitted) = t
      /\ in \notin {"in", "out"} => Filtered(t, node.filter, admitted) = Fail(t)
  BY DEF Filtered
<1>3. Config(after) /\ after.env = Put(t.env, set.name, v) /\ after.failed = t.failed
      /\ after.functors = t.functors
  BY DEF Config, NoConfig
<1>4. Fail(t).failed = TRUE /\ Fail(t).functors = t.functors
  BY DEF Fail, Config, NoConfig
<1> HIDE DEF after, v, in
<1>5. v # Bad => Puts(t, admitted, set.name, v) /\ admitted.functors = t.functors
  BY <1>3, SourcedIs DEF Puts
<1>6. v = Bad => admitted = Fail(t)
  OBVIOUS
<1>7. Leaves(t, Sourced(t, node, set.name)) /\ Leaves(t, t)
      /\ Sourced(t, node, set.name).functors = t.functors
  BY SourcedIs DEF Leaves
<1> HIDE DEF admitted, u
<1>8. CASE set.name \in t.cmdEnv
  BY <1>1, <1>7, <1>8 DEF u
<1>9. CASE set.name \notin t.cmdEnv /\ in = "in"
  <2>1. u = admitted
    BY <1>1, <1>2, <1>9
  <2> QED
    BY <1>4, <1>5, <1>6, <1>9, <2>1 DEF u, v, in
<1>10. CASE set.name \notin t.cmdEnv /\ in = "out"
  BY <1>1, <1>2, <1>7, <1>10 DEF u, in
<1>11. CASE set.name \notin t.cmdEnv /\ in \notin {"in", "out"}
  BY <1>1, <1>2, <1>4, <1>11 DEF u, in
<1> QED
  BY <1>8, <1>9, <1>10, <1>11

\* A setting that reads the same does the same.
Alike(a, b) ==
    /\ Config(a) /\ Config(b)
    /\ a.cmdEnv = b.cmdEnv /\ a.envOnly = b.envOnly
    /\ ~a.failed /\ ~b.failed
    /\ FunctorsOf(a, b)

LEMMA SetSame ==
  ASSUME NEW a, NEW b, NEW s, Alike(a, b), IsExpression(s.set.value),
         SameOn(a, b, Reads(s)), SameCalls(a, b, NamesIn(s.set.value, "fun")),
         ~Set(a, s.node, s.set).failed
  PROVE  LET a1 == Set(a, s.node, s.set)
             b1 == Set(b, s.node, s.set)
         IN  /\ Alike(a1, b1)
             /\ a1.functors = a.functors /\ b1.functors = b.functors
             /\ \/ a1.env = a.env /\ b1.env = b.env
                \/ \E v : a1.env = Put(a.env, s.set.name, v) /\ b1.env = Put(b.env, s.set.name, v)
<1> DEFINE a1 == Set(a, s.node, s.set)
           b1 == Set(b, s.node, s.set)
           va == Resolved(s.set.value, a)
           vb == Resolved(s.set.value, b)
           fa == Filter(s.node.filter, a)
           fb == Filter(s.node.filter, b)
           name == s.set.name
<1>1. Config(a) /\ Config(b) /\ ~a.failed /\ ~b.failed /\ a.cmdEnv = b.cmdEnv /\ a.envOnly = b.envOnly
      /\ FunctorsOf(a, b)
  BY DEF Alike
<1>2. Sets(a, a1) /\ Sets(b, b1)
  BY <1>1, SetSets
<1>3. SameOn(a, b, NamesIn(s.set.value, "env"))
      /\ SameOn(a, b, s.node.filter.env \cup s.node.filter.noEnv)
  BY DEF SameOn, Reads
<1>4. va = vb
  BY <1>1, <1>3, ResolvedSame
<1>5. fa # "error" => fa = fb
  BY <1>1, <1>3, FilterSame
<1>6. /\ a1.functors = a.functors
      /\ name \in a.cmdEnv => Leaves(a, a1)
      /\ name \notin a.cmdEnv =>
           /\ fa = "out" => Leaves(a, a1)
           /\ fa = "in" => IF va = Bad THEN a1.failed ELSE Puts(a, a1, name, va)
           /\ fa \notin {"in", "out"} => a1.failed
  BY <1>1, SetIs
<1>7. /\ b1.functors = b.functors
      /\ name \in b.cmdEnv => Leaves(b, b1)
      /\ name \notin b.cmdEnv =>
           /\ fb = "out" => Leaves(b, b1)
           /\ fb = "in" => IF vb = Bad THEN b1.failed ELSE Puts(b, b1, name, vb)
  BY <1>1, SetIs
<1>8. ~a1.failed
  OBVIOUS
<1> HIDE DEF a1, b1, va, vb, fa, fb
<1>9. \/ Leaves(a, a1) /\ Leaves(b, b1)
      \/ \E v : Puts(a, a1, name, v) /\ Puts(b, b1, name, v)
  <2>1. CASE name \in a.cmdEnv
    BY <1>1, <1>6, <1>7, <2>1
  <2>2. CASE name \notin a.cmdEnv
    <3>1. fa \in {"in", "out"}
      BY <1>6, <1>8, <2>2
    <3>2. fa = fb
      BY <1>5, <3>1
    <3>3. CASE fa = "out"
      BY <1>1, <1>6, <1>7, <2>2, <3>2, <3>3
    <3>4. CASE fa = "in"
      <4>1. va # Bad /\ Puts(a, a1, name, va)
        BY <1>6, <1>8, <2>2, <3>4
      <4>2. Puts(b, b1, name, va)
        BY <1>1, <1>4, <1>7, <2>2, <3>2, <3>4, <4>1
      <4> QED
        BY <4>1, <4>2
    <3> QED
      BY <3>1, <3>3, <3>4
  <2> QED
    BY <2>1, <2>2
<1>10. ~b1.failed
  BY <1>1, <1>9 DEF Leaves, Puts
<1>11. Alike(a1, b1)
  BY <1>1, <1>2, <1>6, <1>7, <1>8, <1>10 DEF Alike, Sets, FunctorsOf
<1>12. \/ a1.env = a.env /\ b1.env = b.env
       \/ \E v : a1.env = Put(a.env, name, v) /\ b1.env = Put(b.env, name, v)
  BY <1>9 DEF Leaves, Puts
<1> QED
  BY <1>6, <1>7, <1>11, <1>12 DEF a1, b1

(***************************************************************************)
(* The settings of a document one after the other.  What none of a stretch   *)
(* of them sets is the same after it, and what has failed stays failed.      *)
(***************************************************************************)
LEMMA SameAtPut ==
  ASSUME NEW f, NEW g, NEW k, NEW v, NEW x
  PROVE  /\ x # k => SameAt(f, Put(f, k, v), x)
         /\ SameAt(f, g, x) => SameAt(Put(f, k, v), Put(g, k, v), x)
         /\ SameAt(Put(f, k, v), Put(g, k, v), k)
BY DEF SameAt, Put

LEMMA SetKeeps ==
  ASSUME NEW t, NEW s, Config(t)
  PROVE  LET u == Set(t, s.node, s.set)
         IN  /\ t.failed => u.failed
             /\ u.failed \/ \A x : x # s.set.name => SameAt(t.env, u.env, x)
<1>1. CASE t.failed
  <2>1. Set(t, s.node, s.set) = t
    BY <1>1 DEF Set
  <2> QED
    BY <1>1, <2>1
<1>2. CASE ~t.failed
  <2> DEFINE u == Set(t, s.node, s.set)
  <2>1. u.failed \/ Leaves(t, u) \/ \E v : Puts(t, u, s.set.name, v)
    BY <1>2, SetIs
  <2> HIDE DEF u
  <2>2. ASSUME Leaves(t, u), NEW x PROVE SameAt(t.env, u.env, x)
    BY <2>2 DEF Leaves, SameAt
  <2>3. ASSUME NEW v, Puts(t, u, s.set.name, v), NEW x, x # s.set.name
        PROVE  SameAt(t.env, u.env, x)
    BY <2>3, SameAtPut DEF Puts
  <2>4. u.failed \/ \A x : x # s.set.name => SameAt(t.env, u.env, x)
    BY <2>1, <2>2, <2>3
  <2> QED
    BY <1>2, <2>4 DEF u
<1> QED
  BY <1>1, <1>2

SetSteps(f, settings, m) ==
    \A j \in 1..m : f[j] = Set(f[j - 1], settings[j].node, settings[j].set)
KeptAlong(f, settings, m) == \A j \in 0..m :
    /\ Config(f[j]) /\ ~f[j].failed
    /\ f[j].cmdEnv = f[0].cmdEnv /\ f[j].envOnly = f[0].envOnly
    /\ f[j].functors = f[0].functors
    /\ \A x : (\A k \in j+1..m : settings[k].set.name # x) => SameAt(f[j].env, f[m].env, x)

LEMMA SettingsKeep ==
  ASSUME NEW m \in Nat, NEW settings, NEW f, Config(f[0]), SetSteps(f, settings, m),
         ~f[m].failed
  PROVE  KeptAlong(f, settings, m)
<1> USE DEF SetSteps
<1> DEFINE Shape(t) == Config(t) /\ t.cmdEnv = f[0].cmdEnv /\ t.envOnly = f[0].envOnly
           P == {j \in 0..m : Shape(f[j])}
<1>1. \A j \in 0..m : j \in P
  <2>1. 0 \in P
    OBVIOUS
  <2>2. ASSUME NEW j \in 1..m, j - 1 \in P PROVE j \in P
    <3>1. Sets(f[j - 1], f[j])
      BY <2>2, SetSets
    <3> QED
      BY <2>2, <3>1 DEF Sets
  <2> HIDE DEF P
  <2> QED
    BY <2>1, <2>2, Fn!BoundedInduction
<1>2. \A j \in 0..m : Shape(f[j])
  BY <1>1
<1>3. \A j \in 1..m : /\ f[j - 1].failed => f[j].failed
                      /\ f[j].failed \/ \A x : x # settings[j].set.name =>
                                                  SameAt(f[j - 1].env, f[j].env, x)
  <2> SUFFICES ASSUME NEW j \in 1..m
               PROVE  LET u == Set(f[j - 1], settings[j].node, settings[j].set)
                      IN  /\ f[j - 1].failed => u.failed
                          /\ u.failed \/ \A x : x # settings[j].set.name =>
                                                  SameAt(f[j - 1].env, u.env, x)
    OBVIOUS
  <2>1. Config(f[j - 1])
    BY <1>2
  <2> QED
    BY <2>1, SetKeeps
<1>4. \A j \in 0..m : ~f[j].failed
  <2> SUFFICES ASSUME NEW j \in 0..m, f[j].failed PROVE FALSE
    OBVIOUS
  <2> DEFINE Q == {i \in 0..m : i >= j => f[i].failed}
  <2>1. 0 \in Q
    OBVIOUS
  <2>2. ASSUME NEW i \in 1..m, i - 1 \in Q PROVE i \in Q
    BY <1>3, <2>2
  <2>3. \A i \in 0..m : i \in Q
    <3> HIDE DEF Q
    <3> QED
      BY <2>1, <2>2, Fn!BoundedInduction
  <2>4. m \in 0..m
    OBVIOUS
  <2> QED
    BY <2>3, <2>4
<1>5. \A j \in 0..m : f[j].functors = f[0].functors
  <2> DEFINE Q == {i \in 0..m : f[i].functors = f[0].functors}
  <2>1. 0 \in Q
    OBVIOUS
  <2>2. ASSUME NEW i \in 1..m, i - 1 \in Q PROVE i \in Q
    <3>1. Config(f[i - 1]) /\ ~f[i - 1].failed
      BY <1>2, <1>4
    <3>2. Set(f[i - 1], settings[i].node, settings[i].set).functors = f[i - 1].functors
      BY <3>1, SetIs
    <3> QED
      BY <2>2, <3>2
  <2> HIDE DEF Q
  <2>3. \A i \in 0..m : i \in Q
    BY <2>1, <2>2, Fn!BoundedInduction
  <2> QED
    BY <2>3 DEF Q
<1>6. ASSUME NEW j \in 0..m, NEW x, \A k \in j+1..m : settings[k].set.name # x
      PROVE  SameAt(f[j].env, f[m].env, x)
  <2> DEFINE Q == {i \in 0..m : i >= j => SameAt(f[j].env, f[i].env, x)}
  <2>1. 0 \in Q
    BY DEF SameAt
  <2>2. ASSUME NEW i \in 1..m, i - 1 \in Q PROVE i \in Q
    <3>1. CASE i >= j + 1
      <4>1. SameAt(f[j].env, f[i - 1].env, x)
        BY <2>2, <3>1
      <4>2. i \in j+1..m /\ settings[i].set.name # x
        BY <1>6, <3>1
      <4>3. i \in 0..m /\ ~f[i].failed
        BY <1>4
      <4>4. SameAt(f[i - 1].env, f[i].env, x)
        BY <1>3, <4>2, <4>3
      <4> QED
        BY <4>1, <4>4 DEF SameAt
    <3>2. CASE i = j
      BY <3>2 DEF SameAt
    <3>3. CASE i < j
      BY <3>3
    <3> QED
      BY <3>1, <3>2, <3>3
  <2>3. \A i \in 0..m : i \in Q
    <3> HIDE DEF Q
    <3> QED
      BY <2>1, <2>2, Fn!BoundedInduction
  <2>4. m \in 0..m
    OBVIOUS
  <2> QED
    BY <2>3, <2>4
<1> QED
  BY <1>2, <1>4, <1>5, <1>6 DEF KeptAlong

(***************************************************************************)
(* A second reading that begins between the first one and where the walk     *)
(* ended, w: at every name it has the one value or the other.                *)
(***************************************************************************)
Between(b, a, w) == \A x : SameAt(b, a, x) \/ SameAt(b, w, x)

LEMMA SettingsAgain ==
  ASSUME NEW m \in Nat, NEW settings, NEW f, NEW g, NEW w,
         Alike(f[0], g[0]), Between(g[0].env, f[0].env, w),
         SetSteps(f, settings, m), SetSteps(g, settings, m), ~f[m].failed,
         \A j \in 1..m :
            /\ IsExpression(settings[j].set.value)
            /\ SameCalls(f[0], g[0], NamesIn(settings[j].set.value, "fun"))
            /\ \A x \in Reads(settings[j]) : /\ SameAt(f[m].env, w, x)
                                             /\ \A k \in j..m : settings[k].set.name # x
  PROVE  /\ Alike(f[m], g[m]) /\ Between(g[m].env, f[m].env, w)
         /\ g[m].functors = g[0].functors
<1> DEFINE Good2(j) == /\ Alike(f[j], g[j]) /\ Between(g[j].env, f[j].env, w)
                       /\ f[j].functors = f[0].functors /\ g[j].functors = g[0].functors
           P == {j \in 0..m : Good2(j)}
<1>1. Config(f[0])
  BY DEF Alike
<1>2. \A j \in 0..m : /\ ~f[j].failed
                      /\ \A x : (\A k \in j+1..m : settings[k].set.name # x) =>
                                  SameAt(f[j].env, f[m].env, x)
  <2>1. KeptAlong(f, settings, m)
    BY <1>1, SettingsKeep
  <2> QED
    BY <2>1 DEF KeptAlong
<1>3. 0 \in P
  OBVIOUS
<1>4. ASSUME NEW j \in 1..m, j - 1 \in P PROVE j \in P
  <2> DEFINE a == f[j - 1]
             b == g[j - 1]
             s == settings[j]
  <2>1. Alike(a, b) /\ Between(b.env, a.env, w) /\ a.functors = f[0].functors
        /\ b.functors = g[0].functors
    BY <1>4
  <2>2. f[j] = Set(a, s.node, s.set) /\ g[j] = Set(b, s.node, s.set) /\ ~f[j].failed
    BY <1>2 DEF SetSteps
  <2>3. SameOn(a, b, Reads(s))
    <3> SUFFICES ASSUME NEW x \in Reads(s) PROVE SameAt(a.env, b.env, x)
      BY DEF SameOn
    <3>1. \A k \in (j-1)+1..m : settings[k].set.name # x
      OBVIOUS
    <3>2. j - 1 \in 0..m
      OBVIOUS
    <3>3. SameAt(a.env, f[m].env, x)
      BY <1>2, <3>1, <3>2
    <3>4. SameAt(f[m].env, w, x)
      OBVIOUS
    <3>5. SameAt(b.env, a.env, x) \/ SameAt(b.env, w, x)
      BY <2>1 DEF Between
    <3> QED
      BY <3>3, <3>4, <3>5 DEF SameAt
  <2>4. SameCalls(a, b, NamesIn(s.set.value, "fun"))
    <3>1. SameCalls(f[0], g[0], NamesIn(s.set.value, "fun"))
      OBVIOUS
    <3> QED
      BY <2>1, <3>1 DEF SameCalls, Called
  <2>5. IsExpression(s.set.value)
    OBVIOUS
  <2> HIDE DEF a, b, s
  <2>6. /\ Alike(f[j], g[j])
        /\ f[j].functors = a.functors /\ g[j].functors = b.functors
        /\ \/ f[j].env = a.env /\ g[j].env = b.env
           \/ \E v : f[j].env = Put(a.env, s.set.name, v) /\ g[j].env = Put(b.env, s.set.name, v)
    BY <2>1, <2>2, <2>3, <2>4, <2>5, SetSame
  <2>7. Between(g[j].env, f[j].env, w)
    <3>1. CASE f[j].env = a.env /\ g[j].env = b.env
      BY <2>1, <3>1
    <3>2. ASSUME NEW v, f[j].env = Put(a.env, s.set.name, v), g[j].env = Put(b.env, s.set.name, v)
          PROVE  Between(g[j].env, f[j].env, w)
      <4> SUFFICES ASSUME NEW x PROVE SameAt(g[j].env, f[j].env, x) \/ SameAt(g[j].env, w, x)
        BY DEF Between
      <4>1. CASE x = s.set.name
        BY <3>2, <4>1, SameAtPut
      <4>2. CASE x # s.set.name /\ SameAt(b.env, a.env, x)
        BY <3>2, <4>2, SameAtPut
      <4>3. CASE x # s.set.name /\ SameAt(b.env, w, x)
        <5>1. SameAt(b.env, Put(b.env, s.set.name, v), x)
          BY <4>3, SameAtPut
        <5> QED
          BY <3>2, <4>3, <5>1 DEF SameAt
      <4> QED
        BY <2>1, <4>1, <4>2, <4>3 DEF Between
    <3> QED
      BY <2>6, <3>1, <3>2
  <2>8. Good2(j)
    BY <2>1, <2>6, <2>7
  <2> HIDE DEF Good2
  <2> QED
    BY <2>8
<1>5. \A j \in 0..m : j \in P
  <2> HIDE DEF P
  <2> QED
    BY <1>3, <1>4, Fn!BoundedInduction
<1>6. m \in 0..m
  OBVIOUS
<1> QED
  BY <1>5, <1>6

(***************************************************************************)
(* The functors of a document: after them each has the path it was given,    *)
(* and to define them once more changes nothing.                            *)
(***************************************************************************)
NamesTo(fs, i) == {fs[k].name : k \in 1..i}
Defined(t, u, fs, i) ==
    /\ Config(u) /\ u.env = t.env /\ u.cmdEnv = t.cmdEnv /\ u.envOnly = t.envOnly
    /\ DOMAIN u.functors = DOMAIN t.functors \cup NamesTo(fs, i)
    /\ \A k \in 1..i : u.functors[fs[k].name] = fs[k].path
    /\ \A x \in DOMAIN t.functors : u.functors[x] = t.functors[x]

LEMMA FunctorsDefine ==
  ASSUME NEW n \in Nat, NEW fs, NEW f, Config(f[0]),
         \A i \in 1..n : f[i] = DefineFunctorIn(0, 0, f[i - 1], fs[i]),
         ~f[n].failed
  PROVE  Defined(f[0], f[n], fs, n) /\ ~f[0].failed
<1> DEFINE P == {i \in 0..n : f[i].failed \/ (Defined(f[0], f[i], fs, i) /\ ~f[0].failed)}
<1>1. 0 \in P
  <2>1. DOMAIN f[0].functors = DOMAIN f[0].functors \cup NamesTo(fs, 0)
    BY DEF NamesTo
  <2>2. Defined(f[0], f[0], fs, 0)
    BY <2>1 DEF Defined
  <2> QED
    BY <2>2
<1>2. ASSUME NEW i \in 1..n, i - 1 \in P PROVE i \in P
  <2> DEFINE t == f[i - 1]
             name == fs[i].name
             path == fs[i].path
  <2>1. CASE t.failed
    <3>1. f[i] = t
      BY <2>1 DEF DefineFunctorIn
    <3> QED
      BY <2>1, <3>1
  <2>2. CASE ~t.failed /\ name \in DOMAIN t.functors /\ t.functors[name] # path
    <3>1. f[i] = Fail(t)
      BY <2>2 DEF DefineFunctorIn, DefineFunctor
    <3>2. Config(t)
      BY <1>2, <2>2 DEF Defined
    <3>3. Fail(t).failed = TRUE
      BY <3>2, FailIs
    <3> QED
      BY <3>1, <3>3
  <2>3. CASE ~t.failed /\ ~(name \in DOMAIN t.functors /\ t.functors[name] # path)
    <3>1. f[i] = [t EXCEPT !.functors = Put(@, name, path)]
      BY <2>3 DEF DefineFunctorIn, DefineFunctor
    <3>2. Defined(f[0], t, fs, i - 1) /\ ~f[0].failed
      BY <1>2, <2>3
    <3>3. /\ Config(f[i]) /\ f[i].env = t.env /\ f[i].cmdEnv = t.cmdEnv /\ f[i].envOnly = t.envOnly
          /\ f[i].functors = Put(t.functors, name, path)
      BY <3>1, <3>2 DEF Defined, Config, NoConfig
    <3>4. NamesTo(fs, i) = NamesTo(fs, i - 1) \cup {name}
      BY DEF NamesTo
    <3>5. DOMAIN f[i].functors = DOMAIN f[0].functors \cup NamesTo(fs, i)
      BY <3>2, <3>3, <3>4 DEF Defined, Put
    <3>6. \A x \in DOMAIN t.functors : f[i].functors[x] = t.functors[x]
      BY <2>3, <3>3 DEF Put
    <3>7. f[i].functors[name] = path
      BY <3>3 DEF Put
    <3>8. ASSUME NEW k \in 1..i PROVE f[i].functors[fs[k].name] = fs[k].path
      <4>1. CASE k = i
        BY <3>7, <4>1
      <4>2. CASE k # i
        <5>1. k \in 1..i-1
          BY <4>2
        <5>2. fs[k].name \in DOMAIN t.functors /\ t.functors[fs[k].name] = fs[k].path
          BY <3>2, <5>1 DEF Defined, NamesTo
        <5> QED
          BY <3>6, <5>2
      <4> QED
        BY <4>1, <4>2
    <3>9. \A x \in DOMAIN f[0].functors : f[i].functors[x] = f[0].functors[x]
      BY <3>2, <3>6 DEF Defined
    <3> HIDE DEF t, name, path
    <3>10. Defined(f[0], f[i], fs, i)
      BY <3>2, <3>3, <3>5, <3>8, <3>9 DEF Defined
    <3> QED
      BY <3>2, <3>10
  <2> QED
    BY <2>1, <2>2, <2>3
<1>3. \A i \in 0..n : i \in P
  <2> HIDE DEF P
  <2> QED
    BY <1>1, <1>2, Ff!BoundedInduction
<1>4. n \in 0..n
  OBVIOUS
<1> QED
  BY <1>3, <1>4

Redefined(t, u) ==
    /\ Config(u) /\ u.env = t.env /\ u.cmdEnv = t.cmdEnv /\ u.envOnly = t.envOnly
    /\ ~u.failed
    /\ \A x : SameAt(t.functors, u.functors, x)

LEMMA FunctorsAgain ==
  ASSUME NEW n \in Nat, NEW fs, NEW g, Config(g[0]), ~g[0].failed,
         \A i \in 1..n : g[i] = DefineFunctorIn(0, 0, g[i - 1], fs[i]),
         \A i \in 1..n : fs[i].name \in DOMAIN g[0].functors
                         /\ g[0].functors[fs[i].name] = fs[i].path
  PROVE  Redefined(g[0], g[n])
<1> DEFINE P == {i \in 0..n : Redefined(g[0], g[i])}
<1>1. 0 \in P
  BY DEF Redefined, SameAt
<1>2. ASSUME NEW i \in 1..n, i - 1 \in P PROVE i \in P
  <2> DEFINE t == g[i - 1]
             name == fs[i].name
             path == fs[i].path
  <2>1. Redefined(g[0], t)
    BY <1>2
  <2>2. name \in DOMAIN t.functors /\ t.functors[name] = path
    BY <2>1 DEF Redefined, SameAt
  <2>3. g[i] = [t EXCEPT !.functors = Put(@, name, path)]
    BY <2>1, <2>2 DEF DefineFunctorIn, DefineFunctor, Redefined
  <2>4. /\ Config(g[i]) /\ g[i].env = t.env /\ g[i].cmdEnv = t.cmdEnv /\ g[i].envOnly = t.envOnly
        /\ g[i].functors = Put(t.functors, name, path) /\ g[i].failed = t.failed
    BY <2>1, <2>3 DEF Redefined, Config, NoConfig
  <2>5. \A x : SameAt(t.functors, Put(t.functors, name, path), x)
    BY <2>2 DEF SameAt, Put
  <2> HIDE DEF t, name, path
  <2>6. ASSUME NEW x PROVE SameAt(g[0].functors, g[i].functors, x)
    <3>1. SameAt(g[0].functors, t.functors, x)
      BY <2>1 DEF Redefined
    <3>2. SameAt(t.functors, g[i].functors, x)
      BY <2>4, <2>5
    <3> QED
      BY <3>1, <3>2 DEF SameAt
  <2>7. Redefined(g[0], g[i])
    BY <2>1, <2>4, <2>6 DEF Redefined
  <2> QED
    BY <2>7
<1>3. \A i \in 0..n : i \in P
  <2> HIDE DEF P
  <2> QED
    BY <1>1, <1>2, Ff!BoundedInduction
<1>4. n \in 0..n
  OBVIOUS
<1> QED
  BY <1>3, <1>4

(***************************************************************************)
(* A document as the steps of its two folds.                                *)
(***************************************************************************)
LEMMA DocumentSteps ==
  ASSUME NEW name \in DOMAIN Documents
  PROVE  LET doc == Documents[name]
             fs == doc.functors
             ss == Settings(doc)
         IN  /\ Len(fs) \in Nat /\ DOMAIN fs = 1..Len(fs)
             /\ Len(ss) \in Nat /\ DOMAIN ss = 1..Len(ss)
             /\ \A j \in 1..Len(ss) : IsExpression(ss[j].set.value)
             /\ \A t : \E d, f :
                  /\ d[0] = t
                  /\ \A i \in 1..Len(fs) : d[i] = DefineFunctorIn(0, 0, d[i - 1], fs[i])
                  /\ f[0] = d[Len(fs)]
                  /\ SetSteps(f, ss, Len(ss))
                  /\ f[Len(ss)] = Prepared(t, doc)
<1> DEFINE doc == Documents[name]
           fs == doc.functors
           ss == Settings(doc)
<1>1. IsSequence(fs) /\ \A i \in DOMAIN doc.setenvs : \A k \in DOMAIN doc.setenvs[i].sets :
                           IsExpression(doc.setenvs[i].sets[k].value)
  <2>1. "functors" \in DOMAIN doc
    BY DocumentAssumption DEF NoDocument
  <2> QED
    BY <2>1, DocumentAssumption
<1>2. Len(fs) \in Nat /\ DOMAIN fs = 1..Len(fs)
  BY <1>1 DEF IsSequence
<1>3. ss \in Seq(SettingsOf(doc))
  BY SettingsType
<1>4. ASSUME NEW s \in SettingsOf(doc) PROVE IsExpression(s.set.value)
  <2>1. PICK i \in DOMAIN doc.setenvs : s \in Range(Singly(doc.setenvs[i]))
    BY DEF SettingsOf, Range
  <2>2. PICK k \in DOMAIN doc.setenvs[i].sets : s = [node |-> doc.setenvs[i], set |-> doc.setenvs[i].sets[k]]
    BY <2>1 DEF Singly, Range
  <2>3. s.set = doc.setenvs[i].sets[k]
    BY <2>2
  <2> QED
    BY <1>1, <2>3
<1> HIDE DEF doc, fs, ss
<1>5. Len(ss) \in Nat /\ DOMAIN ss = 1..Len(ss)
  BY <1>3
<1>6. \A j \in 1..Len(ss) : IsExpression(ss[j].set.value)
  BY <1>3, <1>4, <1>5
<1>7. ASSUME NEW t
      PROVE  \E d, f :
                  /\ d[0] = t
                  /\ \A i \in 1..Len(fs) : d[i] = DefineFunctorIn(0, 0, d[i - 1], fs[i])
                  /\ f[0] = d[Len(fs)]
                  /\ SetSteps(f, ss, Len(ss))
                  /\ f[Len(ss)] = Prepared(t, doc)
  <2>1. PICK d : Ff!Steps(d, 0, 0, t, fs, Len(fs)) /\ Ff!Fold(0, 0, t, fs) = d[Len(fs)]
    BY <1>2, Ff!FoldSteps
  <2> DEFINE u == d[Len(fs)]
  <2>2. PICK f : Fn!Steps(f, 0, 0, u, ss, Len(ss)) /\ Fn!Fold(0, 0, u, ss) = f[Len(ss)]
    BY <1>5, Fn!FoldSteps
  <2>3. Prepared(t, doc) = f[Len(ss)]
    BY <2>1, <2>2, PreparedIs DEF fs, ss
  <2>4. d[0] = t /\ \A i \in 1..Len(fs) : d[i] = DefineFunctorIn(0, 0, d[i - 1], fs[i])
    BY <2>1 DEF Ff!Steps
  <2>5. f[0] = u /\ SetSteps(f, ss, Len(ss))
    BY <2>2 DEF Fn!Steps, SetIn, SetSteps
  <2> QED
    BY <2>3, <2>4, <2>5
<1> QED
  BY <1>2, <1>5, <1>6, <1>7 DEF doc, fs, ss

\* What a document leaves as it is.
LEMMA DocumentKeeps ==
  ASSUME NEW name \in DOMAIN Documents, NEW t, Config(t), ~Prepared(t, Documents[name]).failed
  PROVE  LET doc == Documents[name]
             u == Prepared(t, doc)
         IN  /\ ~t.failed
             /\ DOMAIN u.functors = DOMAIN t.functors \cup Functors(doc)
             /\ FunctorsOf(t, u)
             /\ \A x : x \notin SetFrom(Settings(doc), 1) => SameAt(t.env, u.env, x)
<1> DEFINE doc == Documents[name]
           fs == doc.functors
           ss == Settings(doc)
           n == Len(fs)
           m == Len(ss)
           u == Prepared(t, doc)
<1>1. n \in Nat /\ DOMAIN fs = 1..n /\ m \in Nat /\ DOMAIN ss = 1..m
  BY DocumentSteps
<1>2. PICK d, f :
        /\ d[0] = t
        /\ \A i \in 1..n : d[i] = DefineFunctorIn(0, 0, d[i - 1], fs[i])
        /\ f[0] = d[n]
        /\ SetSteps(f, ss, m)
        /\ f[m] = u
  BY DocumentSteps
<1>3. Functors(doc) = NamesTo(fs, n)
  BY <1>1 DEF Functors, NamesTo
<1>4. ~u.failed
  OBVIOUS
<1>5. SetFrom(ss, 1) = {ss[k].set.name : k \in 1..m}
  BY DEF SetFrom
<1> HIDE DEF doc, fs, ss, n, m, u
<1>6. Sets(t, f[0])
  <2>1. \A i \in 1..n : \A x : Sets(t, x) => Sets(t, DefineFunctorIn(0, 0, x, fs[i]))
    <3> SUFFICES ASSUME NEW i \in 1..n, NEW x, Sets(t, x)
                 PROVE  Sets(t, DefineFunctorIn(0, 0, x, fs[i]))
      OBVIOUS
    <3>1. Sets(x, DefineFunctor(x, fs[i]))
      BY DefineFunctorSets DEF Sets
    <3>2. Sets(t, DefineFunctor(x, fs[i]))
      BY <3>1, SetsAgain
    <3> QED
      BY <3>2 DEF DefineFunctorIn
  <2> DEFINE P == {i \in 0..n : Sets(t, d[i])}
  <2>2. 0 \in P
    <3>1. Sets(t, t)
      BY FailIs
    <3>2. d[0] = t
      BY <1>2
    <3>3. 0 \in 0..n
      BY <1>1
    <3> QED
      BY <3>1, <3>2, <3>3
  <2>3. ASSUME NEW i \in 1..n, i - 1 \in P PROVE i \in P
    BY <1>1, <1>2, <2>1, <2>3
  <2>4. \A i \in 0..n : i \in P
    <3> HIDE DEF P
    <3> QED
      BY <1>1, <2>2, <2>3, Ff!BoundedInduction
  <2>5. n \in 0..n
    BY <1>1
  <2> QED
    BY <1>2, <2>4, <2>5
<1>7. Config(f[0])
  BY <1>6 DEF Sets
<1>8. KeptAlong(f, ss, m)
  <2>1. SetSteps(f, ss, m)
    BY <1>2
  <2>2. ~f[m].failed
    BY <1>2, <1>4
  <2>3. m \in Nat
    BY <1>1
  <2> QED
    BY <1>7, <2>1, <2>2, <2>3, SettingsKeep
<1>9. 0 \in 0..m /\ m \in 0..m
  BY <1>1
<1>10. ~d[n].failed
  BY <1>2, <1>8, <1>9 DEF KeptAlong
<1>11. Defined(t, d[n], fs, n) /\ ~t.failed
  <2>1. Config(d[0])
    BY <1>2
  <2>2. \A i \in 1..n : d[i] = DefineFunctorIn(0, 0, d[i - 1], fs[i])
    BY <1>2
  <2> QED
    BY <1>1, <1>2, <1>10, <2>1, <2>2, FunctorsDefine
<1>12. u.functors = d[n].functors
  BY <1>2, <1>8, <1>9 DEF KeptAlong
<1>13. DOMAIN u.functors = DOMAIN t.functors \cup Functors(doc) /\ FunctorsOf(t, u)
  BY <1>3, <1>11, <1>12 DEF Defined, FunctorsOf
<1>14. ASSUME NEW x, x \notin SetFrom(ss, 1) PROVE SameAt(t.env, u.env, x)
  <2>1. \A k \in 0+1..m : ss[k].set.name # x
    BY <1>5, <1>14
  <2>2. SameAt(f[0].env, f[m].env, x)
    BY <1>8, <1>9, <2>1 DEF KeptAlong
  <2> QED
    BY <1>2, <1>11, <2>2 DEF Defined
<1> QED
  BY <1>11, <1>13, <1>14 DEF doc, ss, u

(***************************************************************************)
(* A document read again, by a process that has all the functors it had when *)
(* the document was read first: what it reads of the environment is the      *)
(* same, so it does the same.                                               *)
(***************************************************************************)
ReadsSame(doc, a, b, w) ==
    LET ss == Settings(doc)
        u == Prepared(a, doc)
    IN  /\ FunctorsOf(u, b)
        /\ \A x \in Calls(doc) : x \in DOMAIN b.functors => x \in DOMAIN u.functors
        /\ \A j \in DOMAIN ss : \A x \in Reads(ss[j]) :
              x \notin SetFrom(ss, j) /\ SameAt(u.env, w, x)

LEMMA DocumentAgain ==
  ASSUME NEW name \in DOMAIN Documents, NEW a, NEW b, NEW w,
         Config(a), Config(b), a.cmdEnv = b.cmdEnv, a.envOnly = b.envOnly,
         ~b.failed, Between(b.env, a.env, w),
         ~Prepared(a, Documents[name]).failed, ReadsSame(Documents[name], a, b, w)
  PROVE  LET a1 == Prepared(a, Documents[name])
             b1 == Prepared(b, Documents[name])
         IN  /\ Config(a1) /\ Config(b1) /\ a1.cmdEnv = b1.cmdEnv /\ a1.envOnly = b1.envOnly
             /\ ~b1.failed
             /\ Between(b1.env, a1.env, w)
             /\ \A x : SameAt(b.functors, b1.functors, x)
<1> DEFINE doc == Documents[name]
           fs == doc.functors
           ss == Settings(doc)
           n == Len(fs)
           m == Len(ss)
           a1 == Prepared(a, doc)
           b1 == Prepared(b, doc)
<1>1. /\ n \in Nat /\ DOMAIN fs = 1..n /\ m \in Nat /\ DOMAIN ss = 1..m
      /\ \A j \in 1..m : IsExpression(ss[j].set.value)
  BY DocumentSteps
<1>2. PICK d, f :
        /\ d[0] = a
        /\ \A i \in 1..n : d[i] = DefineFunctorIn(0, 0, d[i - 1], fs[i])
        /\ f[0] = d[n]
        /\ SetSteps(f, ss, m)
        /\ f[m] = a1
  BY DocumentSteps
<1>3. PICK e, g :
        /\ e[0] = b
        /\ \A i \in 1..n : e[i] = DefineFunctorIn(0, 0, e[i - 1], fs[i])
        /\ g[0] = e[n]
        /\ SetSteps(g, ss, m)
        /\ g[m] = b1
  BY DocumentSteps
<1>4. Sets(a, a1) /\ Sets(b, b1)
  BY PreparedSets
<1>5. ~a1.failed
  OBVIOUS
<1>6. /\ FunctorsOf(a1, b)
      /\ \A x \in Calls(doc) : x \in DOMAIN b.functors => x \in DOMAIN a1.functors
      /\ \A j \in 1..m : \A x \in Reads(ss[j]) : x \notin SetFrom(ss, j) /\ SameAt(a1.env, w, x)
  BY <1>1 DEF ReadsSame
<1>7. \A j \in 1..m : NamesIn(ss[j].set.value, "fun") \subseteq Calls(doc)
  BY <1>1 DEF Calls
<1>8. \A j \in 1..m : SetFrom(ss, j) = {ss[k].set.name : k \in j..m}
  BY DEF SetFrom
<1> HIDE DEF doc, fs, ss, n, m, a1, b1
\* The first reading of the functors.
<1>9. Config(f[0])
  <2> DEFINE P == {i \in 0..n : Config(d[i])}
  <2>1. 0 \in P
    <3>1. 0 \in 0..n
      BY <1>1
    <3>2. Config(d[0])
      BY <1>2
    <3> QED
      BY <3>1, <3>2
  <2>2. ASSUME NEW i \in 1..n, i - 1 \in P PROVE i \in P
    <3>1. Config(d[i - 1])
      BY <2>2
    <3>2. Config(DefineFunctor(d[i - 1], fs[i]))
      BY <3>1, DefineFunctorSets DEF Sets
    <3>3. d[i] = DefineFunctorIn(0, 0, d[i - 1], fs[i])
      BY <1>2
    <3>4. Config(d[i])
      BY <3>1, <3>2, <3>3 DEF DefineFunctorIn
    <3> QED
      BY <1>1, <3>4
  <2>3. \A i \in 0..n : i \in P
    <3> HIDE DEF P
    <3> QED
      BY <1>1, <2>1, <2>2, Ff!BoundedInduction
  <2>4. n \in 0..n
    BY <1>1
  <2> QED
    BY <1>2, <2>3, <2>4
<1>10. KeptAlong(f, ss, m)
  <2>1. m \in Nat
    BY <1>1
  <2>2. SetSteps(f, ss, m)
    BY <1>2
  <2>3. ~f[m].failed
    BY <1>2, <1>5
  <2> QED
    BY <1>9, <2>1, <2>2, <2>3, SettingsKeep
<1>11. ~f[0].failed /\ f[0].functors = a1.functors
  <2>1. 0 \in 0..m /\ m \in 0..m
    BY <1>1
  <2> QED
    BY <1>2, <1>10, <2>1 DEF KeptAlong
<1>12. Defined(a, d[n], fs, n)
  <2>1. Config(d[0])
    BY <1>2
  <2>2. \A i \in 1..n : d[i] = DefineFunctorIn(0, 0, d[i - 1], fs[i])
    BY <1>2
  <2>3. ~d[n].failed
    BY <1>2, <1>11
  <2> QED
    BY <1>1, <1>2, <2>1, <2>2, <2>3, FunctorsDefine
\* The second one.
<1>13. Redefined(b, e[n])
  <2>1. \A i \in 1..n : e[i] = DefineFunctorIn(0, 0, e[i - 1], fs[i])
    BY <1>3
  <2>2. e[0] = b
    BY <1>3
  <2>3. Config(e[0]) /\ ~e[0].failed
    BY <2>2
  <2>4. ASSUME NEW i \in 1..n
        PROVE  fs[i].name \in DOMAIN e[0].functors /\ e[0].functors[fs[i].name] = fs[i].path
    <3>1. fs[i].name \in DOMAIN d[n].functors /\ d[n].functors[fs[i].name] = fs[i].path
      BY <1>12 DEF Defined, NamesTo
    <3>2. d[n].functors = a1.functors
      BY <1>2, <1>11
    <3> QED
      BY <1>6, <2>2, <3>1, <3>2 DEF FunctorsOf
  <2>5. Redefined(e[0], e[n])
    BY <1>1, <2>1, <2>3, <2>4, FunctorsAgain
  <2> QED
    BY <2>2, <2>5
\* The settings.
<1>14. Alike(f[0], g[0])
  <2>1. f[0].cmdEnv = a.cmdEnv /\ f[0].envOnly = a.envOnly
    BY <1>2, <1>12 DEF Defined
  <2>2. /\ Config(g[0]) /\ ~g[0].failed /\ g[0].cmdEnv = b.cmdEnv /\ g[0].envOnly = b.envOnly
        /\ \A x : SameAt(b.functors, g[0].functors, x)
    BY <1>3, <1>13 DEF Redefined
  <2>3. FunctorsOf(f[0], g[0])
    BY <1>6, <1>11, <2>2 DEF FunctorsOf, SameAt
  <2> QED
    BY <1>9, <1>11, <2>1, <2>2, <2>3 DEF Alike
<1>15. Between(g[0].env, f[0].env, w)
  <2>1. f[0].env = a.env
    BY <1>2, <1>12 DEF Defined
  <2>2. g[0].env = b.env
    BY <1>3, <1>13 DEF Redefined
  <2> QED
    BY <2>1, <2>2
<1>16. ASSUME NEW j \in 1..m
       PROVE  SameCalls(f[0], g[0], NamesIn(ss[j].set.value, "fun"))
  <2> SUFFICES ASSUME NEW x \in Calls(doc) PROVE Called(x, f[0]) = Called(x, g[0])
    BY <1>7 DEF SameCalls
  <2>1. SameAt(b.functors, g[0].functors, x)
    BY <1>3, <1>13 DEF Redefined
  <2>2. x \in DOMAIN g[0].functors => x \in DOMAIN f[0].functors
    BY <1>6, <1>11, <2>1 DEF SameAt
  <2>3. x \in DOMAIN f[0].functors => x \in DOMAIN g[0].functors /\ f[0].functors[x] = g[0].functors[x]
    BY <1>14 DEF Alike, FunctorsOf
  <2> QED
    BY <2>2, <2>3 DEF Called
<1>17. /\ Alike(f[m], g[m]) /\ Between(g[m].env, f[m].env, w)
       /\ g[m].functors = g[0].functors
  <2>1. m \in Nat
    BY <1>1
  <2>2. SetSteps(f, ss, m) /\ SetSteps(g, ss, m) /\ ~f[m].failed
    BY <1>2, <1>3, <1>5
  <2>3. ASSUME NEW j \in 1..m
        PROVE  /\ IsExpression(ss[j].set.value)
               /\ SameCalls(f[0], g[0], NamesIn(ss[j].set.value, "fun"))
               /\ \A x \in Reads(ss[j]) : /\ SameAt(f[m].env, w, x)
                                          /\ \A k \in j..m : ss[k].set.name # x
    <3>1. \A x \in Reads(ss[j]) : SameAt(f[m].env, w, x)
      BY <1>2, <1>6
    <3>2. \A x \in Reads(ss[j]) : \A k \in j..m : ss[k].set.name # x
      BY <1>6, <1>8
    <3> QED
      BY <1>1, <1>16, <3>1, <3>2
  <2> QED
    BY <1>14, <1>15, <2>1, <2>2, <2>3, SettingsAgain
<1>18. Alike(a1, b1) /\ Between(b1.env, a1.env, w)
  BY <1>2, <1>3, <1>17
<1>19. ASSUME NEW x PROVE SameAt(b.functors, b1.functors, x)
  <2>1. SameAt(b.functors, g[0].functors, x)
    BY <1>3, <1>13 DEF Redefined
  <2> QED
    BY <1>3, <1>17, <2>1
<1> QED
  BY <1>18, <1>19 DEF Alike, a1, b1, doc

(***************************************************************************)
(* The imports of a document depend on the names that stand in them alone.   *)
(***************************************************************************)
LEMMA ImportsAgain ==
  ASSUME NEW name \in DOMAIN Documents, NEW a, NEW b, Config(a), Config(b),
         a.envOnly = b.envOnly, SameOn(a, b, ImportReads(Documents[name]))
  PROVE  LET doc == Documents[name]
         IN  /\ ImportsExist(a, doc) <=> ImportsExist(b, doc)
             /\ ImportedFiles(a, doc) = ImportedFiles(b, doc)
<1> DEFINE doc == Documents[name]
           is == doc.imports
<1>1. IsSequence(is) /\ \A i \in DOMAIN is : IsExpression(is[i].file)
  <2>1. "imports" \in DOMAIN doc
    BY DocumentAssumption DEF NoDocument
  <2> QED
    BY <2>1, DocumentAssumption
<1>2. ASSUME NEW i \in DOMAIN is
      PROVE  /\ IsLoaded(is[i], a) <=> IsLoaded(is[i], b)
             /\ FileOf(is[i].file, a) = FileOf(is[i].file, b)
  <2> DEFINE expr == is[i].file
  <2>1. SameOn(a, b, NamesIn(expr, "env"))
    BY <1>2 DEF SameOn, ImportReads
  <2>2. IsExpression(expr)
    BY <1>1, <1>2
  <2>3. ASSUME NEW x, expr = <<[kind |-> "env", s |-> x]>>
        PROVE  x \in DOMAIN a.env <=> x \in DOMAIN b.env
    <3>1. x \in NamesIn(expr, "env")
      BY <2>3 DEF NamesIn
    <3> QED
      BY <2>1, <3>1 DEF SameOn, SameAt
  <2>4. IsLoaded(is[i], a) <=> IsLoaded(is[i], b)
    BY <2>3 DEF IsLoaded
  <2> HIDE DEF expr
  <2> DEFINE a0 == [a EXCEPT !.functors = NoMap]
             b0 == [b EXCEPT !.functors = NoMap]
  <2>5. /\ a0.env = a.env /\ b0.env = b.env /\ a0.envOnly = a.envOnly /\ b0.envOnly = b.envOnly
        /\ a0.functors = NoMap /\ b0.functors = NoMap
    BY DEF Config, NoConfig
  <2>6. FileOf(expr, a) = IF Unknown(expr, a) THEN Bad ELSE Resolved(expr, a0)
    BY DEF FileOf
  <2>7. FileOf(expr, b) = IF Unknown(expr, b) THEN Bad ELSE Resolved(expr, b0)
    BY DEF FileOf
  <2> HIDE DEF a0, b0
  <2>8. SameOn(a0, b0, NamesIn(expr, "env"))
    BY <2>1, <2>5 DEF SameOn
  <2>9. SameCalls(a0, b0, NamesIn(expr, "fun"))
    BY <2>5 DEF SameCalls, Called, NoMap
  <2>10. Resolved(expr, a0) = Resolved(expr, b0) /\ (Unknown(expr, a0) <=> Unknown(expr, b0))
    BY <2>2, <2>5, <2>8, <2>9, ResolvedSame
  <2>11. (Unknown(expr, a) <=> Unknown(expr, a0)) /\ (Unknown(expr, b) <=> Unknown(expr, b0))
    BY <2>5 DEF Unknown
  <2> QED
    BY <2>4, <2>6, <2>7, <2>10, <2>11 DEF expr
<1>3. ImportsExist(a, doc) <=> ImportsExist(b, doc)
  BY <1>2 DEF ImportsExist
<1>4. ImportedFiles(a, doc) = Fi!Fold(a, 0, <<>>, is) /\ ImportedFiles(b, doc) = Fi!Fold(b, 0, <<>>, is)
  BY DEF ImportedFiles, ImportIn, FoldLeft, MapThenFoldSet, Max, Fi!Fold, Fi!Top
<1> HIDE DEF doc, is
<1>5. Len(is) \in Nat /\ DOMAIN is = 1..Len(is)
  BY <1>1 DEF IsSequence
<1> DEFINE n == Len(is)
<1>6. PICK f : Fi!Steps(f, a, 0, <<>>, is, n) /\ Fi!Fold(a, 0, <<>>, is) = f[n]
  BY <1>5, Fi!FoldSteps
<1>7. PICK g : Fi!Steps(g, b, 0, <<>>, is, n) /\ Fi!Fold(b, 0, <<>>, is) = g[n]
  BY <1>5, Fi!FoldSteps
<1> HIDE DEF n
<1>8. n \in Nat /\ DOMAIN is = 1..n
  BY <1>5 DEF n
<1>9. f[n] = g[n]
  <2> DEFINE P == {i \in 0..n : f[i] = g[i]}
  <2>1. 0 \in P
    <3>1. 0 \in 0..n
      BY <1>8
    <3>2. f[0] = <<>> /\ g[0] = <<>>
      BY <1>6, <1>7 DEF Fi!Steps
    <3> QED
      BY <3>1, <3>2
  <2>2. ASSUME NEW i \in 1..n, i - 1 \in P PROVE i \in P
    <3>1. f[i - 1] = g[i - 1]
      BY <2>2
    <3>2. f[i] = ImportIn(a, 0, f[i - 1], is[i])
      BY <1>6 DEF Fi!Steps
    <3>3. g[i] = ImportIn(b, 0, g[i - 1], is[i])
      BY <1>7 DEF Fi!Steps
    <3>4. i \in DOMAIN is /\ i \in 0..n
      BY <1>8
    <3>5. f[i] = g[i]
      BY <1>2, <3>1, <3>2, <3>3, <3>4 DEF ImportIn
    <3> QED
      BY <3>4, <3>5
  <2>3. \A i \in 0..n : i \in P
    <3> HIDE DEF P
    <3> QED
      BY <1>8, <2>1, <2>2, Fi!BoundedInduction
  <2>4. n \in 0..n
    BY <1>8
  <2> QED
    BY <2>3, <2>4
<1> QED
  BY <1>3, <1>4, <1>6, <1>7, <1>9 DEF doc

(***************************************************************************)
(* The history of a walk: the configuration and the documents still to be    *)
(* read, before the first document and after each.                          *)
(***************************************************************************)
At(t, r, q) == [te |-> t, roots |-> r, queue |-> q]

WalkStep(s, name, u) ==
    LET doc == Documents[name]
    IN  /\ s.queue # <<>> \/ s.roots # <<>>
        /\ name = IF s.queue # <<>> THEN Head(s.queue) ELSE Head(s.roots)
        /\ u.te = Prepared(s.te, doc) /\ ~u.te.failed /\ ImportsExist(u.te, doc)
        /\ u.queue = (IF s.queue # <<>> THEN Tail(s.queue) ELSE <<>>) \o ImportedFiles(u.te, doc)
        /\ u.roots = IF s.queue # <<>> THEN s.roots ELSE Tail(s.roots)

IsHistory(h, read, first) ==
    /\ read \in Seq(DOMAIN Documents)
    /\ h[0].queue = <<>> /\ h[0].roots = first
    /\ Config(h[0].te) /\ h[0].te.functors = NoMap /\ ~h[0].te.failed
    /\ \A i \in 1..Len(read) : WalkStep(h[i - 1], read[i], h[i])

LEMMA HistoryGrows ==
  ASSUME NEW h, NEW read, NEW first, IsHistory(h, read, first),
         NEW name \in DOMAIN Documents, NEW u, WalkStep(h[Len(read)], name, u)
  PROVE  \E g : IsHistory(g, Append(read, name), first) /\ g[Len(Append(read, name))] = u
<1> DEFINE n == Len(read)
           more == Append(read, name)
           g == [i \in 0..n+1 |-> IF i = n + 1 THEN u ELSE h[i]]
<1>1. /\ n \in Nat /\ more \in Seq(DOMAIN Documents) /\ Len(more) = n + 1
      /\ \A i \in 1..n : more[i] = read[i]
      /\ more[n + 1] = name
  BY DEF IsHistory
<1>2. g[n + 1] = u /\ \A i \in 0..n : g[i] = h[i]
  BY <1>1
<1>3. WalkStep(h[n], name, u)
  OBVIOUS
<1>4. \A i \in 1..n : WalkStep(h[i - 1], read[i], h[i])
  BY DEF IsHistory
<1> HIDE DEF n, more, g
<1>5. ASSUME NEW i \in 1..n+1 PROVE WalkStep(g[i - 1], more[i], g[i])
  <2>1. CASE i = n + 1
    <3>1. i - 1 = n /\ n \in 0..n
      BY <1>1, <2>1
    <3> QED
      BY <1>1, <1>2, <1>3, <2>1, <3>1
  <2>2. CASE i # n + 1
    <3>1. i \in 1..n /\ i \in 0..n /\ i - 1 \in 0..n
      BY <1>1, <2>2
    <3> QED
      BY <1>1, <1>2, <1>4, <3>1
  <2> QED
    BY <2>1, <2>2
<1>6. g[0] = h[0]
  BY <1>1, <1>2
<1>7. IsHistory(g, more, first)
  BY <1>1, <1>5, <1>6 DEF IsHistory
<1> QED
  BY <1>1, <1>2, <1>7 DEF more

\* What a history says about the configuration at each of its places.
DefinedTo(read, i) == UNION {Functors(Documents[read[k]]) : k \in 1..i}
Unset(read, i, x) == \A k \in i+1..Len(read) : x \notin SetFrom(Settings(Documents[read[k]]), 1)

LEMMA HistoryFacts ==
  ASSUME NEW h, NEW read, NEW first, IsHistory(h, read, first)
  PROVE  \A i \in 0..Len(read) :
            LET t == h[i].te
                last == h[Len(read)].te
            IN  /\ Config(t) /\ ~t.failed
                /\ t.cmdEnv = h[0].te.cmdEnv /\ t.envOnly = h[0].te.envOnly
                /\ DOMAIN t.functors = DefinedTo(read, i)
                /\ FunctorsOf(t, last)
                /\ \A x : Unset(read, i, x) => SameAt(t.env, last.env, x)
<1> DEFINE n == Len(read)
           Shape(i) == /\ Config(h[i].te) /\ ~h[i].te.failed
                       /\ h[i].te.cmdEnv = h[0].te.cmdEnv /\ h[i].te.envOnly = h[0].te.envOnly
                       /\ DOMAIN h[i].te.functors = DefinedTo(read, i)
           Kept(i, j) == /\ FunctorsOf(h[i].te, h[j].te)
                         /\ \A x : (\A k \in i+1..j : x \notin SetFrom(Settings(Documents[read[k]]), 1))
                                     => SameAt(h[i].te.env, h[j].te.env, x)
<1>1. /\ n \in Nat /\ \A i \in 1..n : read[i] \in DOMAIN Documents
      /\ Config(h[0].te) /\ h[0].te.functors = NoMap /\ ~h[0].te.failed
      /\ \A i \in 1..n : /\ h[i].te = Prepared(h[i - 1].te, Documents[read[i]])
                         /\ ~h[i].te.failed
  <2>1. read \in Seq(DOMAIN Documents)
    BY DEF IsHistory
  <2>2. n \in Nat /\ \A i \in 1..n : read[i] \in DOMAIN Documents
    BY <2>1
  <2>3. ASSUME NEW i \in 1..n
        PROVE  h[i].te = Prepared(h[i - 1].te, Documents[read[i]]) /\ ~h[i].te.failed
    <3>1. WalkStep(h[i - 1], read[i], h[i])
      BY DEF IsHistory
    <3> QED
      BY <3>1 DEF WalkStep
  <2> QED
    BY <2>2, <2>3 DEF IsHistory
<1>2. Shape(0)
  BY <1>1 DEF DefinedTo, NoMap
<1>3. ASSUME NEW i \in 1..n, Shape(i - 1) PROVE Shape(i) /\ Kept(i - 1, i)
  <2> DEFINE t == h[i - 1].te
             u == h[i].te
             doc == Documents[read[i]]
  <2>1. Config(t) /\ ~u.failed /\ u = Prepared(t, doc) /\ read[i] \in DOMAIN Documents
    BY <1>1, <1>3
  <2>2. Sets(t, u)
    BY <2>1, PreparedSets
  <2>3. /\ DOMAIN u.functors = DOMAIN t.functors \cup Functors(doc)
        /\ FunctorsOf(t, u)
        /\ \A x : x \notin SetFrom(Settings(doc), 1) => SameAt(t.env, u.env, x)
    BY <2>1, DocumentKeeps
  <2>4. DefinedTo(read, i) = DefinedTo(read, i - 1) \cup Functors(doc)
    <3>1. 1..i = (1..i-1) \cup {i}
      BY <1>1
    <3> QED
      BY <3>1 DEF DefinedTo
  <2>5. i \in (i-1)+1..i
    BY <1>1
  <2> QED
    BY <1>3, <2>1, <2>2, <2>3, <2>4, <2>5 DEF Sets
<1> HIDE DEF Shape, Kept
<1>4. \A i \in 0..n : Shape(i)
  <2> DEFINE P == {i \in 0..n : Shape(i)}
  <2>1. 0 \in P
    BY <1>1, <1>2
  <2>2. ASSUME NEW i \in 1..n, i - 1 \in P PROVE i \in P
    BY <1>3, <2>2
  <2> HIDE DEF P
  <2>3. \A i \in 0..n : i \in P
    BY <1>1, <2>1, <2>2, Fn!BoundedInduction
  <2> QED
    BY <2>3 DEF P
<1>5. \A i \in 1..n : Kept(i - 1, i)
  BY <1>1, <1>3, <1>4
<1>6. ASSUME NEW i \in 0..n PROVE Kept(i, n)
  <2>1. Kept(i, i)
    BY DEF Kept, FunctorsOf, SameAt
  <2>2. ASSUME NEW j \in 1..n, j > i, Kept(i, j - 1), Kept(j - 1, j) PROVE Kept(i, j)
    <3>1. FunctorsOf(h[i].te, h[j].te)
      BY <2>2 DEF Kept, FunctorsOf
    <3>2. ASSUME NEW x, \A k \in i+1..j : x \notin SetFrom(Settings(Documents[read[k]]), 1)
          PROVE  SameAt(h[i].te.env, h[j].te.env, x)
      <4>1. \A k \in i+1..j-1 : k \in i+1..j
        BY <1>1
      <4>2. SameAt(h[i].te.env, h[j - 1].te.env, x)
        BY <2>2, <3>2, <4>1 DEF Kept
      <4>3. \A k \in (j-1)+1..j : k \in i+1..j
        BY <1>1, <2>2
      <4>4. SameAt(h[j - 1].te.env, h[j].te.env, x)
        BY <2>2, <3>2, <4>3 DEF Kept
      <4> QED
        BY <4>2, <4>4 DEF SameAt
    <3> QED
      BY <3>1, <3>2 DEF Kept
  <2> DEFINE Q == {j \in 0..n : j >= i => Kept(i, j)}
  <2>3. 0 \in Q
    BY <1>1, <2>1
  <2>4. ASSUME NEW j \in 1..n, j - 1 \in Q PROVE j \in Q
    <3>1. CASE j > i
      <4>1. j - 1 >= i /\ j - 1 \in 0..n
        BY <1>1, <3>1
      <4>2. Kept(i, j - 1)
        BY <2>4, <4>1
      <4> QED
        BY <1>5, <2>2, <3>1, <4>2
    <3>2. CASE j = i
      BY <2>1, <3>2
    <3>3. CASE j < i
      BY <3>3
    <3> QED
      BY <3>1, <3>2, <3>3
  <2>5. \A j \in 0..n : j \in Q
    <3> HIDE DEF Q
    <3> QED
      BY <1>1, <2>3, <2>4, Fn!BoundedInduction
  <2>6. n \in 0..n /\ n >= i
    BY <1>1
  <2> QED
    BY <2>5, <2>6
<1>7. ASSUME NEW i \in 0..n, NEW x, Unset(read, i, x) PROVE SameAt(h[i].te.env, h[n].te.env, x)
  BY <1>6, <1>7 DEF Kept, Unset
<1> QED
  BY <1>4, <1>6, <1>7 DEF Shape, Kept

(***************************************************************************)
(* The second walk against the history of the first one.                     *)
(***************************************************************************)
FirstWalk(h) ==
    LET n == Len(walked.docs)
    IN  /\ IsHistory(h, walked.docs, tops)
        /\ h[n].te.env = walked.env /\ h[n].queue = <<>> /\ h[n].roots = <<>>

Again(h, k, s) ==
    LET n == Len(walked.docs)
    IN  /\ k \in 0..n
        /\ s.roots = h[k].roots /\ s.queue = h[k].queue
        /\ Config(s.te) /\ ~s.te.failed
        /\ s.te.cmdEnv = h[0].te.cmdEnv /\ s.te.envOnly = h[0].te.envOnly
        /\ Between(s.te.env, h[k].te.env, walked.env)
        /\ \A x : SameAt(h[n].te.functors, s.te.functors, x)

LEMMA WalkAgain ==
  ASSUME NEW h, FirstWalk(h), ReadsBehind, NEW k, NEW s, Again(h, k, s),
         NEW name, NEW u, WalkStep(s, name, u)
  PROVE  k + 1 \in 1..Len(walked.docs) /\ name = walked.docs[k + 1] /\ Again(h, k + 1, u)
<1> DEFINE D == walked.docs
           n == Len(D)
           w == walked.env
           i == k + 1
           doc == Documents[D[i]]
           ss == Settings(doc)
           a == h[k].te
           a1 == h[i].te
           b == s.te
           b1 == u.te
           last == h[n].te
<1>1. IsHistory(h, D, tops) /\ last.env = w /\ h[n].queue = <<>> /\ h[n].roots = <<>>
  BY DEF FirstWalk
<1>2. D \in Seq(DOMAIN Documents) /\ n \in Nat /\ DOMAIN D = 1..n
  BY <1>1 DEF IsHistory
<1>3. /\ k \in 0..n /\ s.roots = h[k].roots /\ s.queue = h[k].queue
      /\ Config(b) /\ ~b.failed /\ b.cmdEnv = h[0].te.cmdEnv /\ b.envOnly = h[0].te.envOnly
      /\ Between(b.env, a.env, w)
      /\ \A x : SameAt(last.functors, b.functors, x)
  BY DEF Again
<1>4. /\ s.queue # <<>> \/ s.roots # <<>>
      /\ name = IF s.queue # <<>> THEN Head(s.queue) ELSE Head(s.roots)
      /\ b1 = Prepared(b, Documents[name])
      /\ u.queue = (IF s.queue # <<>> THEN Tail(s.queue) ELSE <<>>)
                      \o ImportedFiles(b1, Documents[name])
      /\ u.roots = IF s.queue # <<>> THEN s.roots ELSE Tail(s.roots)
  BY DEF WalkStep
<1>5. i \in 1..n /\ i - 1 = k /\ i \in 0..n /\ n \in 0..n
  <2>1. k # n
    BY <1>1, <1>3, <1>4
  <2> QED
    BY <1>2, <1>3, <2>1
<1>6. WalkStep(h[k], D[i], h[i])
  BY <1>1, <1>5 DEF IsHistory
<1>7. name = D[i] /\ name \in DOMAIN Documents
  <2>1. D[i] = IF h[k].queue # <<>> THEN Head(h[k].queue) ELSE Head(h[k].roots)
    BY <1>6 DEF WalkStep
  <2>2. D[i] \in DOMAIN Documents
    BY <1>2, <1>5
  <2> QED
    BY <1>3, <1>4, <2>1, <2>2
<1>8. /\ a1 = Prepared(a, doc) /\ ~a1.failed
      /\ h[i].queue = (IF h[k].queue # <<>> THEN Tail(h[k].queue) ELSE <<>>) \o ImportedFiles(a1, doc)
      /\ h[i].roots = IF h[k].queue # <<>> THEN h[k].roots ELSE Tail(h[k].roots)
  BY <1>6 DEF WalkStep
<1>9. /\ Config(a) /\ a.cmdEnv = h[0].te.cmdEnv /\ a.envOnly = h[0].te.envOnly
      /\ DOMAIN a1.functors = DefinedTo(D, i) /\ FunctorsOf(a1, last)
      /\ \A x : Unset(D, i, x) => SameAt(a1.env, last.env, x)
      /\ DOMAIN last.functors = DefinedTo(D, n)
  BY <1>1, <1>3, <1>5, HistoryFacts
<1>10. /\ \A j \in DOMAIN ss : Reads(ss[j]) \cap (SetFrom(ss, j) \cup SetAfter(i)) = {}
       /\ ImportReads(doc) \cap SetAfter(i) = {}
       /\ \A x \in Calls(doc) : Defining(x) # {} => \E m \in Defining(x) : m <= i
  BY <1>2, <1>5 DEF ReadsBehind
<1>11. ASSUME NEW x, x \notin SetAfter(i) PROVE SameAt(a1.env, w, x)
  <2>1. Unset(D, i, x)
    BY <1>11 DEF SetAfter, Unset
  <2> QED
    BY <1>1, <1>9, <2>1
<1>12. FunctorsOf(a1, b)
  BY <1>3, <1>9 DEF FunctorsOf, SameAt
<1>13. ASSUME NEW x \in Calls(doc), x \in DOMAIN b.functors PROVE x \in DOMAIN a1.functors
  <2>1. x \in DefinedTo(D, n)
    BY <1>3, <1>9, <1>13 DEF SameAt
  <2>2. PICK m \in 1..n : x \in Functors(Documents[D[m]])
    BY <2>1 DEF DefinedTo
  <2>3. m \in Defining(x)
    BY <1>2, <2>2 DEF Defining
  <2>4. PICK m2 \in Defining(x) : m2 <= i
    BY <1>10, <2>3
  <2>5. m2 \in 1..i /\ x \in Functors(Documents[D[m2]])
    BY <1>2, <1>5, <2>4 DEF Defining
  <2> QED
    BY <1>9, <2>5 DEF DefinedTo
<1>14. \A j \in DOMAIN ss : \A x \in Reads(ss[j]) : x \notin SetFrom(ss, j) /\ SameAt(a1.env, w, x)
  BY <1>10, <1>11
<1>15. ReadsSame(doc, a, b, w)
  BY <1>8, <1>12, <1>13, <1>14 DEF ReadsSame
<1>16. D[i] \in DOMAIN Documents
  BY <1>7
<1>17. b1 = Prepared(b, doc)
  BY <1>4, <1>7
<1> HIDE DEF doc, ss, a, a1, b, b1, last, w, n, i, D
<1>18. /\ Config(a1) /\ Config(b1) /\ a1.cmdEnv = b1.cmdEnv /\ a1.envOnly = b1.envOnly
       /\ ~b1.failed
       /\ Between(b1.env, a1.env, w)
       /\ \A x : SameAt(b.functors, b1.functors, x)
  <2>1. ~Prepared(a, Documents[D[i]]).failed /\ ReadsSame(Documents[D[i]], a, b, w)
    BY <1>8, <1>15 DEF doc
  <2>2. /\ Config(Prepared(a, Documents[D[i]])) /\ Config(Prepared(b, Documents[D[i]]))
        /\ Prepared(a, Documents[D[i]]).cmdEnv = Prepared(b, Documents[D[i]]).cmdEnv
        /\ Prepared(a, Documents[D[i]]).envOnly = Prepared(b, Documents[D[i]]).envOnly
        /\ ~Prepared(b, Documents[D[i]]).failed
        /\ Between(Prepared(b, Documents[D[i]]).env, Prepared(a, Documents[D[i]]).env, w)
        /\ \A x : SameAt(b.functors, Prepared(b, Documents[D[i]]).functors, x)
    BY <1>3, <1>9, <1>16, <2>1, DocumentAgain
  <2> QED
    BY <1>8, <1>17, <2>2 DEF doc
<1>19. ImportedFiles(a1, doc) = ImportedFiles(b1, doc)
  <2>1. SameOn(a1, b1, ImportReads(doc))
    <3> SUFFICES ASSUME NEW x \in ImportReads(doc) PROVE SameAt(a1.env, b1.env, x)
      BY DEF SameOn
    <3>1. SameAt(a1.env, w, x)
      BY <1>10, <1>11
    <3>2. SameAt(b1.env, a1.env, x) \/ SameAt(b1.env, w, x)
      BY <1>18 DEF Between
    <3> QED
      BY <3>1, <3>2 DEF SameAt
  <2> QED
    BY <1>16, <1>18, <2>1, ImportsAgain DEF doc
<1>20. u.queue = h[i].queue /\ u.roots = h[i].roots
  BY <1>3, <1>4, <1>7, <1>8, <1>19 DEF doc
<1>21. \A x : SameAt(last.functors, b1.functors, x)
  <2> SUFFICES ASSUME NEW x PROVE SameAt(last.functors, b1.functors, x)
    OBVIOUS
  <2>1. SameAt(last.functors, b.functors, x) /\ SameAt(b.functors, b1.functors, x)
    BY <1>3, <1>18
  <2> QED
    BY <2>1 DEF SameAt
<1>22. b1.cmdEnv = h[0].te.cmdEnv /\ b1.envOnly = h[0].te.envOnly
  <2>1. a1.cmdEnv = h[0].te.cmdEnv /\ a1.envOnly = h[0].te.envOnly
    BY <1>1, <1>5, HistoryFacts DEF a1, n, D
  <2> QED
    BY <1>18, <2>1
<1> QED
  BY <1>5, <1>7, <1>18, <1>20, <1>21, <1>22 DEF Again, a1, b1, last, w, n, i, D

\* At the end of the second walk all the documents were read, and the
\* environment is the one that the first walk left.
LEMMA WalkEndsAgain ==
  ASSUME NEW h, FirstWalk(h), NEW k, NEW s, Again(h, k, s), s.queue = <<>>, s.roots = <<>>,
         IsMap(s.te.env), IsMap(walked.env)
  PROVE  k = Len(walked.docs) /\ s.te.env = walked.env
<1> DEFINE n == Len(walked.docs)
<1>1. k \in 0..n /\ s.roots = h[k].roots /\ s.queue = h[k].queue
      /\ Between(s.te.env, h[k].te.env, walked.env)
  BY DEF Again
<1>2. IsHistory(h, walked.docs, tops) /\ h[n].te.env = walked.env /\ n \in Nat
  BY DEF FirstWalk, IsHistory
<1> HIDE DEF n
<1>3. k = n
  <2> SUFFICES ASSUME k # n PROVE FALSE
    OBVIOUS
  <2>1. k + 1 \in 1..n /\ (k + 1) - 1 = k
    BY <1>1, <1>2
  <2>2. WalkStep(h[(k + 1) - 1], walked.docs[k + 1], h[k + 1])
    BY <1>2, <2>1 DEF IsHistory, n
  <2> QED
    BY <1>1, <2>1, <2>2 DEF WalkStep
<1>4. \A x : SameAt(s.te.env, walked.env, x)
  BY <1>1, <1>2, <1>3 DEF Between
<1>5. s.te.env = walked.env
  <2> DEFINE f == s.te.env
             g == walked.env
  <2>1. f = [x \in DOMAIN f |-> f[x]] /\ g = [x \in DOMAIN g |-> g[x]]
    BY DEF IsMap
  <2>2. \A x : (x \in DOMAIN f <=> x \in DOMAIN g) /\ (x \in DOMAIN f => f[x] = g[x])
    BY <1>4 DEF SameAt
  <2> HIDE DEF f, g
  <2>3. DOMAIN f = DOMAIN g
    BY <2>2
  <2>4. f = g
    BY <2>1, <2>2, <2>3
  <2> QED
    BY <2>4 DEF f, g
<1> QED
  BY <1>3, <1>5 DEF n

(***************************************************************************)
(* What holds of the walks at every step: the first one has a history, which *)
(* ends where CFG is read, and the second one is somewhere in it.            *)
(***************************************************************************)
Fresh == phase = "env" => te.functors = NoMap /\ ~te.failed /\ queue = <<>> /\ docs = <<>>

Walking == phase = "walk" =>
    \E h : IsHistory(h, docs, tops) /\ h[Len(docs)] = At(te, roots, queue)

Walked == phase \in {"override", "parse"} =>
    /\ queue = <<>> /\ IsMap(walked.env)
    /\ \E h : FirstWalk(h) /\ SameEnv(h[Len(walked.docs)].te, te)

SameSoFar(h) ==
    /\ Again(h, Len(docs), At(te, roots, queue))
    /\ \A i \in 1..Len(docs) : docs[i] = walked.docs[i]

WalkingAgain == phase = "rewalk" =>
    /\ IsMap(walked.env)
    /\ \E h : FirstWalk(h) /\ (ReadsBehind => SameSoFar(h))

\* Where the documents were walked again, before more of them are loaded.
WalkedAgain == phase = "load" /\ AfterSignals = "rewalk" /\ ReadsBehind =>
    te.env = walked.env /\ docs = walked.docs

WalkInv ==
    /\ IsMap(te.env)
    /\ Fresh /\ Walking /\ Walked /\ WalkingAgain /\ WalkedAgain
    /\ SecondWalkStable

\* In the other phases there is nothing to show.
LEMMA NoWalk ==
  ASSUME IsMap(te'.env), phase' \in {"ended", "failed"}
  PROVE  WalkInv'
BY DEF WalkInv, Fresh, Walking, Walked, WalkingAgain, WalkedAgain, SecondWalkStable

LEMMA FirstWalkSame ==
  ASSUME walked' = walked, tops' = tops
  PROVE  /\ \A h : FirstWalk(h) => FirstWalk(h)'
         /\ ReadsBehind' <=> ReadsBehind
BY DEF FirstWalk, ReadsBehind, SetAfter, Defining

LEMMA WalkIdle ==
  ASSUME WalkInv, UNCHANGED <<start, te, walkVars, walked>>,
         phase' = phase \/ phase' \in {"ended", "failed"}
  PROVE  WalkInv'
<1>1. CASE phase' = phase
  <2>1. UNCHANGED <<te, tops, roots, queue, docs, walked>>
    BY DEF walkVars
  <2>2. /\ \A h : FirstWalk(h)' <=> FirstWalk(h)
        /\ \A h : SameSoFar(h)' <=> SameSoFar(h)
        /\ ReadsBehind' <=> ReadsBehind
    BY <2>1 DEF FirstWalk, SameSoFar, Again, ReadsBehind, SetAfter, Defining
  <2>3. IsMap(te'.env) /\ Fresh' /\ Walking' /\ SecondWalkStable'
    BY <1>1, <2>1, <2>2 DEF WalkInv, Fresh, Walking, SecondWalkStable
  <2>4. Walked'
    BY <1>1, <2>1, <2>2 DEF WalkInv, Walked
  <2>5. WalkingAgain'
    BY <1>1, <2>1, <2>2 DEF WalkInv, WalkingAgain
  <2>6. WalkedAgain'
    BY <1>1, <2>1, <2>2 DEF WalkInv, WalkedAgain, AfterSignals, Line
  <2> QED
    BY <2>3, <2>4, <2>5, <2>6 DEF WalkInv
<1>2. CASE phase' \in {"ended", "failed"}
  BY <1>2, NoWalk DEF WalkInv
<1> QED
  BY <1>1, <1>2

LEMMA WalkBegins == ASSUME EnvInv, WalkInv, ReadCommandLine PROVE WalkInv'
<1>1. /\ phase = "env" /\ phase' \in {"walk", "failed"} /\ UNCHANGED <<queue, docs>>
      /\ phase' = "walk" => roots' = tops'
  BY DEF ReadCommandLine
<1>2. te' = [te EXCEPT !.env = OnTopOf(EnvGiven(Line), start.env), !.cmdEnv = Overwritten(Line),
                       !.envOnly = EnvOnlyMode(Line)]
  BY DEF ReadCommandLine
<1>3. te.functors = NoMap /\ ~te.failed /\ queue = <<>> /\ docs = <<>> /\ Config(te)
  BY <1>1 DEF WalkInv, Fresh, EnvInv
<1>4. /\ Config(te') /\ te'.env = OnTopOf(EnvGiven(Line), start.env)
      /\ te'.functors = NoMap /\ ~te'.failed
  BY <1>2, <1>3 DEF Config, NoConfig
<1>5. IsMap(te'.env)
  BY <1>4 DEF IsMap, OnTopOf
<1>6. CASE phase' = "walk"
  <2> DEFINE now == At(te', tops', <<>>)
             h == [i \in {0} |-> now]
  <2>1. h[0] = now
    OBVIOUS
  <2>2. now.te = te' /\ now.roots = tops' /\ now.queue = <<>>
    BY DEF At
  <2>3. <<>> \in Seq(DOMAIN Documents) /\ Len(<<>>) = 0
    OBVIOUS
  <2> HIDE DEF h, now
  <2>4. IsHistory(h, <<>>, tops')
    BY <1>4, <2>1, <2>2, <2>3 DEF IsHistory
  <2>5. \E g : IsHistory(g, docs', tops') /\ g[Len(docs')] = At(te', roots', queue')
    BY <1>1, <1>3, <1>6, <2>1, <2>3, <2>4 DEF now
  <2> QED
    BY <1>5, <1>6, <2>5 DEF WalkInv, Fresh, Walking, Walked, WalkingAgain, WalkedAgain,
       SecondWalkStable
<1>7. CASE phase' = "failed"
  BY <1>5, <1>7, NoWalk
<1> QED
  BY <1>1, <1>6, <1>7

LEMMA ReadDocumentIs ==
  ASSUME EnvInv, ReadDocument
  PROVE  /\ UNCHANGED <<start, tops, walked>> /\ phase' \in {phase, "failed"}
         /\ phase \in {"walk", "rewalk"}
         /\ \E name \in DOMAIN Documents :
              /\ docs' = Append(docs, name)
              /\ phase' # "failed" =>
                    WalkStep(At(te, roots, queue), name, At(te', roots', queue'))
<1> DEFINE name == IF queue # <<>> THEN Head(queue) ELSE Head(roots)
           doc == Documents[name]
           next == Prepared(te, doc)
           ok == ~next.failed /\ ImportsExist(next, doc)
<1>1. /\ phase \in {"walk", "rewalk"} /\ (queue # <<>> \/ roots # <<>>)
      /\ te' = next /\ docs' = Append(docs, name)
      /\ queue' = (IF queue # <<>> THEN Tail(queue) ELSE <<>>)
                  \o (IF ok THEN ImportedFiles(next, doc) ELSE <<>>)
      /\ roots' = IF queue # <<>> THEN roots ELSE Tail(roots)
      /\ phase' = IF ok THEN phase ELSE "failed"
      /\ UNCHANGED <<start, tops, walked>>
  BY DEF ReadDocument
<1>2. name \in DOMAIN Documents
  BY <1>1 DEF EnvInv, Walks
<1>3. ASSUME phase' # "failed" PROVE WalkStep(At(te, roots, queue), name, At(te', roots', queue'))
  <2>1. ok
    BY <1>1, <1>3
  <2> DEFINE s == At(te, roots, queue)
             u == At(te', roots', queue')
  <2>2. /\ s.te = te /\ s.roots = roots /\ s.queue = queue
        /\ u.te = te' /\ u.roots = roots' /\ u.queue = queue'
    BY DEF At
  <2>3. /\ te' = Prepared(te, Documents[name]) /\ ~te'.failed /\ ImportsExist(te', Documents[name])
        /\ queue' = (IF queue # <<>> THEN Tail(queue) ELSE <<>>) \o ImportedFiles(te', Documents[name])
    BY <1>1, <2>1
  <2>4. name = IF queue # <<>> THEN Head(queue) ELSE Head(roots)
    OBVIOUS
  <2> HIDE DEF s, u, name, ok
  <2>5. WalkStep(s, name, u)
    BY <1>1, <2>2, <2>3, <2>4 DEF WalkStep
  <2> QED
    BY <2>5 DEF s, u
<1> QED
  BY <1>1, <1>2, <1>3

LEMMA WalkOn == ASSUME EnvInv, WalkInv, ReadDocument PROVE WalkInv'
<1>1. UNCHANGED <<start, tops, walked>> /\ phase' \in {phase, "failed"} /\ phase \in {"walk", "rewalk"}
  BY ReadDocumentIs
<1>2. PICK name \in DOMAIN Documents :
        /\ docs' = Append(docs, name)
        /\ phase' # "failed" => WalkStep(At(te, roots, queue), name, At(te', roots', queue'))
  BY ReadDocumentIs
<1>3. IsMap(te'.env)
  BY ReadDocumentSets DEF WalkInv, Sets
<1>4. docs \in Seq(DOMAIN Documents)
  BY DEF EnvInv, Walks
<1>5. CASE phase' = "failed"
  BY <1>3, <1>5, NoWalk
<1>6. CASE phase' = "walk"
  <2>1. PICK h : IsHistory(h, docs, tops) /\ h[Len(docs)] = At(te, roots, queue)
    BY <1>1, <1>6 DEF WalkInv, Walking
  <2>2. WalkStep(h[Len(docs)], name, At(te', roots', queue'))
    BY <1>2, <1>6, <2>1
  <2>3. \E g : IsHistory(g, Append(docs, name), tops)
               /\ g[Len(Append(docs, name))] = At(te', roots', queue')
    BY <2>1, <2>2, HistoryGrows
  <2>4. Walking'
    BY <1>1, <1>2, <2>3 DEF Walking
  <2> QED
    BY <1>3, <1>6, <2>4 DEF WalkInv, Fresh, Walked, WalkingAgain, WalkedAgain, SecondWalkStable
<1>7. CASE phase' = "rewalk"
  <2>1. phase = "rewalk"
    BY <1>1, <1>7
  <2>2. PICK h : FirstWalk(h) /\ (ReadsBehind => SameSoFar(h))
    BY <2>1 DEF WalkInv, WalkingAgain
  <2>3. IsMap(walked'.env) /\ FirstWalk(h)' /\ (ReadsBehind' <=> ReadsBehind)
    BY <1>1, <2>1, <2>2, FirstWalkSame DEF WalkInv, WalkingAgain
  <2>4. ASSUME ReadsBehind PROVE SameSoFar(h)'
    <3> DEFINE s == At(te, roots, queue)
               u == At(te', roots', queue')
               k == Len(docs)
    <3>1. Again(h, k, s) /\ \A i \in 1..k : docs[i] = walked.docs[i]
      BY <2>2, <2>4 DEF SameSoFar
    <3>2. WalkStep(s, name, u)
      BY <1>2, <1>7
    <3>3. k \in Nat /\ Len(docs') = k + 1 /\ docs'[k + 1] = name /\ \A i \in 1..k : docs'[i] = docs[i]
      BY <1>2, <1>4
    <3> HIDE DEF s, u, k
    <3>4. name = walked.docs[k + 1] /\ Again(h, k + 1, u)
      BY <2>2, <2>4, <3>1, <3>2, WalkAgain
    <3>5. \A i \in 1..k+1 : docs'[i] = walked.docs[i]
      BY <3>1, <3>3, <3>4
    <3>6. Again(h, Len(docs), At(te, roots, queue))'
      BY <1>1, <3>3, <3>4 DEF Again, u
    <3> QED
      BY <1>1, <3>3, <3>5, <3>6 DEF SameSoFar
  <2>5. WalkingAgain'
    BY <2>3, <2>4 DEF WalkingAgain
  <2> QED
    BY <1>3, <1>7, <2>5 DEF WalkInv, Fresh, Walking, Walked, WalkedAgain, SecondWalkStable
<1> QED
  BY <1>1, <1>5, <1>6, <1>7

LEMMA WalkDefines == ASSUME EnvInv, WalkInv, Define PROVE WalkInv'
<1>1. /\ phase = "walk" /\ queue = <<>> /\ roots = <<>>
      /\ phase' \in {"failed", "ended", "override"}
      /\ walked' = [env |-> te.env, docs |-> docs] /\ UNCHANGED <<tops, roots, queue, docs>>
  BY DEF Define, WalkEnds, walkVars
<1>2. SameEnv(te, te') /\ Config(te)
  BY DefineSame DEF EnvInv
<1>3. IsMap(te'.env) /\ IsMap(te.env)
  BY <1>2 DEF WalkInv, SameEnv
<1>4. CASE phase' = "override"
  <2>1. PICK h : IsHistory(h, docs, tops) /\ h[Len(docs)] = At(te, roots, queue)
    BY <1>1 DEF WalkInv, Walking
  <2>2. walked'.env = te.env /\ walked'.docs = docs
    BY <1>1
  <2>3. h[Len(docs)].te = te /\ h[Len(docs)].queue = <<>> /\ h[Len(docs)].roots = <<>>
    BY <1>1, <2>1 DEF At
  <2>4. FirstWalk(h)'
    BY <1>1, <2>1, <2>2, <2>3 DEF FirstWalk
  <2>5. SameEnv(h[Len(walked'.docs)].te, te')
    BY <1>2, <2>2, <2>3
  <2>6. Walked'
    BY <1>1, <1>3, <2>2, <2>4, <2>5 DEF Walked
  <2> QED
    BY <1>3, <1>4, <2>6 DEF WalkInv, Fresh, Walking, WalkingAgain, WalkedAgain, SecondWalkStable
<1>5. CASE phase' \in {"failed", "ended"}
  BY <1>3, <1>5, NoWalk
<1> QED
  BY <1>1, <1>4, <1>5

LEMMA WalkRests == ASSUME EnvInv, WalkInv, Overrides PROVE WalkInv'
<1>1. /\ phase = "override" /\ phase' \in {"parse", "failed"}
      /\ UNCHANGED <<tops, roots, queue, docs, walked>>
  BY DEF Overrides, walkVars
<1>2. SameEnv(te, te')
  BY OverridesStep
<1>3. IsMap(te'.env)
  BY <1>2 DEF WalkInv, SameEnv
<1>4. CASE phase' = "parse"
  <2>1. PICK h : FirstWalk(h) /\ SameEnv(h[Len(walked.docs)].te, te)
    BY <1>1 DEF WalkInv, Walked
  <2>2. FirstWalk(h)' /\ SameEnv(h[Len(walked.docs)].te, te')
    BY <1>1, <1>2, <2>1, FirstWalkSame, SameEnvAgain
  <2>3. Walked'
    BY <1>1, <2>2 DEF WalkInv, Walked
  <2> QED
    BY <1>3, <1>4, <2>3 DEF WalkInv, Fresh, Walking, WalkingAgain, WalkedAgain, SecondWalkStable
<1>5. CASE phase' = "failed"
  BY <1>3, <1>5, NoWalk
<1> QED
  BY <1>1, <1>4, <1>5

LEMMA WalkBeginsAgain == ASSUME EnvInv, WalkInv, SignalAliases PROVE WalkInv'
<1>1. /\ phase = "parse" /\ phase' \in {"failed", "load", "rewalk"}
      /\ phase' = "load" => AfterSignals = "load"
      /\ phase' = "rewalk" => ~te'.failed
      /\ roots' = tops /\ docs' = <<>> /\ UNCHANGED <<start, tops, queue, walked>>
  BY DEF SignalAliases, AfterSignals
<1>2. SameEnv(te, te')
  BY SignalAliasesAdds DEF Adds
<1>3. IsMap(te'.env)
  BY <1>2 DEF WalkInv, SameEnv
<1>4. CASE phase' = "rewalk"
  <2>1. PICK h : FirstWalk(h) /\ SameEnv(h[Len(walked.docs)].te, te)
    BY <1>1 DEF WalkInv, Walked
  <2>2. queue = <<>> /\ IsMap(walked.env)
    BY <1>1 DEF WalkInv, Walked
  <2> DEFINE n == Len(walked.docs)
             u == At(te', tops, <<>>)
  <2>3. /\ IsHistory(h, walked.docs, tops) /\ h[n].te.env = walked.env /\ n \in Nat
        /\ h[0].roots = tops /\ h[0].queue = <<>>
    BY <2>1 DEF FirstWalk, IsHistory
  <2>4. SameEnv(h[n].te, te')
    BY <1>2, <2>1, SameEnvAgain
  <2>5. /\ Config(te') /\ te'.env = walked.env /\ te'.functors = h[n].te.functors
        /\ te'.cmdEnv = h[n].te.cmdEnv /\ te'.envOnly = h[n].te.envOnly
    BY <2>3, <2>4 DEF SameEnv
  <2>6. n \in 0..n /\ 0 \in 0..n
    BY <2>3
  <2>7. h[n].te.cmdEnv = h[0].te.cmdEnv /\ h[n].te.envOnly = h[0].te.envOnly
    BY <2>3, <2>6, HistoryFacts
  <2>8. u.te = te' /\ u.roots = tops /\ u.queue = <<>>
    BY DEF At
  <2>9. Between(te'.env, h[0].te.env, walked.env)
    BY <2>5 DEF Between, SameAt
  <2>10. \A x : SameAt(h[n].te.functors, te'.functors, x)
    BY <2>5 DEF SameAt
  <2> HIDE DEF u, n
  <2>11. Again(h, 0, u)
    BY <1>1, <1>4, <2>3, <2>5, <2>6, <2>7, <2>8, <2>9, <2>10 DEF Again, n
  <2>12. Len(docs') = 0 /\ \A i \in 1..0 : docs'[i] = walked.docs[i]
    BY <1>1
  <2>13. Again(h, Len(docs), At(te, roots, queue))'
    BY <1>1, <2>2, <2>11, <2>12 DEF Again, u
  <2>14. SameSoFar(h)'
    BY <2>12, <2>13 DEF SameSoFar
  <2>15. FirstWalk(h)'
    BY <1>1, <2>1, FirstWalkSame
  <2>16. WalkingAgain'
    BY <1>1, <2>2, <2>14, <2>15 DEF WalkingAgain
  <2> QED
    BY <1>3, <1>4, <2>16 DEF WalkInv, Fresh, Walking, Walked, WalkedAgain, SecondWalkStable
<1>5. CASE phase' = "failed"
  BY <1>3, <1>5, NoWalk
<1>6. CASE phase' = "load"
  <2>1. AfterSignals' = "load"
    BY <1>1, <1>6 DEF AfterSignals, Line
  <2> QED
    BY <1>3, <1>6, <2>1 DEF WalkInv, Fresh, Walking, Walked, WalkingAgain, WalkedAgain,
       SecondWalkStable
<1> QED
  BY <1>1, <1>4, <1>5, <1>6

LEMMA WalkIsOver == ASSUME EnvInv, WalkInv, RegisterAccess PROVE WalkInv'
<1>1. /\ phase = "rewalk" /\ phase' \in {"failed", "load"}
      /\ queue = <<>> /\ roots = <<>> /\ UNCHANGED <<tops, roots, queue, docs, walked>>
  BY DEF RegisterAccess, WalkEnds, walkVars
<1>2. SameEnv(te, te')
  BY RegisterAccessAdds DEF Adds
<1>3. IsMap(te.env) /\ te'.env = te.env
  BY <1>2 DEF WalkInv, SameEnv
<1>4. CASE phase' = "load"
  <2>1. IsMap(walked.env)
    BY <1>1 DEF WalkInv, WalkingAgain
  <2>2. PICK h : FirstWalk(h) /\ (ReadsBehind => SameSoFar(h))
    BY <1>1 DEF WalkInv, WalkingAgain
  <2>3. ASSUME ReadsBehind PROVE te.env = walked.env /\ docs = walked.docs
    <3> DEFINE s == At(te, roots, queue)
    <3>1. Again(h, Len(docs), s) /\ \A i \in 1..Len(docs) : docs[i] = walked.docs[i]
      BY <2>2, <2>3 DEF SameSoFar
    <3>2. s.te = te /\ s.queue = <<>> /\ s.roots = <<>>
      BY <1>1 DEF At
    <3> HIDE DEF s
    <3>3. Len(docs) = Len(walked.docs) /\ s.te.env = walked.env
      BY <1>3, <2>1, <2>2, <3>1, <3>2, WalkEndsAgain
    <3>4. docs \in Seq(DOMAIN Documents) /\ walked.docs \in Seq(DOMAIN Documents)
      BY <2>2 DEF EnvInv, Walks, FirstWalk, IsHistory
    <3>5. docs = walked.docs
      BY <3>1, <3>3, <3>4
    <3> QED
      BY <3>2, <3>3, <3>5
  <2>4. ReadsBehind' <=> ReadsBehind
    BY <1>1, FirstWalkSame
  <2>5. WalkedAgain'
    BY <1>1, <1>3, <2>3, <2>4 DEF WalkedAgain
  <2> QED
    BY <1>3, <1>4, <2>5 DEF WalkInv, Fresh, Walking, Walked, WalkingAgain, SecondWalkStable
<1>5. CASE phase' = "failed"
  BY <1>3, <1>5, NoWalk
<1> QED
  BY <1>1, <1>4, <1>5

LEMMA WalkLoads == ASSUME EnvInv, WalkInv, LoadCfg PROVE WalkInv'
<1>1. /\ phase = "load" /\ phase' \in {"failed", "ended", "flows"}
      /\ phase' = "flows" => ~CompileMode(Line) /\ ~Helps(Line)
      /\ UNCHANGED <<tops, roots, queue, docs, walked>>
  BY DEF LoadCfg, walkVars
<1>2. SameEnv(te, te')
  BY LoadCfgKeeps
<1>3. IsMap(te'.env) /\ te'.env = te.env
  BY <1>2 DEF WalkInv, SameEnv
<1>4. CASE phase' = "flows"
  <2>1. AfterSignals = "rewalk"
    BY <1>1, <1>4 DEF AfterSignals, HelpMode, Helps
  <2>2. ReadsBehind => te.env = walked.env /\ docs = walked.docs
    BY <1>1, <2>1 DEF WalkInv, WalkedAgain
  <2>3. ReadsBehind' <=> ReadsBehind
    BY <1>1, FirstWalkSame
  <2>4. SecondWalkStable'
    BY <1>1, <1>3, <2>2, <2>3 DEF SecondWalkStable
  <2> QED
    BY <1>3, <1>4, <2>4 DEF WalkInv, Fresh, Walking, Walked, WalkingAgain, WalkedAgain
<1>5. CASE phase' \in {"failed", "ended"}
  BY <1>3, <1>5, NoWalk
<1> QED
  BY <1>1, <1>4, <1>5

LEMMA WalkNext == EnvInv /\ WalkInv /\ [Next]_vars => WalkInv'
<1> SUFFICES ASSUME EnvInv, WalkInv, [Next]_vars
             PROVE  WalkInv'
  OBVIOUS
<1>1. CASE ParseSmall
  BY <1>1, WalkIdle DEF ParseSmall, Stop
<1>2. CASE NoCollateral
  BY <1>2, WalkIdle DEF NoCollateral, Stop
<1>3. CASE Divide
  BY <1>3, WalkIdle DEF Divide
<1>4. CASE NoParts
  BY <1>4, WalkIdle DEF NoParts
<1>5. CASE Submit
  BY <1>5, WalkIdle DEF Submit
<1>6. CASE ProcessSerially
  BY <1>6, WalkIdle DEF ProcessSerially, Stop
<1>7. CASE MergePart
  BY <1>7, WalkIdle DEF MergePart, Stop
<1>8. CASE EndLarge
  BY <1>8, WalkIdle DEF EndLarge
<1>9. CASE MakeFlows
  BY <1>9, WalkIdle DEF MakeFlows
<1>10. ASSUME NEW w \in DOMAIN proc, Worker(w) PROVE WalkInv'
  BY <1>10, WalkIdle DEF Worker, WorkerEnds, WorkerKilled
<1>11. CASE UNCHANGED vars
  BY <1>11, WalkIdle DEF vars
<1> QED
  BY <1>1, <1>2, <1>3, <1>4, <1>5, <1>6, <1>7, <1>8, <1>9, <1>10, <1>11,
     WalkBegins, WalkOn, WalkDefines, WalkRests, WalkBeginsAgain, WalkIsOver, WalkLoads
     DEF Next, Master, Ended

LEMMA EnvInvariant == Spec => []EnvInv
<1>1. CfgInv => EnvInv
  BY DEF CfgInv
<1> QED
  BY <1>1, CfgInvariant, PTL

LEMMA WalkInvariant == Spec => []WalkInv
<1>1. Init => WalkInv
  BY DEF Init, WalkInv, Fresh, Walking, Walked, WalkingAgain, WalkedAgain, SecondWalkStable,
         IsMap, NoConfig, NoMap
<1> QED
  BY <1>1, WalkNext, EnvInvariant, PTL DEF Spec

(***************************************************************************)
(* The second walk reads the documents of the first one and leaves the       *)
(* environment as CFG was read in it, if nothing reads ahead - for any       *)
(* documents, with imports in any order that depend on the environment, any  *)
(* filters and functors, whatever the command line set.                      *)
(***************************************************************************)
THEOREM SecondWalkIsStable == Spec => []SecondWalkStable
<1>1. WalkInv => SecondWalkStable
  BY DEF WalkInv
<1> QED
  BY <1>1, WalkInvariant, PTL
===============================================================================
