---------------------- MODULE ArgumentContainerProofs ----------------------
(***************************************************************************)
(* Proofs about ArgumentContainer, for any names, types and assignments.   *)
(***************************************************************************)
EXTENDS ArgumentContainer, SequenceTheorems, FiniteSetTheorems, WellFoundedInduction, TLAPS

-----------------------------------------------------------------------------
(***************************************************************************)
(* The list of a register field is a sequence, and never gets empty.       *)
(***************************************************************************)
Sequence(s) == s \in Seq({s[i] : i \in 1..Len(s)})

LEMMA SequenceOf ==
    ASSUME NEW S, NEW s \in Seq(S)
    PROVE  Sequence(s)
<1>1. /\ Len(s) \in Nat
      /\ s \in [1..Len(s) -> S]
  BY LenProperties
<1>2. s \in [1..Len(s) -> {s[i] : i \in 1..Len(s)}]
  BY <1>1
<1> QED
  BY <1>1, <1>2, SeqDef DEF Sequence

LEMMA RemoveAtProperties ==
    ASSUME NEW S, NEW s \in Seq(S), NEW i \in 1..Len(s)
    PROVE  /\ RemoveAt(s, i) \in Seq(S)
           /\ Len(RemoveAt(s, i)) = Len(s) - 1
           /\ \A k \in 1..Len(s)-1 : RemoveAt(s, i)[k] = s[IF k < i THEN k ELSE k + 1]
<1> DEFINE low  == SubSeq(s, 1, i - 1)
           high == SubSeq(s, i + 1, Len(s))
<1>1. Len(s) \in Nat /\ \A k \in 1..Len(s) : s[k] \in S
  BY LenProperties, ElementOfSeq
<1>2. /\ low \in Seq(S) /\ Len(low) = i - 1
      /\ \A k \in 1..i-1 : low[k] = s[k]
  <2>1. \A k \in 1..i-1 : s[k] \in S
    BY <1>1
  <2>2. /\ low \in Seq(S)
        /\ Len(low) = IF 1 <= i - 1 THEN i - 1 - 1 + 1 ELSE 0
        /\ \A k \in 1..i-1-1+1 : low[k] = s[1 + k - 1]
    BY <1>1, <2>1, SubSeqProperties
  <2> QED
    BY <1>1, <2>2
<1>3. /\ high \in Seq(S) /\ Len(high) = Len(s) - i
      /\ \A k \in 1..Len(s)-i : high[k] = s[i + k]
  <2>1. \A k \in i+1..Len(s) : s[k] \in S
    BY <1>1
  <2>2. /\ high \in Seq(S)
        /\ Len(high) = IF i + 1 <= Len(s) THEN Len(s) - (i + 1) + 1 ELSE 0
        /\ \A k \in 1..Len(s)-(i+1)+1 : high[k] = s[i + 1 + k - 1]
    BY <1>1, <2>1, SubSeqProperties
  <2> QED
    BY <1>1, <2>2
<1>4. RemoveAt(s, i) = low \o high
  BY DEF RemoveAt
<1> HIDE DEF low, high
<1>5. /\ low \o high \in Seq(S) /\ Len(low \o high) = Len(low) + Len(high)
      /\ \A k \in 1..Len(low)+Len(high) :
            (low \o high)[k] = IF k <= Len(low) THEN low[k] ELSE high[k - Len(low)]
  BY <1>2, <1>3, ConcatProperties
<1>6. ASSUME NEW k \in 1..Len(s)-1
      PROVE  (low \o high)[k] = s[IF k < i THEN k ELSE k + 1]
  <2>1. CASE k < i
    BY <1>1, <1>2, <1>3, <1>5, <2>1
  <2>2. CASE ~(k < i)
    <3>1. k - (i - 1) \in 1..Len(s)-i /\ i + (k - (i - 1)) = k + 1
      BY <1>1, <2>2
    <3>2. high[k - (i - 1)] = s[k + 1]
      BY <1>3, <3>1
    <3> QED
      BY <1>1, <1>2, <1>3, <1>5, <2>2, <3>2
  <2> QED
    BY <2>1, <2>2
<1> QED
  BY <1>1, <1>2, <1>3, <1>4, <1>5, <1>6

\* A set of indices has a first and a last one.
LEMMA LeastOfNat ==
    ASSUME NEW T \in SUBSET Nat, T # {}
    PROVE  \E i \in T : \A j \in T : i <= j
<1> DEFINE less == {ss \in Nat \X Nat : ss[1] < ss[2]}
<1>1. IsWellFoundedOn(less, Nat)
  BY NatLessThanWellFounded DEF OpToRel
<1>2. PICK m \in T : \A k \in T : ~(<<k, m>> \in less)
  BY <1>1, WFMin
<1>3. ASSUME NEW k \in T PROVE m <= k
  <2>1. k \in Nat /\ m \in Nat
    OBVIOUS
  <2>2. ~(k < m)
    BY <1>2, <2>1
  <2> QED
    BY <2>1, <2>2
<1> QED
  BY <1>3

LEMMA LastOfSet ==
    ASSUME NEW n \in Nat, NEW S \in SUBSET (1..n), S # {}
    PROVE  \E i \in S : \A j \in S : j <= i
<1> DEFINE T == {n - i : i \in S}
<1>1. T \in SUBSET Nat /\ T # {}
  <2>1. \A i \in S : i \in Int /\ i <= n /\ n - i \in Nat
    OBVIOUS
  <2>2. T \subseteq Nat
    BY <2>1
  <2>3. PICK i \in S : TRUE
    OBVIOUS
  <2>4. n - i \in T
    BY <2>3
  <2> QED
    BY <2>2, <2>4
<1>2. PICK m \in T : \A k \in T : m <= k
  BY <1>1, LeastOfNat
<1>3. PICK i \in S : m = n - i
  OBVIOUS
<1>4. ASSUME NEW j \in S PROVE j <= i
  <2>1. n - i <= n - j
    BY <1>2, <1>3
  <2>2. i \in Int /\ j \in Int
    OBVIOUS
  <2> QED
    BY <2>1, <2>2
<1> QED
  BY <1>4

\* The entry that decides is one of the list; the ones before it are passed.
LEMMA DecidingFirstOf ==
    ASSUME NEW S, NEW list \in Seq(S), NEW new, Deciding(list, new) # {}
    PROVE  /\ Min(Deciding(list, new)) \in 1..Len(list)
           /\ ~Inside(new, list[Min(Deciding(list, new))])
<1> DEFINE D == Deciding(list, new)
<1>1. D \in SUBSET Nat /\ D # {}
  BY LenProperties DEF Deciding
<1>2. \E i \in D : \A j \in D : i <= j
  BY <1>1, LeastOfNat
<1>3. Min(D) \in D
  BY <1>2 DEF Min
<1> QED
  BY <1>3 DEF Deciding

\* Whatever range an assignment names, insert_not_declared_argument_value
\* leaves a list that is not empty.
LEMMA InsertedProperties ==
    ASSUME NEW list, Sequence(list), NEW new
    PROVE  Sequence(Inserted(list, new)) /\ Inserted(list, new) # <<>>
<1> DEFINE first == Min(Deciding(list, new))
           cur == list[first]
           pieces == LowPieces(new, cur)
           rest == RemoveAt(list, first)
           S == {list[i] : i \in 1..Len(list)} \cup {new, Merged(new, cur)}
                  \cup {pieces[1], pieces[2], pieces[3]}
<1> SUFFICES Inserted(list, new) \in Seq(S) /\ Inserted(list, new) # <<>>
  BY SequenceOf
<1>1. list \in Seq(S) /\ new \in S /\ Merged(new, cur) \in S
  BY DEF Sequence
<1>2. pieces \in Seq(S) /\ Len(pieces) = 3
  BY DEF LowPieces
<1> HIDE DEF S
<1>3. <<new>> \in Seq(S) /\ <<new>> # <<>>
  BY <1>1
<1>4. \A s \in Seq(S), e \in S : Append(s, e) \in Seq(S) /\ Append(s, e) # <<>>
  BY AppendProperties
<1>5. Deciding(list, new) # {} => rest \in Seq(S)
  BY <1>1, DecidingFirstOf, RemoveAtProperties
<1>6. rest \in Seq(S) => rest \o pieces \in Seq(S) /\ rest \o pieces # <<>>
  <2> HIDE DEF rest, pieces
  <2>1. Len(<<>>) = 0 /\ \A s \in Seq(S) : Len(s) \in Nat
    BY EmptySeq, LenProperties
  <2>2. \A s, t \in Seq(S) : s \o t \in Seq(S) /\ Len(s \o t) = Len(s) + Len(t)
    BY ConcatProperties
  <2>3. CASE rest \in Seq(S)
    <3> DEFINE joined == rest \o pieces
    <3>1. joined \in Seq(S) /\ Len(joined) = Len(rest) + 3 /\ Len(rest) \in Nat
      BY <1>2, <2>1, <2>2, <2>3
    <3> HIDE DEF joined
    <3>2. joined # <<>>
      BY <2>1, <3>1
    <3> QED
      BY <3>1, <3>2 DEF joined
  <2> QED
    BY <2>3
<1>7. Inserted(list, new) =
        IF list = <<>> THEN <<new>>
        ELSE IF Deciding(list, new) = {} THEN list
        ELSE IF Below(new, cur) \/ Above(new, cur) THEN Append(list, new)
        ELSE IF Covers(new, cur) THEN Append(rest, Merged(new, cur)) ELSE rest \o pieces
  BY DEF Inserted
<1> HIDE DEF first, cur, pieces, rest
<1> QED
  BY <1>1, <1>3, <1>4, <1>5, <1>6, <1>7

-----------------------------------------------------------------------------
(***************************************************************************)
(* Obligatory arguments.  What the check relies on is that an argument     *)
(* that counts as assigned holds something: a declared one a value, unless *)
(* it was rejected, which collects an error; a register field a list that  *)
(* is not empty.  A field nobody ever declared has no type.                *)
(***************************************************************************)
EntryFields == DOMAIN Fresh

IsEntry(entry) ==
    /\ entry = [f \in EntryFields |-> entry[f]]
    /\ entry.declared \in BOOLEAN /\ entry.assigned \in BOOLEAN
    /\ entry.obligatory \in BOOLEAN
    /\ Sequence(entry.list)

Holds(entry) ==
    IF entry.declared THEN entry.assigned => entry.val # NoValue
    ELSE entry.list # <<>> \/ entry.type = ""

ContainerInv ==
    /\ errors \in BOOLEAN
    /\ args = [n \in Names |-> args[n]]
    /\ \A n \in Names : IsEntry(args[n])
    /\ ~errors =>
          /\ \A n \in Names : Holds(args[n])
          /\ status = "verified" => Missing = {}

LEMMA AbsentEntry == IsEntry(Absent) /\ Holds(Absent) /\ IsEntry(Fresh) /\ Holds(Fresh)
<1>1. Sequence(<<>>)
  BY EmptySeq, SequenceOf
<1> QED
  BY <1>1 DEF IsEntry, Holds, Absent, Fresh, EntryFields, NoValue

\* One entry changes, and holds something or an error is collected.
LEMMA OneEntry ==
    ASSUME ContainerInv, status = "ok", status' # "verified",
           NEW n \in Names, NEW entry, IsEntry(entry), Put(n, entry),
           NEW bad \in BOOLEAN, Collect(bad), ~bad /\ ~errors => Holds(entry)
    PROVE  ContainerInv'
<1>1. /\ args' = [args EXCEPT ![n] = entry]
      /\ args'[n] = entry
      /\ \A m \in Names : m # n => args'[m] = args[m]
  BY DEF Put, ContainerInv
<1>2. errors' = (errors \/ bad) /\ errors' \in BOOLEAN
  BY DEF Collect, ContainerInv
<1>3. args' = [m \in Names |-> args'[m]]
  BY <1>1 DEF ContainerInv
<1> QED
  BY <1>1, <1>2, <1>3 DEF ContainerInv

LEMMA FieldStep ==
    ASSUME ContainerInv, status = "ok", NEW n \in Names, NEW ref, NEW r, NEW v, NEW reads,
           SetField(n, ref, r, v, reads)
    PROVE  ContainerInv'
<1> DEFINE entry == IF Present(n) THEN args[n] ELSE Fresh
           new == Parsed(r, v, reads)
           next == [entry EXCEPT !.list = Inserted(@, new), !.declared = FALSE, !.assigned = TRUE]
           bad == DeclaredOnly \/ v.kind \notin {"int", "digits", "dict"}
<1>1. CASE Crash
  BY <1>1 DEF Crash, ContainerInv, Missing, Present
<1>2. CASE Collect(bad) /\ Put(n, next) /\ UNCHANGED status
  <2>1. IsEntry(entry)
    BY AbsentEntry DEF ContainerInv
  <2> HIDE DEF entry, new
  <2>2. /\ Sequence(Inserted(entry.list, new))
        /\ Inserted(entry.list, new) # <<>>
    BY <2>1, InsertedProperties DEF IsEntry
  <2>3. IsEntry(next) /\ Holds(next)
    BY <2>1, <2>2 DEF IsEntry, Holds, EntryFields, Fresh
  <2>4. bad \in BOOLEAN
    BY ContainerAssumption
  <2> QED
    BY <1>2, <2>3, <2>4, OneEntry
<1> QED
  BY <1>1, <1>2 DEF SetField

\* A value that its type takes is one, whatever it is kept as.
LEMMA KeptProperties ==
    ASSUME NEW type, NEW v \in Value
    PROVE  Kept(type, v) # NoValue
<1>1. v.kind # "none"
  BY DEF Value, Kinds
<1>2. [v EXCEPT !.kind = "int"].kind = "int"
  BY DEF Value
<1> QED
  BY <1>1, <1>2 DEF Kept, NoValue

LEMMA TypedValProperties ==
    ASSUME NEW entry, IsEntry(entry), NEW type, NEW r, NEW v \in Value
    PROVE  /\ IsEntry(TypedVal(entry, type, r, v))
           /\ Takes(type, v) => TypedVal(entry, type, r, v).val # NoValue
<1>1. \A n : [kind |-> "int", n |-> n] # NoValue
  BY DEF NoValue
<1>2. CASE type = "int"
  <2>1. IsEntry(IntVal(entry, r, v))
    BY DEF IntVal, IsEntry, EntryFields, Fresh
  <2>2. IntVal(entry, r, v).val # NoValue
    BY <1>1, KeptProperties DEF IntVal, IsEntry, EntryFields, Fresh
  <2> QED
    BY <1>2, <2>1, <2>2 DEF TypedVal
<1>3. CASE type # "int"
  BY <1>3, KeptProperties DEF TypedVal, IsEntry, EntryFields, Fresh
<1> QED
  BY <1>2, <1>3

LEMMA DeclaredStep ==
    ASSUME ContainerInv, status = "ok", NEW in \in Inputs,
           SetDeclared(in.name, in.ref, in.range, in.val)
    PROVE  ContainerInv'
<1> DEFINE n == in.name
           r == in.range
           v == in.val
           entry == args[n]
           typed == TypedVal(entry, entry.type, r, v)
           next == [typed EXCEPT !.declared = TRUE, !.assigned = TRUE, !.list = <<>>]
           bad == ~Takes(entry.type, v) \/ (entry.type # "int" /\ r.msb > 0)
<1>1. CASE Crash
  BY <1>1 DEF Crash, ContainerInv, Missing, Present
<1>2. CASE Collect(bad) /\ Put(n, next) /\ UNCHANGED status
  <2>1. n \in Names /\ IsEntry(entry) /\ v \in Value
    BY ContainerAssumption DEF ContainerInv, Input
  <2>2. IsEntry(typed) /\ (Takes(entry.type, v) => typed.val # NoValue)
    BY <2>1, TypedValProperties
  <2> HIDE DEF typed
  <2>3. Sequence(<<>>)
    BY EmptySeq, SequenceOf
  <2>4. IsEntry(next) /\ (Takes(entry.type, v) => Holds(next))
    BY <2>2, <2>3 DEF IsEntry, Holds, EntryFields, Fresh
  <2>5. bad \in BOOLEAN
    OBVIOUS
  <2> QED
    BY <1>2, <2>1, <2>4, <2>5, OneEntry
<1> QED
  BY <1>1, <1>2 DEF SetDeclared

\* The calls that assign nothing.
LEMMA OtherStep ==
    ASSUME ContainerInv, status = "ok",
           \/ \E n \in Names : Declare(n) \/ SetObligatory(n)
           \/ \E in \in Inputs : Delete(in.name, in.range)
           \/ \E n, new \in Names : Rename(n, new)
           \/ VerifyObligatory
    PROVE  ContainerInv'
<1>1. CASE Crash
  BY <1>1 DEF Crash, ContainerInv, Missing, Present
<1>2. ASSUME NEW n \in Names, NEW entry, IsEntry(entry), Holds(entry), Put(n, entry),
             UNCHANGED <<status, errors>>
      PROVE  ContainerInv'
  BY <1>2, OneEntry DEF Collect, ContainerInv
<1>3. ASSUME NEW n \in Names, Declare(n)
      PROVE  ContainerInv'
  <2> DEFINE entry(b) == [Fresh EXCEPT !.type = Types[n], !.declared = TRUE, !.obligatory = b]
  <2>1. ASSUME NEW b \in BOOLEAN
        PROVE  IsEntry(entry(b)) /\ Holds(entry(b))
    <3>1. /\ entry(b).declared = TRUE /\ entry(b).assigned = FALSE
          /\ entry(b).obligatory = b /\ entry(b).list = <<>>
          /\ entry(b) = [f \in EntryFields |-> entry(b)[f]]
      BY DEF EntryFields, Fresh
    <3>2. Sequence(<<>>)
      BY AbsentEntry DEF IsEntry, Fresh
    <3> QED
      BY <3>1, <3>2 DEF IsEntry, Holds
  <2>2. (n \in Obligatory) \in BOOLEAN
    OBVIOUS
  <2>3. Put(n, entry(n \in Obligatory)) /\ UNCHANGED <<status, errors>>
    BY <1>3 DEF Declare
  <2> QED
    BY <1>2, <2>1, <2>2, <2>3
<1>4. ASSUME NEW n \in Names, SetObligatory(n)
      PROVE  ContainerInv'
  <2> DEFINE entry == [args[n] EXCEPT !.obligatory = TRUE]
  <2>1. IsEntry(entry) /\ (Holds(args[n]) => Holds(entry))
    <3>1. IsEntry(args[n])
      BY DEF ContainerInv
    <3>2. /\ entry.declared = args[n].declared /\ entry.assigned = args[n].assigned
          /\ entry.list = args[n].list /\ entry.val = args[n].val
          /\ entry.type = args[n].type /\ entry.obligatory = TRUE
          /\ entry = [f \in EntryFields |-> entry[f]]
      BY <3>1 DEF IsEntry, EntryFields, Fresh
    <3> HIDE DEF entry
    <3> QED
      BY <3>1, <3>2 DEF IsEntry, Holds
  <2>2. Put(n, entry) /\ UNCHANGED <<status, errors>> => ContainerInv'
    BY <2>1, OneEntry DEF Collect, ContainerInv
  <2> QED
    BY <1>1, <1>4, <2>2 DEF SetObligatory
<1>5. ASSUME NEW in \in Inputs, Delete(in.name, in.range)
      PROVE  ContainerInv'
  <2>1. in.name \in Names
    BY ContainerAssumption DEF Input
  <2> QED
    BY <1>1, <1>2, <1>5, <2>1, AbsentEntry DEF Delete
<1>6. ASSUME NEW n \in Names, NEW new \in Names, Rename(n, new)
      PROVE  ContainerInv'
  <2>1. CASE UNCHANGED <<args, status>> /\ Collect(TRUE)
    BY <2>1 DEF Collect, ContainerInv
  <2>2. CASE args' = [args EXCEPT ![new] = args[n], ![n] = Absent] /\ UNCHANGED <<status, errors>>
    <3>1. \A m \in Names : args'[m] \in {args[m], args[n], Absent}
      BY <1>6, <2>2 DEF ContainerInv
    <3>2. args' = [m \in Names |-> args'[m]]
      BY <2>2 DEF ContainerInv
    <3> QED
      BY <2>2, <3>1, <3>2, AbsentEntry DEF ContainerInv
  <2> QED
    BY <1>6, <2>1, <2>2 DEF Rename
<1>7. CASE VerifyObligatory
  BY <1>7 DEF VerifyObligatory, Collect, ContainerInv, Missing, Present
<1> QED
  BY <1>3, <1>4, <1>5, <1>6, <1>7

LEMMA ContainerInit == Init => ContainerInv
BY AbsentEntry DEF Init, ContainerInv

LEMMA ContainerNext == ContainerInv /\ [Next]_vars => ContainerInv'
<1> SUFFICES ASSUME ContainerInv, [Next]_vars
             PROVE  ContainerInv'
  OBVIOUS
<1>1. CASE UNCHANGED vars
  BY <1>1 DEF vars, ContainerInv, Missing, Present
<1>2. CASE Next
  <2>1. status = "ok"
    BY <1>2 DEF Next
  <2>2. ASSUME NEW in \in Inputs, Set(in)
        PROVE  ContainerInv'
    <3>1. in.name \in Names
      BY ContainerAssumption DEF Input
    <3> QED
      BY <2>1, <2>2, <3>1, FieldStep, DeclaredStep DEF Set
  <2>3. ASSUME NEW in \in Inputs, Override(in)
        PROVE  ContainerInv'
    <3>1. CASE Crash
      BY <3>1 DEF Crash, ContainerInv, Missing, Present
    <3> QED
      BY <2>2, <2>3, <3>1 DEF Override
  <2> QED
    BY <1>2, <2>1, <2>2, <2>3, OtherStep DEF Next
<1> QED
  BY <1>1, <1>2

\* When verify_obligatory_arguments finds nothing missing, every obligatory
\* argument holds something, in whatever order the names were declared,
\* assigned, renamed and deleted (htd_arguments_container.py).
THEOREM ObligatoryHolds == Spec => []ObligatoryHasValue
<1>1. ContainerInv => ObligatoryHasValue
  <2> SUFFICES ASSUME ContainerInv, status = "verified", ~errors, NEW n \in Names,
                      Present(n), args[n].obligatory
               PROVE  IF args[n].declared THEN args[n].val # NoValue
                      ELSE args[n].list # <<>> \/ args[n].type = ""
    BY DEF ObligatoryHasValue
  <2>1. Holds(args[n]) /\ n \notin Missing
    BY DEF ContainerInv
  <2> QED
    BY <2>1 DEF Holds, Missing
<1> QED
  BY <1>1, ContainerInit, ContainerNext, PTL DEF Spec

-----------------------------------------------------------------------------
(***************************************************************************)
(* Register fields.  The entries of a list have a range that is no smaller *)
(* than nothing, and whatever is cut out of an entry is a number again.    *)
(***************************************************************************)
FieldEntry == {e \in Entry : e.lsb <= e.msb}

LEMMA PowerProperties == ASSUME NEW k \in Nat PROVE 2^k \in Nat /\ 2^k > 0
<1> DEFINE bits == 1..k
<1>1. IsFiniteSet(bits) /\ Cardinality(bits) = k
  BY FS_Interval
<1>2. IsFiniteSet(SUBSET bits) /\ Cardinality(SUBSET bits) = 2^k
  BY <1>1, FS_SUBSET
<1>3. Cardinality(SUBSET bits) \in Nat /\ Cardinality(SUBSET bits) # 0
  BY <1>2, FS_CardinalityType, FS_EmptySet
<1> QED
  BY <1>2, <1>3

\* util_get_int_sub_range of numbers is a number, also with its arguments
\* in the order in which the container passes them.
LEMMA PieceProperties ==
    ASSUME NEW n \in Int, NEW lsb \in -1..Width, NEW msb \in -1..Width
    PROVE  Piece(n, lsb, msb) \in Int
<1>1. CASE n < 0 \/ lsb < n
  BY <1>1 DEF Piece, SubRange, None
<1>2. CASE n >= 0 /\ n <= lsb
  <2>1. 2^n \in Nat /\ 2^n > 0 /\ 2^(lsb - n + 1) \in Nat /\ 2^(lsb - n + 1) > 0
    BY <1>2, PowerProperties
  <2>2. (msb \div 2^n) % 2^(lsb - n + 1) \in Int
    <3> DEFINE q == 2^n
               m == 2^(lsb - n + 1)
    <3>1. q \in Nat /\ q > 0 /\ m \in Nat /\ m > 0
      BY <2>1
    <3> HIDE DEF q, m
    <3>2. (msb \div q) \in Int
      BY <3>1
    <3>3. (msb \div q) % m \in Int
      BY <3>1, <3>2
    <3> QED
      BY <3>3 DEF q, m
  <2> QED
    BY <1>2, <2>2 DEF Piece, SubRange
<1> QED
  BY <1>1, <1>2, ContainerAssumption

LEMMA ParsedProperties ==
    ASSUME NEW in \in Inputs, NEW reads
    PROVE  Parsed(in.range, in.val, reads) \in FieldEntry
<1>1. /\ in.range.lsb \in -1..Width-1 /\ in.range.msb \in -1..Width-1
      /\ in.range.lsb <= in.range.msb
      /\ in.val.n \in Nat
  <2>1. in \in Input /\ (in.range = Whole \/ in.range.lsb <= in.range.msb)
    BY ContainerAssumption
  <2>2. in.range \in Ranges /\ in.val.n \in Nat
    BY <2>1 DEF Input, Value
  <2>3. Whole.lsb = -1 /\ Whole.msb = -1
    BY DEF Whole, BitRange
  <2> QED
    BY <2>1, <2>2, <2>3 DEF Ranges
<1>2. -1 \in Int
  OBVIOUS
<1> DEFINE n == IF in.val.kind \in {"int", "digits"} THEN in.val.n ELSE None
           value == IF reads THEN None ELSE n
           read == IF reads THEN n ELSE None
<1>3. n \in Int
  BY <1>1, <1>2 DEF None
<1>4. value \in Int /\ read \in Int
  BY <1>2, <1>3 DEF None
<1>5. Parsed(in.range, in.val, reads) =
        [lsb |-> in.range.lsb, msb |-> in.range.msb, value |-> value, read |-> read]
  BY DEF Parsed
<1> HIDE DEF n, value, read
<1> QED
  BY <1>1, <1>4, <1>5 DEF FieldEntry, Entry

LEMMA MergedProperties ==
    ASSUME NEW new \in FieldEntry, NEW old \in FieldEntry
    PROVE  Merged(new, old) \in FieldEntry
BY DEF Merged, FieldEntry, Entry

LEMMA LowPiecesProperties ==
    ASSUME NEW new \in FieldEntry, NEW cur \in FieldEntry
    PROVE  LowPieces(new, cur) \in Seq(FieldEntry)
<1> DEFINE low  == LowPieces(new, cur)[1]
           both == LowPieces(new, cur)[2]
           high == LowPieces(new, cur)[3]
<1>1. /\ new.lsb \in -1..Width-1 /\ new.msb \in -1..Width-1
      /\ cur.lsb \in -1..Width-1 /\ cur.msb \in -1..Width-1
      /\ new.value \in Int /\ new.read \in Int /\ cur.value \in Int /\ cur.read \in Int
  BY DEF FieldEntry, Entry
<1>2. /\ Piece(new.value, new.lsb, cur.lsb) \in Int /\ Piece(new.read, new.lsb, cur.lsb) \in Int
      /\ Piece(new.value, cur.lsb + 1, new.msb) \in Int
      /\ Piece(new.read, cur.lsb + 1, new.msb) \in Int
      /\ Piece(cur.value, new.msb + 1, cur.msb) \in Int
      /\ Piece(cur.read, new.msb + 1, cur.msb) \in Int
  <2>1. /\ new.lsb \in -1..Width /\ new.msb \in -1..Width /\ new.msb + 1 \in -1..Width
        /\ cur.lsb \in -1..Width /\ cur.msb \in -1..Width /\ cur.lsb + 1 \in -1..Width
    BY <1>1, ContainerAssumption
  <2> QED
    BY <1>1, <2>1, PieceProperties
<1>3. low \in FieldEntry
  BY <1>2 DEF LowPieces, FieldEntry, Entry
<1>4. both \in FieldEntry
  BY <1>2, MergedProperties DEF LowPieces, FieldEntry, Entry
<1>5. high \in FieldEntry
  BY <1>2 DEF LowPieces, FieldEntry, Entry
<1>6. LowPieces(new, cur) = <<low, both, high>>
  BY DEF LowPieces
<1> HIDE DEF low, both, high
<1>7. <<low, both, high>> \in Seq(FieldEntry)
  BY <1>3, <1>4, <1>5
<1> QED
  BY <1>6, <1>7

LEMMA InsertedEntries ==
    ASSUME NEW list \in Seq(FieldEntry), NEW new \in FieldEntry
    PROVE  Inserted(list, new) \in Seq(FieldEntry)
<1>1. CASE list = <<>> \/ Deciding(list, new) = {}
  BY <1>1 DEF Inserted
<1>2. CASE list # <<>> /\ Deciding(list, new) # {}
  <2> DEFINE first == Min(Deciding(list, new))
             cur == list[first]
             rest == RemoveAt(list, first)
  <2>1. first \in 1..Len(list)
    BY <1>2, DecidingFirstOf
  <2>2. Inserted(list, new) =
          IF Below(new, cur) \/ Above(new, cur) THEN Append(list, new)
          ELSE IF Covers(new, cur) THEN Append(rest, Merged(new, cur))
          ELSE rest \o LowPieces(new, cur)
    BY <1>2 DEF Inserted
  <2> HIDE DEF first
  <2>3. cur \in FieldEntry /\ rest \in Seq(FieldEntry)
    BY <2>1, ElementOfSeq, RemoveAtProperties
  <2> HIDE DEF cur, rest
  <2>4. Merged(new, cur) \in FieldEntry /\ LowPieces(new, cur) \in Seq(FieldEntry)
    BY <2>3, MergedProperties, LowPiecesProperties
  <2>5. /\ Append(list, new) \in Seq(FieldEntry)
        /\ Append(rest, Merged(new, cur)) \in Seq(FieldEntry)
        /\ rest \o LowPieces(new, cur) \in Seq(FieldEntry)
    BY <2>3, <2>4, AppendProperties, ConcatProperties
  <2> QED
    BY <2>2, <2>5
<1> QED
  BY <1>1, <1>2

-----------------------------------------------------------------------------
(***************************************************************************)
(* The bits that a list of entries writes: the last entry that covers a    *)
(* bit decides, so that only what goes to the end of a list, or leaves it, *)
(* is to be looked at.                                                     *)
(***************************************************************************)
Writers(list, b) == {i \in 1..Len(list) : CoversBit(list[i], b)}
BitOf(e, b) == (e.value \div 2^(b - (IF e.lsb < 0 THEN 0 ELSE e.lsb))) % 2

LEMMA WrittenByLast ==
    ASSUME NEW list, NEW b, NEW i \in Writers(list, b), \A j \in Writers(list, b) : j <= i
    PROVE  Written(list, b) = BitOf(list[i], b)
<1> DEFINE last == CHOOSE k \in Writers(list, b) : \A j \in Writers(list, b) : j <= k
<1>1. last \in Writers(list, b) /\ \A j \in Writers(list, b) : j <= last
  OBVIOUS
<1>2. last <= i /\ i <= last /\ last \in Int /\ i \in Int
  BY <1>1 DEF Writers
<1>3. last = i
  BY <1>2
<1>4. Writers(list, b) # {}
  OBVIOUS
<1>5. Written(list, b) = BitOf(list[last], b)
  BY <1>4 DEF Written, Writers, BitOf
<1> QED
  BY <1>3, <1>5

LEMMA WrittenByNone ==
    ASSUME NEW list, NEW b, Writers(list, b) = {}
    PROVE  Written(list, b) = None
BY DEF Written, Writers

LEMMA WrittenCases ==
    ASSUME NEW list \in Seq(FieldEntry), NEW b
    PROVE  \/ Writers(list, b) = {} /\ Written(list, b) = None
           \/ \E i \in Writers(list, b) : /\ \A j \in Writers(list, b) : j <= i
                                          /\ Written(list, b) = BitOf(list[i], b)
<1>1. Writers(list, b) \in SUBSET (1..Len(list)) /\ Len(list) \in Nat
  BY LenProperties DEF Writers
<1> QED
  BY <1>1, LastOfSet, WrittenByLast, WrittenByNone

LEMMA WrittenAppended ==
    ASSUME NEW list \in Seq(FieldEntry), NEW e \in FieldEntry, NEW b
    PROVE  Written(Append(list, e), b) =
              IF CoversBit(e, b) THEN BitOf(e, b) ELSE Written(list, b)
<1> DEFINE longer == Append(list, e)
<1>1. /\ longer \in Seq(FieldEntry)
      /\ Len(list) \in Nat
      /\ Len(longer) = Len(list) + 1
      /\ longer[Len(list) + 1] = e
      /\ \A i \in 1..Len(list) : longer[i] = list[i]
  BY LenProperties, AppendProperties
<1> HIDE DEF longer
<1>2. CASE CoversBit(e, b)
  <2>1. Len(list) + 1 \in Writers(longer, b)
    BY <1>1, <1>2 DEF Writers
  <2>2. \A j \in Writers(longer, b) : j <= Len(list) + 1
    BY <1>1 DEF Writers
  <2> QED
    BY <1>1, <1>2, <2>1, <2>2, WrittenByLast DEF longer
<1>3. CASE ~CoversBit(e, b)
  <2>1. Writers(longer, b) = Writers(list, b)
    BY <1>1, <1>3 DEF Writers
  <2>2. CASE Writers(list, b) = {}
    BY <1>3, <2>1, <2>2, WrittenByNone DEF longer
  <2>3. ASSUME NEW i \in Writers(list, b), \A j \in Writers(list, b) : j <= i
        PROVE  Written(longer, b) = Written(list, b)
    <3>1. longer[i] = list[i]
      BY <1>1 DEF Writers
    <3> QED
      BY <2>1, <2>3, <3>1, WrittenByLast
  <2> QED
    BY <1>3, <2>2, <2>3, WrittenCases DEF longer
<1> QED
  BY <1>2, <1>3

LEMMA WrittenRemoved ==
    ASSUME NEW list \in Seq(FieldEntry), NEW p \in 1..Len(list), NEW b,
           ~CoversBit(list[p], b)
    PROVE  Written(RemoveAt(list, p), b) = Written(list, b)
<1> DEFINE rest == RemoveAt(list, p)
           from(i) == IF i < p THEN i ELSE i + 1   \* the place in list
<1>1. /\ rest \in Seq(FieldEntry)
      /\ Len(list) \in Nat
      /\ Len(rest) = Len(list) - 1
      /\ \A i \in 1..Len(rest) : rest[i] = list[from(i)]
  BY LenProperties, RemoveAtProperties
<1> HIDE DEF rest
<1>2. ASSUME NEW i \in Writers(rest, b)
      PROVE  i \in Int /\ from(i) \in Writers(list, b)
  <2>1. i \in 1..Len(rest) /\ CoversBit(list[from(i)], b)
    BY <1>1 DEF Writers
  <2>2. from(i) \in 1..Len(list)
    BY <1>1, <2>1
  <2> QED
    BY <2>1, <2>2 DEF Writers
<1>3. ASSUME NEW j \in Writers(list, b)
      PROVE  \E i \in Writers(rest, b) : j = from(i)
  <2> DEFINE i == IF j < p THEN j ELSE j - 1
  <2>1. j \in 1..Len(list) /\ CoversBit(list[j], b) /\ j # p
    BY DEF Writers
  <2>2. i \in 1..Len(rest) /\ j = from(i)
    BY <1>1, <2>1
  <2> HIDE DEF i
  <2>3. CoversBit(rest[i], b)
    BY <1>1, <2>1, <2>2
  <2> QED
    BY <2>2, <2>3 DEF Writers
<1>4. CASE Writers(rest, b) = {}
  BY <1>3, <1>4, WrittenByNone DEF rest
<1>5. ASSUME NEW i \in Writers(rest, b), \A j \in Writers(rest, b) : j <= i
      PROVE  Written(rest, b) = Written(list, b)
  <2>1. from(i) \in Writers(list, b)
    BY <1>2
  <2>2. ASSUME NEW j \in Writers(list, b)
        PROVE  j <= from(i)
    <3>1. PICK k \in Writers(rest, b) : j = from(k)
      BY <1>3
    <3>2. k <= i /\ k \in Int /\ i \in Int
      BY <1>2, <1>5
    <3> QED
      BY <3>1, <3>2
  <2>3. rest[i] = list[from(i)]
    BY <1>1 DEF Writers
  <2>4. Written(list, b) = BitOf(list[from(i)], b)
    BY <2>1, <2>2, WrittenByLast
  <2> QED
    BY <1>5, <2>3, <2>4, WrittenByLast
<1> QED
  BY <1>1, <1>4, <1>5, WrittenCases DEF rest

-----------------------------------------------------------------------------
(***************************************************************************)
(* What a list holds, against what was given.  While the assignments are   *)
(* writes of which each is apart from the earlier ones, covers them or     *)
(* lies inside them, and lands, every entry of the list is one of them,    *)
(* every one that no later one covers is in the list (so that one that     *)
(* lands finds an entry that decides), and both write the same bits.       *)
(***************************************************************************)
SameWrite(e, f) == e.lsb = f.lsb /\ e.msb = f.msb /\ e.value = f.value

Fits(e, new) == Disjoint(e, new) \/ Covers(new, e) \/ Inside(new, e)

Orderly(g) ==
    /\ \A i \in 1..Len(g) : g[i].value >= 0
    /\ \A j \in 1..Len(g) : Lands(g, j) /\ \A i \in 1..j-1 : Fits(g[i], g[j])

\* The i-th of g is covered by no later one.
Stands(g, i) == \A k \in i+1..Len(g) : ~Covers(g[k], g[i])

FromGiven(list, g) == \A k \in 1..Len(list) : \E i \in 1..Len(g) : SameWrite(list[k], g[i])
StandingKept(list, g) ==
    \A i \in 1..Len(g) : Stands(g, i) => \E k \in 1..Len(list) : SameWrite(list[k], g[i])
SameBits(list, g) == \A b \in 0..Width-1 : Written(list, b) = Written(g, b)

Faithful(list, g) ==
    Orderly(g) => FromGiven(list, g) /\ StandingKept(list, g) /\ SameBits(list, g)

LEMMA OrderlyPrefix ==
    ASSUME NEW g \in Seq(FieldEntry), NEW new \in FieldEntry, Orderly(Append(g, new))
    PROVE  /\ Orderly(g)
           /\ new.value >= 0
           /\ \A i \in 1..Len(g) : Fits(g[i], new)
           /\ Len(g) = 0 \/ \E i \in 1..Len(g) : ~Inside(new, g[i]) /\ Stands(g, i)
<1> DEFINE longer == Append(g, new)
<1>1. /\ Len(g) \in Nat /\ Len(longer) = Len(g) + 1
      /\ longer[Len(g) + 1] = new
      /\ \A i \in 1..Len(g) : longer[i] = g[i]
  BY LenProperties, AppendProperties
<1> HIDE DEF longer
<1>2. /\ \A i \in 1..Len(longer) : longer[i].value >= 0
      /\ \A j \in 1..Len(longer) :
            Lands(longer, j) /\ \A i \in 1..j-1 : Fits(longer[i], longer[j])
  BY DEF longer, Orderly
<1>3. /\ \A i \in 1..Len(g) : i \in 1..Len(longer) /\ i \in 1..(Len(g) + 1) - 1
      /\ Len(g) + 1 \in 1..Len(longer)
  BY <1>1
<1>4. ASSUME NEW j \in 1..Len(g), NEW i \in 1..j-1
      PROVE  Fits(g[i], g[j])
  <2>1. i \in 1..Len(g)
    BY <1>1
  <2> QED
    BY <1>1, <1>2, <1>3, <2>1
<1>5. ASSUME NEW j \in 1..Len(g)
      PROVE  Lands(g, j)
  <2>1. Lands(longer, j)
    BY <1>2, <1>3
  <2>2. CASE j = 1
    BY <2>2 DEF Lands
  <2>3. ASSUME NEW i \in 1..j-1, ~Inside(longer[j], longer[i]),
               \A k \in i+1..j-1 : ~Covers(longer[k], longer[i])
        PROVE  Lands(g, j)
    <3>1. longer[j] = g[j] /\ longer[i] = g[i]
      BY <1>1
    <3>2. \A k \in i+1..j-1 : longer[k] = g[k]
      BY <1>1
    <3> QED
      BY <2>3, <3>1, <3>2 DEF Lands
  <2> QED
    BY <2>1, <2>2, <2>3 DEF Lands
<1>6. ASSUME Len(g) # 0
      PROVE  \E i \in 1..Len(g) : ~Inside(new, g[i]) /\ Stands(g, i)
  <2>1. Lands(longer, Len(g) + 1) /\ Len(g) + 1 # 1
    BY <1>1, <1>2, <1>3, <1>6
  <2>2. PICK i \in 1..(Len(g) + 1) - 1 :
           /\ ~Inside(longer[Len(g) + 1], longer[i])
           /\ \A k \in i+1..(Len(g) + 1) - 1 : ~Covers(longer[k], longer[i])
    BY <2>1 DEF Lands
  <2>3. i \in 1..Len(g) /\ longer[i] = g[i]
    BY <1>1
  <2>4. ASSUME NEW k \in i+1..Len(g)
        PROVE  ~Covers(g[k], g[i])
    <3>1. k \in i+1..(Len(g) + 1) - 1 /\ longer[k] = g[k]
      BY <1>1
    <3> QED
      BY <2>2, <2>3, <3>1
  <2> QED
    BY <1>1, <2>2, <2>3, <2>4 DEF Stands
<1> QED
  BY <1>1, <1>2, <1>3, <1>4, <1>5, <1>6 DEF Orderly

\* What stands when one more is given stood before, and is not covered by it.
LEMMA StandsLonger ==
    ASSUME NEW g \in Seq(FieldEntry), NEW new \in FieldEntry, NEW i \in 1..Len(g),
           Stands(Append(g, new), i)
    PROVE  Stands(g, i) /\ ~Covers(new, g[i])
<1> DEFINE longer == Append(g, new)
<1>1. /\ Len(g) \in Nat /\ Len(longer) = Len(g) + 1
      /\ longer[Len(g) + 1] = new
      /\ \A k \in 1..Len(g) : longer[k] = g[k]
  BY LenProperties, AppendProperties
<1> HIDE DEF longer
<1>2. \A k \in i+1..Len(g)+1 : ~Covers(longer[k], longer[i])
  BY <1>1 DEF Stands, longer
<1>3. longer[i] = g[i] /\ Len(g) + 1 \in i+1..Len(g)+1
  BY <1>1
<1>4. \A k \in i+1..Len(g) : k \in i+1..Len(g)+1 /\ longer[k] = g[k]
  BY <1>1
<1> QED
  BY <1>1, <1>2, <1>3, <1>4 DEF Stands

\* An entry that writes what is new is appended to the old entries, or to those
\* that are left without one that it covers.
LEMMA AppendedFaithful ==
    ASSUME NEW old \in Seq(FieldEntry), NEW g \in Seq(FieldEntry), NEW new \in FieldEntry,
           NEW e \in FieldEntry, SameWrite(e, new), FromGiven(old, g),
           \A i \in 1..Len(g) : Stands(g, i) /\ ~Covers(new, g[i]) =>
              \E k \in 1..Len(old) : SameWrite(old[k], g[i]),
           \A b \in 0..Width-1 : ~CoversBit(new, b) => Written(old, b) = Written(g, b)
    PROVE  /\ FromGiven(Append(old, e), Append(g, new))
           /\ StandingKept(Append(old, e), Append(g, new))
           /\ SameBits(Append(old, e), Append(g, new))
<1> DEFINE longer == Append(g, new)
           next == Append(old, e)
<1>1. /\ Len(g) \in Nat /\ Len(longer) = Len(g) + 1
      /\ longer[Len(g) + 1] = new
      /\ \A i \in 1..Len(g) : longer[i] = g[i]
  BY LenProperties, AppendProperties
<1>2. /\ Len(old) \in Nat /\ Len(next) = Len(old) + 1
      /\ next[Len(old) + 1] = e
      /\ \A i \in 1..Len(old) : next[i] = old[i]
  BY LenProperties, AppendProperties
<1>3. \A b : Written(longer, b) = IF CoversBit(new, b) THEN BitOf(new, b) ELSE Written(g, b)
  BY WrittenAppended
<1>4. \A b : Written(next, b) = IF CoversBit(e, b) THEN BitOf(e, b) ELSE Written(old, b)
  BY WrittenAppended
<1>5. \A i \in 1..Len(g) : Stands(longer, i) => Stands(g, i) /\ ~Covers(new, g[i])
  BY StandsLonger
<1> HIDE DEF longer, next
<1>6. ASSUME NEW k \in 1..Len(next)
      PROVE  \E i \in 1..Len(longer) : SameWrite(next[k], longer[i])
  <2>1. CASE k \in 1..Len(old)
    <3>1. PICK i \in 1..Len(g) : SameWrite(old[k], g[i])
      BY <2>1 DEF FromGiven
    <3>2. i \in 1..Len(longer) /\ longer[i] = g[i]
      BY <1>1
    <3> QED
      BY <1>2, <2>1, <3>1, <3>2
  <2>2. CASE k = Len(old) + 1
    <3>1. Len(g) + 1 \in 1..Len(longer)
      BY <1>1
    <3> QED
      BY <1>1, <1>2, <2>2, <3>1
  <2> QED
    BY <1>2, <2>1, <2>2
<1>7. ASSUME NEW i \in 1..Len(longer), Stands(longer, i)
      PROVE  \E k \in 1..Len(next) : SameWrite(next[k], longer[i])
  <2>1. CASE i \in 1..Len(g)
    <3>1. PICK k \in 1..Len(old) : SameWrite(old[k], g[i])
      BY <1>5, <1>7, <2>1
    <3>2. k \in 1..Len(next) /\ next[k] = old[k]
      BY <1>2
    <3> QED
      BY <1>1, <2>1, <3>1, <3>2
  <2>2. CASE i = Len(g) + 1
    <3>1. Len(old) + 1 \in 1..Len(next)
      BY <1>2
    <3> QED
      BY <1>1, <1>2, <2>2, <3>1
  <2> QED
    BY <1>1, <2>1, <2>2
<1>8. ASSUME NEW b \in 0..Width-1
      PROVE  Written(next, b) = Written(longer, b)
  <2>1. (CoversBit(e, b) <=> CoversBit(new, b)) /\ BitOf(e, b) = BitOf(new, b)
    BY DEF SameWrite, CoversBit, BitOf
  <2> QED
    BY <1>3, <1>4, <2>1
<1> QED
  BY <1>6, <1>7, <1>8 DEF FromGiven, StandingKept, SameBits, longer, next

LEMMA InsertedFaithful ==
    ASSUME NEW list \in Seq(FieldEntry), NEW g \in Seq(FieldEntry), NEW new \in FieldEntry,
           Faithful(list, g)
    PROVE  Faithful(Inserted(list, new), Append(g, new))
<1> DEFINE longer == Append(g, new)
           Writes(ins) == FromGiven(ins, longer) /\ StandingKept(ins, longer) /\ SameBits(ins, longer)
<1> SUFFICES ASSUME Orderly(longer)
             PROVE  Writes(Inserted(list, new))
  BY DEF Faithful
<1>1. /\ Orderly(g) /\ new.value >= 0
      /\ \A i \in 1..Len(g) : Fits(g[i], new)
      /\ Len(g) = 0 \/ \E i \in 1..Len(g) : ~Inside(new, g[i]) /\ Stands(g, i)
  BY OrderlyPrefix
<1>2. FromGiven(list, g) /\ StandingKept(list, g) /\ SameBits(list, g)
  BY <1>1 DEF Faithful
<1> HIDE DEF longer
<1>3. Writes(Append(list, new))
  <2>1. SameWrite(new, new)
    BY DEF SameWrite
  <2>2. \A i \in 1..Len(g) : Stands(g, i) => \E k \in 1..Len(list) : SameWrite(list[k], g[i])
    BY <1>2 DEF StandingKept
  <2>3. \A b \in 0..Width-1 : Written(list, b) = Written(g, b)
    BY <1>2 DEF SameBits
  <2> QED
    BY <1>2, <2>1, <2>2, <2>3, AppendedFaithful DEF longer
<1> HIDE DEF Writes
<1>4. CASE list = <<>>
  <2>1. Append(list, new) = <<new>>
    BY <1>4
  <2> QED
    BY <1>3, <1>4, <2>1 DEF Inserted
\* One that was given, stands and is not around the new range is in the list.
<1>5. CASE list # <<>>
  <2>1. Len(list) \in Nat /\ Len(list) # 0
    BY <1>5, LenProperties, EmptySeq
  <2>2. Len(g) # 0 /\ Len(g) \in Nat
    <3>1. 1 \in 1..Len(list)
      BY <2>1
    <3>2. PICK i \in 1..Len(g) : SameWrite(list[1], g[i])
      BY <1>2, <3>1 DEF FromGiven
    <3> QED
      BY <3>2, LenProperties
  <2>3. Deciding(list, new) # {}
    <3>1. PICK i \in 1..Len(g) : ~Inside(new, g[i]) /\ Stands(g, i)
      BY <1>1, <2>2
    <3>2. PICK k \in 1..Len(list) : SameWrite(list[k], g[i])
      BY <1>2, <3>1 DEF StandingKept
    <3>3. ~Inside(new, list[k])
      BY <3>1, <3>2 DEF Inside, SameWrite
    <3> QED
      BY <3>3 DEF Deciding
  <2> DEFINE p == Min(Deciding(list, new))
             cur == list[p]
             rest == RemoveAt(list, p)
  <2>4. p \in 1..Len(list) /\ ~Inside(new, cur)
    BY <2>3, DecidingFirstOf
  <2>5. Inserted(list, new) =
          IF Below(new, cur) \/ Above(new, cur) THEN Append(list, new)
          ELSE IF Covers(new, cur) THEN Append(rest, Merged(new, cur))
          ELSE rest \o LowPieces(new, cur)
    BY <1>5, <2>3 DEF Inserted
  <2> HIDE DEF p
  <2>6. cur \in FieldEntry
    BY <2>4, ElementOfSeq
  <2>7. CASE Below(new, cur) \/ Above(new, cur)
    BY <1>3, <2>5, <2>7
  <2>8. CASE ~(Below(new, cur) \/ Above(new, cur))
    <3>1. /\ rest \in Seq(FieldEntry) /\ Len(rest) = Len(list) - 1
          /\ \A k \in 1..Len(list)-1 : rest[k] = list[IF k < p THEN k ELSE k + 1]
      BY <2>4, RemoveAtProperties
    <3>2. PICK i \in 1..Len(g) : SameWrite(cur, g[i])
      BY <1>2, <2>4 DEF FromGiven
    <3>3. Covers(new, cur)
      <4>1. Fits(g[i], new)
        BY <1>1
      <4>2. Fits(cur, new)
        BY <3>2, <4>1 DEF Fits, Disjoint, Covers, Inside, SameWrite
      <4> QED
        BY <2>4, <2>8, <4>2 DEF Fits, Disjoint, Below, Above
    <3>4. Inserted(list, new) = Append(rest, Merged(new, cur))
      BY <2>5, <2>8, <3>3
    <3>5. Merged(new, cur) \in FieldEntry
      BY <2>6, MergedProperties
    <3>6. SameWrite(Merged(new, cur), new)
      BY <1>1 DEF Merged, SameWrite, FieldEntry, Entry
    <3>7. FromGiven(rest, g)
      <4>1. ASSUME NEW k \in 1..Len(rest)
            PROVE  \E j \in 1..Len(g) : SameWrite(rest[k], g[j])
        <5>1. (IF k < p THEN k ELSE k + 1) \in 1..Len(list) /\ k \in 1..Len(list)-1
          BY <2>1, <2>4, <3>1
        <5> QED
          BY <1>2, <3>1, <5>1 DEF FromGiven
      <4> QED
        BY <4>1 DEF FromGiven
    <3>8. ASSUME NEW j \in 1..Len(g), Stands(g, j), ~Covers(new, g[j])
          PROVE  \E k \in 1..Len(rest) : SameWrite(rest[k], g[j])
      <4>1. PICK m \in 1..Len(list) : SameWrite(list[m], g[j])
        BY <1>2, <3>8 DEF StandingKept
      <4>2. m # p
        BY <3>3, <3>8, <4>1 DEF Covers, SameWrite
      <4>3. PICK k \in 1..Len(list)-1 : m = (IF k < p THEN k ELSE k + 1)
        <5> DEFINE k == IF m < p THEN m ELSE m - 1
        <5>1. k \in 1..Len(list)-1 /\ m = (IF k < p THEN k ELSE k + 1)
          BY <2>1, <2>4, <4>2
        <5> QED
          BY <5>1
      <4>4. rest[k] = list[m] /\ k \in 1..Len(rest)
        BY <3>1, <4>3
      <4> QED
        BY <4>1, <4>4
    <3>9. ASSUME NEW b \in 0..Width-1, ~CoversBit(new, b)
          PROVE  Written(rest, b) = Written(g, b)
      <4>1. ~CoversBit(cur, b)
        <5>1. /\ new.lsb \in Int /\ new.msb \in Int /\ cur.lsb \in Int /\ cur.msb \in Int
              /\ b \in Int
          BY <2>6, ContainerAssumption DEF FieldEntry, Entry
        <5>2. new.lsb <= cur.lsb /\ cur.msb <= new.msb
          BY <3>3, <5>1 DEF Covers
        <5>3. new.lsb >= 0 /\ ~(new.lsb <= b /\ b <= new.msb)
          BY <1>1, <3>9, <5>1 DEF CoversBit
        <5> HIDE DEF cur
        <5> QED
          BY <5>1, <5>2, <5>3 DEF CoversBit
      <4>2. Written(rest, b) = Written(list, b)
        BY <2>4, <4>1, WrittenRemoved
      <4> QED
        BY <1>2, <4>2 DEF SameBits
    <3> HIDE DEF cur, rest
    <3>10. Writes(Append(rest, Merged(new, cur)))
      BY <3>1, <3>5, <3>6, <3>7, <3>8, <3>9, AppendedFaithful DEF Writes, longer
    <3> QED
      BY <3>4, <3>10
  <2> QED
    BY <2>7, <2>8
<1> QED
  BY <1>4, <1>5

-----------------------------------------------------------------------------
(***************************************************************************)
(* The invariant of register fields: a declared entry has a type and no    *)
(* list, the list of a field holds what was given since it appeared, and   *)
(* nothing was given to a name that is absent.                             *)
(***************************************************************************)
GoodField(entry, g) ==
    /\ entry.list \in Seq(FieldEntry) /\ g \in Seq(FieldEntry)
    /\ entry.declared => entry.type # "" /\ entry.list = <<>>
    /\ entry = Absent => g = <<>>
    /\ ~entry.declared => Faithful(entry.list, g)

GoodFields ==
    /\ status \in {"ok", "verified", "crashed"}
    /\ given = [n \in Names |-> given[n]]
    /\ \A n \in Names : GoodField(args[n], given[n])

FieldInv ==
    /\ ContainerInv
    /\ GoodFields
    /\ calls \in 0..MaxCalls

LEMMA NothingGiven == GoodField(Absent, <<>>) /\ GoodField(Fresh, <<>>)
<1>1. Faithful(<<>>, <<>>)
  BY DEF Faithful, FromGiven, StandingKept, SameBits
<1> QED
  BY <1>1 DEF GoodField, Absent, Fresh

\* One entry changes, with what was given to it.
LEMMA OneField ==
    ASSUME FieldInv, NEW n \in Names, NEW entry, Put(n, entry), UNCHANGED status,
           NEW g, given' = [given EXCEPT ![n] = g], GoodField(entry, g)
    PROVE  GoodFields'
<1>1. /\ args'[n] = entry /\ given'[n] = g
      /\ \A m \in Names : m # n => args'[m] = args[m] /\ given'[m] = given[m]
  BY DEF Put, FieldInv, GoodFields, ContainerInv
<1>2. given' = [m \in Names |-> given'[m]]
  BY DEF FieldInv, GoodFields
<1> QED
  BY <1>1, <1>2 DEF FieldInv, GoodFields

LEMMA FieldGiven ==
    ASSUME FieldInv, NEW in \in Inputs, NEW reads,
           SetField(in.name, in.ref, in.range, in.val, reads)
    PROVE  GoodFields'
<1> DEFINE n == in.name
           entry == IF Present(n) THEN args[n] ELSE Fresh
           new == Parsed(in.range, in.val, reads)
           next == [entry EXCEPT !.list = Inserted(@, new), !.declared = FALSE, !.assigned = TRUE]
           g == IF entry.declared THEN <<>> ELSE given[n]
<1>1. CASE Crash
  BY <1>1 DEF Crash, FieldInv, GoodFields
<1>2. CASE /\ Put(n, next) /\ UNCHANGED status
           /\ given' = [given EXCEPT ![n] = Append(g, new)]
  <2>1. n \in Names
    BY ContainerAssumption DEF Input
  <2>2. new \in FieldEntry
    BY ParsedProperties
  <2>3. IsEntry(entry) /\ GoodField(entry, given[n])
    BY <2>1, AbsentEntry, NothingGiven DEF FieldInv, GoodFields, ContainerInv, Present, GoodField
  <2> HIDE DEF entry, new
  <2>4. Faithful(entry.list, g) /\ g \in Seq(FieldEntry)
    <3>1. Faithful(<<>>, <<>>) /\ <<>> \in Seq(FieldEntry)
      BY NothingGiven DEF Fresh, GoodField
    <3> QED
      BY <2>3, <3>1 DEF GoodField
  <2> HIDE DEF g
  <2>5. /\ Inserted(entry.list, new) \in Seq(FieldEntry)
        /\ Append(g, new) \in Seq(FieldEntry)
        /\ Faithful(Inserted(entry.list, new), Append(g, new))
    BY <2>2, <2>3, <2>4, InsertedEntries, InsertedFaithful, AppendProperties DEF GoodField
  <2>6. /\ next.list = Inserted(entry.list, new)
        /\ next.declared = FALSE /\ next.assigned = TRUE
    BY <2>3 DEF IsEntry, EntryFields, Fresh
  <2>7. next # Absent
    BY <2>6 DEF Absent, Fresh
  <2> HIDE DEF next
  <2>8. GoodField(next, Append(g, new))
    BY <2>5, <2>6, <2>7 DEF GoodField
  <2> QED
    BY <1>2, <2>1, <2>8, OneField DEF FieldInv, GoodFields
<1> QED
  BY <1>1, <1>2 DEF SetField

LEMMA DeclaredGiven ==
    ASSUME FieldInv, NEW in \in Inputs, SetDeclared(in.name, in.ref, in.range, in.val)
    PROVE  GoodFields'
<1> DEFINE n == in.name
           entry == args[n]
           typed == TypedVal(entry, entry.type, in.range, in.val)
           next == [typed EXCEPT !.declared = TRUE, !.assigned = TRUE, !.list = <<>>]
           new == Parsed(in.range, in.val, FALSE)
           g == IF entry.declared THEN given[n] ELSE <<>>
<1>1. CASE Crash
  BY <1>1 DEF Crash, FieldInv, GoodFields
<1>2. CASE /\ ~SetCrashes(n, in.range, in.val)
           /\ Put(n, next) /\ UNCHANGED status
           /\ given' = [given EXCEPT ![n] = Append(g, new)]
  <2>1. n \in Names /\ in.val \in Value
    BY ContainerAssumption DEF Input
  <2>2. new \in FieldEntry
    BY ParsedProperties
  <2>3. IsEntry(entry) /\ GoodField(entry, given[n]) /\ entry.type # ""
    BY <1>2, <2>1 DEF FieldInv, GoodFields, ContainerInv, SetCrashes
  <2> HIDE DEF entry, new
  <2>4. IsEntry(typed)
    BY <2>1, <2>3, TypedValProperties
  <2>5. typed.type = entry.type
    BY <2>3 DEF TypedVal, IntVal, IsEntry, EntryFields, Fresh
  <2> HIDE DEF typed
  <2>6. /\ next.list = <<>> /\ next.declared = TRUE /\ next.assigned = TRUE
        /\ next.type = entry.type
    BY <2>4, <2>5 DEF IsEntry, EntryFields, Fresh
  <2>7. next # Absent
    BY <2>6 DEF Absent, Fresh
  <2>8. Append(g, new) \in Seq(FieldEntry)
    <3>1. g \in Seq(FieldEntry)
      BY <2>3, EmptySeq DEF GoodField
    <3> QED
      BY <2>2, <3>1, AppendProperties
  <2> HIDE DEF next, g
  <2>9. GoodField(next, Append(g, new))
    BY <2>3, <2>6, <2>7, <2>8, EmptySeq DEF GoodField
  <2> QED
    BY <1>2, <2>1, <2>9, OneField DEF FieldInv, GoodFields
<1> QED
  BY <1>1, <1>2 DEF SetDeclared

LEMMA OtherGiven ==
    ASSUME FieldInv,
           \/ \E n \in Names : Declare(n) \/ SetObligatory(n)
           \/ \E in \in Inputs : Delete(in.name, in.range)
           \/ \E n, new \in Names : Rename(n, new)
           \/ VerifyObligatory
    PROVE  GoodFields'
<1>1. CASE Crash
  BY <1>1 DEF Crash, FieldInv, GoodFields
<1>2. CASE UNCHANGED <<args, given>> /\ status' \in {status, "verified"}
  BY <1>2 DEF FieldInv, GoodFields
<1>3. ASSUME NEW n \in Names, Declare(n)
      PROVE  GoodFields'
  <2> DEFINE entry == [Fresh EXCEPT !.type = Types[n], !.declared = TRUE,
                                    !.obligatory = n \in Obligatory]
  <2>1. Types[n] # ""
    BY ContainerAssumption DEF KnownTypes
  <2>2. entry.type = Types[n] /\ entry.declared = TRUE /\ entry.list = <<>>
    BY DEF Fresh
  <2>3. entry # Absent
    BY <2>2 DEF Absent, Fresh
  <2>4. Put(n, entry) /\ given' = [given EXCEPT ![n] = <<>>] /\ UNCHANGED status
    BY <1>3 DEF Declare
  <2> HIDE DEF entry
  <2>5. GoodField(entry, <<>>)
    BY <2>1, <2>2, <2>3, EmptySeq DEF GoodField
  <2> QED
    BY <2>4, <2>5, OneField DEF FieldInv, GoodFields
<1>4. ASSUME NEW n \in Names, SetObligatory(n)
      PROVE  GoodFields'
  <2> DEFINE entry == [args[n] EXCEPT !.obligatory = TRUE]
  <2>1. IsEntry(args[n]) /\ GoodField(args[n], given[n])
    BY DEF FieldInv, GoodFields, ContainerInv
  <2>2. /\ entry.type = args[n].type /\ entry.declared = args[n].declared
        /\ entry.list = args[n].list /\ entry.obligatory = TRUE
    BY <2>1 DEF IsEntry, EntryFields, Fresh
  <2>3. entry # Absent
    BY <2>2 DEF Absent, Fresh
  <2>4. (Put(n, entry) /\ UNCHANGED <<status, given>>) \/ Crash
    BY <1>4 DEF SetObligatory
  <2> HIDE DEF entry
  <2>5. GoodField(entry, given[n])
    BY <2>1, <2>2, <2>3 DEF GoodField
  <2>6. UNCHANGED given => given' = [given EXCEPT ![n] = given[n]]
    BY DEF FieldInv, GoodFields
  <2> QED
    BY <1>1, <2>4, <2>5, <2>6, OneField DEF FieldInv, GoodFields
<1>5. ASSUME NEW in \in Inputs, Delete(in.name, in.range), ~Crash
      PROVE  GoodFields'
  <2>1. in.name \in Names
    BY ContainerAssumption DEF Input
  <2>2. /\ Put(in.name, Absent) /\ given' = [given EXCEPT ![in.name] = <<>>]
        /\ UNCHANGED status
    BY <1>5 DEF Delete
  <2> QED
    BY <2>1, <2>2, NothingGiven, OneField DEF FieldInv, GoodFields
<1>6. ASSUME NEW n \in Names, NEW new \in Names, Rename(n, new)
      PROVE  GoodFields'
  <2>1. CASE /\ args' = [args EXCEPT ![new] = args[n], ![n] = Absent]
             /\ given' = [given EXCEPT ![new] = given[n], ![n] = <<>>]
             /\ UNCHANGED status
    <3>1. given' = [m \in Names |-> given'[m]]
      BY <2>1 DEF FieldInv, GoodFields
    <3>2. \A m \in Names :
             \/ args'[m] = args[m] /\ given'[m] = given[m]
             \/ args'[m] = args[n] /\ given'[m] = given[n]
             \/ args'[m] = Absent /\ given'[m] = <<>>
      BY <1>6, <2>1 DEF FieldInv, GoodFields, ContainerInv
    <3> QED
      BY <2>1, <3>1, <3>2, NothingGiven DEF FieldInv, GoodFields
  <2> QED
    BY <1>2, <1>6, <2>1 DEF Rename
<1>7. VerifyObligatory => UNCHANGED <<args, given>> /\ status' \in {status, "verified"}
  BY DEF VerifyObligatory
<1> QED
  BY <1>1, <1>2, <1>3, <1>4, <1>5, <1>6, <1>7

LEMMA FieldNext == FieldInv /\ [Next]_vars => FieldInv'
<1> SUFFICES ASSUME FieldInv, [Next]_vars
             PROVE  FieldInv'
  OBVIOUS
<1>1. ContainerInv'
  BY ContainerNext DEF FieldInv, GoodFields
<1>2. CASE UNCHANGED vars
  BY <1>1, <1>2 DEF vars, FieldInv, GoodFields
<1>3. CASE Next
  <2>1. calls' \in 0..MaxCalls
    BY <1>3, ContainerAssumption DEF Next, FieldInv, GoodFields
  <2>2. ASSUME NEW in \in Inputs, Set(in)
        PROVE  GoodFields'
    BY <2>2, FieldGiven, DeclaredGiven DEF Set
  <2>3. CASE Crash
    BY <1>1, <2>1, <2>3 DEF Crash, FieldInv, GoodFields
  <2>4. ASSUME NEW in \in Inputs, Set(in) \/ Override(in)
        PROVE  FieldInv'
    BY <1>1, <2>1, <2>2, <2>3, <2>4 DEF Override, FieldInv, GoodFields
  <2> QED
    BY <1>1, <1>3, <2>1, <2>4, OtherGiven DEF Next, FieldInv, GoodFields
<1> QED
  BY <1>2, <1>3

LEMMA FieldInit == Init => FieldInv
<1> SUFFICES ASSUME Init
             PROVE  FieldInv
  OBVIOUS
<1>1. \A n \in Names : args[n] = Absent /\ given[n] = <<>>
  BY DEF Init
<1>2. status = "ok" /\ calls \in 0..MaxCalls /\ given = [n \in Names |-> given[n]]
  BY ContainerAssumption DEF Init
<1> QED
  BY <1>1, <1>2, ContainerInit, NothingGiven DEF FieldInv, GoodFields

\* The entries of arg_l stay well formed: a declared argument has the type that
\* declare_arg gave it and no list, and every entry of a register field is a
\* range of its bits, whatever insert_not_declared_argument_value cut in pieces.
THEOREM ContainerTypeCorrect == Spec => []TypeOK
<1>1. FieldInv => TypeOK
  <2> SUFFICES ASSUME FieldInv
               PROVE  TypeOK
    OBVIOUS
  <2>1. ASSUME NEW n \in Names, NEW i \in 1..Len(args[n].list)
        PROVE  args[n].list[i] \in Entry /\ args[n].list[i].lsb <= args[n].list[i].msb
    <3>1. args[n].list[i] \in FieldEntry
      <4>1. args[n].list \in Seq(FieldEntry)
        BY DEF FieldInv, GoodFields, GoodField
      <4> QED
        BY <4>1, ElementOfSeq
    <3> QED
      BY <3>1 DEF FieldEntry
  <2> QED
    BY <2>1 DEF TypeOK, FieldInv, GoodFields, ContainerInv, GoodField
<1> QED
  BY <1>1, FieldInit, FieldNext, PTL DEF Spec

\* However its values are assigned, a register field that is only written, by
\* ranges that are apart from the earlier ones, cover them or lie inside them,
\* and that insert_not_declared_argument_value does not drop, holds in every bit
\* what was written to it last, whichever entry its loop stopped at.
THEOREM LastWriteCounts == Spec => []LastWriteWins
<1>1. FieldInv => LastWriteWins
  <2> SUFFICES ASSUME FieldInv, NEW n \in Names, ~args[n].declared, Orderly(given[n])
               PROVE  \A b \in 0..Width-1 : Written(args[n].list, b) = Written(given[n], b)
    BY DEF LastWriteWins, Orderly, Fits
  <2> QED
    BY DEF FieldInv, GoodFields, GoodField, Faithful, SameBits
<1> QED
  BY <1>1, FieldInit, FieldNext, PTL DEF Spec
=============================================================================
