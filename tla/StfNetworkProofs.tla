-------------------------- MODULE StfNetworkProofs ---------------------------
(***************************************************************************)
(* That writes reach the stops of a test network, for every network and    *)
(* scripts of any length.  When SPF programs the network, what the flow    *)
(* tracks has to follow the history.  When the action does, the hubs above *)
(* a stop have to carry its groups, and so they must be programmed in an   *)
(* order in which they are reached, and keep a group until the last of the *)
(* stops below has left it.  As no write is lost, the registers are what   *)
(* the history says, and fields that a write does not name stay.           *)
(***************************************************************************)
EXTENDS ActionSessionProofs, FiniteSetTheorems

-----------------------------------------------------------------------------
(***************************************************************************)
(* A hub is programmed through the scratch group, which the hubs above it  *)
(* have to carry; and they have to carry the group whose output it is      *)
(* taken out of.                                                           *)
(***************************************************************************)
\* A hub that is written alone, in group g.
LEMMA WriteAlone ==
  ASSUME NEW conf, ~conf.network, NEW n0, NEW w, NEW hb, NEW cn, NEW bk, NEW D,
         Seen(conf, n0, w, hb, cn, bk, D),
         NEW hub \in Stops, NEW g \in Gids, g # 0 => bk[hub][0] = g,
         \A x \in AllOf(Above[hub]) : g # 0 => D[x][g] = 1,
         NEW data,
         g = 0 => ~Programs(data),
         \A k \in Gids \ {0} : Member(k) \in DOMAIN data => data[Member(k)] # None
  PROVE  /\ Seen(conf, n0, Write(w, hub, g, data), hb, cn, bk, Overwritten(D, {hub}, data))
         /\ ~Programs(data) => Seen(conf, n0, Write(w, hub, g, data), hb, cn, bk, D)
<1>1. /\ <<hub>> \in Seq(Stops) /\ Len(<<hub>>) = 1 /\ AllOf(<<hub>>) = {hub}
      /\ \A i \in 1..1 : <<hub>>[i] = hub /\ <<g>>[i] = g
  BY DEF AllOf
<1>2. g # 0 => HearsIn(conf, n0.grouping, bk, D, hub, g)
  BY DEF HearsIn, Banks
<1>3. AllHear(conf, n0, bk, D, <<hub>>, <<g>>, data)
  BY <1>1, <1>2 DEF AllHear
<1>4. Seen(conf, n0, WriteFields(w, <<hub>>, <<g>>, data, FALSE), hb, cn, bk, Overwritten(D, {hub}, data))
  <2> DEFINE stops == <<hub>>
             gids == <<g>>
  <2>1. /\ stops \in Seq(Stops) /\ \A i \in 1..Len(stops) : gids[i] \in Gids
        /\ AllOf(stops) = {hub}
        /\ AllHear(conf, n0, bk, D, stops, gids, data)
    BY <1>1, <1>3
  <2> HIDE DEF stops, gids
  <2>2. Seen(conf, n0, WriteFields(w, stops, gids, data, FALSE), hb, cn, bk, Overwritten(D, AllOf(stops), data))
    BY <2>1, SeenWrite
  <2> QED
    BY <2>1, <2>2 DEF stops, gids
<1>5. ASSUME ~Programs(data)
      PROVE  Seen(conf, n0, WriteFields(w, <<hub>>, <<g>>, data, FALSE), hb, cn, bk, D)
  <2>1. \A x \in Hubs : \A k \in Gids \ {0} : D[x][k] = Overwritten(D, {hub}, data)[x][k]
    BY <1>5 DEF Overwritten, Programs
  <2> DEFINE v == WriteFields(w, <<hub>>, <<g>>, data, FALSE)
             E == Overwritten(D, {hub}, data)
  <2>2. Seen(conf, n0, v, hb, cn, bk, E)
    BY <1>4
  <2> HIDE DEF v, E
  <2>3. Seen(conf, n0, v, hb, cn, bk, D)
    BY <2>1, <2>2, SeenSame DEF E
  <2> QED
    BY <2>3 DEF v
<1> QED
  BY <1>4, <1>5 DEF Write

HubRow(want, num) ==
    [g \in Gids \ {0} |-> IF g = Scratch THEN (IF num > 0 THEN 1 ELSE 0) ELSE want[g]]
Put(C, hub, row) == [x \in Hubs |-> IF x = hub THEN row ELSE C[x]]

LEMMA SeenProgram ==
  ASSUME NEW conf, ~conf.network, NEW n0, NEW w, NEW hb, NEW cn, NEW bk, NEW C,
         Seen(conf, n0, w, hb, cn, bk, C), Agreed(hb, bk),
         NEW hub \in Hubs, NEW want, NEW num,
         \A g \in Gids \ {0} : want[g] # None,
         \A x \in AllOf(Above[hub]) :
            C[x][Scratch] = 1 /\ (bk[hub][0] # 0 => C[x][bk[hub][0]] = 1)
  PROVE  Seen(conf, n0, ProgramHub(w, hub, want, num), hb, cn, bk, Put(C, hub, HubRow(want, num)))
<1> DEFINE back    == IF w.h.bank[hub][0] = None THEN 0 ELSE w.h.bank[hub][0]
           enabled == w.h.bank[hub][0] # None /\ w.h.value[hub][Oe(0)] = 1
           on      == num > 0
           delay   == IF on THEN Delay(hub) ELSE 0
           answers == [f \in {Responder(g) : g \in Gids \ {0}} |->
                         IF f[2] = Scratch THEN 0 ELSE want[f[2]]]
           carried == [f \in {Member(g) : g \in Gids \ {0}} |->
                         IF f[2] = Scratch THEN (IF on THEN 1 ELSE 0) ELSE want[f[2]]]
           off     == [f \in {Member(Scratch)} |-> 0]
           waits   == [f \in {<<"tracker", "delay">>} |-> delay]
           tracks  == [f \in {<<"tracker", "enable">>} |-> IF on THEN 1 ELSE 0]
           w1 == IF enabled THEN SetOe(w, hub, 0, back, 0) ELSE w
           w2 == Emit(w1, SelectOp(hub, Scratch, 0))
           w3 == Write(w2, hub, Scratch, off)
           w4 == Nulls(w3, delay + 1)
           w5 == Write(w4, hub, Scratch, waits)
           w6 == Write(w5, hub, Scratch, tracks)
           w7 == Write(w6, hub, Scratch, answers)
           w8 == Write(w7, hub, Scratch, carried)
           w9 == Emit(w8, SelectOp(hub, back, 0))
           w10 == IF back # 0 /\ enabled THEN SetOe(w9, hub, 0, back, 1) ELSE w9
           bk2 == [bk EXCEPT ![hub][0] = Scratch]
           bk3 == [bk2 EXCEPT ![hub][0] = back]
           C2 == Overwritten(C, {hub}, off)
           C3 == Overwritten(C2, {hub}, carried)
           D == Put(C, hub, HubRow(want, num))
<1>0. hub \in Stops /\ 0 \in Banks /\ w.h.bank = hb
  BY NetworkAssumption DEF Seen, Banks
<1>00. bk \in [Stops -> [Banks -> Gids]] /\ bk[hub][0] \in Gids /\ Scratch \in Gids /\ Scratch # 0
  BY <1>0, GidFacts DEF Agreed
<1>1. ProgramHub(w, hub, want, num) = w10
  BY DEF ProgramHub
<1>2. back = bk[hub][0] /\ back \in Gids
  BY <1>0, <1>00 DEF Agreed
<1>3. bk3 = bk /\ bk2[hub][0] = Scratch
  <2> HIDE DEF back
  <2> QED
    BY <1>0, <1>00, <1>2
<1>4. /\ ~Programs(answers) /\ ~Programs(waits) /\ ~Programs(tracks)
      /\ \A v : ~Programs([f \in {Oe(0)} |-> v])
  BY DEF Programs, Member, Oe, Responder
<1>5. \A g \in Gids \ {0} : Member(g) \in DOMAIN off => off[Member(g)] # None
  BY DEF None
<1>6. \A g \in Gids \ {0} : /\ Member(g) \in DOMAIN carried
                            /\ carried[Member(g)] = HubRow(want, num)[g] /\ carried[Member(g)] # None
  BY DEF Member, HubRow, None
<1>7. hub \notin AllOf(Above[hub]) /\ AllOf(Above[hub]) \subseteq Hubs
  BY <1>0, PathFacts
<1>8. \A x \in AllOf(Above[hub]) : C[x][Scratch] = 1 /\ C2[x][Scratch] = 1 /\ C3[x][Scratch] = 1
  <2> HIDE DEF carried, off
  <2> QED
    BY <1>00, <1>7 DEF Overwritten
<1>9. \A x \in Hubs : \A g \in Gids \ {0} : D[x][g] = C3[x][g]
  <2> TAKE x \in Hubs
  <2> TAKE g \in Gids \ {0}
  <2>1. C3[x][g] = IF x = hub THEN carried[Member(g)] ELSE C2[x][g]
    BY <1>6 DEF Overwritten
  <2>2. x # hub => C2[x][g] = C[x][g]
    BY DEF Overwritten
  <2> HIDE DEF carried, C2, C3
  <2> QED
    BY <1>6, <2>1, <2>2 DEF Put
<1>10. \A x \in AllOf(Above[hub]) : back # 0 => C[x][back] = 1 /\ D[x][back] = 1
  BY <1>2, <1>7 DEF Put
<1> HIDE DEF back, enabled, delay, answers, carried, on, off, waits, tracks, bk2, C2, C3, D
<1>11. Seen(conf, n0, w1, hb, cn, bk, C)
  <2>1. Seen(conf, n0, SetOe(w, hub, 0, back, 0), hb, cn, bk, C)
    <3> DEFINE data == [f \in {Oe(0)} |-> 0]
    <3>1. ~Programs(data)
      BY <1>4
    <3>2. \A k \in Gids \ {0} : Member(k) \in DOMAIN data => data[Member(k)] # None
      BY DEF None
    <3> HIDE DEF data
    <3>3. Seen(conf, n0, Write(w, hub, back, data), hb, cn, bk, C)
      BY <1>0, <1>2, <1>10, <3>1, <3>2, WriteAlone
    <3> QED
      BY <3>3 DEF SetOe, data
  <2> QED
    BY <2>1
<1> HIDE DEF w1
<1>12. Seen(conf, n0, w2, hb, cn, bk2, C)
  BY <1>11, SeenMove DEF bk2
<1> HIDE DEF w2
<1>13. Seen(conf, n0, w3, hb, cn, bk2, C2)
  BY <1>0, <1>00, <1>3, <1>5, <1>8, <1>12, WriteAlone DEF C2
<1> HIDE DEF w3
<1>14. Seen(conf, n0, w4, hb, cn, bk2, C2)
  <2> DEFINE op == NopOp(0, delay + 1)
  <2>1. op.op = "nop"
    BY DEF NopOp
  <2> HIDE DEF op
  <2>2. Seen(conf, n0, Emit(w3, op), hb, cn,
              IF op.op = "select" THEN [bk2 EXCEPT ![op.stop][op.bank] = op.gid] ELSE bk2, C2)
    BY <1>13, <2>1, SeenEmit
  <2> QED
    BY <2>1, <2>2 DEF Nulls, op
<1> HIDE DEF w4
<1>15. Seen(conf, n0, w5, hb, cn, bk2, C2)
  <2>1. \A k \in Gids \ {0} : Member(k) \in DOMAIN waits => waits[Member(k)] # None
    BY <1>4 DEF Programs
  <2> QED
    BY <1>0, <1>00, <1>3, <1>4, <1>8, <1>14, <2>1, WriteAlone
<1> HIDE DEF w5
<1>16. Seen(conf, n0, w6, hb, cn, bk2, C2)
  <2>1. \A k \in Gids \ {0} : Member(k) \in DOMAIN tracks => tracks[Member(k)] # None
    BY <1>4 DEF Programs
  <2> QED
    BY <1>0, <1>00, <1>3, <1>4, <1>8, <1>15, <2>1, WriteAlone
<1> HIDE DEF w6
<1>17. Seen(conf, n0, w7, hb, cn, bk2, C2)
  <2>1. \A k \in Gids \ {0} : Member(k) \in DOMAIN answers => answers[Member(k)] # None
    BY <1>4 DEF Programs
  <2> QED
    BY <1>0, <1>00, <1>3, <1>4, <1>8, <1>16, <2>1, WriteAlone
<1> HIDE DEF w7
<1>18. Seen(conf, n0, w8, hb, cn, bk2, C3)
  BY <1>0, <1>00, <1>3, <1>6, <1>8, <1>17, WriteAlone DEF C3
<1>19. Seen(conf, n0, w8, hb, cn, bk2, D)
  BY <1>9, <1>18, SeenSame
<1> HIDE DEF w8
<1>20. Seen(conf, n0, w9, hb, cn, bk, D)
  <2>1. Seen(conf, n0, w9, hb, cn, bk3, D)
    BY <1>19, SeenMove
  <2> QED
    BY <1>3, <2>1
<1> HIDE DEF w9
<1>21. back # 0 => Seen(conf, n0, SetOe(w9, hub, 0, back, 1), hb, cn, bk, D)
  <2> DEFINE data == [f \in {Oe(0)} |-> 1]
  <2>1. ~Programs(data)
    BY <1>4
  <2>2. \A k \in Gids \ {0} : Member(k) \in DOMAIN data => data[Member(k)] # None
    BY <2>1 DEF Programs
  <2> HIDE DEF data
  <2>3. back # 0 => Seen(conf, n0, Write(w9, hub, back, data), hb, cn, bk, D)
    BY <1>0, <1>2, <1>10, <1>20, <2>1, <2>2, WriteAlone
  <2> QED
    BY <2>3 DEF SetOe, data
<1> QED
  BY <1>1, <1>20, <1>21 DEF D

\* The first i of the hubs have been programmed as planned.
Reprogrammed(C, order, i, want, num) ==
    [x \in Hubs |-> IF \E k \in 1..i : order[k] = x THEN HubRow(want[x], num[x]) ELSE C[x]]
\* Each hub is reached when its turn comes.
Reached(C, order, want, num, bk) ==
    \A i \in 1..Len(order) : \A x \in AllOf(Above[order[i]]) :
        LET D == Reprogrammed(C, order, i - 1, want, num)
        IN  D[x][Scratch] = 1 /\ (bk[order[i]][0] # 0 => D[x][bk[order[i]][0]] = 1)

LEMMA HubsSeen ==
  ASSUME NEW conf, ~conf.network, NEW n0, NEW w, NEW hb, NEW cn, NEW bk, NEW C,
         Seen(conf, n0, w, hb, cn, bk, C), Agreed(hb, bk),
         NEW want, NEW num, NEW order \in Seq(Hubs),
         \A i \in 1..Len(order) : \A g \in Gids \ {0} : want[order[i]][g] # None,
         Reached(C, order, want, num, bk)
  PROVE  Seen(conf, n0, Pg!Fold(want, num, w, order), hb, cn, bk,
              Reprogrammed(C, order, Len(order), want, num))
<1> DEFINE n == Len(order)
           D(i) == Reprogrammed(C, order, i, want, num)
<1>1. n \in Nat /\ DOMAIN order = 1..n /\ \A i \in 1..n : order[i] \in Hubs
  OBVIOUS
<1>3. PICK f : Pg!Steps(f, want, num, w, order, n) /\ Pg!Fold(want, num, w, order) = f[n]
  BY <1>1, Pg!FoldSteps
<1> DEFINE P == {i \in 0..n : Seen(conf, n0, f[i], hb, cn, bk, D(i))}
<1>4. 0 \in P
  <2>1. f[0] = w /\ 0 \in 0..n
    BY <1>1, <1>3 DEF Pg!Steps
  <2>2. \A x \in Hubs : \A g \in Gids \ {0} : D(0)[x][g] = C[x][g]
    BY DEF Reprogrammed
  <2> HIDE DEF n, D
  <2>3. Seen(conf, n0, w, hb, cn, bk, D(0))
    BY <2>2, SeenSame
  <2> QED
    BY <2>1, <2>3
<1>5. ASSUME NEW i \in 1..n, i - 1 \in P PROVE i \in P
  <2> DEFINE hub == order[i]
             E == Put(D(i - 1), hub, HubRow(want[hub], num[hub]))
  <2>1. f[i] = ProgramHub(f[i - 1], hub, want[hub], num[hub])
    <3> HIDE DEF n
    <3> QED
      BY <1>3 DEF Pg!Steps, ProgramIn
  <2>2. Seen(conf, n0, f[i - 1], hb, cn, bk, D(i - 1)) /\ i \in 0..n /\ hub \in Hubs
    BY <1>1, <1>5
  <2>3. \A g \in Gids \ {0} : want[hub][g] # None
    OBVIOUS
  <2>4. \A x \in AllOf(Above[hub]) :
           D(i - 1)[x][Scratch] = 1 /\ (bk[hub][0] # 0 => D(i - 1)[x][bk[hub][0]] = 1)
    BY DEF Reached
  <2>5. \A x \in Hubs : D(i)[x] = E[x]
    <3> TAKE x \in Hubs
    <3>1. (\E k \in 1..i : order[k] = x) <=> (x = hub \/ \E k \in 1..(i - 1) : order[k] = x)
      <4>1. \A k \in 1..i : k = i \/ k \in 1..(i - 1)
        OBVIOUS
      <4>2. i \in 1..i /\ \A k \in 1..(i - 1) : k \in 1..i
        OBVIOUS
      <4> QED
        BY <4>1, <4>2
    <3> QED
      BY <3>1 DEF Reprogrammed, Put
  <2> HIDE DEF hub, E, D
  <2>6. Seen(conf, n0, ProgramHub(f[i - 1], hub, want[hub], num[hub]), hb, cn, bk,
             Put(D(i - 1), hub, HubRow(want[hub], num[hub])))
    BY <2>2, <2>3, <2>4, SeenProgram
  <2>7. Seen(conf, n0, f[i], hb, cn, bk, E)
    BY <2>1, <2>6 DEF E
  <2>8. Seen(conf, n0, f[i], hb, cn, bk, D(i))
    BY <2>5, <2>7, SeenSame
  <2> HIDE DEF n
  <2> QED
    BY <2>2, <2>8
<1>6. \A i \in 0..n : i \in P
  <2> HIDE DEF P, n
  <2> QED
    BY <1>1, <1>4, <1>5, Pg!BoundedInduction
<1>7. n \in P
  BY <1>1, <1>6
<1> QED
  BY <1>3, <1>7
-----------------------------------------------------------------------------
(***************************************************************************)
(* How many stops below a hub are in a group, each of their banks counted, *)
(* as stops move into group g on bank b one after the other.               *)
(***************************************************************************)
Below(hb, x, g) == {p \in Stops \X Banks : hb[p[1]][p[2]] = g /\ x \in Path(p[1])}
Into(hb, S, b, g) ==
    [s \in Stops |->
        IF s \in S THEN [k \in Banks |-> IF k = b THEN g
                                         ELSE IF g # 0 /\ hb[s][k] = None THEN 0 ELSE hb[s][k]]
        ELSE hb[s]]

LEMMA BelowFinite ==
  ASSUME NEW hb, NEW x, NEW g
  PROVE  IsFiniteSet(Below(hb, x, g)) /\ Cardinality(Below(hb, x, g)) \in Nat
<1>1. IsFiniteSet(Stops)
  BY NetworkAssumption
<1>2. IsFiniteSet(Banks)
  <2>1. IsFiniteSet({0}) /\ {0} \cup {1} = Banks
    BY FS_Singleton DEF Banks
  <2>2. IsFiniteSet({0} \cup {1})
    BY <2>1, FS_AddElement
  <2> QED
    BY <2>1, <2>2
<1>3. IsFiniteSet(Stops \X Banks)
  BY <1>1, <1>2, FS_Product
<1>4. Below(hb, x, g) \in SUBSET (Stops \X Banks)
  BY DEF Below
<1> HIDE DEF Below
<1>5. IsFiniteSet(Below(hb, x, g))
  BY <1>3, <1>4, FS_Subset
<1> QED
  BY <1>5, FS_CardinalityType

LEMMA IntoFacts ==
  ASSUME NEW hb \in Books, NEW S, NEW b \in Banks, NEW g \in Gids
  PROVE  /\ Into(hb, S, b, g) \in Books
         /\ Into(hb, {}, b, g) = hb
         /\ \A s \in Stops : \A k \in Banks :
              Into(hb, S, b, g)[s][k] =
                 IF s \in S /\ k = b THEN g
                 ELSE IF s \in S /\ g # 0 /\ hb[s][k] = None THEN 0 ELSE hb[s][k]
<1>0. 0 \in Gids
  BY GidFacts
<1>1. hb \in [Stops -> [Banks -> Gids \cup {None}]]
  BY DEF Books
<1> QED
  BY <1>0, <1>1 DEF Books, Into

LEMMA IntoMoved ==
  ASSUME NEW hb \in Books, NEW S, NEW b \in Banks, NEW g \in Gids, NEW s \in Stops
  PROVE  Moved(Into(hb, S, b, g), s, b, g) = Into(hb, S \cup {s}, b, g)
<1> DEFINE A == Into(hb, S, b, g)
           B == Into(hb, S \cup {s}, b, g)
           M == Moved(A, s, b, g)
<1>1. /\ A \in Books
      /\ \A x \in Stops : \A k \in Banks :
            A[x][k] = IF x \in S /\ k = b THEN g
                      ELSE IF x \in S /\ g # 0 /\ hb[x][k] = None THEN 0 ELSE hb[x][k]
  BY IntoFacts
<1>2. /\ B \in Books
      /\ \A x \in Stops : \A k \in Banks :
            B[x][k] = IF x \in S \cup {s} /\ k = b THEN g
                      ELSE IF x \in S \cup {s} /\ g # 0 /\ hb[x][k] = None THEN 0 ELSE hb[x][k]
  BY IntoFacts
<1> HIDE DEF A, B
<1>3. /\ M \in Books
      /\ \A x \in Stops : \A y \in Banks :
           M[x][y] = IF x = s /\ y = b THEN g
                     ELSE IF x = s /\ g # 0 /\ A[x][y] = None THEN 0 ELSE A[x][y]
  BY <1>1, MovedBooks
<1> HIDE DEF M
<1>4. 0 # None
  BY DEF None
<1>5. ASSUME NEW x \in Stops, NEW k \in Banks PROVE M[x][k] = B[x][k]
  BY <1>1, <1>2, <1>3, <1>4
<1>6. M = B
  <2>1. M \in [Stops -> [Banks -> Gids \cup {None}]] /\ B \in [Stops -> [Banks -> Gids \cup {None}]]
    BY <1>2, <1>3 DEF Books
  <2>2. \A x \in Stops : M[x] = B[x]
    <3> TAKE x \in Stops
    <3>1. M[x] \in [Banks -> Gids \cup {None}] /\ B[x] \in [Banks -> Gids \cup {None}]
      BY <2>1
    <3>2. \A k \in Banks : M[x][k] = B[x][k]
      BY <1>5
    <3> QED
      BY <3>1, <3>2
  <2> QED
    BY <2>1, <2>2
<1> QED
  BY <1>6 DEF A, B, M

\* When one more stop moves.
OneMoreBelow(hb, S, b, g, s, x, k) ==
    LET A == Below(Into(hb, S, b, g), x, k)
        B == Below(Into(hb, S \cup {s}, b, g), x, k)
    IN  /\ Cardinality(B) <= Cardinality(A) + 1
        /\ ~(g = k /\ x \in Path(s) /\ hb[s][b] # g) => Cardinality(B) <= Cardinality(A)
        /\ g = 0 /\ hb[s][b] = k /\ s \notin S /\ x \in Path(s)
             => Cardinality(B) = Cardinality(A) - 1

LEMMA BelowMoves ==
  ASSUME NEW hb \in Books, NEW S, NEW b \in Banks, NEW g \in Gids, NEW s \in Stops,
         NEW x, NEW k \in Gids \ {0}
  PROVE  OneMoreBelow(hb, S, b, g, s, x, k)
<1> DEFINE I == Into(hb, S, b, g)
           J == Into(hb, S \cup {s}, b, g)
           A == Below(I, x, k)
           B == Below(J, x, k)
           p == <<s, b>>
<1>1. /\ \A y \in Stops : \A m \in Banks :
            I[y][m] = IF y \in S /\ m = b THEN g
                      ELSE IF y \in S /\ g # 0 /\ hb[y][m] = None THEN 0 ELSE hb[y][m]
      /\ \A y \in Stops : \A m \in Banks :
            J[y][m] = IF y \in S \cup {s} /\ m = b THEN g
                      ELSE IF y \in S \cup {s} /\ g # 0 /\ hb[y][m] = None THEN 0 ELSE hb[y][m]
  BY IntoFacts
<1> HIDE DEF I, J
<1>2. /\ IsFiniteSet(A) /\ Cardinality(A) \in Nat /\ IsFiniteSet(B) /\ Cardinality(B) \in Nat
  BY BelowFinite
<1>3. k # 0 /\ k # None /\ k \in Gids
  BY GidFacts
<1>4. \A q : q \in A <=> q \in Stops \X Banks /\ I[q[1]][q[2]] = k /\ x \in Path(q[1])
  BY DEF Below
<1>5. \A q : q \in B <=> q \in Stops \X Banks /\ J[q[1]][q[2]] = k /\ x \in Path(q[1])
  BY DEF Below
<1>6. \A q \in Stops \X Banks : q[1] \in Stops /\ q[2] \in Banks /\ q = <<q[1], q[2]>>
  OBVIOUS
<1>7. p \in Stops \X Banks /\ p[1] = s /\ p[2] = b
  OBVIOUS
<1> HIDE DEF A, B, p
<1>8. B \subseteq A \cup {p}
  <2> SUFFICES ASSUME NEW q \in B, q # p PROVE q \in A
    OBVIOUS
  <2>1. q \in Stops \X Banks /\ J[q[1]][q[2]] = k /\ x \in Path(q[1])
    BY <1>5
  <2>2. ~(q[1] = s /\ q[2] = b)
    BY <1>6, <2>1 DEF p
  <2>3. I[q[1]][q[2]] = k
    BY <1>1, <1>3, <1>6, <2>1, <2>2
  <2> QED
    BY <1>4, <2>1, <2>3
<1>9. Cardinality(B) <= Cardinality(A) + 1
  <2>1. /\ IsFiniteSet(A \cup {p})
        /\ Cardinality(A \cup {p}) = IF p \in A THEN Cardinality(A) ELSE Cardinality(A) + 1
    BY <1>2, FS_AddElement
  <2>2. B \in SUBSET (A \cup {p})
    BY <1>8
  <2>3. Cardinality(B) <= Cardinality(A \cup {p})
    BY <2>1, <2>2, FS_Subset
  <2> QED
    BY <1>2, <2>1, <2>3
<1>10. ASSUME ~(g = k /\ x \in Path(s) /\ hb[s][b] # g) PROVE Cardinality(B) <= Cardinality(A)
  <2>1. p \in B => p \in A
    BY <1>1, <1>4, <1>5, <1>7, <1>10
  <2>2. B \in SUBSET A
    BY <1>8, <2>1
  <2> QED
    BY <1>2, <2>2, FS_Subset
<1>11. ASSUME g = 0, hb[s][b] = k, s \notin S, x \in Path(s)
       PROVE  Cardinality(B) = Cardinality(A) - 1
  <2>1. p \in A /\ p \notin B
    BY <1>1, <1>3, <1>4, <1>5, <1>7, <1>11
  <2>2. A \subseteq B \cup {p}
    <3> SUFFICES ASSUME NEW q \in A, q # p PROVE q \in B
      OBVIOUS
    <3>1. q \in Stops \X Banks /\ I[q[1]][q[2]] = k /\ x \in Path(q[1])
      BY <1>4
    <3>2. ~(q[1] = s /\ q[2] = b)
      BY <1>6, <3>1 DEF p
    <3>3. J[q[1]][q[2]] = k
      BY <1>1, <1>3, <1>6, <1>11, <3>1, <3>2
    <3> QED
      BY <1>5, <3>1, <3>3
  <2>3. B = A \ {p}
    BY <1>8, <2>1, <2>2
  <2> QED
    BY <1>2, <2>1, <2>3, FS_RemoveElement
<1> QED
  BY <1>9, <1>10, <1>11 DEF A, B, I, J, OneMoreBelow
-----------------------------------------------------------------------------
(***************************************************************************)
(* The plan of a selection, hub by hub and stop by stop.                   *)
(***************************************************************************)
\* What holds of the history between two actions, C being what the hubs carry:
\* a hub carries the groups of the stops below it, and the scratch group with
\* any other.
Sound(hb, cn, C) ==
    /\ hb \in Books /\ \A s \in Stops : \A b \in Banks : hb[s][b] # Scratch
    /\ cn \in [Hubs -> [Gids -> Int]]
    /\ \A x \in Hubs : \A k \in Gids \ {0} :
          /\ C[x][k] \in {0, 1}
          /\ cn[x][k] >= Cardinality(Below(hb, x, k))
          /\ k # Scratch /\ cn[x][k] >= 1 => C[x][k] = 1
          /\ k # Scratch /\ C[x][k] = 1 => C[x][Scratch] = 1

LEMMA CarriesBelow ==
  ASSUME NEW hb, NEW cn, NEW C, Sound(hb, cn, C), NEW s \in Stops, NEW b \in Banks,
         hb[s][b] \notin {0, None}, NEW x \in Path(s)
  PROVE  /\ hb[s][b] \in Gids \ {0} /\ hb[s][b] # Scratch /\ x \in Hubs
         /\ C[x][hb[s][b]] = 1 /\ C[x][Scratch] = 1
<1> DEFINE k == hb[s][b]
           B == Below(hb, x, k)
<1>1. k \in Gids \ {0} /\ k # Scratch /\ x \in Hubs
  BY PathFacts DEF Sound, Books
<1>2. <<s, b>> \in B
  BY DEF Below
<1>3. IsFiniteSet(B) /\ Cardinality(B) \in Nat
  BY BelowFinite
<1>4. Cardinality(B) >= 1
  <2> HIDE DEF B
  <2>1. Cardinality(B) # 0
    BY <1>2, <1>3, FS_EmptySet
  <2> QED
    BY <1>3, <2>1
<1>5. cn[x][k] \in Int /\ cn[x][k] >= Cardinality(B)
  BY <1>1 DEF Sound
<1> HIDE DEF B
<1>6. cn[x][k] >= 1
  BY <1>3, <1>4, <1>5
<1> QED
  BY <1>1, <1>6 DEF Sound

\* The hubs that are planned in their order: from above the hubs above one come
\* before it, from below after it.
OrderOk(o, g) ==
    \A j \in 1..Len(o) :
        IF g # 0 THEN AllOf(Above[o[j]]) \subseteq {o[k] : k \in 1..(j - 1)}
        ELSE \A k \in 1..(j - 1) : o[k] \notin AllOf(Above[o[j]])

LEMMA OrderGrows ==
  ASSUME NEW o \in Seq(Hubs), NEW g, OrderOk(o, g), NEW x \in Hubs,
         x \notin AllOf(o) =>
            IF g # 0 THEN AllOf(Above[x]) \subseteq AllOf(o) ELSE AllOf(Above[x]) \cap AllOf(o) = {}
  PROVE  LET o2 == IF x \in AllOf(o) THEN o ELSE Append(o, x)
         IN  o2 \in Seq(Hubs) /\ OrderOk(o2, g) /\ AllOf(o2) = AllOf(o) \cup {x}
<1>1. CASE x \in AllOf(o)
  BY <1>1
<1>2. CASE x \notin AllOf(o)
  <2> DEFINE o2 == Append(o, x)
             n == Len(o)
  <2>1. /\ o2 \in Seq(Hubs) /\ Len(o2) = n + 1 /\ n \in Nat /\ o2[n + 1] = x
        /\ \A j \in 1..n : o2[j] = o[j]
    OBVIOUS
  <2>0. AllOf(o) = {o[k] : k \in 1..n}
    BY DEF AllOf
  <2> HIDE DEF o2, n
  <2>2. AllOf(o2) = AllOf(o) \cup {x}
    <3>1. AllOf(o2) = {o2[k] : k \in 1..(n + 1)}
      BY <2>1 DEF AllOf
    <3>2. \A k \in 1..(n + 1) : k = n + 1 \/ k \in 1..n
      BY <2>1
    <3>3. n + 1 \in 1..(n + 1) /\ \A k \in 1..n : k \in 1..(n + 1)
      BY <2>1
    <3> QED
      BY <2>0, <2>1, <3>1, <3>2, <3>3
  <2>3. \A j \in 1..(n + 1) : {o2[k] : k \in 1..(j - 1)} = {o[k] : k \in 1..(j - 1)}
    <3> TAKE j \in 1..(n + 1)
    <3>1. \A k \in 1..(j - 1) : k \in 1..n
      BY <2>1
    <3> QED
      BY <2>1, <3>1
  <2>4. OrderOk(o2, g)
    <3> SUFFICES ASSUME NEW j \in 1..(n + 1)
                 PROVE  IF g # 0 THEN AllOf(Above[o2[j]]) \subseteq {o2[k] : k \in 1..(j - 1)}
                        ELSE \A k \in 1..(j - 1) : o2[k] \notin AllOf(Above[o2[j]])
      BY <2>1 DEF OrderOk
    <3>1. CASE j = n + 1
      <4>1. {o2[k] : k \in 1..(j - 1)} = AllOf(o)
        BY <2>0, <2>1, <2>3, <3>1
      <4>2. o2[j] = x
        BY <2>1, <3>1
      <4> QED
        BY <1>2, <4>1, <4>2
    <3>2. CASE j # n + 1
      <4>1. j \in 1..n
        BY <2>1, <3>2
      <4>2. IF g # 0 THEN AllOf(Above[o[j]]) \subseteq {o[k] : k \in 1..(j - 1)}
            ELSE \A k \in 1..(j - 1) : o[k] \notin AllOf(Above[o[j]])
        BY <4>1 DEF OrderOk, n
      <4>3. \A k \in 1..(j - 1) : o2[k] = o[k]
        BY <2>1, <4>1
      <4> QED
        BY <2>1, <2>3, <4>1, <4>2, <4>3
    <3> QED
      BY <3>1, <3>2
  <2> QED
    BY <1>2, <2>1, <2>2, <2>4 DEF o2
<1> QED
  BY <1>1, <1>2

\* The groups that a hub is a member of, the scratch group left out.
LEMMA Numbers ==
  ASSUME NEW was, DOMAIN was = Gids \ {0}
  PROVE  /\ NumOf(was) \in Nat
         /\ \A k \in Gids \ {0} : k # Scratch /\ was[k] = 1 => NumOf(was) >= 1
         /\ \A k, m \in Gids \ {0} : k # m /\ k # Scratch /\ was[k] = 1 /\ m # Scratch /\ was[m] = 1
               => NumOf(was) >= 2
<1> DEFINE T == {g \in DOMAIN was : g # Scratch /\ was[g] = 1}
<1>1. IsFiniteSet(T)
  <2>1. MaxGid \in Int /\ 0 \in Int
    BY GidFacts
  <2>2. IsFiniteSet(0..MaxGid)
    BY <2>1, FS_Interval
  <2>3. T \in SUBSET (0..MaxGid)
    BY DEF Gids
  <2> HIDE DEF T
  <2> QED
    BY <2>2, <2>3, FS_Subset
<1>2. \A k \in Gids \ {0} : k # Scratch /\ was[k] = 1 => k \in T
  OBVIOUS
<1>3. NumOf(was) = Cardinality(T)
  BY DEF NumOf
<1> HIDE DEF T
<1>4. Cardinality(T) \in Nat
  BY <1>1, FS_CardinalityType
<1>5. ASSUME NEW k \in T PROVE Cardinality(T) >= 1
  <2>1. Cardinality(T) # 0
    BY <1>1, FS_EmptySet
  <2> QED
    BY <1>4, <2>1
<1>6. ASSUME NEW k \in T, NEW m \in T, k # m PROVE Cardinality(T) >= 2
  <2>1. IsFiniteSet(T \ {m}) /\ Cardinality(T \ {m}) = Cardinality(T) - 1
    BY <1>1, FS_RemoveElement
  <2>2. Cardinality(T \ {m}) # 0
    BY <1>6, <2>1, FS_EmptySet
  <2> QED
    BY <1>4, <2>1, <2>2, <1>5
<1> QED
  BY <1>2, <1>3, <1>4, <1>5, <1>6
\* What a hub is planned to carry: when stops are selected the group and what it
\* carried; when they leave, it keeps what it is still counted in.
HubMeant(h, x, cnt, want, num, g) ==
    /\ \A k \in Gids \ {0} : want[k] \in {0, 1}
    /\ g # 0 => num > 0 /\ \A k \in Gids \ {0} : want[k] = IF k = g THEN 1 ELSE Saved(h, x, k)
    /\ g = 0 => \A k \in Gids \ {0} :
                   /\ want[k] = Saved(h, x, k) \/ (want[k] = 0 /\ cnt[k] < 1)
                   /\ k # Scratch /\ want[k] = 1 => num > 0
PlanOk(h, p, g) ==
    /\ DOMAIN p = PlanParts /\ DOMAIN p.h = BookParts
    /\ p.h.value = h.value /\ p.h.bank = h.bank
    /\ p.h.count \in [Hubs -> [Gids -> Int]]
    /\ p.order \in Seq(Hubs) /\ OrderOk(p.order, g)
    /\ DOMAIN p.want = Hubs /\ DOMAIN p.num = Hubs
    /\ \A x \in AllOf(p.order) : HubMeant(h, x, p.h.count[x], p.want[x], p.num[x], g)
OfGroup(g, prev) == IF g # 0 THEN g ELSE prev
Counts(cn, cn2, S, g, prev) ==
    \A x \in Hubs : \A k \in Gids :
        cn2[x][k] = IF x \in S /\ k = OfGroup(g, prev)
                      THEN (IF g # 0 THEN cn[x][k] + 1 ELSE cn[x][k] - 1) ELSE cn[x][k]
Binary(h) == \A x \in Hubs : \A k \in Gids \ {0} : Saved(h, x, k) \in {0, 1}
\* The group that a stop leaves is one that the hubs above it carry.
LeavesCarried(h, S, g, prev) ==
    g = 0 => prev \in Gids \ {0} /\ prev # Scratch /\ \A x \in S : Saved(h, x, prev) = 1

\* A hub is planned next, if it is new after those above it or before them.
InTurn(o, x, g) ==
    x \notin AllOf(o) =>
        IF g # 0 THEN AllOf(Above[x]) \subseteq AllOf(o) ELSE AllOf(Above[x]) \cap AllOf(o) = {}

LEMMA AllIsIn ==
  ASSUME NEW S, NEW o \in Seq(S) PROVE AllOf(o) \subseteq S
BY DEF AllOf

\* q is p but for a hub, that is counted in a group.
SetMeans(h, p, hub, g, of, count, member, num) ==
    HubMeant(h, hub, [p.h.count[hub] EXCEPT ![of] = count],
          [SetupHub(h, hub) EXCEPT ![of] = member], num, g)
GrownBy(h, p, q, hub, g, of, count) ==
    /\ PlanOk(h, q, g) /\ AllOf(q.order) = AllOf(p.order) \cup {hub}
    /\ \A x \in Hubs : \A k \in Gids :
         q.h.count[x][k] = IF x = hub /\ k = of THEN count ELSE p.h.count[x][k]

LEMMA SetUpKeeps ==
  ASSUME NEW h, NEW p, NEW g, PlanOk(h, p, g), NEW hub \in Hubs, InTurn(p.order, hub, g),
         NEW of \in Gids, NEW count \in Int, NEW member, NEW num,
         SetMeans(h, p, hub, g, of, count, member, num)
  PROVE  GrownBy(h, p, SetUp(p, hub, of, count, member, num), hub, g, of, count)
<1> DEFINE row == [p.h.count[hub] EXCEPT ![of] = count]
           new == [SetupHub(h, hub) EXCEPT ![of] = member]
            count2 == [p.h.count EXCEPT ![hub] = row]
           h2 == [p.h EXCEPT !.count[hub][of] = count]
           order2 == IF hub \in AllOf(p.order) THEN p.order ELSE Append(p.order, hub)
           want2 == [p.want EXCEPT ![hub] = new]
           num2 == [p.num EXCEPT ![hub] = num]
           p2 == [p EXCEPT !.h = h2, !.order = order2, !.want = want2, !.num = num2]
<1>0. /\ DOMAIN p = PlanParts /\ DOMAIN p.h = BookParts
      /\ p.h.value = h.value /\ p.h.bank = h.bank
      /\ p.h.count \in [Hubs -> [Gids -> Int]]
      /\ p.order \in Seq(Hubs) /\ OrderOk(p.order, g)
      /\ DOMAIN p.want = Hubs /\ DOMAIN p.num = Hubs
      /\ \A x \in AllOf(p.order) : HubMeant(h, x, p.h.count[x], p.want[x], p.num[x], g)
  BY DEF PlanOk
<1>1. SetUp(p, hub, of, count, member, num) = p2
  <2>1. SetupHub(p.h, hub) = SetupHub(h, hub)
    BY <1>0 DEF SetupHub, Saved
  <2> QED
    BY <2>1 DEF SetUp
<1>2. count2 \in [Hubs -> [Gids -> Int]] /\ count2[hub] = row
      /\ \A x \in Hubs \ {hub} : count2[x] = p.h.count[x]
  BY <1>0
<1>3. \A x \in Hubs : \A k \in Gids :
         count2[x][k] = IF x = hub /\ k = of THEN count ELSE p.h.count[x][k]
  BY <1>0
<1>4. HubMeant(h, hub, row, new, num, g)
  BY DEF SetMeans
<1> HIDE DEF row, new
<1>5. DOMAIN h2 = BookParts /\ h2.value = h.value /\ h2.bank = h.bank /\ h2.count = count2
  <2>1. h2 = [p.h EXCEPT !.count = count2]
    BY DEF row
  <2> HIDE DEF count2, h2
  <2> QED
    BY <1>0, <2>1 DEF BookParts
<1>6. order2 \in Seq(Hubs) /\ OrderOk(order2, g) /\ AllOf(order2) = AllOf(p.order) \cup {hub}
  <2> DEFINE o == p.order
  <2>1. /\ o \in Seq(Hubs) /\ OrderOk(o, g)
        /\ hub \notin AllOf(o) =>
            IF g # 0 THEN AllOf(Above[hub]) \subseteq AllOf(o) ELSE AllOf(Above[hub]) \cap AllOf(o) = {}
    BY <1>0 DEF InTurn
  <2>2. order2 = IF hub \in AllOf(o) THEN o ELSE Append(o, hub)
    OBVIOUS
  <2> HIDE DEF o, order2
  <2>3. order2 \in Seq(Hubs) /\ OrderOk(order2, g) /\ AllOf(order2) = AllOf(o) \cup {hub}
    BY <2>1, <2>2, OrderGrows
  <2> QED
    BY <2>3 DEF o
<1>7. /\ DOMAIN want2 = Hubs /\ want2[hub] = new /\ \A x \in Hubs \ {hub} : want2[x] = p.want[x]
      /\ DOMAIN num2 = Hubs /\ num2[hub] = num /\ \A x \in Hubs \ {hub} : num2[x] = p.num[x]
  BY <1>0
<1> HIDE DEF count2, h2, order2, want2, num2
<1>8. DOMAIN p2 = PlanParts /\ p2.h = h2 /\ p2.order = order2 /\ p2.want = want2 /\ p2.num = num2
  BY <1>0 DEF PlanParts
<1> HIDE DEF p2
<1>9. ASSUME NEW x \in AllOf(order2) PROVE HubMeant(h, x, count2[x], want2[x], num2[x], g)
  <2>1. CASE x = hub
    BY <2>1, <1>2, <1>4, <1>7
  <2>2. CASE x # hub
    <3>1. x \in AllOf(p.order) /\ x \in Hubs \ {hub}
      <4>1. AllOf(p.order) \subseteq Hubs
        BY <1>0, AllIsIn
      <4> QED
        BY <2>2, <1>6, <4>1
    <3> QED
      BY <3>1, <1>0, <1>2, <1>7
  <2> QED
    BY <2>1, <2>2
<1>10. PlanOk(h, p2, g)
  BY <1>2, <1>5, <1>6, <1>7, <1>8, <1>9 DEF PlanOk
<1>11. \A x \in Hubs : \A k \in Gids :
          p2.h.count[x][k] = IF x = hub /\ k = of THEN count ELSE p.h.count[x][k]
  BY <1>3, <1>5, <1>8
<1> QED
  BY <1>1, <1>6, <1>8, <1>10, <1>11 DEF GrownBy

LEMMA HubPlanned ==
  ASSUME NEW h, Binary(h), NEW p, NEW g \in Gids, g # Scratch, PlanOk(h, p, g), NEW hub \in Hubs,
         InTurn(p.order, hub, g), NEW prev, LeavesCarried(h, {hub}, g, prev)
  PROVE  LET q == PlanHub(p, hub, g, prev)
         IN  /\ PlanOk(h, q, g) /\ AllOf(q.order) = AllOf(p.order) \cup {hub}
             /\ Counts(p.h.count, q.h.count, {hub}, g, prev)
<1> DEFINE was == SetupHub(h, hub)
           cn == p.h.count
           N == NumOf(was)
<1>0. cn \in [Hubs -> [Gids -> Int]] /\ SetupHub(p.h, hub) = was
  BY DEF PlanOk, SetupHub, Saved
<1>1. /\ DOMAIN was = Gids \ {0}
      /\ \A k \in Gids \ {0} : was[k] = Saved(h, hub, k) /\ was[k] \in {0, 1}
  BY DEF SetupHub, Binary
<1> HIDE DEF was
<1>2. /\ N \in Nat
      /\ \A k \in Gids \ {0} : k # Scratch /\ was[k] = 1 => N >= 1
      /\ \A k, m \in Gids \ {0} : k # m /\ k # Scratch /\ was[k] = 1 /\ m # Scratch /\ was[m] = 1
               => N >= 2
  BY <1>1, Numbers
<1> HIDE DEF N
<1>3. CASE g # 0
  <2> DEFINE num == N + (IF was[g] = 1 THEN 0 ELSE 1)
             row == [cn[hub] EXCEPT ![g] = cn[hub][g] + 1]
             want == [was EXCEPT ![g] = 1]
  <2>1. PlanHub(p, hub, g, prev) = SetUp(p, hub, g, cn[hub][g] + 1, 1, num)
    BY <1>0, <1>3 DEF PlanHub, N
  <2>2. num > 0
    BY <1>2, <1>3
  <2>3. \A k \in Gids \ {0} : want[k] = IF k = g THEN 1 ELSE Saved(h, hub, k)
    BY <1>1
  <2>4. \A k \in Gids \ {0} : want[k] \in {0, 1}
    BY <1>1
  <2>5. cn[hub][g] + 1 \in Int
    BY <1>0
  <2> HIDE DEF num, row, want
  <2>6. HubMeant(h, hub, row, want, num, g)
    BY <1>3, <2>2, <2>3, <2>4 DEF HubMeant
  <2> DEFINE c == cn[hub][g] + 1
             q == SetUp(p, hub, g, c, 1, num)
  <2>7. SetMeans(h, p, hub, g, g, c, 1, num)
    BY <2>6 DEF SetMeans, row, want, was
  <2>8. c \in Int
    BY <2>5
  <2> HIDE DEF c, q
  <2>9. GrownBy(h, p, q, hub, g, g, c)
    BY <2>7, <2>8, SetUpKeeps DEF q
  <2>10. Counts(p.h.count, q.h.count, {hub}, g, prev)
    BY <1>3, <2>9 DEF GrownBy, Counts, OfGroup, c
  <2> QED
    BY <2>1, <2>9, <2>10 DEF q, c, GrownBy
<1>4. CASE g = 0
  <2> DEFINE left == cn[hub][prev] - 1
             goes == left < 1
             member == IF goes THEN 0 ELSE was[prev]
             num == IF goes THEN N - 1 ELSE N
             row == [cn[hub] EXCEPT ![prev] = left]
             want == [was EXCEPT ![prev] = member]
             q == SetUp(p, hub, prev, left, member, num)
  <2>0. prev \in Gids \ {0} /\ prev # Scratch /\ was[prev] = 1 /\ left \in Int
    <3>1. prev \in Gids \ {0} /\ prev # Scratch /\ Saved(h, hub, prev) = 1
      BY <1>4 DEF LeavesCarried
    <3>2. cn[hub][prev] \in Int
      BY <1>0, <3>1
    <3> QED
      BY <1>1, <3>1, <3>2
  <2>1. PlanHub(p, hub, g, prev) = q
    BY <1>0, <1>4 DEF PlanHub, N
  <2>2. ASSUME NEW k \in Gids \ {0}
        PROVE  /\ want[k] \in {0, 1}
               /\ want[k] = Saved(h, hub, k) \/ (want[k] = 0 /\ row[k] < 1)
               /\ k # Scratch /\ want[k] = 1 => num > 0
    <3>1. want[k] = IF k = prev THEN member ELSE was[k]
      BY <1>1
    <3>2. k = prev => row[k] = left
      BY <1>0, <2>0
    <3> HIDE DEF want, row
    <3>3. CASE goes
      <4>1. k # Scratch /\ want[k] = 1 => N >= 2
        BY <1>2, <2>0, <3>1, <3>3
      <4> HIDE DEF left
      <4> QED
        BY <1>1, <1>2, <2>0, <3>1, <3>2, <3>3, <4>1
    <3>4. CASE ~goes
      <4> HIDE DEF left
      <4> QED
        BY <1>1, <1>2, <2>0, <3>1, <3>4
    <3> QED
      BY <3>3, <3>4
  <2> HIDE DEF row, want, num, member
  <2>3. HubMeant(h, hub, row, want, num, g)
    BY <1>4, <2>2 DEF HubMeant
  <2>4. SetMeans(h, p, hub, g, prev, left, member, num)
    BY <2>3 DEF SetMeans, row, want, was
  <2>5. prev \in Gids /\ left \in Int
    BY <2>0
  <2> HIDE DEF left, q
  <2>6. GrownBy(h, p, q, hub, g, prev, left)
    BY <2>4, <2>5, SetUpKeeps DEF q
  <2>7. Counts(p.h.count, q.h.count, {hub}, g, prev)
    BY <1>4, <2>6 DEF GrownBy, Counts, OfGroup, left
  <2> QED
    BY <2>1, <2>6, <2>7 DEF GrownBy
<1> QED
  BY <1>3, <1>4

\* One stop: the hubs on its way, one after the other.
WholeOrNone(o, S, g) == g = 0 => S \subseteq AllOf(o) \/ S \cap AllOf(o) = {}

LEMMA StopPlanned ==
  ASSUME NEW h, Binary(h), NEW p, NEW g \in Gids, g # Scratch, PlanOk(h, p, g),
         NEW s \in Stops, NEW prev, LeavesCarried(h, Path(s), g, prev),
         WholeOrNone(p.order, Path(s), g)
  PROVE  LET q == Ph!Fold(g, prev, p, Way(s, g))
         IN  /\ PlanOk(h, q, g) /\ AllOf(q.order) = AllOf(p.order) \cup Path(s)
             /\ Counts(p.h.count, q.h.count, Path(s), g, prev)
<1> DEFINE way == Way(s, g)
           n == Len(way)
           seen(i) == {way[j] : j \in 1..i}
<1>1. /\ way \in Seq(Hubs) /\ n \in Nat /\ Ordered(way, g) /\ AllOf(way) = Path(s)
      /\ \A i, j \in 1..n : way[i] = way[j] => i = j
  BY WayFacts
<1> HIDE DEF way
<1>2. DOMAIN way = 1..n /\ seen(0) = {} /\ seen(n) = Path(s) /\ \A i \in 1..n : way[i] \in Hubs
  <2>1. DOMAIN way = 1..n /\ \A i \in 1..n : way[i] \in Hubs
    BY <1>1
  <2>2. seen(n) = Path(s)
    BY <1>1 DEF AllOf
  <2> QED
    BY <2>1, <2>2
<1> HIDE DEF n
<1>3. PICK f : Ph!Steps(f, g, prev, p, way, n) /\ Ph!Fold(g, prev, p, way) = f[n]
  BY <1>1, <1>2, Ph!FoldSteps
<1> DEFINE P == {i \in 0..n : /\ PlanOk(h, f[i], g)
                              /\ AllOf(f[i].order) = AllOf(p.order) \cup seen(i)
                              /\ Counts(p.h.count, f[i].h.count, seen(i), g, prev)}
<1>4. 0 \in P
  <2>1. f[0] = p /\ 0 \in 0..n
    BY <1>1, <1>3 DEF Ph!Steps
  <2>2. Counts(p.h.count, p.h.count, {}, g, prev)
    BY DEF Counts
  <2> HIDE DEF seen
  <2> QED
    BY <1>2, <2>1, <2>2
<1>5. ASSUME NEW i \in 1..n, i - 1 \in P PROVE i \in P
  <2> DEFINE q == f[i - 1]
             r == f[i]
             hub == way[i]
  <2>1. r = PlanHub(q, hub, g, prev) /\ hub \in Hubs /\ hub \in Path(s)
    <3>1. hub \in AllOf(way)
      BY <1>1 DEF AllOf, n
    <3> QED
      BY <1>1, <1>2, <1>3, <3>1 DEF Ph!Steps, PlanHubIn
  <2>2. /\ PlanOk(h, q, g) /\ AllOf(q.order) = AllOf(p.order) \cup seen(i - 1)
        /\ Counts(p.h.count, q.h.count, seen(i - 1), g, prev) /\ i \in 0..n
    BY <1>5
  <2>3. seen(i) = seen(i - 1) \cup {hub} /\ hub \notin seen(i - 1)
    <3>1. \A j \in 1..i : j = i \/ j \in 1..(i - 1)
      OBVIOUS
    <3>2. i \in 1..i /\ \A j \in 1..(i - 1) : j \in 1..i /\ j \in 1..n /\ j # i
      BY <1>1
    <3> QED
      BY <1>1, <3>1, <3>2 DEF n
  <2>4. InTurn(q.order, hub, g)
    <3>1. CASE g # 0
      <4>1. AllOf(Above[hub]) = seen(i - 1)
        BY <1>1, <3>1 DEF Ordered, n
      <4> HIDE DEF seen
      <4> QED
        BY <2>2, <3>1, <4>1 DEF InTurn
    <3>2. CASE g = 0 /\ Path(s) \subseteq AllOf(p.order)
      <4> HIDE DEF seen
      <4> QED
        BY <2>1, <2>2, <3>2 DEF InTurn
    <3>3. CASE g = 0 /\ Path(s) \cap AllOf(p.order) = {}
      <4>1. AllOf(Above[hub]) \subseteq Path(s)
        BY <2>1, PathFacts
      <4>2. \A j \in 1..(i - 1) : way[j] \notin AllOf(Above[hub])
        <5>1. \A j \in 1..(i - 1) : j \in 1..n /\ j < i
          BY <1>1
        <5> QED
          BY <1>1, <3>3, <5>1 DEF Ordered, n
      <4>3. AllOf(Above[hub]) \cap seen(i - 1) = {}
        BY <4>2
      <4> HIDE DEF seen
      <4> QED
        BY <2>2, <3>3, <4>1, <4>3 DEF InTurn
    <3> QED
      BY <3>1, <3>2, <3>3 DEF WholeOrNone
  <2>5. LeavesCarried(h, {hub}, g, prev)
    BY <2>1 DEF LeavesCarried
  <2> HIDE DEF q, r, hub, seen
  <2>6. /\ PlanOk(h, r, g) /\ AllOf(r.order) = AllOf(q.order) \cup {hub}
        /\ Counts(q.h.count, r.h.count, {hub}, g, prev)
    <3>1. hub \in Hubs /\ PlanOk(h, q, g)
      BY <2>1, <2>2
    <3> DEFINE v == PlanHub(q, hub, g, prev)
    <3>2. /\ PlanOk(h, v, g) /\ AllOf(v.order) = AllOf(q.order) \cup {hub}
          /\ Counts(q.h.count, v.h.count, {hub}, g, prev)
      BY <2>4, <2>5, <3>1, HubPlanned
    <3> HIDE DEF v
    <3>3. r = v
      BY <2>1 DEF v
    <3> QED
      BY <3>2, <3>3
  <2>7. Counts(p.h.count, r.h.count, seen(i), g, prev)
    <3>1. ASSUME NEW x \in Hubs, NEW k \in Gids
          PROVE  r.h.count[x][k] =
                   IF x \in seen(i) /\ k = OfGroup(g, prev)
                     THEN (IF g # 0 THEN p.h.count[x][k] + 1 ELSE p.h.count[x][k] - 1)
                     ELSE p.h.count[x][k]
      <4>1. q.h.count[x][k] =
               IF x \in seen(i - 1) /\ k = OfGroup(g, prev)
                 THEN (IF g # 0 THEN p.h.count[x][k] + 1 ELSE p.h.count[x][k] - 1)
                 ELSE p.h.count[x][k]
        BY <2>2 DEF Counts
      <4>2. r.h.count[x][k] =
               IF x = hub /\ k = OfGroup(g, prev)
                 THEN (IF g # 0 THEN q.h.count[x][k] + 1 ELSE q.h.count[x][k] - 1)
                 ELSE q.h.count[x][k]
        BY <2>6 DEF Counts
      <4> QED
        BY <2>3, <4>1, <4>2
    <3> QED
      BY <3>1 DEF Counts
  <2>8. AllOf(r.order) = AllOf(p.order) \cup seen(i)
    BY <2>2, <2>3, <2>6
  <2> QED
    BY <2>2, <2>6, <2>7, <2>8 DEF r
<1>6. \A i \in 0..n : i \in P
  <2> HIDE DEF P
  <2> QED
    BY <1>1, <1>4, <1>5, Ph!BoundedInduction DEF n
<1>7. n \in P
  <2>1. n \in Nat
    BY <1>1 DEF n
  <2> HIDE DEF P
  <2> QED
    BY <1>6, <2>1
<1> HIDE DEF seen
<1> QED
  BY <1>2, <1>3, <1>7 DEF way

(***************************************************************************)
(* A selection puts all its stops into one group, or into none.            *)
(***************************************************************************)
Selecting(h, a, g, C) ==
    /\ DOMAIN h = BookParts /\ Typed(a) /\ a.op = "select"
    /\ g \in Gids /\ g # Scratch /\ \A i \in 1..Len(a.stops) : a.gids[i] = g
    /\ SelectOk(h, a) /\ BottomUp(a)
    /\ Sound(h.bank, h.count, C)
    /\ \A x \in Hubs : \A k \in Gids \ {0} : Saved(h, x, k) = C[x][k]
First(a, i) == {a.stops[j] : j \in 1..i}
\* The stops that change their group: their hubs are planned.
Changing(h, a, g, i) == {j \in 1..i : h.bank[a.stops[j]][a.bank] # g}
PlanAt(h, p, a, g, i) ==
    /\ PlanOk(h, p, g)
    /\ AllOf(p.order) = UNION {Path(a.stops[j]) : j \in Changing(h, a, g, i)}
    /\ \A x \in Hubs : \A k \in Gids \ {0} :
          /\ p.h.count[x][k] >= Cardinality(Below(Into(h.bank, First(a, i), a.bank, g), x, k))
          /\ g = 0 => p.h.count[x][k] <= h.count[x][k]
          /\ x \notin AllOf(p.order) \/ (g # 0 /\ k # g) => p.h.count[x][k] = h.count[x][k]

LEMMA FirstFacts ==
  ASSUME NEW a, NEW i \in Nat, i # 0
  PROVE  /\ First(a, i) = First(a, i - 1) \cup {a.stops[i]}
         /\ \A h, g : Changing(h, a, g, i) =
               Changing(h, a, g, i - 1) \cup (IF h.bank[a.stops[i]][a.bank] = g THEN {} ELSE {i})
         /\ First(a, 0) = {}
<1>1. \A j \in 1..i : j = i \/ j \in 1..(i - 1)
  OBVIOUS
<1>2. i \in 1..i /\ \A j \in 1..(i - 1) : j \in 1..i
  OBVIOUS
<1>3. First(a, i) = First(a, i - 1) \cup {a.stops[i]}
  BY <1>1, <1>2 DEF First
<1>4. ASSUME NEW h, NEW g
      PROVE  Changing(h, a, g, i) =
               Changing(h, a, g, i - 1) \cup (IF h.bank[a.stops[i]][a.bank] = g THEN {} ELSE {i})
  BY <1>1, <1>2 DEF Changing
<1> QED
  BY <1>3, <1>4 DEF First

\* A stop that leaves its group: the group, and that all its hubs are planned
\* already, or none.
LEMMA LeavingFacts ==
  ASSUME NEW h, NEW a, NEW g, NEW C, Selecting(h, a, g, C), NEW i \in 1..Len(a.stops),
         h.bank[a.stops[i]][a.bank] # g
  PROVE  /\ LeavesCarried(h, Path(a.stops[i]), g, PrevGid(h, a, i))
         /\ g = 0 => /\ PrevGid(h, a, i) = h.bank[a.stops[i]][a.bank]
                     /\ a.stops[i] \notin First(a, i - 1)
         /\ \A o : AllOf(o) = UNION {Path(a.stops[j]) : j \in Changing(h, a, g, i - 1)}
              => WholeOrNone(o, Path(a.stops[i]), g)
<1> DEFINE s == a.stops[i]
           b == a.bank
           prev == PrevGid(h, a, i)
<1>1. s \in Stops /\ b \in Banks /\ a.gids[i] = g /\ Len(a.gids) = Len(a.stops)
  BY DEF Selecting, Typed
<1>2. ASSUME g = 0
      PROVE  prev = h.bank[s][b] /\ prev \notin {0, None}
  BY <1>1, <1>2 DEF PrevGid, Selecting, SelectOk
<1>3. LeavesCarried(h, Path(s), g, prev)
  <2> SUFFICES ASSUME g = 0
               PROVE  prev \in Gids \ {0} /\ prev # Scratch /\ \A x \in Path(s) : Saved(h, x, prev) = 1
    BY DEF LeavesCarried
  <2>1. prev = h.bank[s][b] /\ prev \notin {0, None}
    BY <1>2
  <2> DEFINE hb == h.bank
  <2>2. hb[s][b] = prev /\ Sound(hb, h.count, C)
    BY <2>1 DEF Selecting
  <2> HIDE DEF hb, prev, s
  <2>3. s \in Stops
    BY <1>1
  <2>4. prev \in Gids \ {0} /\ prev # Scratch
    <3>1. hb \in Books /\ hb[s][b] # Scratch
      BY <1>1, <2>2, <2>3 DEF Sound
    <3> QED
      BY <1>1, <2>1, <2>2, <2>3, <3>1 DEF Books
  <2>5. ASSUME NEW x \in Path(s) PROVE Saved(h, x, prev) = 1
    <3>1. hb[s][b] \notin {0, None}
      BY <2>1, <2>2
    <3>2. x \in Hubs /\ C[x][hb[s][b]] = 1
      BY <1>1, <2>2, <2>3, <3>1, CarriesBelow
    <3> QED
      BY <2>2, <2>4, <3>2 DEF Selecting
  <2> QED
    BY <2>4, <2>5
<1>4. ASSUME g = 0, NEW j \in 1..(i - 1)
      PROVE  a.stops[j] # s /\ (Path(s) \subseteq Path(a.stops[j]) \/ Path(s) \cap Path(a.stops[j]) = {})
  <2>1. i \in 1..Len(a.gids) /\ j \in 1..Len(a.stops) /\ j < i
    BY <1>1
  <2>2. 0 \in AllOf(a.gids)
    BY <1>1, <1>4, <2>1 DEF AllOf
  <2> QED
    BY <2>1, <2>2 DEF Selecting, BottomUp
<1>5. g = 0 => s \notin First(a, i - 1)
  BY <1>4 DEF First
<1>6. ASSUME NEW o, AllOf(o) = UNION {Path(a.stops[j]) : j \in Changing(h, a, g, i - 1)}
      PROVE  WholeOrNone(o, Path(s), g)
  <2> SUFFICES ASSUME g = 0, NEW x \in Path(s), x \in AllOf(o) PROVE Path(s) \subseteq AllOf(o)
    BY DEF WholeOrNone
  <2>1. PICK j \in Changing(h, a, g, i - 1) : x \in Path(a.stops[j])
    BY <1>6
  <2>2. j \in 1..(i - 1)
    BY DEF Changing
  <2>3. Path(s) \subseteq Path(a.stops[j])
    BY <1>4, <2>1, <2>2
  <2> QED
    BY <1>6, <2>3
<1> QED
  BY <1>2, <1>3, <1>5, <1>6

LEMMA PlanStopFolds ==
  ASSUME NEW p, NEW s, NEW g, NEW b, NEW prev
  PROVE  PlanStop(p, s, g, b, prev) =
           IF p.h.bank[s][b] = g THEN p ELSE Ph!Fold(g, prev, p, Way(s, g))
<1> DEFINE way == Way(s, g)
<1>1. FoldLeft(LAMBDA q, hub : PlanHub(q, hub, g, prev), p, way) = Ph!Fold(g, prev, p, way)
  BY DEF PlanHubIn, FoldLeft, MapThenFoldSet, Max, Ph!Fold, Ph!Top
<1> QED
  BY <1>1 DEF PlanStop

LEMMA NextInPlan ==
  ASSUME NEW h, NEW a, NEW g, NEW C, Selecting(h, a, g, C), NEW i \in 1..Len(a.stops),
         NEW p, PlanAt(h, p, a, g, i - 1)
  PROVE  PlanAt(h, PlanStop(p, a.stops[i], g, a.bank, PrevGid(h, a, i)), a, g, i)
<1> DEFINE s == a.stops[i]
           b == a.bank
           prev == PrevGid(h, a, i)
           q == PlanStop(p, s, g, b, prev)
           hb == h.bank
           I == Into(hb, First(a, i - 1), b, g)
           J == Into(hb, First(a, i), b, g)
<1>1. s \in Stops /\ b \in Banks /\ a.gids[i] = g /\ hb \in Books /\ i \in Nat /\ i # 0
  BY DEF Selecting, Typed, Sound
<1>2. /\ First(a, i) = First(a, i - 1) \cup {s}
      /\ Changing(h, a, g, i) = Changing(h, a, g, i - 1) \cup (IF hb[s][b] = g THEN {} ELSE {i})
  BY <1>1, FirstFacts
<1>3. ASSUME NEW x, NEW k \in Gids \ {0}
      PROVE  LET A == Cardinality(Below(I, x, k))
                 B == Cardinality(Below(J, x, k))
             IN  /\ A \in Nat /\ B \in Nat
                 /\ B <= A + 1
                 /\ ~(g = k /\ x \in Path(s) /\ hb[s][b] # g) => B <= A
                 /\ g = 0 /\ hb[s][b] = k /\ s \notin First(a, i - 1) /\ x \in Path(s) => B = A - 1
  <2> DEFINE S == First(a, i - 1)
  <2>1. J = Into(hb, S \cup {s}, b, g) /\ g \in Gids
    BY <1>2 DEF Selecting
  <2>2. I = Into(hb, S, b, g)
    OBVIOUS
  <2> HIDE DEF S, s, b, hb, I, J
  <2>3. /\ Cardinality(Below(J, x, k)) <= Cardinality(Below(I, x, k)) + 1
        /\ ~(g = k /\ x \in Path(s) /\ hb[s][b] # g)
              => Cardinality(Below(J, x, k)) <= Cardinality(Below(I, x, k))
        /\ g = 0 /\ hb[s][b] = k /\ s \notin S /\ x \in Path(s)
              => Cardinality(Below(J, x, k)) = Cardinality(Below(I, x, k)) - 1
    <3>1. hb \in Books /\ b \in Banks /\ s \in Stops /\ g \in Gids
      BY <1>1, <2>1
    <3>2. OneMoreBelow(hb, S, b, g, s, x, k)
      BY <3>1, BelowMoves
    <3> QED
      BY <2>1, <2>2, <3>2 DEF OneMoreBelow
  <2>4. Cardinality(Below(J, x, k)) \in Nat /\ Cardinality(Below(I, x, k)) \in Nat
    BY BelowFinite
  <2> QED
    BY <2>3, <2>4 DEF S
<1>4. /\ PlanOk(h, p, g)
      /\ AllOf(p.order) = UNION {Path(a.stops[j]) : j \in Changing(h, a, g, i - 1)}
      /\ \A x \in Hubs : \A k \in Gids \ {0} :
          /\ p.h.count[x][k] >= Cardinality(Below(I, x, k))
          /\ g = 0 => p.h.count[x][k] <= h.count[x][k]
          /\ x \notin AllOf(p.order) \/ (g # 0 /\ k # g) => p.h.count[x][k] = h.count[x][k]
  BY DEF PlanAt
<1>5. p.h.bank = hb /\ p.h.count \in [Hubs -> [Gids -> Int]]
  BY <1>4 DEF PlanOk
<1>6. h.count \in [Hubs -> [Gids -> Int]]
  BY DEF Selecting, Sound
<1> HIDE DEF I, J
<1>7. CASE hb[s][b] = g
  <2>1. q = p
    BY <1>5, <1>7 DEF PlanStop
  <2>2. Changing(h, a, g, i) = Changing(h, a, g, i - 1)
    BY <1>2, <1>7
  <2>3. ASSUME NEW x \in Hubs, NEW k \in Gids \ {0}
        PROVE  p.h.count[x][k] >= Cardinality(Below(J, x, k))
    <3>1. Cardinality(Below(J, x, k)) <= Cardinality(Below(I, x, k))
          /\ Cardinality(Below(J, x, k)) \in Nat /\ Cardinality(Below(I, x, k)) \in Nat
      BY <1>3, <1>7
    <3>2. p.h.count[x][k] \in Int /\ p.h.count[x][k] >= Cardinality(Below(I, x, k))
      BY <1>4, <1>5
    <3> QED
      BY <3>1, <3>2
  <2> HIDE DEF q
  <2>4. PlanAt(h, p, a, g, i)
    BY <1>4, <2>2, <2>3 DEF PlanAt, J
  <2> QED
    BY <2>1, <2>4 DEF q
<1>8. CASE hb[s][b] # g
  <2>0. /\ LeavesCarried(h, Path(s), g, prev) /\ WholeOrNone(p.order, Path(s), g)
        /\ g = 0 => prev = hb[s][b] /\ s \notin First(a, i - 1)
    BY <1>4, <1>8, LeavingFacts
  <2>1. q = Ph!Fold(g, prev, p, Way(s, g))
    BY <1>5, <1>8, PlanStopFolds
  <2> HIDE DEF q
  <2>2. Binary(h) /\ g \in Gids /\ g # Scratch
    BY DEF Binary, Selecting, Sound
  <2>3. /\ PlanOk(h, q, g) /\ AllOf(q.order) = AllOf(p.order) \cup Path(s)
        /\ Counts(p.h.count, q.h.count, Path(s), g, prev)
    <3> DEFINE v == Ph!Fold(g, prev, p, Way(s, g))
    <3>1. s \in Stops /\ PlanOk(h, p, g)
      BY <1>1, <1>4
    <3> HIDE DEF s, prev
    <3>2. /\ PlanOk(h, v, g) /\ AllOf(v.order) = AllOf(p.order) \cup Path(s)
          /\ Counts(p.h.count, v.h.count, Path(s), g, prev)
      BY <2>0, <2>2, <3>1, StopPlanned
    <3> HIDE DEF v
    <3>3. q = v
      BY <2>1 DEF v
    <3> QED
      BY <3>2, <3>3
  <2>4. AllOf(q.order) = UNION {Path(a.stops[j]) : j \in Changing(h, a, g, i)}
    BY <1>2, <1>4, <1>8, <2>3
  <2>5. ASSUME NEW x \in Hubs, NEW k \in Gids \ {0}
        PROVE  /\ q.h.count[x][k] >= Cardinality(Below(J, x, k))
               /\ g = 0 => q.h.count[x][k] <= h.count[x][k]
               /\ x \notin AllOf(q.order) \/ (g # 0 /\ k # g) => q.h.count[x][k] = h.count[x][k]
    <3> DEFINE A == Cardinality(Below(I, x, k))
               B == Cardinality(Below(J, x, k))
               m == p.h.count[x][k]
               t == h.count[x][k]
    <3>1. /\ A \in Nat /\ B \in Nat
          /\ B <= A + 1
          /\ ~(g = k /\ x \in Path(s) /\ hb[s][b] # g) => B <= A
          /\ g = 0 /\ hb[s][b] = k /\ s \notin First(a, i - 1) /\ x \in Path(s) => B = A - 1
      BY <1>3
    <3>2. /\ m \in Int /\ t \in Int /\ m >= A /\ g = 0 => m <= t
          /\ x \notin AllOf(p.order) \/ (g # 0 /\ k # g) => m = t
      BY <1>4, <1>5, <1>6
    <3>3. q.h.count[x][k] = IF x \in Path(s) /\ k = OfGroup(g, prev)
                              THEN (IF g # 0 THEN m + 1 ELSE m - 1) ELSE m
      BY <2>3 DEF Counts
    <3>4. x \notin AllOf(q.order) => x \notin AllOf(p.order) /\ x \notin Path(s)
      BY <2>3
    <3>5. m \in Int /\ t \in Int /\ m >= A
      BY <1>4, <1>5, <1>6
    <3>6. g = 0 => m <= t
      BY <1>4
    <3> HIDE DEF A, B, m, t
    <3>7. q.h.count[x][k] >= B
      <4>1. CASE g # 0
        BY <1>8, <4>1, <3>1, <3>3, <3>5 DEF OfGroup
      <4>2. CASE g = 0
        BY <1>8, <2>0, <4>2, <3>1, <3>3, <3>5 DEF OfGroup
      <4> QED
        BY <4>1, <4>2
    <3>8. g = 0 => q.h.count[x][k] <= t
      BY <3>3, <3>5, <3>6
    <3>9. x \notin AllOf(q.order) \/ (g # 0 /\ k # g) => q.h.count[x][k] = t
      BY <3>2, <3>3, <3>4 DEF OfGroup
    <3> QED
      BY <3>7, <3>8, <3>9 DEF B, t
  <2>6. PlanAt(h, q, a, g, i)
    BY <2>3, <2>4, <2>5 DEF PlanAt, J
  <2> QED
    BY <2>6 DEF q
<1> QED
  BY <1>7, <1>8

LEMMA PlanMade ==
  ASSUME NEW h, NEW a, NEW g, NEW C, Selecting(h, a, g, C),
         NEW prevs, \A i \in 1..Len(a.stops) : prevs[i] = PrevGid(h, a, i)
  PROVE  PlanAt(h, PlanHubs(h, a, prevs), a, g, Len(a.stops))
<1> DEFINE n == Len(a.stops)
           is == [i \in 1..n |-> i]
           p0 == [h |-> h, order |-> <<>>, want |-> [hub \in Hubs |-> SetupHub(h, hub)],
                  num |-> [hub \in Hubs |-> 0]]
<1>1. n \in Nat /\ \A i \in 1..n : a.gids[i] = g
  BY DEF Selecting, Typed
<1>2. PlanHubs(h, a, prevs) = Ps!Fold(a, prevs, p0, is)
  BY DEF PlanHubs, PlanStopIn, FoldLeft, MapThenFoldSet, Max, Ps!Fold, Ps!Top
<1>3. DOMAIN is = 1..n /\ \A i \in 1..n : is[i] = i
  OBVIOUS
<1>4. /\ DOMAIN p0 = PlanParts /\ p0.h = h /\ p0.order = <<>>
      /\ DOMAIN p0.want = Hubs /\ DOMAIN p0.num = Hubs
  BY DEF PlanParts
<1> HIDE DEF is, p0, n
<1>5. PICK f : Ps!Steps(f, a, prevs, p0, is, n) /\ Ps!Fold(a, prevs, p0, is) = f[n]
  BY <1>1, <1>3, Ps!FoldSteps
<1> DEFINE P == {i \in 0..n : PlanAt(h, f[i], a, g, i)}
<1>6. 0 \in P
  <2>1. f[0] = p0 /\ 0 \in 0..n
    BY <1>1, <1>5 DEF Ps!Steps
  <2>2. AllOf(<<>>) = {} /\ <<>> \in Seq(Hubs) /\ OrderOk(<<>>, g)
    BY DEF AllOf, OrderOk
  <2>3. DOMAIN h = BookParts /\ h.bank \in Books /\ h.count \in [Hubs -> [Gids -> Int]]
        /\ a.bank \in Banks /\ g \in Gids
    BY DEF Selecting, Sound, Typed
  <2>4. PlanOk(h, p0, g)
    BY <1>4, <2>2, <2>3 DEF PlanOk
  <2>5. First(a, 0) = {} /\ Changing(h, a, g, 0) = {}
    BY DEF First, Changing
  <2>6. Into(h.bank, First(a, 0), a.bank, g) = h.bank
    <3> DEFINE hb == h.bank
               b == a.bank
    <3>1. hb \in Books /\ b \in Banks /\ g \in Gids
      BY <2>3
    <3> HIDE DEF hb, b
    <3>2. Into(hb, {}, b, g) = hb
      BY <3>1, IntoFacts
    <3> QED
      BY <2>5, <3>2 DEF hb, b
  <2>7. ASSUME NEW x \in Hubs, NEW k \in Gids \ {0}
        PROVE  h.count[x][k] >= Cardinality(Below(h.bank, x, k)) /\ h.count[x][k] <= h.count[x][k]
    BY <2>3 DEF Selecting, Sound
  <2>8. PlanAt(h, p0, a, g, 0)
    BY <1>4, <2>2, <2>4, <2>5, <2>6, <2>7 DEF PlanAt
  <2> QED
    BY <2>1, <2>8
<1>7. ASSUME NEW i \in 1..n, i - 1 \in P PROVE i \in P
  <2>1. f[i] = PlanStop(f[i - 1], a.stops[i], g, a.bank, PrevGid(h, a, i)) /\ i \in 0..n
    BY <1>1, <1>3, <1>5 DEF Ps!Steps, PlanStopIn, n
  <2>2. PlanAt(h, f[i - 1], a, g, i - 1) /\ i \in 1..Len(a.stops)
    BY <1>7 DEF n
  <2>3. PlanAt(h, PlanStop(f[i - 1], a.stops[i], g, a.bank, PrevGid(h, a, i)), a, g, i)
    BY <2>2, NextInPlan
  <2> QED
    BY <2>1, <2>3
<1>8. \A i \in 0..n : i \in P
  <2> HIDE DEF P
  <2> QED
    BY <1>1, <1>6, <1>7, Ps!BoundedInduction
<1>9. n \in P
  BY <1>1, <1>8
<1> QED
  BY <1>2, <1>5, <1>9 DEF n

\* What the hubs carry when all have been programmed.
Afterwards(C, p) == Reprogrammed(C, p.order, Len(p.order), p.want, p.num)

LEMMA PlannedRow ==
  ASSUME NEW h, NEW a, NEW g, NEW C, Selecting(h, a, g, C), NEW i,
         NEW p, PlanAt(h, p, a, g, i), NEW x \in Hubs
  PROVE  /\ x \notin AllOf(p.order) => Afterwards(C, p)[x] = C[x]
         /\ x \in AllOf(p.order) =>
               /\ Afterwards(C, p)[x] = HubRow(p.want[x], p.num[x])
               /\ HubMeant(h, x, p.h.count[x], p.want[x], p.num[x], g)
BY DEF Afterwards, Reprogrammed, PlanAt, PlanOk, AllOf

\* Every hub that is planned is on the way to a stop that changes its group.
Reachable(C, y) ==
    \E s \in Stops : y \in Path(s) /\ \A x \in Path(s) : x \in Hubs /\ C[x][Scratch] = 1

LEMMA PlannedFor ==
  ASSUME NEW h, NEW a, NEW g, NEW C, Selecting(h, a, g, C), g = 0,
         NEW p, PlanAt(h, p, a, g, Len(a.stops)), NEW y \in AllOf(p.order)
  PROVE  Reachable(C, y)
<1>1. PICK j \in Changing(h, a, g, Len(a.stops)) : y \in Path(a.stops[j])
  BY DEF PlanAt
<1> DEFINE s == a.stops[j]
           hb == h.bank
           b == a.bank
<1>2. j \in 1..Len(a.stops) /\ hb[s][b] # 0
  BY DEF Changing
<1>3. s \in Stops /\ b \in Banks
  BY <1>2 DEF Selecting, Typed
<1>4. hb[s][b] # None
  <2>1. a.gids[j] = 0 /\ PrevGid(h, a, j) # None
    BY <1>2 DEF Selecting, SelectOk
  <2> QED
    BY <2>1 DEF PrevGid
<1>5. Sound(hb, h.count, C)
  BY DEF Selecting
<1> HIDE DEF hb, s, b
<1>6. \A x \in Path(s) : x \in Hubs /\ C[x][Scratch] = 1
  BY <1>2, <1>3, <1>4, <1>5, CarriesBelow
<1> QED
  BY <1>1, <1>3, <1>6 DEF s, Reachable

LEMMA PlanReaches ==
  ASSUME NEW h, NEW a, NEW g, NEW C, Selecting(h, a, g, C),
         NEW p, PlanAt(h, p, a, g, Len(a.stops)),
         NEW S, NEW bk, Agreed(IF g = 0 THEN Into(h.bank, S, a.bank, g) ELSE h.bank, bk)
  PROVE  Reached(C, p.order, p.want, p.num, bk)
<1> DEFINE hb == h.bank
           o == p.order
<1>0. /\ hb \in Books /\ a.bank \in Banks /\ g \in Gids /\ g # Scratch /\ Sound(hb, h.count, C)
      /\ \A x \in Hubs : \A k \in Gids \ {0} : Saved(h, x, k) = C[x][k]
  BY DEF Selecting, Sound, Typed
<1>1. o \in Seq(Hubs) /\ OrderOk(o, g)
  BY DEF PlanAt, PlanOk
<1> SUFFICES ASSUME NEW i \in 1..Len(o), NEW x \in AllOf(Above[o[i]])
             PROVE  LET D == Reprogrammed(C, o, i - 1, p.want, p.num)
                    IN  D[x][Scratch] = 1 /\ (bk[o[i]][0] # 0 => D[x][bk[o[i]][0]] = 1)
  BY DEF Reached
<1> DEFINE y == o[i]
           D == Reprogrammed(C, o, i - 1, p.want, p.num)
           back == bk[y][0]
<1>2. y \in Hubs /\ y \in Stops /\ y \in AllOf(o) /\ 0 \in Banks
  <2>1. Hubs \subseteq Stops
    BY NetworkAssumption
  <2>2. y \in Hubs /\ y \in AllOf(o)
    BY <1>1 DEF AllOf
  <2> QED
    BY <2>1, <2>2 DEF Banks
<1>3. x \in Path(y) /\ x \in Hubs
  BY <1>2, PathFacts
<1>4. back # 0 => hb[y][0] = back /\ back # None
  <2>1. CASE g = 0
    <3> DEFINE b == a.bank
    <3>1. hb \in Books /\ b \in Banks /\ g \in Gids
      BY <1>0
    <3>2. Agreed(Into(hb, S, b, g), bk)
      BY <2>1
    <3>3. bk[y][0] = IF Into(hb, S, b, g)[y][0] = None THEN 0 ELSE Into(hb, S, b, g)[y][0]
      BY <1>2, <3>2 DEF Agreed
    <3> HIDE DEF hb, b, y
    <3>4. Into(hb, S, b, g)[y][0] =
             IF y \in S /\ 0 = b THEN g
             ELSE IF y \in S /\ g # 0 /\ hb[y][0] = None THEN 0 ELSE hb[y][0]
      BY <1>2, <3>1, IntoFacts
    <3> QED
      BY <2>1, <3>3, <3>4
  <2>2. CASE g # 0
    BY <1>2, <2>2 DEF Agreed
  <2> QED
    BY <2>1, <2>2
<1>5. back # 0 => back \in Gids \ {0} /\ back # Scratch /\ C[x][back] = 1
  <2> SUFFICES ASSUME back # 0 PROVE back \in Gids \ {0} /\ back # Scratch /\ C[x][back] = 1
    OBVIOUS
  <2>1. hb[y][0] \notin {0, None} /\ hb[y][0] = back
    BY <1>4
  <2> HIDE DEF hb, y, back
  <2>2. hb[y][0] \in Gids \ {0} /\ hb[y][0] # Scratch /\ C[x][hb[y][0]] = 1
    BY <1>0, <1>2, <1>3, <2>1, CarriesBelow
  <2> QED
    BY <2>1, <2>2
<1> HIDE DEF back
<1>6. CASE g # 0
  <2>1. PICK m \in 1..(i - 1) : o[m] = x
    BY <1>1, <1>6 DEF OrderOk
  <2>2. D[x] = HubRow(p.want[x], p.num[x])
    BY <1>3, <2>1 DEF Reprogrammed
  <2>3. x \in AllOf(o)
    <3>1. m \in 1..Len(o)
      BY <1>1
    <3> QED
      BY <2>1, <3>1 DEF AllOf
  <2>4. HubMeant(h, x, p.h.count[x], p.want[x], p.num[x], g)
    BY <2>3 DEF PlanAt, PlanOk
  <2> HIDE DEF D
  <2>5. p.num[x] > 0 /\ \A k \in Gids \ {0} : p.want[x][k] = IF k = g THEN 1 ELSE Saved(h, x, k)
    BY <1>6, <2>4 DEF HubMeant
  <2>6. D[x][Scratch] = 1
    BY <2>2, <2>5, GidFacts DEF HubRow
  <2>7. back # 0 => D[x][back] = 1
    BY <1>0, <1>3, <1>5, <2>2, <2>5 DEF HubRow
  <2> QED
    BY <2>6, <2>7 DEF D, back
<1>7. CASE g = 0
  <2>1. \A m \in 1..(i - 1) : o[m] # x
    BY <1>1, <1>7 DEF OrderOk
  <2>2. D[x] = C[x]
    BY <1>3, <2>1 DEF Reprogrammed
  <2>3. C[x][Scratch] = 1
    <3>1. y \in AllOf(p.order)
      BY <1>2
    <3> HIDE DEF y
    <3>2. Reachable(C, y)
      BY <1>7, <3>1, PlannedFor
    <3>3. PICK s \in Stops : y \in Path(s) /\ \A z \in Path(s) : z \in Hubs /\ C[z][Scratch] = 1
      BY <3>2 DEF Reachable
    <3>4. x \in Path(s)
      BY <3>3, PathFacts DEF y
    <3> QED
      BY <3>3, <3>4
  <2> HIDE DEF D
  <2> QED
    BY <1>5, <2>2, <2>3 DEF D, back
<1> QED
  BY <1>6, <1>7

LEMMA PlanSound ==
  ASSUME NEW h, NEW a, NEW g, NEW C, Selecting(h, a, g, C),
         NEW p, PlanAt(h, p, a, g, Len(a.stops))
  PROVE  Sound(Into(h.bank, First(a, Len(a.stops)), a.bank, g), p.h.count, Afterwards(C, p))
<1> DEFINE hb == h.bank
           b == a.bank
           S == First(a, Len(a.stops))
           J == Into(hb, S, b, g)
           D == Afterwards(C, p)
           cn == p.h.count
<1>1. /\ hb \in Books /\ b \in Banks /\ g \in Gids /\ g # Scratch /\ Sound(hb, h.count, C)
      /\ h.count \in [Hubs -> [Gids -> Int]]
      /\ \A x \in Hubs : \A k \in Gids \ {0} : Saved(h, x, k) = C[x][k]
  BY DEF Selecting, Sound, Typed
<1>2. J \in Books /\ \A s \in Stops : \A k \in Banks : J[s][k] # Scratch
  <2>1. \A s \in Stops : \A k \in Banks : hb[s][k] # Scratch
    BY <1>1 DEF Sound
  <2> HIDE DEF hb, b, S
  <2>2. /\ J \in Books
        /\ \A s \in Stops : \A k \in Banks :
              J[s][k] = IF s \in S /\ k = b THEN g
                        ELSE IF s \in S /\ g # 0 /\ hb[s][k] = None THEN 0 ELSE hb[s][k]
    BY <1>1, IntoFacts
  <2> QED
    BY <1>1, <2>1, <2>2, GidFacts
<1>3. /\ cn \in [Hubs -> [Gids -> Int]]
      /\ \A x \in Hubs : \A k \in Gids \ {0} :
          /\ cn[x][k] >= Cardinality(Below(J, x, k))
          /\ g = 0 => cn[x][k] <= h.count[x][k]
          /\ x \notin AllOf(p.order) \/ (g # 0 /\ k # g) => cn[x][k] = h.count[x][k]
  BY DEF PlanAt, PlanOk
<1> HIDE DEF J
<1>4. ASSUME NEW x \in Hubs, NEW k \in Gids \ {0}
      PROVE  /\ D[x][k] \in {0, 1}
             /\ k # Scratch /\ cn[x][k] >= 1 => D[x][k] = 1
             /\ k # Scratch /\ D[x][k] = 1 => D[x][Scratch] = 1
  <2>0. /\ C[x][k] \in {0, 1}
        /\ k # Scratch /\ h.count[x][k] >= 1 => C[x][k] = 1
        /\ k # Scratch /\ C[x][k] = 1 => C[x][Scratch] = 1
        /\ Saved(h, x, k) = C[x][k] /\ cn[x][k] \in Int /\ h.count[x][k] \in Int
    BY <1>1, <1>3 DEF Sound
  <2>1. CASE x \notin AllOf(p.order)
    <3>1. D[x] = C[x]
      BY <2>1, PlannedRow
    <3>2. cn[x][k] = h.count[x][k]
      BY <1>3, <2>1
    <3> HIDE DEF D
    <3> QED
      BY <2>0, <3>1, <3>2
  <2>2. CASE x \in AllOf(p.order)
    <3>1. D[x] = HubRow(p.want[x], p.num[x]) /\ HubMeant(h, x, cn[x], p.want[x], p.num[x], g)
      BY <2>2, PlannedRow
    <3> DEFINE want == p.want[x]
               num == p.num[x]
    <3> HIDE DEF D, want, num, cn
    <3>2. /\ D[x][k] = IF k = Scratch THEN (IF num > 0 THEN 1 ELSE 0) ELSE want[k]
          /\ D[x][Scratch] = IF num > 0 THEN 1 ELSE 0
      BY <3>1, GidFacts DEF HubRow, want, num
    <3>3. want[k] \in {0, 1}
      BY <3>1 DEF HubMeant, want
    <3>4. CASE g # 0
      <4>1. num > 0 /\ want[k] = IF k = g THEN 1 ELSE Saved(h, x, k)
        BY <3>1, <3>4 DEF HubMeant, want, num
      <4>2. k # g => cn[x][k] = h.count[x][k]
        BY <1>3, <3>4 DEF cn
      <4> QED
        BY <2>0, <3>2, <3>3, <4>1, <4>2
    <3>5. CASE g = 0
      <4>1. /\ want[k] = Saved(h, x, k) \/ (want[k] = 0 /\ cn[x][k] < 1)
            /\ k # Scratch /\ want[k] = 1 => num > 0
        BY <3>1, <3>5 DEF HubMeant, want, num
      <4>2. cn[x][k] <= h.count[x][k]
        BY <1>3, <3>5 DEF cn
      <4> QED
        BY <2>0, <3>2, <3>3, <4>1, <4>2
    <3> QED
      BY <3>4, <3>5
  <2> QED
    BY <2>1, <2>2
<1> HIDE DEF D, cn
<1>5. Sound(J, cn, D)
  BY <1>2, <1>3, <1>4 DEF Sound
<1> QED
  BY <1>5 DEF J, cn, D

-----------------------------------------------------------------------------
(***************************************************************************)
(* The ops of a selection.                                                 *)
(***************************************************************************)
LEMMA SeenLike ==
  ASSUME NEW conf, NEW n0, NEW w, NEW hb, NEW cn, NEW bk, NEW C,
         Seen(conf, n0, w, hb, cn, bk, C),
         NEW v, DOMAIN v = WorkParts, v.te = w.te, v.h = w.h, v.ops = w.ops
  PROVE  Seen(conf, n0, v, hb, cn, bk, C)
BY DEF Seen

LEMMA AssignSeen ==
  ASSUME NEW conf, ~conf.network, NEW n0, NEW w, NEW hb, NEW cn, NEW bk, NEW C,
         Seen(conf, n0, w, hb, cn, bk, C), NEW s, NEW b, NEW g, NEW prev, NEW mode
  PROVE  Seen(conf, n0, Assign(w, g, s, b, prev, mode), Moved(hb, s, b, g), cn,
              [bk EXCEPT ![s][b] = g], C)
<1> DEFINE v == Assign(w, g, s, b, prev, mode)
           op == Noted(s, g, b, mode)
           u == Emit(w, op)
           u2 == [u EXCEPT !.h = v.h]
           bk2 == [bk EXCEPT ![s][b] = g]
<1>1. DOMAIN w = WorkParts /\ DOMAIN w.h = BookParts /\ w.h.bank = hb /\ w.h.count = cn /\ w.te = conf
  BY DEF Seen
<1>2. /\ DOMAIN v = WorkParts /\ v.te = w.te
      /\ DOMAIN v.h = BookParts /\ v.h.bank = Moved(hb, s, b, g)
      /\ v.h.count = cn /\ v.h.value = w.h.value
      /\ v.ops = Append(w.ops, op)
  BY <1>1, AssignMoves
<1>3. DOMAIN u = WorkParts /\ u.te = w.te /\ u.h = w.h /\ u.ops = Append(w.ops, op)
  <2> DEFINE ops2 == Append(w.ops, op)
  <2>1. u = [w EXCEPT !.ops = ops2]
    BY DEF Emit
  <2> HIDE DEF ops2, u
  <2>2. DOMAIN u = WorkParts /\ u.te = w.te /\ u.h = w.h /\ u.ops = ops2
    BY <1>1, <2>1 DEF WorkParts
  <2> QED
    BY <2>2 DEF ops2
<1>4. Seen(conf, n0, u, hb, cn, bk2, C)
  BY SeenMove
<1> HIDE DEF u, v, bk2
<1>5. Seen(conf, n0, u2, v.h.bank, v.h.count, bk2, C)
  <2> DEFINE h2 == v.h
  <2>1. DOMAIN h2 = BookParts /\ h2.value = u.h.value
    BY <1>2, <1>3
  <2> HIDE DEF h2
  <2>2. Seen(conf, n0, [u EXCEPT !.h = h2], h2.bank, h2.count, bk2, C)
    BY <1>4, <2>1, SeenBook
  <2> QED
    BY <2>2 DEF h2
<1>6. DOMAIN u2 = WorkParts /\ u2.te = u.te /\ u2.h = v.h /\ u2.ops = u.ops
  BY <1>3 DEF WorkParts
<1> HIDE DEF u2
<1>7. v.te = u2.te /\ v.h = u2.h /\ v.ops = u2.ops
  BY <1>2, <1>3, <1>6
<1>8. Seen(conf, n0, v, v.h.bank, v.h.count, bk2, C)
  BY <1>2, <1>5, <1>7, SeenLike
<1> QED
  BY <1>2, <1>8 DEF v, bk2

LEMMA AgreedMoves ==
  ASSUME NEW hb, NEW bk, Agreed(hb, bk), NEW s \in Stops, NEW b \in Banks, NEW g \in Gids
  PROVE  Agreed(Moved(hb, s, b, g), [bk EXCEPT ![s][b] = g])
<1> DEFINE M == Moved(hb, s, b, g)
           bk2 == [bk EXCEPT ![s][b] = g]
<1>0. hb \in Books /\ bk \in [Stops -> [Banks -> Gids]]
      /\ \A x \in Stops : \A y \in Banks : bk[x][y] = IF hb[x][y] = None THEN 0 ELSE hb[x][y]
  BY DEF Agreed, Books
<1>1. /\ M \in Books
      /\ \A x \in Stops : \A y \in Banks :
              M[x][y] = IF x = s /\ y = b THEN g
                        ELSE IF x = s /\ g # 0 /\ hb[x][y] = None THEN 0 ELSE hb[x][y]
  BY <1>0, MovedBooks
<1>2. bk2 \in [Stops -> [Banks -> Gids]]
      /\ \A x \in Stops : \A y \in Banks : bk2[x][y] = IF x = s /\ y = b THEN g ELSE bk[x][y]
  BY <1>0
<1> HIDE DEF M, bk2
<1>3. g # None /\ 0 # None
  BY GidFacts DEF None
<1>4. Agreed(M, bk2)
  BY <1>0, <1>1, <1>2, <1>3 DEF Agreed, Books
<1> QED
  BY <1>4 DEF M, bk2

\* A write of an output in the group of the stop, or of nobody's.
LEMMA OutputSeen ==
  ASSUME NEW conf, ~conf.network, NEW n0, NEW w, NEW hb, NEW cn, NEW bk, NEW C,
         Seen(conf, n0, w, hb, cn, bk, C),
         NEW s \in Stops, NEW b \in Banks, NEW g \in Gids, NEW val,
         g # 0 => bk[s][b] = g /\ \A x \in AllOf(Above[s]) : C[x][g] = 1
  PROVE  Seen(conf, n0, SetOe(w, s, b, g, val), hb, cn, bk, C)
<1> DEFINE stops == <<s>>
           gids == <<g>>
           data == [f \in {Oe(b)} |-> val]
<1>1. stops \in Seq(Stops) /\ Len(stops) = 1 /\ stops[1] = s /\ gids[1] = g
  OBVIOUS
<1>2. ~Programs(data)
  BY DEF Programs, Member, Oe
<1>3. g # 0 => HearsIn(conf, n0.grouping, bk, C, s, g)
  BY DEF HearsIn
<1>4. SetOe(w, s, b, g, val) = WriteFields(w, stops, gids, data, FALSE)
  BY DEF SetOe, Write
<1> HIDE DEF stops, gids, data
<1>5. Seen(conf, n0, WriteFields(w, stops, gids, data, FALSE), hb, cn, bk, C)
  <2>1. \A i \in 1..Len(stops) : i = 1
    BY <1>1
  <2>2. \A i \in 1..Len(stops) : gids[i] \in Gids
    BY <1>1, <2>1
  <2>3. \A i \in 1..Len(stops) :
           gids[i] # 0 => HearsIn(conf, n0.grouping, bk, C, stops[i], gids[i])
    BY <1>1, <1>3, <2>1
  <2> QED
    BY <1>1, <1>2, <2>2, <2>3, SeenPlain
<1> QED
  BY <1>4, <1>5

-----------------------------------------------------------------------------
(***************************************************************************)
(* A selection before and after the hubs are programmed.                   *)
(***************************************************************************)
SeenAt(conf, n0, v, hb, cn, C) == \E bk : Seen(conf, n0, v, hb, cn, bk, C) /\ Agreed(hb, bk)
PrevsOf(h, a, prevs) == \A i \in 1..Len(a.stops) : prevs[i] = PrevGid(h, a, i)
\* The groups when the first i stops have moved.
IntoFirst(h, a, g, i) == Into(h.bank, First(a, i), a.bank, g)

LEMMA OneMoved ==
  ASSUME NEW h, NEW a, NEW g, NEW C, Selecting(h, a, g, C), NEW i \in 1..Len(a.stops)
  PROVE  /\ Moved(IntoFirst(h, a, g, i - 1), a.stops[i], a.bank, g) = IntoFirst(h, a, g, i)
         /\ IntoFirst(h, a, g, 0) = h.bank
         /\ h.bank \in Books /\ a.stops[i] \in Stops /\ a.bank \in Banks /\ g \in Gids
<1> DEFINE s == a.stops[i]
           hb == h.bank
           b == a.bank
           S == First(a, i - 1)
<1>1. hb \in Books /\ s \in Stops /\ b \in Banks /\ g \in Gids /\ i \in Nat /\ i # 0
  BY DEF Selecting, Typed, Sound
<1>2. First(a, i) = S \cup {s} /\ First(a, 0) = {}
  BY <1>1, FirstFacts
<1> HIDE DEF s, hb, b, S
<1>3. Moved(Into(hb, S, b, g), s, b, g) = Into(hb, S \cup {s}, b, g) /\ Into(hb, {}, b, g) = hb
  BY <1>1, IntoMoved, IntoFacts
<1> QED
  BY <1>1, <1>2, <1>3 DEF IntoFirst, s, hb, b, S

LEMMA NoneMoved ==
  ASSUME NEW h, NEW a, NEW g, NEW C, Selecting(h, a, g, C)
  PROVE  IntoFirst(h, a, g, 0) = h.bank
<1> DEFINE hb == h.bank
           b == a.bank
<1>1. hb \in Books /\ b \in Banks /\ g \in Gids
  BY DEF Selecting, Typed, Sound
<1>2. First(a, 0) = {}
  BY FirstFacts, 1 \in Nat, 1 # 0
<1> HIDE DEF hb, b
<1>3. Into(hb, {}, b, g) = hb
  BY <1>1, IntoFacts
<1> QED
  BY <1>2, <1>3 DEF IntoFirst, hb, b

LEMMA StopOff ==
  ASSUME NEW conf, ~conf.network, NEW n0, NEW h, NEW a, NEW g, NEW C, Selecting(h, a, g, C), g = 0,
         NEW prevs, PrevsOf(h, a, prevs), NEW i \in 1..Len(a.stops), NEW v, NEW cn,
         SeenAt(conf, n0, v, IntoFirst(h, a, g, i - 1), cn, C)
  PROVE  SeenAt(conf, n0, OffStop(v, a, prevs, i), IntoFirst(h, a, g, i), cn, C)
<1> DEFINE s == a.stops[i]
           b == a.bank
           prev == prevs[i]
           hi == IntoFirst(h, a, g, i - 1)
           off == SetOe(v, s, b, prev, 0)
<1>1. PICK bk : Seen(conf, n0, v, hi, cn, bk, C) /\ Agreed(hi, bk)
  BY DEF SeenAt
<1>2. /\ Moved(hi, s, b, g) = IntoFirst(h, a, g, i)
      /\ h.bank \in Books /\ s \in Stops /\ b \in Banks /\ g \in Gids
  BY OneMoved
<1>3. prev = h.bank[s][b] /\ prev # None /\ prev \in Gids
  <2>1. a.gids[i] = 0 /\ PrevGid(h, a, i) # None
    BY DEF Selecting, SelectOk
  <2>2. prev = h.bank[s][b] /\ prev # None
    BY <2>1 DEF PrevGid, PrevsOf
  <2>3. h.bank[s][b] \in Gids \cup {None}
    BY <1>2 DEF Books
  <2> QED
    BY <2>2, <2>3
<1>4. prev # 0 => bk[s][b] = prev /\ \A x \in AllOf(Above[s]) : C[x][prev] = 1
  <2> SUFFICES ASSUME prev # 0
               PROVE  bk[s][b] = prev /\ \A x \in AllOf(Above[s]) : C[x][prev] = 1
    OBVIOUS
  <2>1. /\ LeavesCarried(h, Path(s), g, PrevGid(h, a, i)) /\ s \notin First(a, i - 1)
    BY <1>3, LeavingFacts
  <2>2. \A x \in Path(s) : Saved(h, x, prev) = 1
    BY <2>1 DEF LeavesCarried, PrevsOf
  <2>3. Path(s) \subseteq Hubs /\ AllOf(Above[s]) \subseteq Path(s)
    BY <1>2, PathFacts
  <2>4. \A x \in Hubs : Saved(h, x, prev) = C[x][prev]
    BY <1>3 DEF Selecting
  <2>5. hi[s][b] = prev
    <3> DEFINE hb == h.bank
               S == First(a, i - 1)
    <3>1. hb \in Books /\ s \notin S
      BY <1>2, <2>1
    <3> HIDE DEF hb, S, s, b
    <3>2. Into(hb, S, b, g)[s][b] = hb[s][b]
      BY <1>2, <3>1, IntoFacts
    <3> QED
      BY <1>3, <3>2 DEF hb, S, s, b, hi, IntoFirst
  <2>6. bk[s][b] = prev
    BY <1>1, <1>2, <1>3, <2>5 DEF Agreed
  <2> QED
    BY <2>2, <2>3, <2>4, <2>6
<1>5. v.te = conf
  BY <1>1 DEF Seen
<1>6. OffStop(v, a, prevs, i) = Assign(off, 0, s, b, prev, a.mode)
  BY <1>5 DEF OffStop
<1> HIDE DEF s, b, prev, hi
<1>7. Seen(conf, n0, off, hi, cn, bk, C)
  BY <1>1, <1>2, <1>3, <1>4, OutputSeen
<1> HIDE DEF off
<1>8. Seen(conf, n0, Assign(off, 0, s, b, prev, a.mode), Moved(hi, s, b, 0), cn, [bk EXCEPT ![s][b] = 0], C)
  BY <1>7, AssignSeen
<1>9. Agreed(Moved(hi, s, b, 0), [bk EXCEPT ![s][b] = 0])
  BY <1>1, <1>2, AgreedMoves
<1>10. SeenAt(conf, n0, Assign(off, 0, s, b, prev, a.mode), Moved(hi, s, b, 0), cn, C)
  BY <1>8, <1>9 DEF SeenAt
<1> QED
  BY <1>2, <1>6, <1>10

LEMMA StopsOff ==
  ASSUME NEW conf, ~conf.network, NEW n0, NEW h, NEW a, NEW g, NEW C, Selecting(h, a, g, C),
         NEW prevs, PrevsOf(h, a, prevs), NEW w, NEW cn, SeenAt(conf, n0, w, h.bank, cn, C)
  PROVE  SeenAt(conf, n0, SwitchOff(w, a, prevs),
                IF g = 0 THEN IntoFirst(h, a, g, Len(a.stops)) ELSE h.bank, cn, C)
<1> DEFINE n == Len(a.stops)
           is == [i \in 1..n |-> i]
           H(i) == IF g = 0 THEN IntoFirst(h, a, g, i) ELSE h.bank
<1>1. n \in Nat /\ DOMAIN is = 1..n /\ \A i \in 1..n : is[i] = i /\ a.gids[i] = g
  BY DEF Selecting, Typed
<1>2. SwitchOff(w, a, prevs) = Of!Fold(a, prevs, w, is)
  BY DEF SwitchOff, OffIn, FoldLeft, MapThenFoldSet, Max, Of!Fold, Of!Top
<1> HIDE DEF is
<1>3. PICK f : Of!Steps(f, a, prevs, w, is, n) /\ Of!Fold(a, prevs, w, is) = f[n]
  BY <1>1, Of!FoldSteps
<1> DEFINE P == {i \in 0..n : SeenAt(conf, n0, f[i], H(i), cn, C)}
<1>4. 0 \in P
  <2>1. f[0] = w /\ 0 \in 0..n
    BY <1>1, <1>3 DEF Of!Steps
  <2>2. H(0) = h.bank
    BY NoneMoved
  <2> HIDE DEF n, H
  <2> QED
    BY <2>1, <2>2
<1>5. ASSUME NEW i \in 1..n, i - 1 \in P PROVE i \in P
  <2>1. f[i] = IF g = 0 THEN OffStop(f[i - 1], a, prevs, i) ELSE f[i - 1]
    <3> HIDE DEF n
    <3> QED
      BY <1>1, <1>3 DEF Of!Steps, OffIn
  <2>2. SeenAt(conf, n0, f[i - 1], H(i - 1), cn, C) /\ i \in 0..n
    BY <1>5
  <2>3. CASE g = 0
    <3>1. SeenAt(conf, n0, f[i - 1], IntoFirst(h, a, g, i - 1), cn, C)
      BY <2>2, <2>3
    <3>2. SeenAt(conf, n0, OffStop(f[i - 1], a, prevs, i), IntoFirst(h, a, g, i), cn, C)
      BY <2>3, <3>1, StopOff
    <3> HIDE DEF n
    <3> QED
      BY <2>1, <2>2, <2>3, <3>2
  <2>4. CASE g # 0
    BY <2>1, <2>2, <2>4
  <2> QED
    BY <2>3, <2>4
<1>6. \A i \in 0..n : i \in P
  <2> HIDE DEF P, n
  <2> QED
    BY <1>1, <1>4, <1>5, Of!BoundedInduction
<1>7. n \in P
  BY <1>1, <1>6
<1> QED
  BY <1>2, <1>3, <1>7

\* Every hub above a stop that was selected carries the group.
LEMMA GroupCarried ==
  ASSUME NEW h, NEW a, NEW g, NEW C, Selecting(h, a, g, C), g # 0,
         NEW p, PlanAt(h, p, a, g, Len(a.stops)), NEW i \in 1..Len(a.stops)
  PROVE  \A x \in AllOf(Above[a.stops[i]]) : Afterwards(C, p)[x][g] = 1
<1> DEFINE s == a.stops[i]
           n == Len(a.stops)
           b == a.bank
           D == Afterwards(C, p)
<1>1. s \in Stops /\ b \in Banks /\ g \in Gids \ {0} /\ g # Scratch
  BY DEF Selecting, Typed
<1> SUFFICES ASSUME NEW x \in AllOf(Above[s]) PROVE D[x][g] = 1
  OBVIOUS
<1>2. x \in Path(s) /\ x \in Hubs
  BY <1>1, PathFacts
<1>3. x \in AllOf(p.order) => D[x][g] = 1
  <2> SUFFICES ASSUME x \in AllOf(p.order) PROVE D[x][g] = 1
    OBVIOUS
  <2>1. D[x] = HubRow(p.want[x], p.num[x])
        /\ HubMeant(h, x, p.h.count[x], p.want[x], p.num[x], g)
    BY <1>2, PlannedRow
  <2>2. p.want[x][g] = 1
    BY <1>1, <2>1 DEF HubMeant
  <2>3. HubRow(p.want[x], p.num[x])[g] = p.want[x][g]
    BY <1>1 DEF HubRow
  <2> QED
    BY <2>1, <2>2, <2>3
<1>4. CASE x \notin AllOf(p.order)
  <2>1. D[x] = C[x]
    BY <1>2, <1>4, PlannedRow
  <2>2. i \notin Changing(h, a, g, n)
    BY <1>2, <1>4 DEF PlanAt
  <2>3. h.bank[s][b] = g
    BY <2>2 DEF Changing
  <2>4. h.bank[s][b] \notin {0, None} /\ Sound(h.bank, h.count, C)
    BY <1>1, <2>3, GidFacts DEF Selecting
  <2> DEFINE hb == h.bank
  <2> HIDE DEF hb, s, b
  <2>5. C[x][hb[s][b]] = 1
    BY <1>1, <1>2, <2>4, CarriesBelow DEF hb
  <2> QED
    BY <2>1, <2>3, <2>5 DEF hb
<1> QED
  BY <1>3, <1>4

LEMMA StopOn ==
  ASSUME NEW conf, ~conf.network, NEW n0, NEW h, NEW a, NEW g, NEW C, Selecting(h, a, g, C), g # 0,
         NEW i \in 1..Len(a.stops), NEW v, NEW cn, NEW D,
         \A x \in AllOf(Above[a.stops[i]]) : D[x][g] = 1,
         SeenAt(conf, n0, v, IntoFirst(h, a, g, i - 1), cn, D)
  PROVE  SeenAt(conf, n0, OnStop(v, a, i), IntoFirst(h, a, g, i), cn, D)
<1> DEFINE s == a.stops[i]
           b == a.bank
           hi == IntoFirst(h, a, g, i - 1)
           put == Assign(v, g, s, b, 0, a.mode)
           bk2(bk) == [bk EXCEPT ![s][b] = g]
<1>1. PICK bk : Seen(conf, n0, v, hi, cn, bk, D) /\ Agreed(hi, bk)
  BY DEF SeenAt
<1>2. /\ Moved(hi, s, b, g) = IntoFirst(h, a, g, i)
      /\ s \in Stops /\ b \in Banks /\ g \in Gids
  BY OneMoved
<1>3. a.gids[i] = g
  BY DEF Selecting
<1>4. bk2(bk)[s][b] = g
  BY <1>1, <1>2 DEF Agreed
<1>5. v.te = conf
  BY <1>1 DEF Seen
<1>6. OnStop(v, a, i) = IF v.te.auto /\ ~v.te.network THEN SetOe(put, s, b, g, 1) ELSE put
  BY <1>3 DEF OnStop
<1> HIDE DEF s, b, hi
<1>7. Seen(conf, n0, Assign(v, g, s, b, 0, a.mode), Moved(hi, s, b, g), cn, [bk EXCEPT ![s][b] = g], D)
  BY <1>1, AssignSeen
<1>8. Agreed(Moved(hi, s, b, g), [bk EXCEPT ![s][b] = g])
  BY <1>1, <1>2, AgreedMoves
<1> HIDE DEF put, bk2
<1>9. Seen(conf, n0, put, Moved(hi, s, b, g), cn, bk2(bk), D) /\ Agreed(Moved(hi, s, b, g), bk2(bk))
  BY <1>7, <1>8 DEF put, bk2
<1>10. Seen(conf, n0, SetOe(put, s, b, g, 1), Moved(hi, s, b, g), cn, bk2(bk), D)
  <2>1. g # 0 => bk2(bk)[s][b] = g /\ \A x \in AllOf(Above[s]) : D[x][g] = 1
    BY <1>4 DEF s
  <2> QED
    BY <1>2, <1>9, <2>1, OutputSeen
<1> QED
  BY <1>2, <1>6, <1>9, <1>10 DEF SeenAt

LEMMA StopsOn ==
  ASSUME NEW conf, ~conf.network, NEW n0, NEW h, NEW a, NEW g, NEW C, Selecting(h, a, g, C),
         NEW w, NEW cn, NEW D,
         g # 0 => \A i \in 1..Len(a.stops) : \A x \in AllOf(Above[a.stops[i]]) : D[x][g] = 1,
         SeenAt(conf, n0, w, IF g = 0 THEN IntoFirst(h, a, g, Len(a.stops)) ELSE h.bank, cn, D)
  PROVE  SeenAt(conf, n0, SwitchOn(w, a), IntoFirst(h, a, g, Len(a.stops)), cn, D)
<1> DEFINE n == Len(a.stops)
           is == [i \in 1..n |-> i]
           H(i) == IF g # 0 THEN IntoFirst(h, a, g, i) ELSE IntoFirst(h, a, g, n)
<1>1. n \in Nat /\ DOMAIN is = 1..n /\ \A i \in 1..n : is[i] = i /\ a.gids[i] = g
  BY DEF Selecting, Typed
<1>2. SwitchOn(w, a) = On!Fold(a, a, w, is)
  BY DEF SwitchOn, OnIn, FoldLeft, MapThenFoldSet, Max, On!Fold, On!Top
<1> HIDE DEF is
<1>3. PICK f : On!Steps(f, a, a, w, is, n) /\ On!Fold(a, a, w, is) = f[n]
  BY <1>1, On!FoldSteps
<1> DEFINE P == {i \in 0..n : SeenAt(conf, n0, f[i], H(i), cn, D)}
<1>4. 0 \in P
  <2>1. f[0] = w /\ 0 \in 0..n
    BY <1>1, <1>3 DEF On!Steps
  <2>2. IntoFirst(h, a, g, 0) = h.bank
    BY NoneMoved
  <2>3. SeenAt(conf, n0, w, H(0), cn, D)
    BY <2>2
  <2> HIDE DEF n, H
  <2> QED
    BY <2>1, <2>3
<1>5. ASSUME NEW i \in 1..n, i - 1 \in P PROVE i \in P
  <2>1. f[i] = IF g = 0 THEN f[i - 1] ELSE OnStop(f[i - 1], a, i)
    <3> HIDE DEF n
    <3> QED
      BY <1>1, <1>3 DEF On!Steps, OnIn
  <2>2. SeenAt(conf, n0, f[i - 1], H(i - 1), cn, D) /\ i \in 0..n
    BY <1>5
  <2>3. CASE g # 0
    <3>1. SeenAt(conf, n0, f[i - 1], IntoFirst(h, a, g, i - 1), cn, D)
      BY <2>2, <2>3
    <3>2. \A x \in AllOf(Above[a.stops[i]]) : D[x][g] = 1
      BY <2>3
    <3>3. SeenAt(conf, n0, OnStop(f[i - 1], a, i), IntoFirst(h, a, g, i), cn, D)
      BY <2>3, <3>1, <3>2, StopOn
    <3> HIDE DEF n
    <3> QED
      BY <2>1, <2>2, <2>3, <3>3
  <2>4. CASE g = 0
    BY <2>1, <2>2, <2>4
  <2> QED
    BY <2>3, <2>4
<1>6. \A i \in 0..n : i \in P
  <2> HIDE DEF P, n
  <2> QED
    BY <1>1, <1>4, <1>5, On!BoundedInduction
<1>7. n \in P
  BY <1>1, <1>6
<1>8. SeenAt(conf, n0, f[n], IntoFirst(h, a, g, n), cn, D)
  BY <1>7
<1> QED
  BY <1>2, <1>3, <1>8

\* The history is sound, the network agrees with it, and no write has missed.
SeenSound(conf, n0, v) == \E hb, cn, C : SeenAt(conf, n0, v, hb, cn, C) /\ Sound(hb, cn, C)

LEMMA SelectSeen ==
  ASSUME NEW conf, ~conf.network, NEW n0, NEW w, NEW a, NEW g, NEW C, Selecting(w.h, a, g, C),
         SeenAt(conf, n0, w, w.h.bank, w.h.count, C)
  PROVE  SeenSound(conf, n0, Select(w, a))
<1> DEFINE h == w.h
           n == Len(a.stops)
           prevs == [i \in 1..n |-> PrevGid(h, a, i)]
           p == PlanHubs(h, a, prevs)
           ready == [w EXCEPT !.h = p.h]
           off == SwitchOff(ready, a, prevs)
           told == FoldLeft(LAMBDA v, hub : ProgramHub(v, hub, p.want[hub], p.num[hub]), off, p.order)
           Hoff == IF g = 0 THEN IntoFirst(h, a, g, n) ELSE h.bank
           D == Afterwards(C, p)
<1>1. w.te = conf
  BY DEF SeenAt, Seen
<1>2. Select(w, a) = SwitchOn(told, a)
  BY <1>1 DEF Select
<1>3. PrevsOf(h, a, prevs)
  BY DEF PrevsOf
<1> HIDE DEF prevs, h, n
<1>4. PlanAt(h, p, a, g, n)
  BY <1>3, PlanMade DEF PrevsOf, h, n
<1> HIDE DEF p
<1>5. /\ DOMAIN p.h = BookParts /\ p.h.value = h.value /\ p.h.bank = h.bank
      /\ p.order \in Seq(Hubs)
      /\ \A x \in AllOf(p.order) : HubMeant(h, x, p.h.count[x], p.want[x], p.num[x], g)
  BY <1>4 DEF PlanAt, PlanOk
<1>6. SeenAt(conf, n0, ready, h.bank, p.h.count, C)
  <2> DEFINE h2 == p.h
  <2>1. PICK bk : Seen(conf, n0, w, h.bank, h.count, bk, C) /\ Agreed(h.bank, bk)
    BY DEF SeenAt, h
  <2>2. DOMAIN h2 = BookParts /\ h2.value = w.h.value
    BY <1>5 DEF h
  <2> HIDE DEF h2
  <2>3. Seen(conf, n0, [w EXCEPT !.h = h2], h2.bank, h2.count, bk, C)
    BY <2>1, <2>2, SeenBook
  <2> QED
    BY <1>5, <2>1, <2>3 DEF h2, SeenAt
<1> HIDE DEF ready
<1>7. SeenAt(conf, n0, off, Hoff, p.h.count, C)
  BY <1>3, <1>6, StopsOff DEF h, n
<1> HIDE DEF off
<1>8. told = Pg!Fold(p.want, p.num, off, p.order)
  BY DEF ProgramIn, FoldLeft, MapThenFoldSet, Max, Pg!Fold, Pg!Top
<1> HIDE DEF told
<1>9. SeenAt(conf, n0, told, Hoff, p.h.count, D)
  <2>1. PICK bk : Seen(conf, n0, off, Hoff, p.h.count, bk, C) /\ Agreed(Hoff, bk)
    BY <1>7 DEF SeenAt
  <2>2. Agreed(IF g = 0 THEN Into(h.bank, First(a, n), a.bank, g) ELSE h.bank, bk)
    BY <2>1 DEF IntoFirst
  <2>3. Reached(C, p.order, p.want, p.num, bk)
    BY <1>4, <2>2, PlanReaches DEF h, n
  <2>4. \A i \in 1..Len(p.order) : \A k \in Gids \ {0} : p.want[p.order[i]][k] # None
    BY <1>5 DEF AllOf, HubMeant, None
  <2> DEFINE o == p.order
             want == p.want
             num == p.num
             cn == p.h.count
  <2> HIDE DEF Hoff, o, want, num, cn
  <2>5. Seen(conf, n0, Pg!Fold(want, num, off, o), Hoff, cn, bk, Reprogrammed(C, o, Len(o), want, num))
    BY <1>5, <2>1, <2>3, <2>4, HubsSeen DEF o, want, num, cn
  <2>6. Seen(conf, n0, told, Hoff, cn, bk, D)
    BY <1>8, <2>5 DEF Afterwards, o, want, num
  <2> QED
    BY <2>1, <2>6 DEF SeenAt, cn
<1>10. g # 0 => \A i \in 1..Len(a.stops) : \A x \in AllOf(Above[a.stops[i]]) : D[x][g] = 1
  BY <1>4, GroupCarried DEF h, n
<1> HIDE DEF D
<1>11. SeenAt(conf, n0, SwitchOn(told, a), IntoFirst(h, a, g, n), p.h.count, D)
  BY <1>9, <1>10, StopsOn DEF h, n
<1>12. Sound(IntoFirst(h, a, g, n), p.h.count, D)
  BY <1>4, PlanSound DEF IntoFirst, D, h, n
<1> QED
  BY <1>2, <1>11, <1>12 DEF SeenSound

\* A selection that is verified names a group of its own.
LEMMA SelectsOne ==
  ASSUME NEW h, DOMAIN h = BookParts, NEW a, Typed(a), a.op = "select", SelectOk(h, a),
         BottomUp(a), OneGroup(a), NEW C, Sound(h.bank, h.count, C),
         \A x \in Hubs : \A k \in Gids \ {0} : Saved(h, x, k) = C[x][k]
  PROVE  \E g : Selecting(h, a, g, C)
<1> DEFINE n == Len(a.stops)
<1>1. a.stops \in Seq(Stops) /\ a.gids \in Seq(Gids) /\ n \in Nat /\ Len(a.gids) = n
  BY DEF Typed, SelectOk
<1>2. CASE n = 0
  <2>1. 0 \in Gids /\ 0 # Scratch
    BY GidFacts DEF Scratch
  <2>2. Selecting(h, a, 0, C)
    BY <1>2, <2>1 DEF Selecting
  <2> QED
    BY <2>2
<1>3. CASE n # 0
  <2> DEFINE g == a.gids[1]
  <2>1. 1 \in 1..n
    BY <1>1, <1>3
  <2>2. g \in Gids /\ g # Scratch /\ \A i \in 1..n : a.gids[i] = g
    BY <1>1, <2>1 DEF OneGroup
  <2> HIDE DEF g
  <2>3. Selecting(h, a, g, C)
    BY <2>2 DEF Selecting
  <2> QED
    BY <2>3
<1> QED
  BY <1>2, <1>3
-----------------------------------------------------------------------------
(***************************************************************************)
(* The other ops, which move no stop: they reach those that are in the     *)
(* group that the history has them in.                                     *)
(***************************************************************************)
Heard(conf, gr, hb, bk, C) ==
    /\ hb \in Books
    /\ \A s \in Stops : \A b \in Banks :
          hb[s][b] \notin {0, None} => HearsIn(conf, gr, bk, C, s, hb[s][b])

LEMMA SeenOp ==
  ASSUME NEW conf, NEW n0, NEW w, NEW hb, NEW cn, NEW bk, NEW C, Seen(conf, n0, w, hb, cn, bk, C),
         NEW op, op.op \notin {"select", "write_read"}
  PROVE  Seen(conf, n0, Emit(w, op), hb, cn, bk, C)
<1>1. Seen(conf, n0, Emit(w, op), hb, cn,
           IF op.op = "select" THEN [bk EXCEPT ![op.stop][op.bank] = op.gid] ELSE bk, C)
  BY SeenEmit
<1> QED
  BY <1>1

LEMMA NullsSeen ==
  ASSUME NEW conf, NEW n0, NEW w, NEW hb, NEW cn, NEW bk, NEW C, Seen(conf, n0, w, hb, cn, bk, C),
         NEW num
  PROVE  Seen(conf, n0, Nulls(w, num), hb, cn, bk, C)
<1> DEFINE op == NopOp(0, num)
<1>1. op.op \notin {"select", "write_read"}
  BY DEF NopOp
<1> HIDE DEF op
<1>2. Seen(conf, n0, Emit(w, op), hb, cn, bk, C)
  BY <1>1, SeenOp
<1> QED
  BY <1>2 DEF Nulls, op

LEMMA PacketsSeen ==
  ASSUME NEW conf, NEW n0, NEW w, NEW hb, NEW cn, NEW bk, NEW C, Seen(conf, n0, w, hb, cn, bk, C),
         NEW a
  PROVE  Seen(conf, n0, Packets(w, a), hb, cn, bk, C)
<1> DEFINE n == MaxGid + 1
           groups == AllOf(GroupsOf(w.h, a))
           is == [i \in 1..MaxGid + 1 |-> i - 1]
<1>1. n \in Nat /\ DOMAIN is = 1..n
  BY GidFacts
<1>2. Packets(w, a) = Pk!Fold(a, groups, w, is)
  BY DEF Packets, PacketIn, FoldLeft, MapThenFoldSet, Max, Pk!Fold, Pk!Top
<1> HIDE DEF is, groups
<1>3. PICK f : Pk!Steps(f, a, groups, w, is, n) /\ Pk!Fold(a, groups, w, is) = f[n]
  BY <1>1, Pk!FoldSteps
<1> DEFINE P == {i \in 0..n : Seen(conf, n0, f[i], hb, cn, bk, C)}
<1>4. 0 \in P
  <2>1. f[0] = w /\ 0 \in 0..n
    BY <1>1, <1>3 DEF Pk!Steps
  <2> HIDE DEF n
  <2> QED
    BY <2>1
<1>5. ASSUME NEW i \in 1..n, i - 1 \in P PROVE i \in P
  <2> DEFINE op == PacketOp(a, is[i])
  <2>1. f[i] = IF is[i] \in groups THEN Emit(f[i - 1], op) ELSE f[i - 1]
    <3> HIDE DEF n
    <3> QED
      BY <1>3 DEF Pk!Steps, PacketIn
  <2>2. Seen(conf, n0, f[i - 1], hb, cn, bk, C) /\ i \in 0..n
    BY <1>5
  <2>3. op.op \notin {"select", "write_read"}
    BY DEF PacketOp, NopOp
  <2> HIDE DEF op
  <2>4. Seen(conf, n0, Emit(f[i - 1], op), hb, cn, bk, C)
    BY <2>2, <2>3, SeenOp
  <2> HIDE DEF n
  <2> QED
    BY <2>1, <2>2, <2>4
<1>6. \A i \in 0..n : i \in P
  <2> HIDE DEF P, n
  <2> QED
    BY <1>1, <1>4, <1>5, Pk!BoundedInduction
<1>7. n \in P
  BY <1>1, <1>6
<1> QED
  BY <1>2, <1>3, <1>7

LEMMA UsropsSeen ==
  ASSUME NEW conf, NEW n0, NEW w, NEW hb, NEW cn, NEW bk, NEW C, Seen(conf, n0, w, hb, cn, bk, C),
         NEW a
  PROVE  Seen(conf, n0, MapUsrop(w, a), hb, cn, bk, C)
<1> DEFINE addrs == Addresses(a)
           used == [i \in 1..Len(addrs) |-> UsropAt(a, i)]
           map == [u \in AllOf(used) |-> addrs[CHOOSE i \in 1..Len(addrs) : used[i] = u]]
           seq == [s \in Stops |-> IF s \in AllOf(a.stops) THEN used ELSE w.h.seq[s]]
           usrops == [s \in Stops |-> IF s \in AllOf(a.stops)
                        THEN [u \in 1..NumUsrops |-> IF u \in DOMAIN map THEN map[u]
                                                     ELSE w.h.usrops[s][u]]
                        ELSE w.h.usrops[s]]
           h2 == [w.h EXCEPT !.seq = seq, !.usrops = usrops]
           w2 == [w EXCEPT !.h = h2]
           op == [op |-> "map_usrop", stops |-> a.stops, gids |-> GroupsOf(w.h, a), map |-> map]
<1>1. MapUsrop(w, a) = Emit(w2, op)
  BY DEF MapUsrop
<1>2. op.op \notin {"select", "write_read"}
  OBVIOUS
<1> HIDE DEF op, seq, usrops
<1>3. DOMAIN h2 = BookParts /\ h2.bank = hb /\ h2.count = cn /\ h2.value = w.h.value
  BY DEF Seen, BookParts
<1> HIDE DEF h2
<1>4. Seen(conf, n0, [w EXCEPT !.h = h2], h2.bank, h2.count, bk, C)
  BY <1>3, SeenBook
<1>5. Seen(conf, n0, w2, hb, cn, bk, C)
  BY <1>3, <1>4
<1> HIDE DEF w2
<1>6. Seen(conf, n0, Emit(w2, op), hb, cn, bk, C)
  BY <1>2, <1>5, SeenOp
<1> QED
  BY <1>1, <1>6

\* The groups that a write names are groups in which the history has its stops.
LEMMA NamedGroups ==
  ASSUME NEW h, NEW a, GroupsOk(h, a), a.stops \in Seq(Stops), a.gids \in Seq(Gids)
  PROVE  LET gids == GroupsOf(h, a)
         IN  \A i \in 1..Len(a.stops) :
                gids[i] \in Gids /\ \E b \in Banks : gids[i] = h.bank[a.stops[i]][b]
<1> DEFINE gids == GroupsOf(h, a)
           n == Len(a.stops)
<1>1. /\ Len(gids) = n /\ a.stops # <<>>
      /\ \A i \in 1..n : gids[i] \in BankGids(h, a.stops[i])
  BY DEF GroupsOk, Match
<1>2. \A i \in 1..n : \E b \in Banks : gids[i] = h.bank[a.stops[i]][b]
  BY <1>1 DEF BankGids
<1>3. CASE a.gids # <<>>
  BY <1>1, <1>2, <1>3 DEF GroupsOf
<1>4. CASE a.gids = <<>>
  <2> DEFINE common == CommonGids(h, a.stops)
             least == CHOOSE g \in common : \A k \in common : g <= k
  <2>1. gids = CommonGid(h, a.stops)
    BY <1>4 DEF GroupsOf
  <2>2. n \in Nat /\ n # 0
    BY <1>1
  <2>3. gids # <<>>
    BY <1>1, <2>2
  <2>4. common # {} /\ gids = AllIn(least, a.stops)
    BY <2>1, <2>3 DEF CommonGid
  <2>5. common \subseteq Gids
    BY DEF CommonGids
  <2> HIDE DEF common
  <2>6. \E m \in common : \A k \in common : m <= k
    BY <2>4, <2>5, GidFacts, Ro!LeastOf
  <2>7. least \in Gids
    BY <2>5, <2>6
  <2> HIDE DEF least
  <2> QED
    BY <1>2, <2>4, <2>7 DEF AllIn
<1> QED
  BY <1>2, <1>3, <1>4

\* What is remembered of the registers changes, but not of their hubs' members.
LEMMA FillSeen ==
  ASSUME NEW conf, NEW n0, NEW w, NEW hb, NEW cn, NEW bk, NEW C, Seen(conf, n0, w, hb, cn, bk, C),
         NEW stops, NEW fill, ~Programs(fill)
  PROVE  Seen(conf, n0, [w EXCEPT !.h = Remember(w.h, stops, fill)], hb, cn, bk, C)
<1> DEFINE value1 == [s \in Stops |-> IF s \in AllOf(stops) THEN Atop(fill, w.h.value[s]) ELSE w.h.value[s]]
           h2 == [w.h EXCEPT !.value = value1]
           w2 == [w EXCEPT !.h = h2]
<1>1. Remember(w.h, stops, fill) = h2
  BY DEF Remember
<1>2. DOMAIN value1 = Stops
      /\ \A s \in Stops : value1[s] = IF s \in AllOf(stops) THEN Atop(fill, w.h.value[s]) ELSE w.h.value[s]
  OBVIOUS
<1> HIDE DEF value1
<1>3. /\ DOMAIN h2 = BookParts /\ h2.bank = hb /\ h2.count = cn /\ h2.value = value1
  BY DEF Seen, BookParts
<1> HIDE DEF h2
<1>4. DOMAIN w2 = WorkParts /\ w2.te = conf /\ w2.h = h2 /\ w2.ops = w.ops
  BY DEF Seen, WorkParts
<1> HIDE DEF w2
<1>5. ASSUME NEW net, Carried(w.h, net, C) PROVE Carried(h2, net, C)
  <2>1. ASSUME NEW x \in Hubs, NEW g \in Gids \ {0}
        PROVE  Member(g) \in DOMAIN value1[x] /\ value1[x][Member(g)] = w.h.value[x][Member(g)]
    <3>1. Member(g) \in DOMAIN w.h.value[x] /\ x \in Stops
      BY <1>5, NetworkAssumption DEF Carried
    <3>2. Member(g) \notin DOMAIN fill
      BY DEF Programs
    <3> DEFINE old == w.h.value[x]
    <3> HIDE DEF old
    <3>3. Member(g) \in DOMAIN old => Member(g) \in DOMAIN Atop(fill, old)
                                      /\ Atop(fill, old)[Member(g)] = old[Member(g)]
      BY <3>2 DEF Atop
    <3> QED
      BY <1>2, <3>1, <3>3 DEF old
  <2> QED
    BY <1>2, <1>3, <1>5, <2>1 DEF Carried, Saved
<1>6. Seen(conf, n0, w2, hb, cn, bk, C)
  BY <1>3, <1>4, <1>5 DEF Seen
<1> QED
  BY <1>1, <1>6 DEF w2

LEMMA WriteReadSeen ==
  ASSUME NEW conf, NEW n0, NEW w, NEW hb, NEW cn, NEW bk, NEW C, Seen(conf, n0, w, hb, cn, bk, C),
         Heard(conf, n0.grouping, hb, bk, C),
         NEW a, GroupsOk(w.h, a), a.stops \in Seq(Stops), a.gids \in Seq(Gids),
         DOMAIN a.data \subseteq {User(f) : f \in Fields} \cup {Part(f) : f \in Fields}
  PROVE  Seen(conf, n0, WriteRead(w, a), hb, cn, bk, C)
<1> DEFINE given == IF a.read THEN <<>> ELSE a.data
           gids == GroupsOf(w.h, a)
           fill == Filled(w.h, a)
           w2 == [w EXCEPT !.h = Remember(w.h, a.stops, fill)]
           all == Atop(given, fill)
<1>1. WriteRead(w, a) = IF a.incremental THEN WriteFields(w, a.stops, gids, all, a.read)
                        ELSE WriteFields(w2, a.stops, gids, given, a.read)
  BY DEF WriteRead
<1>2. ~Programs(given) /\ ~Programs(fill) /\ ~Programs(all)
  <2>1. DOMAIN given \subseteq {User(f) : f \in Fields} \cup {Part(f) : f \in Fields}
    BY DEF given
  <2>2. DOMAIN fill \subseteq {User(f) : f \in Fields}
    BY DEF Filled, Unnamed
  <2> HIDE DEF given, fill
  <2>3. DOMAIN all = DOMAIN given \cup DOMAIN fill
    BY DEF Atop
  <2>4. \A g \in Gids \ {0} : Member(g) \notin {User(f) : f \in Fields} \cup {Part(f) : f \in Fields}
    BY DEF Member, User, Part
  <2> QED
    BY <2>1, <2>2, <2>3, <2>4 DEF Programs
<1>3. \A i \in 1..Len(a.stops) :
         gids[i] \in Gids /\ \E b \in Banks : gids[i] = w.h.bank[a.stops[i]][b]
  BY NamedGroups
<1>4. w.h.bank = hb
  BY DEF Seen
<1>5. \A i \in 1..Len(a.stops) :
         gids[i] # 0 => HearsIn(conf, n0.grouping, bk, C, a.stops[i], gids[i])
  BY <1>3, <1>4, GidFacts DEF Heard
<1> HIDE DEF given, gids, fill, all
<1>6. Seen(conf, n0, w2, hb, cn, bk, C)
  BY <1>2, FillSeen
<1> HIDE DEF w2
<1>7. \A i \in 1..Len(a.stops) : gids[i] \in Gids
  BY <1>3
<1>8. Seen(conf, n0, WriteFields(w, a.stops, gids, all, a.read), hb, cn, bk, C)
  BY <1>2, <1>5, <1>7, SeenPlain
<1>9. Seen(conf, n0, WriteFields(w2, a.stops, gids, given, a.read), hb, cn, bk, C)
  BY <1>2, <1>5, <1>6, <1>7, SeenPlain
<1> QED
  BY <1>1, <1>8, <1>9

\* An action that selects nothing.
LEMMA PlainSeen ==
  ASSUME NEW conf, NEW n0, NEW w, NEW hb, NEW cn, NEW bk, NEW C, Seen(conf, n0, w, hb, cn, bk, C),
         Heard(conf, n0.grouping, hb, bk, C),
         NEW a, OpOk(w.h, a), a.stops \in Seq(Stops), a.gids \in Seq(Gids),
         a.op \in StfOps, a.op # "select",
         a.op = "write_read" =>
            DOMAIN a.data \subseteq {User(f) : f \in Fields} \cup {Part(f) : f \in Fields}
  PROVE  Seen(conf, n0, OpOf(w, a), hb, cn, bk, C)
<1>1. CASE a.op = "null"
  BY <1>1, NullsSeen DEF OpOf
<1>2. CASE a.op \in {"nop", "replace"}
  BY <1>2, PacketsSeen DEF OpOf
<1>3. CASE a.op = "map_usrop"
  BY <1>3, UsropsSeen DEF OpOf
<1>4. CASE a.op = "write_read"
  <2>1. GroupsOk(w.h, a)
    BY <1>4 DEF OpOk
  <2>2. Seen(conf, n0, WriteRead(w, a), hb, cn, bk, C)
    BY <1>4, <2>1, WriteReadSeen
  <2> QED
    BY <1>4, <2>2 DEF OpOf
<1> QED
  BY <1>1, <1>2, <1>3, <1>4 DEF StfOps
-----------------------------------------------------------------------------
(***************************************************************************)
(* An action, where it programs the network.                               *)
(***************************************************************************)
LEMMA BegunSeen ==
  ASSUME NEW conf, NEW h, DOMAIN h = BookParts, NEW net, DOMAIN net = NetParts, net.lost = FALSE,
         NEW C, ~conf.network => Carried(h, net, C)
  PROVE  Seen(conf, net, Begun(conf, h), h.bank, h.count, net.bank, C)
<1> DEFINE w == Begun(conf, h)
           tr == [i \in {0} |-> net]
<1>1. w.ops = <<>> /\ w.te = conf /\ w.h = h /\ DOMAIN w = WorkParts
  BY DEF Begun, WorkParts
<1> HIDE DEF w
<1>2. <<>> \in Seq({}) /\ Len(<<>>) = 0
  OBVIOUS
<1>3. tr[0] = net /\ \A i \in 1..0 : tr[i] = OnNetwork(conf, tr[i - 1], (<<>>)[i])
  OBVIOUS
<1> HIDE DEF tr
<1>4. NetRun(conf, net, <<>>, net)
  BY <1>2, <1>3 DEF NetRun
<1>5. conf.network => \A i \in 1..Len(w.ops) : w.ops[i].op # "select"
  BY <1>1, <1>2
<1>6. NetRun(conf, net, w.ops, net)
  BY <1>1, <1>4
<1>7. ~conf.network => Carried(w.h, net, C)
  BY <1>1
<1>8. DOMAIN w.h = BookParts /\ w.h.bank = h.bank /\ w.h.count = h.count
  BY <1>1
<1>9. Seen(conf, net, w, h.bank, h.count, net.bank, C)
  BY <1>1, <1>5, <1>6, <1>7, <1>8 DEF Seen
<1> QED
  BY <1>9 DEF w

LEMMA OwnHeard ==
  ASSUME NEW conf, ~conf.network, NEW gr, NEW hb, NEW cn, NEW bk, NEW C,
         Agreed(hb, bk), Sound(hb, cn, C)
  PROVE  Heard(conf, gr, hb, bk, C)
<1> SUFFICES ASSUME NEW s \in Stops, NEW b \in Banks, hb[s][b] \notin {0, None}
             PROVE  HearsIn(conf, gr, bk, C, s, hb[s][b])
  BY DEF Heard, Sound
<1>1. bk[s][b] = hb[s][b]
  BY DEF Agreed
<1>2. \A x \in Path(s) : C[x][hb[s][b]] = 1
  BY CarriesBelow
<1>3. AllOf(Above[s]) \subseteq Path(s)
  BY PathFacts
<1> QED
  BY <1>1, <1>2, <1>3 DEF HearsIn

LEMMA WaitSeen ==
  ASSUME NEW conf, NEW n0, NEW w, NEW num, SeenSound(conf, n0, w)
  PROVE  SeenSound(conf, n0, Waiting(w, num))
<1>1. PICK hb, cn, bk, C : Seen(conf, n0, w, hb, cn, bk, C) /\ Agreed(hb, bk) /\ Sound(hb, cn, C)
  BY DEF SeenSound, SeenAt
<1>2. Seen(conf, n0, Nulls(w, num), hb, cn, bk, C)
  BY <1>1, NullsSeen
<1>3. SeenSound(conf, n0, Nulls(w, num))
  BY <1>1, <1>2 DEF SeenSound, SeenAt
<1> QED
  BY <1>3 DEF Waiting

\* The arguments that an action has.
WellTyped(a) ==
    /\ a.op \in StfOps
    /\ a.stops \in Seq(Stops) /\ a.gids \in Seq(Gids) /\ a.bank \in Banks
    /\ a.op = "write_read" =>
          DOMAIN a.data \subseteq {User(f) : f \in Fields} \cup {Part(f) : f \in Fields}

LEMMA ActionSeen ==
  ASSUME NEW conf, ~conf.network, NEW h, DOMAIN h = BookParts,
         NEW net, DOMAIN net = NetParts, net.lost = FALSE, Agreed(h.bank, net.bank),
         NEW C, Carried(h, net, C), Sound(h.bank, h.count, C),
         NEW a, WellTyped(a), OpOk(h, a), BottomUp(a), OneGroup(a)
  PROVE  SeenSound(conf, net, VerifyStf(conf, h, a))
<1> DEFINE w0 == Begun(conf, h)
           w1 == OpOf(w0, a)
           hb == h.bank
           cn == h.count
           bk == net.bank
<1>1. w0.h = h
  BY DEF Begun
<1>2. VerifyStf(conf, h, a) = Waiting(w1, a.wait)
  BY DEF VerifyStf
<1> HIDE DEF w0
<1>3. Seen(conf, net, w0, hb, cn, bk, C)
  BY BegunSeen DEF w0
<1>4. CASE a.op = "select"
  <2>1. Typed(a) /\ SelectOk(h, a)
    BY <1>4 DEF Typed, WellTyped, OpOk, SelectOk
  <2>2. \A x \in Hubs : \A k \in Gids \ {0} : Saved(h, x, k) = C[x][k]
    BY DEF Carried
  <2>3. PICK g : Selecting(h, a, g, C)
    BY <1>4, <2>1, <2>2, SelectsOne
  <2>4. Selecting(w0.h, a, g, C) /\ SeenAt(conf, net, w0, w0.h.bank, w0.h.count, C)
    BY <1>1, <1>3, <2>3 DEF SeenAt
  <2>5. SeenSound(conf, net, Select(w0, a))
    BY <2>4, SelectSeen
  <2>6. w1 = Select(w0, a)
    BY <1>4 DEF OpOf
  <2> HIDE DEF w1
  <2> QED
    BY <1>2, <2>5, <2>6, WaitSeen
<1>5. CASE a.op # "select"
  <2>1. Heard(conf, net.grouping, hb, bk, C)
    BY OwnHeard
  <2>2. OpOk(w0.h, a)
    BY <1>1
  <2> HIDE DEF hb, cn, bk
  <2>3. Seen(conf, net, w1, hb, cn, bk, C)
    BY <1>3, <1>5, <2>1, <2>2, PlainSeen DEF WellTyped
  <2>4. SeenSound(conf, net, w1)
    BY <2>3 DEF SeenSound, SeenAt, hb, cn, bk
  <2> HIDE DEF w1
  <2> QED
    BY <1>2, <2>4, WaitSeen
<1> QED
  BY <1>4, <1>5

\* Between two actions.
OwnNet(k, d) ==
    /\ DOMAIN k.stf = BookParts /\ DOMAIN d.net = NetParts /\ d.net.lost = FALSE
    /\ Agreed(k.stf.bank, d.net.bank)
    /\ \E C : Carried(k.stf, d.net, C) /\ Sound(k.stf.bank, k.stf.count, C)

\* What a run of the ops makes of knowledge and DUT.
LEMMA StfDone ==
  ASSUME family = "STF", NEW k, NEW d, Shaped(k, d), NEW a, ~Do(k, d, a).bad
  PROVE  LET w == VerifyStf(te, k.stf, a)
             o == RunOps([te |-> te, net |-> d.net, track |-> k.track], w.ops)
             r == Do(k, d, a)
         IN  /\ OpOk(k.stf, a)
             /\ r.know.stf = w.h /\ r.know.track = o.track /\ r.dut.net = o.net
<1> DEFINE h == k.stf
           w == VerifyStf(te, h, a)
           o == RunOps([te |-> te, net |-> d.net, track |-> k.track], w.ops)
           know2 == [k EXCEPT !.stf = w.h, !.track = o.track]
           dut2 == [d EXCEPT !.net = o.net]
           r == Do(k, d, a)
<1>1. r = [bad |-> w.bad, know |-> know2, dut |-> dut2]
  BY StfEffect
<1>2. OpOk(h, a)
  <2>1. w.bad = FALSE
    BY <1>1
  <2>2. Error(Begun(te, h)).bad
    BY DEF Error, Begun
  <2> QED
    BY <2>1, <2>2 DEF VerifyStf
<1> HIDE DEF w, o
<1>3. know2.stf = w.h /\ know2.track = o.track /\ dut2.net = o.net
  BY DEF Shaped, Ignorant, Untouched
<1> HIDE DEF know2, dut2
<1>4. r.know.stf = w.h /\ r.know.track = o.track /\ r.dut.net = o.net
  BY <1>1, <1>3
<1> HIDE DEF r
<1> QED
  BY <1>2, <1>4 DEF w, o, r

LEMMA OwnNetStep ==
  ASSUME family = "STF", ~te.network, NEW k, NEW d, Shaped(k, d), OwnNet(k, d),
         NEW a, WellTyped(a), BottomUp(a), OneGroup(a), ~Do(k, d, a).bad
  PROVE  OwnNet(Do(k, d, a).know, Do(k, d, a).dut)
<1> DEFINE h == k.stf
           net == d.net
           w == VerifyStf(te, h, a)
           o == RunOps([te |-> te, net |-> net, track |-> k.track], w.ops)
           r == Do(k, d, a)
<1>1. OpOk(h, a) /\ r.know.stf = w.h /\ r.dut.net = o.net
  BY StfDone
<1>2. PICK C : Carried(h, net, C) /\ Sound(h.bank, h.count, C)
  BY DEF OwnNet
<1>3. DOMAIN h = BookParts /\ DOMAIN net = NetParts /\ net.lost = FALSE /\ Agreed(h.bank, net.bank)
  BY DEF OwnNet
<1> HIDE DEF h, net
<1>4. SeenSound(te, net, VerifyStf(te, h, a))
  BY <1>1, <1>2, <1>3, ActionSeen
<1> HIDE DEF w
<1>5. PICK hb, cn, bk, D : Seen(te, net, w, hb, cn, bk, D) /\ Agreed(hb, bk) /\ Sound(hb, cn, D)
  BY <1>4 DEF SeenSound, SeenAt, w
<1>6. PICK n2 : /\ NetRun(te, net, w.ops, n2) /\ DOMAIN n2 = NetParts
                /\ n2.bank = bk /\ n2.lost = FALSE /\ Carried(w.h, n2, D)
  BY <1>5 DEF Seen
<1>7. o.net = n2
  <2>1. RunOps([te |-> te, net |-> net, track |-> k.track], w.ops).net = n2
    BY <1>6, RunsAll
  <2> QED
    BY <2>1
<1> HIDE DEF o
<1>8. DOMAIN w.h = BookParts /\ w.h.bank = hb /\ w.h.count = cn
  BY <1>5 DEF Seen
<1> HIDE DEF r
<1> QED
  BY <1>1, <1>5, <1>6, <1>7, <1>8 DEF OwnNet, r
-----------------------------------------------------------------------------
(***************************************************************************)
(* An action, where SPF programs the network: a selection is tracked, op   *)
(* for op, and the last one prints what is tracked then.                   *)
(***************************************************************************)
ToldNet(hb, t, net) ==
    /\ hb \in Books /\ t \in Tracks /\ Follows(hb, t)
    /\ DOMAIN net = NetParts /\ net.lost = FALSE /\ net.grouping = Grouping(t)

LEMMA LastPrints ==
  ASSUME NEW S, NEW ops \in Seq(S), \A i \in 1..Len(ops) : ops[i].op = "select", Len(ops) # 0
  PROVE  Prints(ops, Len(ops))
<1> DEFINE n == Len(ops)
           before == {j \in Selects(ops) : j < n}
<1>1. n \in Nat \ {0}
  OBVIOUS
<1>2. Selects(ops) = 1..n
  BY DEF Selects
<1> HIDE DEF n
<1>3. before = 1..(n - 1)
  BY <1>1, <1>2
<1>4. n - 1 \in Nat
  BY <1>1
<1>5. Cardinality(1..(n - 1)) = n - 1
  <2> DEFINE m == n - 1
             one == 1
  <2>1. m \in Int /\ one \in Int /\ one = 1 /\ m \in Nat
    BY <1>4
  <2> HIDE DEF m, one
  <2>2. Cardinality(one..m) = IF one > m THEN 0 ELSE m - one + 1
    BY <2>1, FS_Interval
  <2>3. Cardinality(one..m) = m
    BY <2>1, <2>2
  <2> QED
    BY <2>1, <2>3 DEF m
<1> QED
  BY <1>3, <1>5 DEF Prints, n

LEMMA TrackedGroups ==
  ASSUME NEW conf, conf.network, NEW a, Typed(a), a.op = "select", a.mode \in Modes,
         NEW w, Taken(w, a, conf, Len(a.stops)), Len(a.stops) # 0,
         NEW hs, \A i \in 0..Len(a.stops) : hs[i] \in Books, Travel(hs, a, Len(a.stops)),
         NEW t, NEW net, ToldNet(hs[0], t, net)
  PROVE  LET o == RunOps([te |-> conf, net |-> net, track |-> t], w.ops)
         IN  ToldNet(hs[Len(a.stops)], o.track, o.net)
<1> DEFINE ops == w.ops
           n == Len(a.stops)
           r0 == [te |-> conf, net |-> net, track |-> t]
           is == [i \in 1..n |-> i]
<1>1. /\ n \in Nat /\ n # 0 /\ a.bank \in Banks /\ a.mode # Reset
      /\ \A i \in 1..n : a.stops[i] \in Stops /\ a.gids[i] \in Gids
  BY DEF Typed, Modes, Reset
<1>2. /\ ops \in Seq({MoveOf(a, j) : j \in 1..n}) /\ Len(ops) = n
      /\ \A i \in 1..n : ops[i] = MoveOf(a, i)
  BY DEF Taken
<1>3. \A i \in 1..n : /\ ops[i] = Noted(a.stops[i], a.gids[i], a.bank, a.mode)
                      /\ ops[i].op = "select" /\ ops[i].mode = a.mode
  <2>1. \A i : /\ MoveOf(a, i) = Noted(a.stops[i], a.gids[i], a.bank, a.mode)
               /\ MoveOf(a, i).op = "select" /\ MoveOf(a, i).mode = a.mode
    BY DEF MoveOf, Noted, SelectOp
  <2> HIDE DEF ops, n
  <2> QED
    BY <1>2, <2>1
<1>4. Prints(ops, n)
  <2>1. \A i \in 1..Len(ops) : ops[i].op = "select"
    BY <1>2, <1>3
  <2> HIDE DEF ops, n
  <2> QED
    BY <1>1, <1>2, <2>1, LastPrints
<1> HIDE DEF ops
<1>5. RunOps(r0, ops) = Ro!Fold(ops, ops, r0, is)
  BY <1>2 DEF RunOps, RunOpIn, FoldLeft, MapThenFoldSet, Max, Ro!Fold, Ro!Top
<1>6. PICK f : Ro!Steps(f, ops, ops, r0, is, n) /\ Ro!Fold(ops, ops, r0, is) = f[n]
  <2>1. DOMAIN is = 1..n
    OBVIOUS
  <2> HIDE DEF is, r0, n
  <2> QED
    BY <1>1, <2>1, Ro!FoldSteps
<1> DEFINE Good(q, i) ==
             /\ DOMAIN q = {"te", "net", "track"} /\ q.te = conf
             /\ q.track \in Tracks /\ Follows(hs[i], q.track)
             /\ DOMAIN q.net = NetParts /\ q.net.lost = FALSE
             /\ i = n => q.net.grouping = Grouping(q.track)
           P == {i \in 0..n : Good(f[i], i)}
<1>7. 0 \in P
  <2>1. f[0] = r0
    BY <1>6 DEF Ro!Steps
  <2>2. r0.te = conf /\ r0.net = net /\ r0.track = t /\ DOMAIN r0 = {"te", "net", "track"}
    OBVIOUS
  <2> HIDE DEF r0
  <2>3. Good(f[0], 0)
    BY <2>1, <2>2 DEF ToldNet
  <2>4. 0 \in 0..n
    BY <1>1
  <2> HIDE DEF n, Good
  <2> QED
    BY <2>3, <2>4
<1>8. ASSUME NEW i \in 1..n, i - 1 \in P PROVE i \in P
  <2> DEFINE q == f[i - 1]
             op == ops[i]
             t2 == Tracked(q.track, op)
             gr2 == IF op.mode = Reset THEN {} ELSE IF Prints(ops, i) THEN Grouping(t2)
                    ELSE q.net.grouping
             net2 == [q.net EXCEPT !.grouping = gr2]
             q2 == [q EXCEPT !.track = t2, !.net = net2]
             s == a.stops[i]
             g == a.gids[i]
             b == a.bank
             hb == hs[i - 1]
  <2>0. i \in 1..n /\ i \in 0..n /\ i - 1 \in 0..n
    BY <1>1
  <2>1. f[i] = RunOp(q, ops, i)
    BY <1>6 DEF Ro!Steps, RunOpIn
  <2>2. Good(q, i - 1)
    BY <1>8
  <2>3. op = Noted(s, g, b, a.mode) /\ op.op = "select" /\ op.mode # Reset
    BY <1>1, <1>3
  <2>4. s \in Stops /\ g \in Gids /\ b \in Banks
    BY <1>1
  <2>5. hs[i] = Moved(hb, s, b, g)
    BY DEF Travel
  <2>6. hb \in Books
    BY <2>0
  <2>7. RunOp(q, ops, i) = q2
    BY <2>2, <2>3 DEF RunOp
  <2> HIDE DEF q, op, s, g, b, hb
  <2>8. t2 \in Tracks /\ Follows(hs[i], t2)
    <3>1. q.track \in Tracks /\ Follows(hb, q.track)
      BY <2>2 DEF hb
    <3> DEFINE tr == q.track
               mode == a.mode
    <3> HIDE DEF tr, mode
    <3>2. tr \in Tracks /\ Follows(hb, tr) /\ mode \in Modes
      BY <3>1 DEF tr, mode
    <3>3. /\ Tracked(tr, Noted(s, g, b, mode)) \in Tracks
          /\ Follows(Moved(hb, s, b, g), Tracked(tr, Noted(s, g, b, mode)))
      BY <2>4, <2>6, <3>2, TrackFollows
    <3> QED
      BY <2>3, <2>5, <3>3 DEF tr, mode
  <2>9. i = n => gr2 = Grouping(t2)
    BY <1>4, <2>3
  <2> HIDE DEF t2, gr2
  <2>10. DOMAIN net2 = NetParts /\ net2.lost = FALSE /\ net2.grouping = gr2
    BY <2>2 DEF NetParts
  <2> HIDE DEF net2
  <2>11. DOMAIN q2 = {"te", "net", "track"} /\ q2.te = conf /\ q2.track = t2 /\ q2.net = net2
    BY <2>2
  <2> HIDE DEF q2
  <2>12. Good(q2, i)
    BY <2>8, <2>9, <2>10, <2>11
  <2> HIDE DEF Good, n
  <2> QED
    BY <2>0, <2>1, <2>7, <2>12
<1>9. \A i \in 0..n : i \in P
  <2> HIDE DEF P, n
  <2> QED
    BY <1>1, <1>7, <1>8, Ro!BoundedInduction
<1>10. n \in P /\ hs[n] \in Books
  BY <1>1, <1>9
<1>11. ToldNet(hs[n], f[n].track, f[n].net)
  BY <1>10 DEF ToldNet
<1> QED
  BY <1>5, <1>6, <1>11 DEF ops

\* Who is in a group by the history is in it by the printed grouping.
LEMMA ToldHeard ==
  ASSUME NEW conf, conf.network, NEW hb, NEW t, NEW net, ToldNet(hb, t, net), NEW bk, NEW C
  PROVE  Heard(conf, net.grouping, hb, bk, C)
<1> SUFFICES ASSUME NEW s \in Stops, NEW b \in Banks, hb[s][b] \notin {0, None}
             PROVE  HearsIn(conf, net.grouping, bk, C, s, hb[s][b])
  BY DEF Heard, ToldNet
<1>1. hb[s][b] \in Gids
  BY DEF ToldNet, Books
<1>2. PICK m \in Modes : s \in t[hb[s][b]][m][b]
  BY DEF ToldNet, Follows
<1> DEFINE x == <<hb[s][b], m, b, s>>
<1>3. x \in Gids \X Modes \X Banks \X Stops
  BY <1>1
<1>4. x[1] = hb[s][b] /\ x[2] = m /\ x[3] = b /\ x[4] = s
  OBVIOUS
<1>5. x \in Grouping(t)
  <2> HIDE DEF x
  <2> QED
    BY <1>2, <1>3, <1>4 DEF Grouping
<1>6. x \in net.grouping
  BY <1>5 DEF ToldNet
<1> QED
  BY <1>6 DEF HearsIn

LEMMA ToldPlain ==
  ASSUME NEW conf, conf.network, NEW h, DOMAIN h = BookParts, NEW t, NEW net, ToldNet(h.bank, t, net),
         NEW a, WellTyped(a), OpOk(h, a), a.op # "select"
  PROVE  \E C : Seen(conf, net, VerifyStf(conf, h, a), h.bank, h.count, net.bank, C)
<1> DEFINE C == [x \in Hubs |-> [g \in Gids \ {0} |-> 0]]
           hb == h.bank
           cn == h.count
           bk == net.bank
           w0 == Begun(conf, h)
           w1 == OpOf(w0, a)
<1>1. w0.h = h
  BY DEF Begun
<1>2. VerifyStf(conf, h, a) = Waiting(w1, a.wait)
  BY DEF VerifyStf
<1> HIDE DEF C
<1>3. Seen(conf, net, w0, hb, cn, bk, C)
  BY BegunSeen DEF ToldNet
<1>4. Heard(conf, net.grouping, hb, bk, C)
  BY ToldHeard
<1>5. OpOk(w0.h, a)
  BY <1>1
<1> HIDE DEF w0, cn, bk, hb
<1>6. Seen(conf, net, w1, hb, cn, bk, C)
  BY <1>3, <1>4, <1>5, PlainSeen DEF WellTyped
<1> HIDE DEF w1
<1>7. Seen(conf, net, Nulls(w1, a.wait), hb, cn, bk, C)
  BY <1>6, NullsSeen
<1>8. Seen(conf, net, Waiting(w1, a.wait), hb, cn, bk, C)
  BY <1>6, <1>7 DEF Waiting
<1> QED
  BY <1>2, <1>8 DEF hb, cn, bk

LEMMA ToldActs ==
  ASSUME NEW conf, conf.network, NEW h, DOMAIN h = BookParts, NEW t, NEW net, ToldNet(h.bank, t, net),
         NEW a, WellTyped(a), OpOk(h, a), a.op = "select" => a.wait = 0 /\ a.mode \in Modes
  PROVE  LET w == VerifyStf(conf, h, a)
             o == RunOps([te |-> conf, net |-> net, track |-> t], w.ops)
         IN  DOMAIN w.h = BookParts /\ ToldNet(w.h.bank, o.track, o.net)
<1> DEFINE w0 == Begun(conf, h)
           w1 == OpOf(w0, a)
           w == VerifyStf(conf, h, a)
           hb == h.bank
           n == Len(a.stops)
<1>1. w0.h = h
  BY DEF Begun
<1>2. w = Waiting(w1, a.wait)
  BY DEF VerifyStf
<1>3. CASE a.op = "select"
  <2>1. Typed(a) /\ SelectOk(h, a) /\ hb \in Books
    BY <1>3 DEF Typed, WellTyped, OpOk, SelectOk, ToldNet
  <2>3. w = Select(w0, a)
    BY <1>2, <1>3 DEF OpOf, Waiting
  <2> HIDE DEF w, w1
  <2>4. PICK hs : /\ hs[0] = hb /\ Travel(hs, a, n) /\ hs[n] = w.h.bank
                  /\ \A i \in 0..n : hs[i] \in Books /\ Taken(w, a, conf, n)
    <3>1. h.bank \in Books
      BY <2>1
    <3> HIDE DEF hb
    <3>2. LET v == Select(Begun(conf, h), a)
          IN  \E hs : /\ hs[0] = h.bank /\ Travel(hs, a, n)
                      /\ hs[n] = v.h.bank
                      /\ \A i \in 0..n : hs[i] \in Books
                      /\ Taken(v, a, conf, n)
      BY <1>3, <2>1, <3>1, SelectTravels
    <3> QED
      BY <2>3, <3>2 DEF hb
  <2>5. n \in Nat /\ 0 \in 0..n
    BY <2>1 DEF Typed
  <2>6. Taken(w, a, conf, n) /\ \A i \in 0..n : hs[i] \in Books
    BY <2>4, <2>5
  <2>7. DOMAIN w.h = BookParts
    BY <2>6 DEF Taken
  <2>8. ToldNet(hs[0], t, net)
    BY <2>4
  <2> DEFINE o == RunOps([te |-> conf, net |-> net, track |-> t], w.ops)
  <2>9. ToldNet(hs[n], o.track, o.net)
    <3>1. CASE n # 0
      BY <1>3, <2>1, <2>4, <2>6, <2>8, <3>1, TrackedGroups
    <3>2. CASE n = 0      \* nothing is selected
      <4>1. /\ w.ops \in Seq({MoveOf(a, j) : j \in 1..Len(a.stops)})
            /\ Len(w.ops) = 0
        BY <2>6, <3>2 DEF Taken
      <4>2. NetRun(conf, net, w.ops, net)
        <5> DEFINE tr == [i \in {0} |-> net]
        <5>1. tr[0] = net
          OBVIOUS
        <5> HIDE DEF tr
        <5>2. net = tr[Len(w.ops)] /\ \A i \in 1..Len(w.ops) : tr[i] = OnNetwork(conf, tr[i - 1], w.ops[i])
          BY <4>1, <5>1
        <5> QED
          BY <4>1, <5>1, <5>2 DEF NetRun
      <4>3. \A i \in 1..Len(w.ops) : w.ops[i].op # "select"
        BY <4>1
      <4>4. o.net = net /\ o.track = t
        BY <4>2, <4>3, RunsAll
      <4> HIDE DEF o
      <4> QED
        BY <2>8, <3>2, <4>4
    <3> QED
      BY <3>1, <3>2
  <2> HIDE DEF o
  <2>10. DOMAIN w.h = BookParts /\ ToldNet(w.h.bank, o.track, o.net)
    BY <2>4, <2>7, <2>9
  <2> QED
    BY <2>10 DEF o, w
<1>4. CASE a.op # "select"
  <2> DEFINE cn == h.count
             bk == net.bank
  <2>6. PICK C : Seen(conf, net, w, hb, cn, bk, C)
    BY <1>4, ToldPlain
  <2> HIDE DEF w, cn, bk
  <2>7. PICK n2 : /\ NetRun(conf, net, w.ops, n2) /\ DOMAIN n2 = NetParts
                  /\ n2.grouping = net.grouping /\ n2.lost = FALSE
    BY <2>6 DEF Seen
  <2>8. conf.network => \A i \in 1..Len(w.ops) : w.ops[i].op # "select"
    BY <2>6 DEF Seen
  <2> DEFINE o == RunOps([te |-> conf, net |-> net, track |-> t], w.ops)
  <2>9. o.net = n2 /\ o.track = t
    BY <2>7, <2>8, RunsAll
  <2> HIDE DEF o
  <2>10. DOMAIN w.h = BookParts /\ w.h.bank = hb
    BY <2>6 DEF Seen
  <2>11. DOMAIN w.h = BookParts /\ ToldNet(w.h.bank, o.track, o.net)
    BY <2>7, <2>9, <2>10 DEF ToldNet
  <2> QED
    BY <2>11 DEF o, w
<1> QED
  BY <1>3, <1>4
-----------------------------------------------------------------------------
(***************************************************************************)
(* While an STF script runs that keeps to what SoundStf asks of it, what   *)
(* is known of the network holds between any two of its actions.           *)
(***************************************************************************)
NetKnown(k, d) ==
    /\ ~te.network => OwnNet(k, d)
    /\ te.network => DOMAIN k.stf = BookParts /\ ToldNet(k.stf.bank, k.track, d.net)
NetInv == Running("STF") /\ resets /\ Every(SoundStf) => NetKnown(know, dut)

LEMMA NothingCarried ==
  LET C == [x \in Hubs |-> [g \in Gids \ {0} |-> 0]]
  IN  Carried(NoHistory, NoNetwork, C) /\ Sound(NoHistory.bank, NoHistory.count, C)
<1> DEFINE C == [x \in Hubs |-> [g \in Gids \ {0} |-> 0]]
           hb == NoHistory.bank
           cn == NoHistory.count
<1>1. /\ hb = [s \in Stops |-> [b \in Banks |-> None]]
      /\ cn = [s \in Hubs |-> [g \in Gids |-> 0]]
      /\ NoHistory.value = [s \in Stops |-> [f \in RegFields |-> None]]
      /\ NoNetwork.value = [s \in Stops |-> [f \in RegFields |->
                              IF f[1] = "user" THEN Default[f[2]] ELSE 0]]
  BY DEF NoHistory, NoNetwork
<1>2. Hubs \subseteq Stops
  BY NetworkAssumption
<1>3. \A g \in Gids \ {0} : Member(g) \in RegFields /\ Member(g)[1] # "user"
  BY DEF RegFields, Member
<1>4. Carried(NoHistory, NoNetwork, C)
  BY <1>1, <1>2, <1>3 DEF Carried, Saved
<1> HIDE DEF hb, cn
<1>5. hb \in Books
  BY <1>1 DEF Books
<1>6. \A s \in Stops : \A b \in Banks : hb[s][b] # Scratch
  BY <1>1, GidFacts
<1>7. cn \in [Hubs -> [Gids -> Int]] /\ \A x \in Hubs : \A k \in Gids : cn[x][k] = 0
  BY <1>1
<1>8. ASSUME NEW x \in Hubs, NEW k \in Gids \ {0} PROVE Cardinality(Below(hb, x, k)) = 0
  <2>1. Below(hb, x, k) = {}
    BY <1>1, GidFacts DEF Below
  <2> QED
    BY <2>1, FS_EmptySet
<1>9. \A x \in Hubs : \A k \in Gids \ {0} : C[x][k] = 0
  OBVIOUS
<1> HIDE DEF C
<1>10. ASSUME NEW x \in Hubs, NEW k \in Gids \ {0}
       PROVE  /\ C[x][k] \in {0, 1}
              /\ cn[x][k] >= Cardinality(Below(hb, x, k))
              /\ k # Scratch /\ cn[x][k] >= 1 => C[x][k] = 1
              /\ k # Scratch /\ C[x][k] = 1 => C[x][Scratch] = 1
  BY <1>7, <1>8, <1>9
<1>11. Sound(hb, cn, C)
  BY <1>5, <1>6, <1>7, <1>10 DEF Sound
<1> QED
  BY <1>4, <1>11 DEF C, hb, cn

LEMMA NothingKnown ==
  ASSUME NEW k, NEW d, k.stf = NoHistory, k.track = NothingTracked, d.net = NoNetwork
  PROVE  NetKnown(k, d)
<1>1. /\ DOMAIN NoHistory = BookParts /\ DOMAIN NoNetwork = NetParts
      /\ Agreed(NoHistory.bank, NoNetwork.bank)
  BY GroupsBegin
<1>2. NoNetwork.lost = FALSE /\ NoNetwork.grouping = {}
  BY DEF NoNetwork
<1>3. OwnNet(k, d)
  BY <1>1, <1>2, NothingCarried DEF OwnNet
<1>4. NothingTracked \in Tracks /\ Grouping(NothingTracked) = {}
  BY DEF NothingTracked, Tracks, Grouping
<1>5. NoHistory.bank \in Books /\ Follows(NoHistory.bank, NothingTracked)
  <2>1. NoHistory.bank = [s \in Stops |-> [b \in Banks |-> None]]
    BY DEF NoHistory
  <2> QED
    BY <2>1 DEF Books, Follows
<1>6. ToldNet(NoHistory.bank, NothingTracked, NoNetwork)
  BY <1>1, <1>2, <1>4, <1>5 DEF ToldNet
<1> QED
  BY <1>1, <1>3, <1>6 DEF NetKnown

LEMMA NetStep ==
  ASSUME family = "STF", family \in DOMAIN Actions, NEW k, NEW d, Shaped(k, d), NetKnown(k, d),
         NEW a \in Actions[family], SoundStf(a), ~Do(k, d, a).bad
  PROVE  NetKnown(Do(k, d, a).know, Do(k, d, a).dut)
<1>1. WellTyped(a) /\ (a.op = "select" => a.mode \in Modes \cup {Reset})
  BY ArgumentAssumption DEF WellTyped
<1>2. CASE ~te.network
  BY <1>1, <1>2, OwnNetStep DEF SoundStf, NetKnown
<1>3. CASE te.network
  <2> DEFINE h == k.stf
             t == k.track
             net == d.net
             w == VerifyStf(te, h, a)
             o == RunOps([te |-> te, net |-> net, track |-> t], w.ops)
             r == Do(k, d, a)
  <2>1. OpOk(h, a) /\ r.know.stf = w.h /\ r.know.track = o.track /\ r.dut.net = o.net
    BY StfDone
  <2>2. a.op = "select" => a.wait = 0 /\ a.mode \in Modes
    BY <1>1, <1>3 DEF SoundStf, Tells
  <2>3. DOMAIN h = BookParts /\ ToldNet(h.bank, t, net)
    BY <1>3 DEF NetKnown
  <2> HIDE DEF h, t, net, r
  <2>4. DOMAIN w.h = BookParts /\ ToldNet(w.h.bank, o.track, o.net)
    BY <1>1, <1>3, <2>1, <2>2, <2>3, ToldActs
  <2> HIDE DEF w, o
  <2> QED
    BY <1>3, <2>1, <2>4 DEF NetKnown, r
<1> QED
  BY <1>2, <1>3

LEMMA StepNet ==
  ASSUME WellFormed, NetInv, [Next]_vars
  PROVE  NetInv'
<1>0. Shaped(know, dut) /\ family \in DOMAIN Actions
  BY DEF WellFormed
<1>1. UNCHANGED <<family, resets, te>>
  BY DEF Next, Verify, BeginRun, Run, Close, vars
<1>2. NetInv' <=> (family = "STF" /\ phase' \in {"run", "done"} /\ resets /\ Every(SoundStf)'
                     => NetKnown(know, dut)')
  BY <1>1 DEF NetInv, Running
<1>3. ASSUME family = "STF", phase' \in {"run", "done"}, resets, Every(SoundStf)'
      PROVE  NetKnown(know, dut)'
  <2>1. ASSUME NEW a \in Actions[family], Verify(a) PROVE FALSE
    BY <1>3, <2>1, VerifyStep
  <2>2. CASE BeginRun
    <3>1. know'.stf = NoHistory /\ know'.track = NothingTracked /\ dut'.net = NoNetwork
      BY <1>3, <2>2 DEF BeginRun, InitialHistory, Ignorant, WellFormed, Untouched
    <3> DEFINE k == know'
               d == dut'
    <3> HIDE DEF k, d
    <3>2. NetKnown(k, d)
      BY <3>1, NothingKnown DEF k, d
    <3> QED
      BY <1>1, <3>2 DEF NetKnown, k, d, OwnNet
  <2>3. CASE Run
    <3> DEFINE a == script[at + 1]
               r == Do(know, dut, a)
    <3>1. phase = "run" /\ a \in Actions[family] /\ ~r.bad /\ know' = r.know /\ dut' = r.dut
      BY <1>3, <2>3, RunStep
    <3>2. script' = script /\ at + 1 \in 1..Len(script)
      BY <2>3 DEF Run, WellFormed
    <3>3. Every(SoundStf)
      BY <1>1, <1>3, <3>2 DEF Every, SoundStf, Tells
    <3>4. SoundStf(a)
      BY <3>2, <3>3 DEF Every
    <3>5. NetKnown(know, dut)
      BY <1>3, <3>1, <3>3 DEF NetInv, Running
    <3>6. NetKnown(r.know, r.dut)
      BY <1>0, <1>3, <3>1, <3>4, <3>5, NetStep
    <3> HIDE DEF r
    <3> QED
      BY <1>1, <3>1, <3>6 DEF NetKnown, OwnNet
  <2>4. CASE Close
    BY <1>3, <2>4 DEF Close
  <2>5. CASE UNCHANGED vars
    <3>1. phase \in {"run", "done"} /\ UNCHANGED <<know, dut, script, te>>
      BY <1>3, <2>5 DEF vars
    <3>2. Every(SoundStf)
      BY <1>3, <3>1 DEF Every, SoundStf, Tells
    <3>3. NetKnown(know, dut)
      BY <1>3, <3>1, <3>2 DEF NetInv, Running
    <3> QED
      BY <3>1, <3>3 DEF NetKnown, OwnNet
  <2> QED
    BY <2>1, <2>2, <2>3, <2>4, <2>5 DEF Next
<1> QED
  BY <1>2, <1>3

LEMMA AlwaysReached == Spec => [](WellFormed /\ NetInv)
<1>1. Init => WellFormed /\ NetInv
  <2> SUFFICES ASSUME Init PROVE WellFormed /\ NetInv
    OBVIOUS
  <2>1. phase \in {"verify", "rejected"}
    BY DEF Init
  <2> QED
    BY <2>1, InitWellFormed DEF NetInv, Running
<1>2. WellFormed /\ NetInv /\ [Next]_vars => (WellFormed /\ NetInv)'
  BY StepWellFormed, StepNet
<1> QED
  BY <1>1, <1>2, PTL DEF Spec

\* No write misses a stop that it names, whoever programs the network, if the
\* history is reset and no action asks for what SoundStf leaves out: a stop is in
\* the group that the history has it in, and every hub on the way to it carries
\* that group when the packet is sent, be it in the middle of a selection.
THEOREM WritesArrive == Spec => []WritesReach
<1>1. WellFormed /\ NetInv => WritesReach
  <2> SUFFICES ASSUME NetInv, Running("STF"), resets, Every(SoundStf)
               PROVE  ~dut.net.lost
    BY DEF WritesReach
  <2>1. NetKnown(know, dut)
    BY DEF NetInv
  <2>2. dut.net.lost = FALSE
    BY <2>1 DEF NetKnown, OwnNet, ToldNet
  <2> QED
    BY <2>2
<1> QED
  BY <1>1, AlwaysReached, PTL
-----------------------------------------------------------------------------
(***************************************************************************)
(* The registers of the stops, which are remembered as long as no write is *)
(* lost: over the ops of an action, and then over a script.                *)
(***************************************************************************)
\* The ops of the work w, whose history has the groups bank, lead the network n0
\* to one whose registers are remembered, unless they lose a write.
Recalls(conf, n0, w, bank) ==
    /\ DOMAIN w = WorkParts /\ w.te = conf
    /\ DOMAIN w.h = BookParts /\ w.h.bank = bank /\ bank \in Books /\ ZeroUnknown(w.h)
    /\ \E net : /\ NetRun(conf, n0, w.ops, net) /\ DOMAIN net = NetParts
                /\ net.lost \in BOOLEAN
                /\ net.lost = FALSE => Faithful(conf, w.h, net)

LEMMA EmitRecalls ==
  ASSUME NEW conf, NEW n0, NEW w, NEW bank, Recalls(conf, n0, w, bank), NEW op, op.op # "write_read"
  PROVE  Recalls(conf, n0, Emit(w, op), bank)
<1>1. PICK net : /\ NetRun(conf, n0, w.ops, net) /\ DOMAIN net = NetParts
                 /\ net.lost \in BOOLEAN
                 /\ net.lost = FALSE => Faithful(conf, w.h, net)
  BY DEF Recalls
<1> DEFINE net2 == OnNetwork(conf, net, op)
           ops2 == Append(w.ops, op)
           w2 == [w EXCEPT !.ops = ops2]
<1>2. DOMAIN net2 = NetParts
  BY <1>1, NetShape
<1>3. NetRun(conf, n0, ops2, net2)
  BY <1>1, RunExtends
<1>4. net2.value = net.value /\ net2.lost = net.lost
  BY <1>1, NetQuiet
<1>5. Emit(w, op) = w2
  BY DEF Emit
<1> HIDE DEF net2, ops2
<1>6. net2.lost \in BOOLEAN /\ (net2.lost = FALSE => Faithful(conf, w.h, net2))
  BY <1>1, <1>4 DEF Faithful
<1>7. DOMAIN w2 = WorkParts /\ w2.te = conf /\ w2.h = w.h /\ w2.ops = ops2
  BY DEF Recalls, WorkParts
<1> HIDE DEF w2
<1> QED
  BY <1>2, <1>3, <1>5, <1>6, <1>7 DEF Recalls

LEMMA BookRecalls ==
  ASSUME NEW conf, NEW n0, NEW w, NEW bank, Recalls(conf, n0, w, bank),
         NEW h2, DOMAIN h2 = BookParts, h2.bank \in Books, ZeroUnknown(h2),
         \A net : Faithful(conf, w.h, net) => Faithful(conf, h2, net)
  PROVE  Recalls(conf, n0, [w EXCEPT !.h = h2], h2.bank)
<1> DEFINE w2 == [w EXCEPT !.h = h2]
<1>1. DOMAIN w2 = WorkParts /\ w2.te = conf /\ w2.h = h2 /\ w2.ops = w.ops
  BY DEF Recalls, WorkParts
<1> HIDE DEF w2
<1>2. Recalls(conf, n0, w2, h2.bank)
  BY <1>1 DEF Recalls
<1> QED
  BY <1>2 DEF w2

LEMMA SendRecalls ==
  ASSUME NEW conf, NEW n0, NEW w, NEW bank, Recalls(conf, n0, w, bank),
         NEW stops, NEW gids, NEW data, NEW read,
         NEW h2, DOMAIN h2 = BookParts, h2.bank = bank, ZeroUnknown(h2),
         \A net, n2 : Faithful(conf, w.h, net) /\ WrittenTo(net, n2, stops, gids, data)
                        => Faithful(conf, h2, n2)
  PROVE  Recalls(conf, n0, Emit([w EXCEPT !.h = h2], WriteOp(stops, gids, data, read)), bank)
<1>1. PICK net : /\ NetRun(conf, n0, w.ops, net) /\ DOMAIN net = NetParts
                 /\ net.lost \in BOOLEAN
                 /\ net.lost = FALSE => Faithful(conf, w.h, net)
  BY DEF Recalls
<1> DEFINE op == WriteOp(stops, gids, data, read)
           net2 == OnNetwork(conf, net, op)
           ops2 == Append(w.ops, op)
           w1 == [w EXCEPT !.h = h2]
           w2 == [w1 EXCEPT !.ops = ops2]
<1>2. /\ DOMAIN net2 = NetParts /\ net2.lost \in BOOLEAN
      /\ net2.lost = FALSE => net.lost = FALSE /\ WrittenTo(net, net2, stops, gids, data)
  BY <1>1, WriteHeard
<1>3. NetRun(conf, n0, ops2, net2)
  BY <1>1, RunExtends
<1> HIDE DEF net2, op
<1>4. net2.lost = FALSE => Faithful(conf, h2, net2)
  BY <1>1, <1>2
<1>5. DOMAIN w1 = WorkParts /\ w1.te = conf /\ w1.h = h2 /\ w1.ops = w.ops
  BY DEF Recalls, WorkParts
<1> HIDE DEF w1, ops2
<1>6. Emit(w1, op) = w2
  BY <1>5 DEF Emit, ops2
<1>7. DOMAIN w2 = WorkParts /\ w2.te = conf /\ w2.h = h2 /\ w2.ops = ops2
  BY <1>5 DEF WorkParts
<1> HIDE DEF w2
<1>8. Recalls(conf, n0, w2, bank)
  BY <1>2, <1>3, <1>4, <1>7 DEF Recalls
<1> QED
  BY <1>6, <1>8 DEF w1, op

LEMMA WriteRecalls ==
  ASSUME NEW conf, NEW n0, NEW w, NEW bank, Recalls(conf, n0, w, bank),
         NEW s \in Stops, NEW g, NEW data, Userless(data), Fitting(conf, bank[s], g, data)
  PROVE  LET v == Write(w, s, g, data)
         IN  /\ Recalls(conf, n0, v, bank)
             /\ \A k \in DOMAIN data : v.h.value[s][k] = data[k]
<1> DEFINE stops == <<s>>
           gids == <<g>>
           h2 == Remember(w.h, stops, data)
           op == WriteOp(stops, gids, data, FALSE)
           w1 == [w EXCEPT !.h = h2]
           v == Emit(w1, op)
<1>1. DOMAIN w = WorkParts /\ DOMAIN w.h = BookParts /\ w.h.bank = bank /\ ZeroUnknown(w.h)
  BY DEF Recalls
<1>2. Write(w, s, g, data) = v
  BY DEF Write, WriteFields
<1>3. /\ DOMAIN h2 = BookParts /\ h2.bank = bank /\ h2.members = w.h.members
      /\ \A x \in Stops : h2.value[x] = IF x \in AllOf(stops) THEN Atop(data, w.h.value[x])
                                        ELSE w.h.value[x]
  BY <1>1, RememberedFields
<1>4. ZeroUnknown(h2)
  BY <1>1, <1>3 DEF ZeroUnknown
<1>5. ASSUME NEW net, NEW n2, Faithful(conf, w.h, net), WrittenTo(net, n2, stops, gids, data)
      PROVE  Faithful(conf, h2, n2)
  BY <1>1, <1>5, OthersRecalled
<1>6. s \in AllOf(stops)
  BY DEF AllOf
<1>7. \A k \in DOMAIN data : h2.value[s][k] = data[k]
  BY <1>3, <1>6, AtopIs
<1> HIDE DEF h2, stops, gids
<1>8. Recalls(conf, n0, v, bank)
  BY <1>3, <1>4, <1>5, SendRecalls
<1>9. v.h = h2
  <2>1. v = [w1 EXCEPT !.ops = Append(@, op)] /\ w1.h = h2 /\ "h" \in DOMAIN w1
    BY <1>1 DEF Emit, WorkParts
  <2> HIDE DEF w1, op
  <2> QED
    BY <2>1
<1> HIDE DEF v
<1> QED
  BY <1>2, <1>7, <1>8, <1>9

\* A stop moves.  It leaves a group, unless it is in none, with its output off.
LEMMA AssignRecalls ==
  ASSUME NEW conf, NEW n0, NEW w, NEW bank, Recalls(conf, n0, w, bank),
         NEW s \in Stops, NEW b \in Banks, NEW g \in Gids, NEW prev, NEW mode,
         g = 0 /\ ~conf.network => bank[s][b] \in {0, None} \/ w.h.value[s][Oe(b)] = 0
  PROVE  Recalls(conf, n0, Assign(w, g, s, b, prev, mode), Moved(bank, s, b, g))
<1> DEFINE v == Assign(w, g, s, b, prev, mode)
           op == Noted(s, g, b, mode)
           u == Emit(w, op)
           bank2 == Moved(bank, s, b, g)
<1>1. /\ DOMAIN w = WorkParts /\ w.te = conf /\ DOMAIN w.h = BookParts
      /\ w.h.bank = bank /\ bank \in Books /\ ZeroUnknown(w.h)
  BY DEF Recalls
<1>2. /\ DOMAIN v = WorkParts /\ v.te = w.te /\ DOMAIN v.h = BookParts
      /\ v.h.bank = bank2 /\ v.h.value = w.h.value /\ ZeroUnknown(v.h)
      /\ v.ops = Append(w.ops, op)
  BY <1>1, AssignMoves
<1>3. /\ bank2 \in Books
      /\ \A x \in Stops : \A y \in Banks :
           bank2[x][y] = IF x = s /\ y = b THEN g
                         ELSE IF x = s /\ g # 0 /\ bank[x][y] = None THEN 0 ELSE bank[x][y]
  BY <1>1, MovedBooks
<1>4. op.op # "write_read"
  BY DEF Noted, SelectOp
<1>5. u.ops = Append(w.ops, op) /\ u.h = w.h
  BY <1>1 DEF Emit, WorkParts
<1> HIDE DEF v, op, bank2
<1>6. Recalls(conf, n0, u, bank)
  BY <1>4, EmitRecalls
<1> HIDE DEF u
<1>7. PICK net : /\ NetRun(conf, n0, v.ops, net) /\ DOMAIN net = NetParts
                 /\ net.lost \in BOOLEAN
                 /\ net.lost = FALSE => Faithful(conf, w.h, net)
  BY <1>2, <1>5, <1>6 DEF Recalls
<1>8. ASSUME Faithful(conf, w.h, net) PROVE Faithful(conf, v.h, net)
  <2>1. ASSUME ~conf.network, NEW x \in Stops, NEW y \in Banks, v.h.bank[x][y] \in {0, None}
        PROVE  net.value[x][Oe(y)] = 0
    <3>1. bank[x][y] \in {0, None} => net.value[x][Oe(y)] = 0
      BY <1>1, <1>8, <2>1 DEF Faithful
    <3>2. w.h.value[x][Oe(y)] = 0 => net.value[x][Oe(y)] = 0
      BY <1>8, FieldFacts DEF Faithful, None
    <3>3. CASE x = s /\ y = b
      <4>1. g = 0
        BY <1>2, <1>3, <2>1, <3>3, GidFacts
      <4> QED
        BY <2>1, <3>1, <3>2, <3>3, <4>1
    <3>4. CASE ~(x = s /\ y = b)
      BY <1>2, <1>3, <2>1, <3>1, <3>4
    <3> QED
      BY <3>3, <3>4
  <2> QED
    BY <1>2, <1>8, <2>1 DEF Faithful
<1>9. Recalls(conf, n0, v, bank2)
  BY <1>1, <1>2, <1>3, <1>7, <1>8 DEF Recalls
<1> QED
  BY <1>9 DEF v, bank2

\* The output of a stop on a bank, in the bank's group.
LEMMA OutputRecalls ==
  ASSUME NEW conf, ~conf.network, NEW n0, NEW w, NEW bank, Recalls(conf, n0, w, bank),
         NEW s \in Stops, NEW b \in Banks, NEW g, NEW val,
         bank[s][b] \in {0, None} => val = 0, g = 0 => bank[s][b] \in {0, None}
  PROVE  /\ Recalls(conf, n0, SetOe(w, s, b, g, val), bank)
         /\ SetOe(w, s, b, g, val).h.value[s][Oe(b)] = val
<1> DEFINE data == [f \in {Oe(b)} |-> val]
           row == bank[s]
<1>1. DOMAIN data = {Oe(b)} /\ data[Oe(b)] = val
  OBVIOUS
<1> HIDE DEF data
<1>2. Userless(data)
  BY <1>1 DEF Userless, Oe, User, Part
<1>3. \A y \in Banks : Oe(y) = Oe(b) => y = b
  BY DEF Oe
<1> HIDE DEF row
<1>4. Fitting(conf, row, g, data)
  BY <1>1, <1>3 DEF Fitting, row
<1>5. /\ Recalls(conf, n0, Write(w, s, g, data), bank)
      /\ \A k \in DOMAIN data : Write(w, s, g, data).h.value[s][k] = data[k]
  BY <1>2, <1>4, WriteRecalls DEF row
<1> QED
  BY <1>1, <1>5 DEF SetOe, data

\* The registers of a hub, in the group through which it is programmed.
LEMMA HubRecalls ==
  ASSUME NEW conf, NEW n0, NEW w, NEW bank, Recalls(conf, n0, w, bank), NEW hub \in Stops, NEW data,
         \A k \in DOMAIN data : k[1] \in {"member", "responder", "tracker"}
  PROVE  Recalls(conf, n0, Write(w, hub, Scratch, data), bank)
<1> DEFINE row == bank[hub]
<1>1. Userless(data) /\ \A b \in Banks : Oe(b) \notin DOMAIN data
  <2>1. \A b : Oe(b)[1] \notin {"member", "responder", "tracker"}
    BY DEF Oe
  <2>2. \A f : User(f)[1] \notin {"member", "responder", "tracker"}
               /\ Part(f)[1] \notin {"member", "responder", "tracker"}
    BY DEF User, Part
  <2> QED
    BY <2>1, <2>2 DEF Userless
<1>2. Scratch # 0
  BY GidFacts
<1> HIDE DEF row
<1>3. Fitting(conf, row, Scratch, data)
  BY <1>1, <1>2 DEF Fitting
<1> QED
  BY <1>1, <1>3, WriteRecalls DEF row

LEMMA ProgramRecalls ==
  ASSUME NEW conf, ~conf.network, NEW n0, NEW w, NEW bank, Recalls(conf, n0, w, bank),
         NEW hub \in Hubs, NEW want, NEW num
  PROVE  Recalls(conf, n0, ProgramHub(w, hub, want, num), bank)
<1> DEFINE back    == IF w.h.bank[hub][0] = None THEN 0 ELSE w.h.bank[hub][0]
           enabled == w.h.bank[hub][0] # None /\ w.h.value[hub][Oe(0)] = 1
           on      == num > 0
           delay   == IF on THEN Delay(hub) ELSE 0
           answers == [f \in {Responder(g) : g \in Gids \ {0}} |->
                         IF f[2] = Scratch THEN 0 ELSE want[f[2]]]
           carried == [f \in {Member(g) : g \in Gids \ {0}} |->
                         IF f[2] = Scratch THEN (IF on THEN 1 ELSE 0) ELSE want[f[2]]]
           off     == [f \in {Member(Scratch)} |-> 0]
           waits   == [f \in {<<"tracker", "delay">>} |-> delay]
           tracks  == [f \in {<<"tracker", "enable">>} |-> IF on THEN 1 ELSE 0]
           w1 == IF enabled THEN SetOe(w, hub, 0, back, 0) ELSE w
           w2 == Emit(w1, SelectOp(hub, Scratch, 0))
           w3 == Write(w2, hub, Scratch, off)
           w4 == Nulls(w3, delay + 1)
           w5 == Write(w4, hub, Scratch, waits)
           w6 == Write(w5, hub, Scratch, tracks)
           w7 == Write(w6, hub, Scratch, answers)
           w8 == Write(w7, hub, Scratch, carried)
           w9 == Emit(w8, SelectOp(hub, back, 0))
           w10 == IF back # 0 /\ enabled THEN SetOe(w9, hub, 0, back, 1) ELSE w9
<1>0. hub \in Stops /\ 0 \in Banks /\ w.h.bank = bank
  BY NetworkAssumption DEF Recalls, Banks
<1>1. ProgramHub(w, hub, want, num) = w10
  BY DEF ProgramHub
<1>2. (back = 0 => bank[hub][0] \in {0, None}) /\ (back # 0 => bank[hub][0] \notin {0, None})
  BY <1>0
<1>3. /\ \A k \in DOMAIN answers : k[1] \in {"member", "responder", "tracker"}
      /\ \A k \in DOMAIN carried : k[1] \in {"member", "responder", "tracker"}
      /\ \A k \in DOMAIN off : k[1] \in {"member", "responder", "tracker"}
      /\ \A k \in DOMAIN waits : k[1] \in {"member", "responder", "tracker"}
      /\ \A k \in DOMAIN tracks : k[1] \in {"member", "responder", "tracker"}
  BY DEF Member, Responder
<1>4. \A s, g, b : SelectOp(s, g, b).op # "write_read"
  BY DEF SelectOp
<1> HIDE DEF back, enabled, delay, answers, carried, on, off, waits, tracks
<1>11. Recalls(conf, n0, w1, bank)
  <2>1. Recalls(conf, n0, SetOe(w, hub, 0, back, 0), bank)
    BY <1>0, <1>2, OutputRecalls
  <2> QED
    BY <2>1
<1> HIDE DEF w1
<1>12. Recalls(conf, n0, w2, bank)
  BY <1>4, <1>11, EmitRecalls
<1> HIDE DEF w2
<1>13. Recalls(conf, n0, w3, bank)
  BY <1>0, <1>3, <1>12, HubRecalls
<1> HIDE DEF w3
<1>14. Recalls(conf, n0, w4, bank)
  <2> DEFINE op == NopOp(0, delay + 1)
  <2>1. op.op # "write_read"
    BY DEF NopOp
  <2> HIDE DEF op
  <2>2. Recalls(conf, n0, Emit(w3, op), bank)
    BY <1>13, <2>1, EmitRecalls
  <2> QED
    BY <2>2 DEF Nulls, op
<1> HIDE DEF w4
<1>15. Recalls(conf, n0, w5, bank)
  BY <1>0, <1>3, <1>14, HubRecalls
<1> HIDE DEF w5
<1>16. Recalls(conf, n0, w6, bank)
  BY <1>0, <1>3, <1>15, HubRecalls
<1> HIDE DEF w6
<1>17. Recalls(conf, n0, w7, bank)
  BY <1>0, <1>3, <1>16, HubRecalls
<1> HIDE DEF w7
<1>18. Recalls(conf, n0, w8, bank)
  BY <1>0, <1>3, <1>17, HubRecalls
<1> HIDE DEF w8
<1>19. Recalls(conf, n0, w9, bank)
  BY <1>4, <1>18, EmitRecalls
<1> HIDE DEF w9
<1>20. back # 0 => Recalls(conf, n0, SetOe(w9, hub, 0, back, 1), bank)
  BY <1>0, <1>2, <1>19, OutputRecalls
<1> QED
  BY <1>1, <1>19, <1>20

(***************************************************************************)
(* A selection: the stops leave, the hubs are programmed, the stops join.  *)
(***************************************************************************)
\* Stops that were in no group, when the history had the groups hb, still are.
StillOut(hb, bank, b) == \A s \in Stops : hb[s][b] \in {0, None} => bank[s][b] \in {0, None}
RecallsOut(conf, n0, v, hb, b) == \E bank : Recalls(conf, n0, v, bank) /\ StillOut(hb, bank, b)
RecallsAny(conf, n0, v) == \E bank : Recalls(conf, n0, v, bank)

LEMMA LeaveRecalls ==
  ASSUME NEW conf, NEW n0, NEW hb, NEW a, Typed(a), NEW prevs,
         NEW i \in 1..Len(a.stops), prevs[i] = 0 => hb[a.stops[i]][a.bank] \in {0, None},
         NEW w, RecallsOut(conf, n0, w, hb, a.bank)
  PROVE  RecallsOut(conf, n0, OffStop(w, a, prevs, i), hb, a.bank)
<1> DEFINE s == a.stops[i]
           b == a.bank
           off == IF w.te.network THEN w ELSE SetOe(w, s, b, prevs[i], 0)
           v == Assign(off, 0, s, b, prevs[i], a.mode)
<1>1. PICK bank : Recalls(conf, n0, w, bank) /\ StillOut(hb, bank, b)
  BY DEF RecallsOut
<1>2. s \in Stops /\ b \in Banks /\ 0 \in Gids /\ w.te = conf /\ bank \in Books
  BY <1>1, GidFacts DEF Typed, Recalls
<1>3. OffStop(w, a, prevs, i) = v
  BY DEF OffStop
<1>4. prevs[i] = 0 => bank[s][b] \in {0, None}
  BY <1>1, <1>2 DEF StillOut
<1> HIDE DEF s, b
<1>5. ~conf.network => /\ Recalls(conf, n0, SetOe(w, s, b, prevs[i], 0), bank)
                       /\ SetOe(w, s, b, prevs[i], 0).h.value[s][Oe(b)] = 0
  BY <1>1, <1>2, <1>4, OutputRecalls
<1>6. Recalls(conf, n0, off, bank) /\ (~conf.network => off.h.value[s][Oe(b)] = 0)
  BY <1>1, <1>2, <1>5
<1> HIDE DEF off
<1>7. Recalls(conf, n0, v, Moved(bank, s, b, 0))
  BY <1>2, <1>6, AssignRecalls
<1>8. StillOut(hb, Moved(bank, s, b, 0), b)
  <2>1. \A x \in Stops : Moved(bank, s, b, 0)[x][b] = IF x = s THEN 0 ELSE bank[x][b]
    BY <1>2, MovedBooks
  <2> QED
    BY <1>1, <2>1 DEF StillOut
<1> HIDE DEF v
<1>9. RecallsOut(conf, n0, v, hb, b)
  BY <1>7, <1>8 DEF RecallsOut
<1> QED
  BY <1>3, <1>9 DEF b

LEMMA AllLeaveRecalls ==
  ASSUME NEW conf, NEW n0, NEW hb, NEW a, Typed(a), NEW prevs,
         \A i \in 1..Len(a.stops) :
            a.gids[i] = 0 /\ prevs[i] = 0 => hb[a.stops[i]][a.bank] \in {0, None},
         NEW w, RecallsOut(conf, n0, w, hb, a.bank)
  PROVE  RecallsAny(conf, n0, SwitchOff(w, a, prevs))
<1> DEFINE n == Len(a.stops)
           is == [i \in 1..n |-> i]
           OutOk(v) == RecallsOut(conf, n0, v, hb, a.bank)
<1>1. n \in Nat /\ DOMAIN is = 1..n /\ \A i \in 1..n : is[i] = i
  BY DEF Typed
<1>2. SwitchOff(w, a, prevs) = Of!Fold(a, prevs, w, is)
  BY DEF SwitchOff, OffIn, FoldLeft, MapThenFoldSet, Max, Of!Fold, Of!Top
<1> HIDE DEF is
<1>3. PICK f : Of!Steps(f, a, prevs, w, is, n) /\ Of!Fold(a, prevs, w, is) = f[n]
  BY <1>1, Of!FoldSteps
<1> DEFINE P == {i \in 0..n : OutOk(f[i])}
<1>4. 0 \in P
  <2>1. f[0] = w /\ 0 \in 0..n
    BY <1>1, <1>3 DEF Of!Steps
  <2> HIDE DEF n
  <2> QED
    BY <2>1
<1>5. ASSUME NEW i \in 1..n, i - 1 \in P PROVE i \in P
  <2>1. f[i] = IF a.gids[i] = 0 THEN OffStop(f[i - 1], a, prevs, i) ELSE f[i - 1]
    <3> HIDE DEF n
    <3> QED
      BY <1>1, <1>3 DEF Of!Steps, OffIn
  <2>2. OutOk(f[i - 1]) /\ i \in 0..n
    BY <1>5
  <2>3. a.gids[i] = 0 => OutOk(OffStop(f[i - 1], a, prevs, i))
    BY <2>2, LeaveRecalls
  <2> HIDE DEF n, OutOk
  <2> QED
    BY <2>1, <2>2, <2>3
<1>6. \A i \in 0..n : i \in P
  <2> HIDE DEF P, n
  <2> QED
    BY <1>1, <1>4, <1>5, Of!BoundedInduction
<1>7. n \in P
  BY <1>1, <1>6
<1>8. RecallsAny(conf, n0, f[n])
  BY <1>7 DEF RecallsOut, RecallsAny
<1> QED
  BY <1>2, <1>3, <1>8

LEMMA JoinRecalls ==
  ASSUME NEW conf, NEW n0, NEW a, Typed(a), a.op = "select",
         NEW i \in 1..Len(a.stops), a.gids[i] # 0, NEW w, RecallsAny(conf, n0, w)
  PROVE  RecallsAny(conf, n0, OnStop(w, a, i))
<1> DEFINE s == a.stops[i]
           b == a.bank
           g == a.gids[i]
           put == Assign(w, g, s, b, 0, a.mode)
<1>1. PICK bank : Recalls(conf, n0, w, bank)
  BY DEF RecallsAny
<1>2. s \in Stops /\ b \in Banks /\ g \in Gids \ {0} /\ w.te = conf /\ bank \in Books
  BY <1>1 DEF Typed, Recalls
<1>3. OnStop(w, a, i) = IF w.te.auto /\ ~w.te.network THEN SetOe(put, s, b, g, 1) ELSE put
  BY DEF OnStop
<1> HIDE DEF s, b, g
<1>4. Recalls(conf, n0, put, Moved(bank, s, b, g))
  BY <1>1, <1>2, AssignRecalls
<1>5. put.te = conf
  BY <1>4 DEF Recalls
<1>6. Moved(bank, s, b, g)[s][b] = g /\ g \notin {0, None}
  BY <1>2, MovedBooks, GidFacts
<1> HIDE DEF put
<1>7. ~conf.network => Recalls(conf, n0, SetOe(put, s, b, g, 1), Moved(bank, s, b, g))
  BY <1>2, <1>4, <1>6, OutputRecalls
<1> QED
  BY <1>2, <1>3, <1>4, <1>7 DEF RecallsAny

LEMMA AllJoinRecalls ==
  ASSUME NEW conf, NEW n0, NEW w, RecallsAny(conf, n0, w), NEW a, Typed(a), a.op = "select"
  PROVE  RecallsAny(conf, n0, SwitchOn(w, a))
<1> DEFINE n == Len(a.stops)
           is == [i \in 1..n |-> i]
<1>1. n \in Nat /\ DOMAIN is = 1..n /\ \A i \in 1..n : is[i] = i
  BY DEF Typed
<1>2. SwitchOn(w, a) = On!Fold(a, a, w, is)
  BY DEF SwitchOn, OnIn, FoldLeft, MapThenFoldSet, Max, On!Fold, On!Top
<1> HIDE DEF is
<1>3. PICK f : On!Steps(f, a, a, w, is, n) /\ On!Fold(a, a, w, is) = f[n]
  BY <1>1, On!FoldSteps
<1> DEFINE P == {i \in 0..n : RecallsAny(conf, n0, f[i])}
<1>4. 0 \in P
  <2>1. f[0] = w /\ 0 \in 0..n
    BY <1>1, <1>3 DEF On!Steps
  <2> HIDE DEF n
  <2> QED
    BY <2>1
<1>5. ASSUME NEW i \in 1..n, i - 1 \in P PROVE i \in P
  <2>1. f[i] = IF a.gids[i] = 0 THEN f[i - 1] ELSE OnStop(f[i - 1], a, i)
    <3> HIDE DEF n
    <3> QED
      BY <1>1, <1>3 DEF On!Steps, OnIn
  <2>2. RecallsAny(conf, n0, f[i - 1]) /\ i \in 0..n
    BY <1>5
  <2>3. a.gids[i] # 0 => RecallsAny(conf, n0, OnStop(f[i - 1], a, i))
    BY <2>2, JoinRecalls
  <2> HIDE DEF n
  <2> QED
    BY <2>1, <2>2, <2>3
<1>6. \A i \in 0..n : i \in P
  <2> HIDE DEF P, n
  <2> QED
    BY <1>1, <1>4, <1>5, On!BoundedInduction
<1>7. n \in P
  BY <1>1, <1>6
<1>8. RecallsAny(conf, n0, f[n])
  BY <1>7
<1> QED
  BY <1>2, <1>3, <1>8

LEMMA HubsRecall ==
  ASSUME NEW conf, ~conf.network, NEW n0, NEW w, RecallsAny(conf, n0, w),
         NEW want, NEW num, NEW order \in Seq(Hubs)
  PROVE  RecallsAny(conf, n0, Pg!Fold(want, num, w, order))
<1> DEFINE n == Len(order)
<1>1. n \in Nat /\ DOMAIN order = 1..n /\ \A i \in 1..n : order[i] \in Hubs
  OBVIOUS
<1>3. PICK f : Pg!Steps(f, want, num, w, order, n) /\ Pg!Fold(want, num, w, order) = f[n]
  BY <1>1, Pg!FoldSteps
<1> DEFINE P == {i \in 0..n : RecallsAny(conf, n0, f[i])}
<1>4. 0 \in P
  <2>1. f[0] = w /\ 0 \in 0..n
    BY <1>1, <1>3 DEF Pg!Steps
  <2> HIDE DEF n
  <2> QED
    BY <2>1
<1>5. ASSUME NEW i \in 1..n, i - 1 \in P PROVE i \in P
  <2> DEFINE hub == order[i]
  <2>1. f[i] = ProgramHub(f[i - 1], hub, want[hub], num[hub])
    <3> HIDE DEF n
    <3> QED
      BY <1>3 DEF Pg!Steps, ProgramIn
  <2>2. RecallsAny(conf, n0, f[i - 1]) /\ i \in 0..n /\ hub \in Hubs
    BY <1>1, <1>5
  <2> HIDE DEF hub
  <2>3. RecallsAny(conf, n0, ProgramHub(f[i - 1], hub, want[hub], num[hub]))
    BY <2>2, ProgramRecalls DEF RecallsAny
  <2> HIDE DEF n
  <2> QED
    BY <2>1, <2>2, <2>3
<1>6. \A i \in 0..n : i \in P
  <2> HIDE DEF P, n
  <2> QED
    BY <1>1, <1>4, <1>5, Pg!BoundedInduction
<1>7. n \in P
  BY <1>1, <1>6
<1>8. RecallsAny(conf, n0, f[n])
  BY <1>7
<1> QED
  BY <1>3, <1>8

LEMMA SelectRecalls ==
  ASSUME NEW conf, NEW n0, NEW w, NEW bank, Recalls(conf, n0, w, bank),
         NEW a, Typed(a), a.op = "select"
  PROVE  RecallsAny(conf, n0, Select(w, a))
<1> DEFINE prevs == [i \in 1..Len(a.stops) |-> PrevGid(w.h, a, i)]
           p == PlanHubs(w.h, a, prevs)
           ready == IF w.te.network THEN w ELSE [w EXCEPT !.h = p.h]
           off == SwitchOff(ready, a, prevs)
           told == FoldLeft(LAMBDA v, hub : ProgramHub(v, hub, p.want[hub], p.num[hub]), off, p.order)
           hubs == IF w.te.network THEN off ELSE told
<1>1. Select(w, a) = SwitchOn(hubs, a)
  BY DEF Select
<1>2. /\ w.te = conf /\ DOMAIN w.h = BookParts /\ w.h.bank = bank /\ bank \in Books /\ ZeroUnknown(w.h)
      /\ a.stops \in Seq(Stops)
  BY DEF Recalls, Typed
<1>3. \A i \in 1..Len(a.stops) :
         a.gids[i] = 0 /\ prevs[i] = 0 => bank[a.stops[i]][a.bank] \in {0, None}
  BY <1>2 DEF PrevGid
<1> HIDE DEF prevs
<1>4. Planned(p, w.h)
  BY <1>2, PlanHubsPlans
<1> HIDE DEF p
<1>5. Recalls(conf, n0, ready, bank)
  <2> DEFINE h2 == p.h
  <2>1. DOMAIN h2 = BookParts /\ h2.bank = bank /\ h2.value = w.h.value /\ h2.members = w.h.members
    BY <1>2, <1>4 DEF Planned
  <2> HIDE DEF h2
  <2>2. ZeroUnknown(h2)
    BY <1>2, <2>1 DEF ZeroUnknown
  <2>3. \A net : Faithful(conf, w.h, net) => Faithful(conf, h2, net)
    BY <1>2, <2>1 DEF Faithful
  <2>4. Recalls(conf, n0, [w EXCEPT !.h = h2], h2.bank)
    BY <1>2, <2>1, <2>2, <2>3, BookRecalls
  <2> QED
    BY <2>1, <2>4 DEF h2
<1> HIDE DEF ready
<1>6. RecallsOut(conf, n0, ready, bank, a.bank)
  BY <1>5 DEF RecallsOut, StillOut
<1>7. RecallsAny(conf, n0, off)
  BY <1>3, <1>6, AllLeaveRecalls
<1> HIDE DEF off
<1>8. ~conf.network => RecallsAny(conf, n0, told)
  <2>1. p.order \in Seq(Hubs)
    BY <1>4 DEF Planned
  <2>2. told = Pg!Fold(p.want, p.num, off, p.order)
    BY DEF ProgramIn, FoldLeft, MapThenFoldSet, Max, Pg!Fold, Pg!Top
  <2> HIDE DEF told
  <2> QED
    BY <1>7, <2>1, <2>2, HubsRecall
<1> HIDE DEF told
<1>9. RecallsAny(conf, n0, hubs)
  BY <1>2, <1>7, <1>8
<1> HIDE DEF hubs
<1> QED
  BY <1>1, <1>9, AllJoinRecalls

(***************************************************************************)
(* The other ops.  A write of the user's fields says what all of them are: *)
(* those that it does not carry are default.                               *)
(***************************************************************************)
LEMMA NullsRecall ==
  ASSUME NEW conf, NEW n0, NEW w, RecallsAny(conf, n0, w), NEW num
  PROVE  RecallsAny(conf, n0, Nulls(w, num))
<1> DEFINE op == NopOp(0, num)
<1>1. op.op # "write_read"
  BY DEF NopOp
<1> HIDE DEF op
<1>2. RecallsAny(conf, n0, Emit(w, op))
  BY <1>1, EmitRecalls DEF RecallsAny
<1> QED
  BY <1>2 DEF Nulls, op

LEMMA PacketsRecall ==
  ASSUME NEW conf, NEW n0, NEW w, RecallsAny(conf, n0, w), NEW a
  PROVE  RecallsAny(conf, n0, Packets(w, a))
<1> DEFINE n == MaxGid + 1
           groups == AllOf(GroupsOf(w.h, a))
           is == [i \in 1..MaxGid + 1 |-> i - 1]
<1>1. n \in Nat /\ DOMAIN is = 1..n
  BY GidFacts
<1>2. Packets(w, a) = Pk!Fold(a, groups, w, is)
  BY DEF Packets, PacketIn, FoldLeft, MapThenFoldSet, Max, Pk!Fold, Pk!Top
<1> HIDE DEF is, groups
<1>3. PICK f : Pk!Steps(f, a, groups, w, is, n) /\ Pk!Fold(a, groups, w, is) = f[n]
  BY <1>1, Pk!FoldSteps
<1> DEFINE P == {i \in 0..n : RecallsAny(conf, n0, f[i])}
<1>4. 0 \in P
  <2>1. f[0] = w /\ 0 \in 0..n
    BY <1>1, <1>3 DEF Pk!Steps
  <2> HIDE DEF n
  <2> QED
    BY <2>1
<1>5. ASSUME NEW i \in 1..n, i - 1 \in P PROVE i \in P
  <2> DEFINE op == PacketOp(a, is[i])
  <2>1. f[i] = IF is[i] \in groups THEN Emit(f[i - 1], op) ELSE f[i - 1]
    <3> HIDE DEF n
    <3> QED
      BY <1>3 DEF Pk!Steps, PacketIn
  <2>2. RecallsAny(conf, n0, f[i - 1]) /\ i \in 0..n
    BY <1>5
  <2>3. op.op # "write_read"
    BY DEF PacketOp, NopOp
  <2> HIDE DEF op
  <2>4. RecallsAny(conf, n0, Emit(f[i - 1], op))
    BY <2>2, <2>3, EmitRecalls DEF RecallsAny
  <2> HIDE DEF n
  <2> QED
    BY <2>1, <2>2, <2>4
<1>6. \A i \in 0..n : i \in P
  <2> HIDE DEF P, n
  <2> QED
    BY <1>1, <1>4, <1>5, Pk!BoundedInduction
<1>7. n \in P
  BY <1>1, <1>6
<1>8. RecallsAny(conf, n0, f[n])
  BY <1>7
<1> QED
  BY <1>2, <1>3, <1>8

LEMMA UsropsRecall ==
  ASSUME NEW conf, NEW n0, NEW w, NEW bank, Recalls(conf, n0, w, bank), NEW a
  PROVE  RecallsAny(conf, n0, MapUsrop(w, a))
<1> DEFINE addrs == Addresses(a)
           used == [i \in 1..Len(addrs) |-> UsropAt(a, i)]
           map == [u \in AllOf(used) |-> addrs[CHOOSE i \in 1..Len(addrs) : used[i] = u]]
           seq == [s \in Stops |-> IF s \in AllOf(a.stops) THEN used ELSE w.h.seq[s]]
           usrops == [s \in Stops |-> IF s \in AllOf(a.stops)
                        THEN [u \in 1..NumUsrops |-> IF u \in DOMAIN map THEN map[u]
                                                     ELSE w.h.usrops[s][u]]
                        ELSE w.h.usrops[s]]
           h2 == [w.h EXCEPT !.seq = seq, !.usrops = usrops]
           w2 == [w EXCEPT !.h = h2]
           op == [op |-> "map_usrop", stops |-> a.stops, gids |-> GroupsOf(w.h, a), map |-> map]
<1>1. MapUsrop(w, a) = Emit(w2, op)
  BY DEF MapUsrop
<1>2. op.op # "write_read"
  OBVIOUS
<1> HIDE DEF op, seq, usrops
<1>3. /\ DOMAIN w.h = BookParts /\ w.h.bank = bank /\ bank \in Books /\ ZeroUnknown(w.h)
  BY DEF Recalls
<1>4. /\ DOMAIN h2 = BookParts /\ h2.bank = bank /\ h2.value = w.h.value
      /\ h2.members = w.h.members
  BY <1>3 DEF BookParts
<1> HIDE DEF h2
<1>5. ZeroUnknown(h2)
  BY <1>3, <1>4 DEF ZeroUnknown
<1>6. \A net : Faithful(conf, w.h, net) => Faithful(conf, h2, net)
  BY <1>3, <1>4 DEF Faithful
<1>7. Recalls(conf, n0, w2, h2.bank)
  BY <1>3, <1>4, <1>5, <1>6, BookRecalls
<1> HIDE DEF w2
<1>8. Recalls(conf, n0, Emit(w2, op), h2.bank)
  BY <1>2, <1>7, EmitRecalls
<1> QED
  BY <1>1, <1>8 DEF RecallsAny

\* After a write every stop that it names is remembered with the fields that it
\* names as it says, and the others as they were or, if it is not incremental,
\* default.
WrittenAs(w, a, h2, data) ==
    /\ WriteRead(w, a) = Emit([w EXCEPT !.h = h2], WriteOp(a.stops, GroupsOf(w.h, a), data, a.read))
    /\ DOMAIN h2 = BookParts /\ h2.bank = w.h.bank /\ h2.members = w.h.members
    /\ DOMAIN data \subseteq Users /\ (Fields # {} => DOMAIN data # {})
    /\ DOMAIN h2.value = Stops
    /\ \A s \in Stops : \A k \in RegFields : k \in DOMAIN w.h.value[s] =>
          /\ k \in DOMAIN h2.value[s]
          /\ k \notin Users \/ s \notin AllOf(a.stops) => h2.value[s][k] = w.h.value[s][k]
    /\ \A f \in Fields :
          /\ \A s \in Stops \cap AllOf(a.stops) : h2.value[s][User(f)] = MeantFor(w.h, a, f)
          /\ MeantFor(w.h, a, f) = IF User(f) \in DOMAIN data THEN data[User(f)] ELSE Default[f]

LEMMA WriteRecalled ==
  ASSUME NEW w, DOMAIN w = WorkParts, DOMAIN w.h = BookParts, NEW a, Writable(a)
  PROVE  \E h2, data : WrittenAs(w, a, h2, data)
<1> DEFINE h == w.h
           gids == GroupsOf(h, a)
           fill == Filled(h, a)
           all == Atop(a.data, fill)
           h1 == Remember(h, a.stops, fill)
           w1 == [w EXCEPT !.h = h1]
           hi == Remember(h, a.stops, all)
           hn == Remember(h1, a.stops, a.data)
<1>1. WriteRead(w, a) = IF a.incremental
                          THEN Emit([w EXCEPT !.h = hi], WriteOp(a.stops, gids, all, a.read))
                          ELSE Emit([w1 EXCEPT !.h = Remember(w1.h, a.stops, a.data)],
                                    WriteOp(a.stops, gids, a.data, a.read))
  BY DEF WriteRead, WriteFields, Writable
<1>2. w1.h = h1 /\ [w1 EXCEPT !.h = hn] = [w EXCEPT !.h = hn]
  <2> HIDE DEF h1, hn
  <2> QED
    BY DEF WorkParts
<1>3. /\ DOMAIN fill \subseteq Users
      /\ \A f \in Fields :
            /\ User(f) \in DOMAIN fill <=> User(f) \notin DOMAIN a.data
            /\ User(f) \in DOMAIN fill => fill[User(f)] = Current(h, a.stops[1], f, a.incremental)
  BY FilledIs
<1>4. /\ DOMAIN h1 = BookParts /\ h1.bank = h.bank /\ h1.members = h.members /\ DOMAIN h1.value = Stops
      /\ \A s \in Stops : h1.value[s] = IF s \in AllOf(a.stops) THEN Atop(fill, h.value[s]) ELSE h.value[s]
  BY RememberedFields
<1>5. /\ DOMAIN hi = BookParts /\ hi.bank = h.bank /\ hi.members = h.members /\ DOMAIN hi.value = Stops
      /\ \A s \in Stops : hi.value[s] = IF s \in AllOf(a.stops) THEN Atop(all, h.value[s]) ELSE h.value[s]
  BY RememberedFields
<1> HIDE DEF h1, hi
<1>6. /\ DOMAIN hn = BookParts /\ hn.bank = h1.bank /\ hn.members = h1.members /\ DOMAIN hn.value = Stops
      /\ \A s \in Stops : hn.value[s] = IF s \in AllOf(a.stops) THEN Atop(a.data, h1.value[s]) ELSE h1.value[s]
  BY <1>4, RememberedFields
<1> HIDE DEF hn, fill
<1>7. DOMAIN a.data \subseteq Users
  BY DEF Writable
<1>8. CASE a.incremental
  <2>1. DOMAIN all \subseteq Users
    BY <1>3, <1>7, AtopIs
  <2>2. \A f \in Fields : User(f) \in DOMAIN all /\ all[User(f)] = MeantFor(h, a, f)
    BY <1>3, AtopIs DEF MeantFor
  <2> HIDE DEF all
  <2>3. \A s \in Stops : \A k \in RegFields : k \in DOMAIN h.value[s] =>
           /\ k \in DOMAIN hi.value[s]
           /\ k \notin Users \/ s \notin AllOf(a.stops) => hi.value[s][k] = h.value[s][k]
    BY <1>5, <2>1, AtopIs
  <2>4. \A f \in Fields : \A s \in Stops \cap AllOf(a.stops) : hi.value[s][User(f)] = MeantFor(h, a, f)
    BY <1>5, <2>2, AtopIs
  <2>5. WriteRead(w, a) = Emit([w EXCEPT !.h = hi], WriteOp(a.stops, gids, all, a.read))
    BY <1>1, <1>8 DEF all
  <2>6. Fields # {} => DOMAIN all # {}
    BY <2>2
  <2>7. WrittenAs(w, a, hi, all)
    BY <1>5, <2>1, <2>2, <2>3, <2>4, <2>5, <2>6 DEF WrittenAs
  <2> QED
    BY <2>7
<1>9. CASE ~a.incremental
  <2>1. DOMAIN a.data # {}
    BY <1>9 DEF Writable
  <2>2. \A f \in Fields : MeantFor(h, a, f) = IF User(f) \in DOMAIN a.data THEN a.data[User(f)] ELSE Default[f]
    BY <1>9 DEF MeantFor, Current
  <2>3. \A f \in Fields : User(f) \notin DOMAIN a.data => User(f) \in DOMAIN fill /\ fill[User(f)] = Default[f]
    BY <1>3, <1>9 DEF Current
  <2>4. \A s \in Stops : \A k \in RegFields : k \in DOMAIN h.value[s] =>
           /\ k \in DOMAIN h1.value[s]
           /\ k \notin Users \/ s \notin AllOf(a.stops) => h1.value[s][k] = h.value[s][k]
    BY <1>3, <1>4, AtopIs
  <2>5. \A s \in Stops : \A k \in RegFields : k \in DOMAIN h.value[s] =>
           /\ k \in DOMAIN hn.value[s]
           /\ k \notin Users \/ s \notin AllOf(a.stops) => hn.value[s][k] = h.value[s][k]
    BY <1>6, <1>7, <2>4, AtopIs
  <2>6. ASSUME NEW f \in Fields, NEW s \in Stops \cap AllOf(a.stops)
        PROVE  hn.value[s][User(f)] = MeantFor(h, a, f)
    <3>1. hn.value[s] = Atop(a.data, h1.value[s]) /\ h1.value[s] = Atop(fill, h.value[s])
      BY <1>4, <1>6
    <3>2. CASE User(f) \in DOMAIN a.data
      BY <2>2, <3>1, <3>2, AtopIs
    <3>3. CASE User(f) \notin DOMAIN a.data
      <4>1. User(f) \in DOMAIN h1.value[s] /\ h1.value[s][User(f)] = Default[f]
        BY <2>3, <3>1, <3>3, AtopIs
      <4> QED
        BY <2>2, <3>1, <3>3, <4>1, AtopIs
    <3> QED
      BY <3>2, <3>3
  <2>7. WriteRead(w, a) = Emit([w EXCEPT !.h = hn], WriteOp(a.stops, gids, a.data, a.read))
    BY <1>1, <1>2, <1>9 DEF hn
  <2>8. WrittenAs(w, a, hn, a.data)
    BY <1>4, <1>6, <1>7, <2>1, <2>2, <2>5, <2>6, <2>7 DEF WrittenAs
  <2> QED
    BY <2>8
<1> QED
  BY <1>8, <1>9

LEMMA WriteReadRecalls ==
  ASSUME NEW conf, NEW n0, NEW w, NEW bank, Recalls(conf, n0, w, bank),
         NEW a, GroupsOk(w.h, a), Writable(a)
  PROVE  Recalls(conf, n0, WriteRead(w, a), bank)
<1> DEFINE h == w.h
           gids == GroupsOf(h, a)
           v == [k \in Users |-> MeantFor(h, a, k[2])]
<1>1. DOMAIN w = WorkParts /\ DOMAIN h = BookParts /\ h.bank = bank /\ ZeroUnknown(h)
  BY DEF Recalls
<1>0. PICK h2, data : WrittenAs(w, a, h2, data)
  BY <1>1, WriteRecalled
<1>2. /\ WriteRead(w, a) = Emit([w EXCEPT !.h = h2], WriteOp(a.stops, gids, data, a.read))
      /\ DOMAIN h2 = BookParts /\ h2.bank = h.bank /\ h2.members = h.members
      /\ DOMAIN data \subseteq Users /\ (Fields # {} => DOMAIN data # {})
      /\ DOMAIN h2.value = Stops
      /\ \A s \in Stops : \A k \in RegFields : k \in DOMAIN h.value[s] =>
            /\ k \in DOMAIN h2.value[s]
            /\ k \notin Users \/ s \notin AllOf(a.stops) => h2.value[s][k] = h.value[s][k]
      /\ \A f \in Fields :
            /\ \A s \in Stops \cap AllOf(a.stops) : h2.value[s][User(f)] = MeantFor(h, a, f)
            /\ MeantFor(h, a, f) = IF User(f) \in DOMAIN data THEN data[User(f)] ELSE Default[f]
  BY <1>0 DEF WrittenAs
<1>3. \A f \in Fields : v[User(f)] = MeantFor(h, a, f) /\ v[User(f)] # None
  <2>1. \A f \in Fields : User(f) \in Users /\ User(f)[2] = f
    BY DEF Users, User
  <2> QED
    BY <2>1, MeantIs
<1>4. \A i \in 1..Len(a.stops) : gids[i] # 0
  <2>1. Len(gids) = Len(a.stops) /\ \A g \in AllOf(gids) : h.members[g].known
    BY DEF GroupsOk, Match
  <2>2. 0 \notin AllOf(gids)
    BY <1>1, <2>1 DEF ZeroUnknown
  <2> HIDE DEF gids
  <2> QED
    BY <2>1, <2>2 DEF AllOf
<1> HIDE DEF v, gids, h
<1>5. ASSUME NEW net, NEW n2, Faithful(conf, h, net), WrittenTo(net, n2, a.stops, gids, data)
      PROVE  Faithful(conf, h2, n2)
  <2>1. \A s \in Stops : \A k \in RegFields :
            /\ k \in DOMAIN h2.value[s]
            /\ h2.value[s][k] = IF s \in AllOf(a.stops) /\ k \in Users THEN v[k] ELSE h.value[s][k]
    <3> TAKE s \in Stops
    <3> TAKE k \in RegFields
    <3>1. k \in DOMAIN h.value[s]
      BY <1>5 DEF Faithful
    <3>2. CASE k \in Users /\ s \in AllOf(a.stops)
      <4>1. PICK f \in Fields : k = User(f)
        BY <3>2 DEF Users
      <4>2. h2.value[s][User(f)] = MeantFor(h, a, f)
        BY <1>2, <3>2
      <4> QED
        BY <1>2, <1>3, <3>1, <3>2, <4>1, <4>2
    <3>3. CASE k \notin Users \/ s \notin AllOf(a.stops)
      BY <1>2, <3>1, <3>3
    <3> QED
      BY <3>2, <3>3
  <2>2. \A f \in Fields : /\ v[User(f)] # None
                          /\ v[User(f)] = IF User(f) \in DOMAIN data THEN data[User(f)] ELSE Default[f]
    BY <1>2, <1>3
  <2>3. /\ DOMAIN data \subseteq Users /\ (Fields # {} => DOMAIN data # {})
        /\ h2.bank = h.bank /\ DOMAIN h2.value = Stops
    BY <1>2
  <2>4. AllSay(h, h2, a.stops, gids, data, v)
    BY <1>4, <2>1, <2>2, <2>3 DEF AllSay
  <2> QED
    BY <1>5, <2>4, UsersRecalled
<1>6. DOMAIN h2 = BookParts /\ h2.bank = bank /\ ZeroUnknown(h2)
  BY <1>1, <1>2 DEF ZeroUnknown
<1>7. Recalls(conf, n0, Emit([w EXCEPT !.h = h2], WriteOp(a.stops, gids, data, a.read)), bank)
  BY <1>5, <1>6, SendRecalls DEF h
<1> QED
  BY <1>2, <1>7

(***************************************************************************)
(* An action: from what was known when it began.                           *)
(***************************************************************************)
LEMMA BegunRecalls ==
  ASSUME NEW conf, NEW h, DOMAIN h = BookParts, h.bank \in Books, ZeroUnknown(h),
         NEW net, DOMAIN net = NetParts, net.lost = FALSE, Faithful(conf, h, net)
  PROVE  Recalls(conf, net, Begun(conf, h), h.bank)
<1> DEFINE w == Begun(conf, h)
           C == [x \in Hubs |-> [g \in Gids \ {0} |-> 0]]
           tr == [i \in {0} |-> net]
<1>1. w.ops = <<>> /\ w.te = conf /\ w.h = h /\ DOMAIN w = WorkParts
  BY DEF Begun, WorkParts
<1> HIDE DEF w
<1>2. <<>> \in Seq({}) /\ Len(<<>>) = 0
  OBVIOUS
<1>3. tr[0] = net /\ \A i \in 1..0 : tr[i] = OnNetwork(conf, tr[i - 1], (<<>>)[i])
  OBVIOUS
<1> HIDE DEF tr
<1>4. NetRun(conf, net, <<>>, net)
  BY <1>2, <1>3 DEF NetRun
<1>5. Recalls(conf, net, w, h.bank)
  BY <1>1, <1>4 DEF Recalls
<1> QED
  BY <1>5 DEF w

LEMMA ActionRecalls ==
  ASSUME NEW conf, NEW h, DOMAIN h = BookParts, h.bank \in Books, ZeroUnknown(h),
         NEW net, DOMAIN net = NetParts, net.lost = FALSE, Faithful(conf, h, net),
         NEW a, WellTyped(a), OpOk(h, a), a.op = "write_read" => Writable(a)
  PROVE  RecallsAny(conf, net, VerifyStf(conf, h, a))
<1> DEFINE w0 == Begun(conf, h)
           w1 == OpOf(w0, a)
           bank == h.bank
<1>1. w0.h = h
  BY DEF Begun
<1>2. VerifyStf(conf, h, a) = Waiting(w1, a.wait)
  BY DEF VerifyStf
<1>3. Recalls(conf, net, w0, bank)
  BY BegunRecalls
<1> HIDE DEF w0, bank
<1>4. RecallsAny(conf, net, w0)
  BY <1>3 DEF RecallsAny
<1>5. RecallsAny(conf, net, w1)
  <2>1. CASE a.op = "select"
    <3>1. Typed(a)
      BY <2>1 DEF Typed, WellTyped, OpOk, SelectOk
    <3> QED
      BY <1>3, <2>1, <3>1, SelectRecalls DEF OpOf
  <2>2. CASE a.op = "null"
    BY <1>4, <2>2, NullsRecall DEF OpOf
  <2>3. CASE a.op \in {"nop", "replace"}
    BY <1>4, <2>3, PacketsRecall DEF OpOf
  <2>4. CASE a.op = "map_usrop"
    BY <1>3, <2>4, UsropsRecall DEF OpOf
  <2>5. CASE a.op = "write_read"
    <3>1. GroupsOk(w0.h, a)
      BY <1>1, <2>5 DEF OpOk
    <3>2. Recalls(conf, net, WriteRead(w0, a), bank)
      BY <1>3, <2>5, <3>1, WriteReadRecalls
    <3> QED
      BY <2>5, <3>2 DEF OpOf, RecallsAny
  <2> QED
    BY <2>1, <2>2, <2>3, <2>4, <2>5 DEF WellTyped, StfOps
<1> HIDE DEF w1
<1>6. RecallsAny(conf, net, Nulls(w1, a.wait))
  BY <1>5, NullsRecall
<1> QED
  BY <1>2, <1>5, <1>6 DEF Waiting

\* A write ends with the fields of its stops remembered as it means them.
LEMMA WriteMeans ==
  ASSUME NEW conf, NEW h, DOMAIN h = BookParts,
         NEW a, OpOk(h, a), a.op = "write_read", Writable(a), a.stops \in Seq(Stops)
  PROVE  /\ a.stops[1] \in Stops
         /\ \A f \in Fields :
              VerifyStf(conf, h, a).h.value[a.stops[1]][User(f)] = MeantFor(h, a, f)
<1> DEFINE w == Begun(conf, h)
           v == WriteRead(w, a)
           s == a.stops[1]
<1>1. DOMAIN w = WorkParts /\ w.h = h
  BY DEF Begun, WorkParts
<1> HIDE DEF w
<1>2. PICK h2, data : WrittenAs(w, a, h2, data)
  BY <1>1, WriteRecalled
<1>3. a.stops # <<>>
  BY DEF OpOk, GroupsOk, Match
<1>4. s \in Stops \cap AllOf(a.stops)
  BY <1>3 DEF AllOf
<1>5. \A f \in Fields : h2.value[s][User(f)] = MeantFor(h, a, f)
  BY <1>1, <1>2, <1>4 DEF WrittenAs
<1> DEFINE w1 == [w EXCEPT !.h = h2]
           op == WriteOp(a.stops, GroupsOf(w.h, a), data, a.read)
<1>6. v = Emit(w1, op)
  BY <1>2 DEF WrittenAs
<1>7. w1.h = h2 /\ DOMAIN w1 = WorkParts
  BY <1>1 DEF WorkParts
<1> HIDE DEF w1, op
<1>8. v.h = h2 /\ DOMAIN v = WorkParts
  BY <1>6, <1>7 DEF Emit, WorkParts
<1> HIDE DEF v
<1>9. Waiting(v, a.wait).h = h2
  BY <1>8 DEF Waiting, Nulls, Emit, WorkParts
<1>10. VerifyStf(conf, h, a) = Waiting(v, a.wait)
  BY DEF VerifyStf, OpOf, v, w
<1> HIDE DEF s
<1>11. VerifyStf(conf, h, a).h = h2
  BY <1>9, <1>10
<1> QED
  BY <1>4, <1>5, <1>11 DEF s

(***************************************************************************)
(* What the ops of an action make of the registers, they make of those of  *)
(* the DUT; where SPF programs the network, selections change none.        *)
(***************************************************************************)
LEMMA QuietRun ==
  ASSUME NEW conf, NEW n0, DOMAIN n0 = NetParts, NEW ops, NEW net, NetRun(conf, n0, ops, net),
         \A i \in 1..Len(ops) : ops[i].op # "write_read"
  PROVE  net.value = n0.value /\ net.lost = n0.lost
<1> DEFINE n == Len(ops)
<1>1. n \in Nat
  BY DEF NetRun
<1>2. PICK tr : /\ tr[0] = n0 /\ net = tr[n]
                /\ \A i \in 1..n : tr[i] = OnNetwork(conf, tr[i - 1], ops[i])
  BY DEF NetRun
<1> DEFINE P == {i \in 0..n : /\ DOMAIN tr[i] = NetParts
                              /\ tr[i].value = n0.value /\ tr[i].lost = n0.lost}
<1>3. 0 \in P
  BY <1>1, <1>2
<1>4. ASSUME NEW i \in 1..n, i - 1 \in P PROVE i \in P
  <2> DEFINE q == tr[i - 1]
             op == ops[i]
             q2 == OnNetwork(conf, q, op)
  <2>1. DOMAIN q = NetParts /\ q.value = n0.value /\ q.lost = n0.lost /\ i \in 0..n
    BY <1>4
  <2>2. tr[i] = q2 /\ op.op # "write_read"
    BY <1>2
  <2> HIDE DEF q, op, n
  <2>3. DOMAIN q2 = NetParts
    BY <2>1, NetShape
  <2>4. q2.value = q.value /\ q2.lost = q.lost
    BY <2>1, <2>2, NetQuiet
  <2> HIDE DEF q2
  <2> QED
    BY <2>1, <2>2, <2>3, <2>4
<1>5. \A i \in 0..n : i \in P
  <2> HIDE DEF P, n
  <2> QED
    BY <1>1, <1>3, <1>4, Ro!BoundedInduction
<1>6. n \in P
  BY <1>1, <1>5
<1> QED
  BY <1>2, <1>6

LEMMA SelectsOnly ==
  ASSUME NEW conf, conf.network, NEW net, DOMAIN net = NetParts, NEW t, NEW S, NEW ops \in Seq(S),
         \A i \in 1..Len(ops) : ops[i].op = "select"
  PROVE  RunOps([te |-> conf, net |-> net, track |-> t], ops).net.value = net.value
<1> DEFINE n == Len(ops)
           r0 == [te |-> conf, net |-> net, track |-> t]
           is == [i \in 1..n |-> i]
<1>1. n \in Nat
  OBVIOUS
<1>2. RunOps(r0, ops) = Ro!Fold(ops, ops, r0, is)
  BY DEF RunOps, RunOpIn, FoldLeft, MapThenFoldSet, Max, Ro!Fold, Ro!Top
<1>3. PICK f : Ro!Steps(f, ops, ops, r0, is, n) /\ Ro!Fold(ops, ops, r0, is) = f[n]
  <2>1. DOMAIN is = 1..n
    OBVIOUS
  <2> HIDE DEF is, r0, n
  <2> QED
    BY <1>1, <2>1, Ro!FoldSteps
<1> DEFINE Good(q) == /\ DOMAIN q = {"te", "net", "track"} /\ q.te = conf
                      /\ DOMAIN q.net = NetParts /\ q.net.value = net.value
           P == {i \in 0..n : Good(f[i])}
<1>4. 0 \in P
  <2>1. f[0] = r0
    BY <1>3 DEF Ro!Steps
  <2>2. r0.te = conf /\ r0.net = net /\ DOMAIN r0 = {"te", "net", "track"}
    OBVIOUS
  <2> HIDE DEF r0, n
  <2> QED
    BY <1>1, <2>1, <2>2
<1>5. ASSUME NEW i \in 1..n, i - 1 \in P PROVE i \in P
  <2> DEFINE q == f[i - 1]
             op == ops[i]
             t2 == Tracked(q.track, op)
             gr2 == IF op.mode = Reset THEN {} ELSE IF Prints(ops, i) THEN Grouping(t2)
                    ELSE q.net.grouping
             net2 == [q.net EXCEPT !.grouping = gr2]
             q2 == [q EXCEPT !.track = t2, !.net = net2]
  <2>1. f[i] = RunOp(q, ops, i)
    <3> HIDE DEF n
    <3> QED
      BY <1>3 DEF Ro!Steps, RunOpIn
  <2>2. Good(q) /\ i \in 0..n /\ op.op = "select"
    BY <1>5
  <2>3. RunOp(q, ops, i) = q2
    BY <2>2 DEF RunOp
  <2> HIDE DEF q, op, t2, gr2
  <2>4. DOMAIN net2 = NetParts /\ net2.value = net.value
    BY <2>2 DEF NetParts
  <2> HIDE DEF net2
  <2>5. Good(q2)
    BY <2>2, <2>4
  <2> HIDE DEF Good, q2, n
  <2> QED
    BY <2>1, <2>2, <2>3, <2>5
<1>6. \A i \in 0..n : i \in P
  <2> HIDE DEF P, n
  <2> QED
    BY <1>1, <1>4, <1>5, Ro!BoundedInduction
<1>7. n \in P
  BY <1>1, <1>6
<1> QED
  BY <1>2, <1>3, <1>7

LEMMA ToldValues ==
  ASSUME NEW conf, conf.network, NEW h, DOMAIN h = BookParts, NEW t, NEW net, ToldNet(h.bank, t, net),
         NEW a, WellTyped(a), OpOk(h, a), a.op = "select" => a.wait = 0,
         NEW n2, NetRun(conf, net, VerifyStf(conf, h, a).ops, n2)
  PROVE  LET w == VerifyStf(conf, h, a)
             o == RunOps([te |-> conf, net |-> net, track |-> t], w.ops)
         IN  o.net.value = n2.value /\ n2.lost = FALSE
<1> DEFINE w == VerifyStf(conf, h, a)
           o == RunOps([te |-> conf, net |-> net, track |-> t], w.ops)
<1>1. CASE a.op = "select"
  <2>1. Typed(a) /\ SelectOk(h, a) /\ h.bank \in Books
    BY <1>1 DEF Typed, WellTyped, OpOk, SelectOk, ToldNet
  <2>2. w = Select(Begun(conf, h), a)
    BY <1>1 DEF VerifyStf, OpOf, Waiting
  <2>3. Taken(Select(Begun(conf, h), a), a, conf, Len(a.stops))
    <3>1. LET v == Select(Begun(conf, h), a)
          IN  \E hs : /\ hs[0] = h.bank /\ Travel(hs, a, Len(a.stops))
                      /\ hs[Len(a.stops)] = v.h.bank
                      /\ \A i \in 0..Len(a.stops) : hs[i] \in Books
                      /\ Taken(v, a, conf, Len(a.stops))
      BY <1>1, <2>1, SelectTravels
    <3> QED
      BY <3>1
  <2> HIDE DEF w
  <2>4. \E S : w.ops \in Seq(S)
    BY <2>2, <2>3 DEF Taken
  <2>5. \A i \in 1..Len(w.ops) : w.ops[i].op = "select"
    <3>1. Len(w.ops) = Len(a.stops) /\ \A i \in 1..Len(a.stops) : w.ops[i] = MoveOf(a, i)
      BY <2>2, <2>3 DEF Taken
    <3>2. \A i : MoveOf(a, i).op = "select"
      BY DEF MoveOf, Noted, SelectOp
    <3> QED
      BY <3>1, <3>2
  <2>6. DOMAIN net = NetParts /\ net.lost = FALSE
    BY DEF ToldNet
  <2>7. NetRun(conf, net, w.ops, n2)
    BY DEF w
  <2>8. n2.value = net.value /\ n2.lost = net.lost
    BY <2>5, <2>6, <2>7, QuietRun
  <2>9. o.net.value = net.value
    BY <2>4, <2>5, <2>6, SelectsOnly
  <2> HIDE DEF o
  <2> QED
    BY <2>6, <2>8, <2>9 DEF o, w
<1>2. CASE a.op # "select"
  <2>0. PICK C : Seen(conf, net, w, h.bank, h.count, net.bank, C)
    BY <1>2, ToldPlain
  <2>1. \A i \in 1..Len(w.ops) : w.ops[i].op # "select"
    BY <2>0 DEF Seen
  <2>2. PICK n3 : NetRun(conf, net, w.ops, n3) /\ n3.lost = FALSE
    <3> HIDE DEF w
    <3> QED
      BY <2>0 DEF Seen
  <2>3. NetRun(conf, net, w.ops, n2)
    OBVIOUS
  <2> HIDE DEF w
  <2>4. o.net = n2 /\ o.net = n3
    BY <2>1, <2>2, <2>3, RunsAll
  <2> HIDE DEF o
  <2> QED
    BY <2>2, <2>4 DEF o, w
<1> QED
  BY <1>1, <1>2

\* Between two actions of a script that only writes, and in the step of one.
RegKnown(conf, k, d) == Faithful(conf, k.stf, d.net) /\ ZeroUnknown(k.stf)
KeptBy(a, d, d2) ==
    a.op = "write_read" /\ a.incremental =>
        \A f \in Fields : User(f) \notin DOMAIN a.data =>
            d2.net.value[a.stops[1]][User(f)] = d.net.value[a.stops[1]][User(f)]

\* An incremental write sends the fields that it does not name again as they are
\* remembered, which is as they are, and they are remembered so again.
LEMMA FieldsKept ==
  ASSUME family = "STF", NEW k, NEW d, DOMAIN k.stf = BookParts, RegKnown(te, k, d),
         NEW a, a.op = "write_read", a.incremental, Writable(a), a.stops \in Seq(Stops),
         OpOk(k.stf, a), NEW k2, NEW d2, RegKnown(te, k2, d2), k2.stf = VerifyStf(te, k.stf, a).h
  PROVE  KeptBy(a, d, d2)
<1> DEFINE s == a.stops[1]
           h == k.stf
<1>1. s \in Stops /\ \A f \in Fields : k2.stf.value[s][User(f)] = MeantFor(h, a, f)
  BY WriteMeans
<1> SUFFICES ASSUME NEW f \in Fields, User(f) \notin DOMAIN a.data
             PROVE  d2.net.value[s][User(f)] = d.net.value[s][User(f)]
  BY DEF KeptBy
<1> HIDE DEF s
<1>2. MeantFor(h, a, f) = Current(h, s, f, TRUE) /\ MeantFor(h, a, f) # None
  BY MeantIs DEF MeantFor, s
<1>3. User(f) \in RegFields
  BY FieldFacts
<1>4. d2.net.value[s][User(f)] = MeantFor(h, a, f)
  <2> DEFINE h2 == k2.stf
             n2 == d2.net
  <2>1. Faithful(te, h2, n2) /\ s \in Stops /\ h2.value[s][User(f)] = MeantFor(h, a, f)
    BY <1>1 DEF RegKnown
  <2> HIDE DEF h2, n2, h
  <2>2. h2.value[s][User(f)] # None => n2.value[s][User(f)] = h2.value[s][User(f)]
    BY <1>3, <2>1 DEF Faithful
  <2>3. n2.value[s][User(f)] = MeantFor(h, a, f)
    BY <1>2, <2>1, <2>2
  <2> QED
    BY <2>3 DEF n2
<1>5. d.net.value[s][User(f)] = Current(h, s, f, TRUE)
  BY <1>1, <1>3 DEF RegKnown, Faithful, Current
<1> QED
  BY <1>2, <1>4, <1>5

LEMMA RegStep ==
  ASSUME family = "STF", family \in DOMAIN Actions, NEW k, NEW d, Shaped(k, d),
         NetKnown(k, d), RegKnown(te, k, d),
         NEW a \in Actions[family], WritingStf(a), ~Do(k, d, a).bad
  PROVE  /\ RegKnown(te, Do(k, d, a).know, Do(k, d, a).dut)
         /\ KeptBy(a, d, Do(k, d, a).dut)
<1> DEFINE h == k.stf
           net == d.net
           w == VerifyStf(te, h, a)
           o == RunOps([te |-> te, net |-> net, track |-> k.track], w.ops)
           r == Do(k, d, a)
<1>1. WellTyped(a) /\ SoundStf(a)
  BY ArgumentAssumption DEF WellTyped, WritingStf
<1>2. a.op = "write_read" => Writable(a)
  <2> SUFFICES ASSUME a.op = "write_read" PROVE Writable(a)
    OBVIOUS
  <2>1. /\ DOMAIN a.data \subseteq {User(f) : f \in Fields} \cup {Part(f) : f \in Fields}
        /\ \A x \in DOMAIN a.data : a.data[x] \in Nat
        /\ a.whole => {User(f) : f \in Fields} \subseteq DOMAIN a.data
    BY ArgumentAssumption
  <2> QED
    BY <2>1 DEF Writable, WritingStf, Users
<1>3. OpOk(h, a) /\ r.know.stf = w.h /\ r.know.track = o.track /\ r.dut.net = o.net
  BY StfDone
<1>4. DOMAIN h = BookParts /\ h.bank \in Books /\ DOMAIN net = NetParts /\ net.lost = FALSE
  BY DEF NetKnown, OwnNet, ToldNet, Sound
<1>5. Faithful(te, h, net) /\ ZeroUnknown(h)
  BY DEF RegKnown
<1>6. RecallsAny(te, net, VerifyStf(te, h, a))
  <2> HIDE DEF h, net
  <2> QED
    BY <1>1, <1>2, <1>3, <1>4, <1>5, ActionRecalls
<1>7. PICK bank : Recalls(te, net, w, bank)
  BY <1>6 DEF RecallsAny
<1> HIDE DEF w
<1>8. PICK n2 : /\ NetRun(te, net, w.ops, n2) /\ DOMAIN n2 = NetParts
                /\ n2.lost \in BOOLEAN
                /\ n2.lost = FALSE => Faithful(te, w.h, n2)
  BY <1>7 DEF Recalls
<1>9. ZeroUnknown(w.h)
  BY <1>7 DEF Recalls
<1>10. o.net.value = n2.value /\ n2.lost = FALSE
  <2>1. CASE te.network
    <3>1. ToldNet(h.bank, k.track, net)
      BY <2>1 DEF NetKnown
    <3>2. a.op = "select" => a.wait = 0
      BY <1>1, <2>1 DEF SoundStf, Tells
    <3> DEFINE v == VerifyStf(te, h, a)
               t == k.track
               q == RunOps([te |-> te, net |-> net, track |-> t], v.ops)
    <3> HIDE DEF h, net
    <3>3. NetRun(te, net, v.ops, n2)
      BY <1>8 DEF w
    <3>4. ToldNet(h.bank, t, net) /\ WellTyped(a) /\ OpOk(h, a) /\ DOMAIN h = BookParts
      BY <1>1, <1>3, <1>4, <3>1
    <3>5. q = o
      BY DEF w
    <3> HIDE DEF t, o
    <3>6. q.net.value = n2.value /\ n2.lost = FALSE
      BY <2>1, <3>2, <3>3, <3>4, ToldValues
    <3> HIDE DEF q
    <3> QED
      BY <3>5, <3>6
  <2>2. CASE ~te.network
    <3>1. OwnNet(r.know, r.dut)
      BY <1>1, <2>2, NetStep DEF NetKnown
    <3>2. r.dut.net.lost = FALSE
      BY <3>1 DEF OwnNet
    <3> HIDE DEF net, r
    <3>3. RunOps([te |-> te, net |-> net, track |-> k.track], w.ops).net = n2
      BY <1>8, <2>2, RunsAll
    <3> HIDE DEF o
    <3>4. o.net = n2
      BY <3>3 DEF o
    <3> QED
      BY <1>3, <3>2, <3>4
  <2> QED
    BY <2>1, <2>2
<1> HIDE DEF o, r
<1>11. Faithful(te, w.h, r.dut.net)
  BY <1>3, <1>8, <1>10 DEF Faithful
<1>12. RegKnown(te, r.know, r.dut)
  BY <1>3, <1>9, <1>11 DEF RegKnown
<1>13. KeptBy(a, d, r.dut)
  <2>1. CASE a.op = "write_read" /\ a.incremental
    <3>1. r.know.stf = VerifyStf(te, k.stf, a).h /\ OpOk(k.stf, a) /\ DOMAIN k.stf = BookParts
      BY <1>3, <1>4 DEF w
    <3>2. a.stops \in Seq(Stops)
      BY <1>1 DEF WellTyped
    <3> QED
      BY <1>2, <1>12, <2>1, <3>1, <3>2, FieldsKept
  <2> QED
    BY <2>1 DEF KeptBy
<1> QED
  BY <1>12, <1>13 DEF r

LEMMA NothingRecalled ==
  ASSUME NEW conf, NEW k, NEW d, k.stf = NoHistory, d.net = NoNetwork
  PROVE  RegKnown(conf, k, d)
<1> DEFINE reset == [f \in RegFields |-> IF f[1] = "user" THEN Default[f[2]] ELSE 0]
           none == [f \in RegFields |-> None]
<1>1. /\ NoHistory.value = [s \in Stops |-> none]
      /\ NoHistory.members = [g \in Gids |-> [known |-> FALSE, of |-> {}]]
      /\ NoNetwork.value = [s \in Stops |-> reset]
  BY DEF NoHistory, NoNetwork
<1>2. ZeroUnknown(NoHistory)
  BY <1>1, GidFacts DEF ZeroUnknown
<1>3. \A f \in Fields : User(f) \in RegFields /\ reset[User(f)] = Default[f]
  <2>1. \A f \in Fields : User(f)[1] = "user" /\ User(f)[2] = f
    BY DEF User
  <2> QED
    BY <2>1, FieldFacts
<1>4. \A b \in Banks : reset[Oe(b)] = 0
  <2>1. \A b \in Banks : Oe(b)[1] # "user"
    BY DEF Oe
  <2> QED
    BY <2>1, FieldFacts
<1>5. DOMAIN reset = RegFields /\ DOMAIN none = RegFields /\ \A f \in RegFields : none[f] = None
  OBVIOUS
<1> HIDE DEF reset, none
<1>6. Faithful(conf, NoHistory, NoNetwork)
  BY <1>1, <1>3, <1>4, <1>5 DEF Faithful
<1> QED
  BY <1>2, <1>6 DEF RegKnown

(***************************************************************************)
(* While a script runs that only writes.                                   *)
(***************************************************************************)
RecallInv == Running("STF") /\ resets /\ Every(WritingStf) => RegKnown(te, know, dut)
StfKept ==
    family = "STF" /\ resets /\ Every(WritingStf) =>
        \A a \in Actions[family] : Runs(a) /\ a.op = "write_read" /\ a.incremental => KeepsStf(a)

LEMMA WritingIsSound == Every(WritingStf) => Every(SoundStf)
BY DEF Every, WritingStf

LEMMA StepRecall ==
  ASSUME WellFormed, NetInv, RecallInv, [Next]_vars
  PROVE  RecallInv' /\ [StfKept]_vars
<1>0. Shaped(know, dut) /\ family \in DOMAIN Actions
  BY DEF WellFormed
<1>1. UNCHANGED <<family, resets, te>>
  BY DEF Next, Verify, BeginRun, Run, Close, vars
<1>2. RecallInv' <=> (family = "STF" /\ phase' \in {"run", "done"} /\ resets /\ Every(WritingStf)'
                        => RegKnown(te, know', dut'))
  BY <1>1 DEF RecallInv, Running, RegKnown, Faithful, ZeroUnknown
<1>3. UNCHANGED script => (Every(WritingStf)' <=> Every(WritingStf))
  BY <1>1 DEF Every, WritingStf, SoundStf, Tells
<1>4. ASSUME NEW a \in Actions[family], Verify(a) PROVE RecallInv' /\ StfKept
  <2>1. phase' \notin {"run", "done"} /\ phase = "verify"
    BY <1>4, VerifyStep
  <2> QED
    BY <1>2, <2>1 DEF StfKept, Runs
<1>5. CASE BeginRun
  <2>1. phase = "verify" /\ (resets => know'.stf = NoHistory) /\ dut'.net = NoNetwork
    BY <1>5 DEF BeginRun, InitialHistory, Ignorant, WellFormed, Untouched
  <2> DEFINE k == know'
             d == dut'
             conf == te
  <2>2. resets => k.stf = NoHistory
    BY <2>1
  <2>3. d.net = NoNetwork
    BY <2>1
  <2> HIDE DEF k, d, conf
  <2>4. resets => RegKnown(conf, k, d)
    BY <2>2, <2>3, NothingRecalled
  <2> QED
    BY <1>2, <2>1, <2>4 DEF StfKept, Runs, k, d, conf
<1>6. CASE Run
  <2> DEFINE a == script[at + 1]
             r == Do(know, dut, a)
  <2>1. /\ phase = "run" /\ at \in Nat /\ at + 1 \in 1..Len(script) /\ a \in Actions[family]
        /\ UNCHANGED script
        /\ r.bad => phase' = "failed" /\ at' = at
        /\ ~r.bad => know' = r.know /\ dut' = r.dut
    BY <1>6, RunStep
  <2>2. ASSUME family = "STF", resets, Every(WritingStf), ~r.bad
        PROVE  RegKnown(te, know', dut') /\ KeptBy(a, dut, dut')
    <3>1. WritingStf(a)
      BY <2>1, <2>2 DEF Every
    <3>2. NetKnown(know, dut) /\ RegKnown(te, know, dut)
      BY <2>1, <2>2, WritingIsSound DEF NetInv, RecallInv, Running
    <3>3. RegKnown(te, r.know, r.dut) /\ KeptBy(a, dut, r.dut)
      BY <1>0, <2>1, <2>2, <3>1, <3>2, RegStep
    <3> HIDE DEF r
    <3> QED
      BY <2>1, <2>2, <3>3
  <2>3. RecallInv'
    BY <1>2, <1>3, <2>1, <2>2
  <2>4. ASSUME family = "STF", resets, Every(WritingStf), NEW b \in Actions[family], Runs(b),
               b.op = "write_read", b.incremental
        PROVE  KeepsStf(b)
    <3>1. b = a /\ ~r.bad
      BY <2>1, <2>4 DEF Runs
    <3>2. KeptBy(b, dut, dut')
      BY <2>2, <2>4, <3>1
    <3> QED
      BY <2>4, <3>2 DEF KeptBy, KeepsStf
  <2> QED
    BY <2>3, <2>4 DEF StfKept
<1>7. CASE Close
  <2>1. phase = "done" /\ family = "SPF"
    BY <1>7 DEF Close
  <2> QED
    BY <1>2, <2>1 DEF StfKept
<1>8. CASE UNCHANGED vars
  <2>1. UNCHANGED <<phase, script, know, dut>>
    BY <1>8 DEF vars
  <2> QED
    BY <1>2, <1>3, <1>8, <2>1 DEF RecallInv, Running
<1> QED
  BY <1>4, <1>5, <1>6, <1>7, <1>8 DEF Next

LEMMA InitReached == Init => WellFormed /\ NetInv /\ RecallInv /\ KeptInv
<1> SUFFICES ASSUME Init PROVE WellFormed /\ NetInv /\ RecallInv /\ KeptInv
  OBVIOUS
<1>1. phase \in {"verify", "rejected"}
  BY DEF Init
<1> QED
  BY <1>1, InitWellFormed, InitKept DEF NetInv, RecallInv, Running

LEMMA AlwaysRecalled == Spec => [](WellFormed /\ NetInv /\ RecallInv)
<1>1. WellFormed /\ NetInv /\ RecallInv /\ [Next]_vars => (WellFormed /\ NetInv /\ RecallInv)'
  BY StepWellFormed, StepNet, StepRecall
<1> QED
  BY <1>1, InitReached, PTL DEF Spec

\* What the process remembers of the DUT is so: the groups of the stops of a
\* network, whatever was selected; the registers of the stops and of the hubs,
\* of a script that only writes, because no write is lost; the programs of the
\* breakpoint machines; and the ratio of the test clock.
THEOREM RemembersTruly == Spec => []HistoryTrue
<1>1. TruthInv /\ WellFormed /\ NetInv /\ RecallInv => HistoryTrue
  <2> SUFFICES ASSUME TruthInv, RecallInv PROVE HistoryTrue
    OBVIOUS
  <2>1. Running("STF") /\ resets /\ ~te.network => GroupsTrue
    BY DEF TruthInv, GroupsInv, Running, GroupsTrue, Agreed
  <2>2. Running("STF") /\ resets /\ Every(WritingStf) => RegistersTrue
    BY DEF RecallInv, RegKnown, Faithful, RegistersTrue
  <2>3. resets /\ Running("UBP") /\ Shareable => BreakpointsTrue
    BY DEF TruthInv, MachinesInv, Programmed, Running, BreakpointsTrue
  <2>4. Running("GEN") /\ Every(Loud) /\ Last(script).op = "restore"
          => dut.out.ratio = know.player.ratio
    BY DEF TruthInv, RatioInv, Running, Last
  <2> QED
    BY <2>1, <2>2, <2>3, <2>4 DEF HistoryTrue
<1> QED
  BY <1>1, AlwaysTrue, AlwaysRecalled, PTL

\* An incremental write leaves the fields that it does not name as they are.  On
\* an STF network they are sent again as they are remembered; in a TAP register,
\* the defaults that are shifted with what is remembered are placed where no
\* field that is written or remembered lies.
THEOREM FieldsStay == Spec => IncrementalKeeps
<1> DEFINE Keeps == resets => \A a \in Actions[family] : Runs(a) =>
              /\ family = "STF" /\ a.op = "write_read" /\ a.incremental /\ Every(WritingStf)
                   => KeepsStf(a)
              /\ family = "TAP" /\ Every(IncrementalTap) => KeepsTap(a)
<1>1. StfKept /\ TapKept => Keeps
  BY DEF StfKept, TapKept
<1> HIDE DEF Keeps
<1>2. WellFormed /\ NetInv /\ RecallInv /\ KeptInv /\ [Next]_vars
        => (WellFormed /\ NetInv /\ RecallInv /\ KeptInv)' /\ [Keeps]_vars
  BY <1>1, StepWellFormed, StepNet, StepRecall, StepKept
<1>3. Spec => [][Keeps]_vars
  BY <1>2, InitReached, PTL DEF Spec
<1> QED
  BY <1>3 DEF IncrementalKeeps, Keeps
=============================================================================
