------------------------ MODULE CollateralCacheProofs ------------------------
(***************************************************************************)
(* Theorems about CollateralCache, for any processes, dictionaries,        *)
(* permissions and faults.                                                 *)
(***************************************************************************)
EXTENDS CollateralCache, TLAPS

FirstLoop == {"acquire", "check", "load"}

-----------------------------------------------------------------------------
(***************************************************************************)
(* Types.                                                                  *)
(***************************************************************************)

\* Releasing a lock leaves the lock table a lock table.
LEMMA ReleaseType ==
    ASSUME TypeOK, NEW p \in Procs, NEW D
    PROVE  Release(p, D) \in [Dicts -> Procs \cup {None}]
BY DEF TypeOK, Release, Holds

\* The loop control keeps at and pc well typed.
LEMMA AdvanceType ==
    ASSUME TypeOK, NEW p \in Procs, NEW loop \in {"acquire", "parse"},
           Advance(p, loop)
    PROVE  /\ pc' \in [Procs -> Steps \cup Ended]
           /\ at' \in [Procs -> Dicts]
<1>1. /\ NumDicts \in Nat \ {0}
      /\ at \in [Procs -> Dicts]
      /\ pc \in [Procs -> Steps \cup Ended]
  BY CacheAssumption DEF TypeOK
<1>2. /\ 1 \in Dicts
      /\ at[p] < NumDicts => at[p] + 1 \in Dicts
  BY <1>1 DEF Dicts
<1>3. at' \in [Procs -> Dicts]
  BY <1>1, <1>2 DEF Advance
<1>4. pc' \in [Procs -> Steps \cup Ended]
  BY <1>1 DEF Advance, Steps, Ended
<1> QED BY <1>3, <1>4

\* Failing keeps the types.
LEMMA FailType ==
    ASSUME TypeOK, NEW p \in Procs, Fail(p)
    PROVE  /\ pc' \in [Procs -> Steps \cup Ended]
           /\ at' \in [Procs -> Dicts]
           /\ holder' \in [Dicts -> Procs \cup {None}]
BY ReleaseType DEF Fail, Finally, TypeOK, Ended

\* Every step keeps the types.
LEMMA TypeNext ==
    ASSUME TypeOK, [Next]_vars
    PROVE  TypeOK'
<1>1. ASSUME NEW p \in Procs, Skip(p) PROVE TypeOK'
  <2>1. pc[p] \in {"acquire", "parse"}
    BY <1>1 DEF Skip
  <2>2. /\ pc' \in [Procs -> Steps \cup Ended]
        /\ at' \in [Procs -> Dicts]
    BY <1>1, <2>1, AdvanceType DEF Skip
  <2>3. holder' \in [Dicts -> Procs \cup {None}]
    BY <1>1, ReleaseType DEF Skip, Finally, TypeOK
  <2> QED BY <1>1, <2>2, <2>3 DEF Skip, TypeOK
<1>2. ASSUME NEW p \in Procs, Acquire(p) PROVE TypeOK'
  BY <1>2 DEF Acquire, TypeOK, Steps
<1>3. ASSUME NEW p \in Procs, CarryOn(p) PROVE TypeOK'
  BY <1>3 DEF CarryOn, TypeOK, Steps
<1>4. ASSUME NEW p \in Procs, Saved(p) PROVE TypeOK'
  BY <1>4, ReleaseType DEF Saved, TypeOK, Steps
<1>5. ASSUME NEW p \in Procs, Load(p) PROVE TypeOK'
  <2>1. CASE Advance(p, "acquire") /\ UNCHANGED holder
    BY <1>5, <2>1, AdvanceType DEF Load, TypeOK
  <2>2. CASE Fail(p)
    BY <1>5, <2>2, FailType DEF Load, TypeOK
  <2> QED BY <1>5, <2>1, <2>2 DEF Load
<1>6. ASSUME NEW p \in Procs, NotSaved(p) PROVE TypeOK'
  <2>0. todo' \in [Procs -> SUBSET Dicts]
    BY <1>6 DEF NotSaved, TypeOK
  <2>1. CASE Fail(p)
    BY <1>6, <2>0, <2>1, FailType DEF NotSaved, TypeOK
  <2>2. CASE Advance(p, "acquire") /\ holder' = Kept(p, at[p])
    <3>1. holder' \in [Dicts -> Procs \cup {None}]
      BY <2>2, ReleaseType DEF Kept, TypeOK
    <3> QED BY <1>6, <2>0, <2>2, <3>1, AdvanceType DEF NotSaved, TypeOK
  <2> QED BY <1>6, <2>1, <2>2 DEF NotSaved
<1>7. ASSUME NEW p \in Procs, Parse(p) PROVE TypeOK'
  <2>1. holder' \in [Dicts -> Procs \cup {None}]
    BY <1>7, ReleaseType DEF Parse, Finally, TypeOK
  <2> QED BY <1>7, <2>1, AdvanceType DEF Parse, TypeOK
<1>8. ASSUME NEW p \in Procs, Open(p) PROVE TypeOK'
  BY <1>8 DEF Open, TypeOK, Steps
<1>9. ASSUME NEW p \in Procs, Finish(p) PROVE TypeOK'
  <2>1. holder' \in [Dicts -> Procs \cup {None}]
    BY <1>9, ReleaseType DEF Finish, Finally
  <2>2. image' \in [Dicts -> {"absent", "whole"} \cup Procs]
    BY <1>9 DEF Finish, TypeOK
  <2> QED BY <1>9, <2>1, <2>2, AdvanceType DEF Finish, TypeOK
<1>10. ASSUME NEW p \in Procs, Error(p) PROVE TypeOK'
  BY <1>10, FailType DEF Error, TypeOK
<1>11. ASSUME NEW p \in Procs, Kill(p) PROVE TypeOK'
  BY <1>11, ReleaseType DEF Kill, TypeOK, Ended
<1>12. CASE UNCHANGED vars
  BY <1>12 DEF vars, TypeOK
<1> QED
  BY <1>1, <1>2, <1>3, <1>4, <1>5, <1>6, <1>7, <1>8, <1>9, <1>10, <1>11, <1>12
     DEF Next, Proceed, Faults, AllEnded, Denied, TimeOut

\* The initial states have the right types.
LEMMA TypeInit == Init => TypeOK
BY CacheAssumption DEF Init, TypeOK, Steps, Dicts

\* Type correctness of the cache.
THEOREM CacheTypeCorrect == Spec => []TypeOK
<1>1. Init => TypeOK
  BY TypeInit
<1>2. TypeOK /\ [Next]_vars => TypeOK'
  BY TypeNext
<1> QED BY <1>1, <1>2, PTL DEF Spec
-----------------------------------------------------------------------------
(***************************************************************************)
(* What Advance and Fail do, process by process.                           *)
(***************************************************************************)
Moved(p, loop) ==
    /\ \A q \in Procs \ {p} : pc'[q] = pc[q] /\ at'[q] = at[q]
    /\ \/ /\ at[p] < NumDicts
          /\ at'[p] = at[p] + 1
          /\ pc'[p] = loop
       \/ /\ at[p] = NumDicts
          /\ at'[p] = 1
          /\ pc'[p] = IF loop = "acquire" THEN "parse" ELSE "done"

Dropped(p) ==
    /\ \A q \in Procs \ {p} : pc'[q] = pc[q] /\ at'[q] = at[q]
    /\ pc'[p] = "failed"
    /\ at'[p] = at[p]
    /\ \A d \in Dicts : holder'[d] = IF holder[d] = p THEN None ELSE holder[d]

\* Advance changes the control of its process only.
LEMMA AdvanceFacts ==
    ASSUME TypeOK, NEW p \in Procs, NEW loop \in {"acquire", "parse"},
           Advance(p, loop)
    PROVE  Moved(p, loop)
<1>1. at[p] \in 1..NumDicts /\ NumDicts \in Nat
  BY CacheAssumption DEF TypeOK, Dicts
<1>2. CASE at[p] < NumDicts
  BY <1>2 DEF Advance, TypeOK, Moved
<1>3. CASE at[p] = NumDicts
  BY <1>1, <1>3 DEF Advance, TypeOK, Moved
<1> QED BY <1>1, <1>2, <1>3

\* Failing releases every lock of its process.
LEMMA FailFacts ==
    ASSUME TypeOK, NEW p \in Procs, Fail(p)
    PROVE  Dropped(p)
BY DEF Fail, Finally, Release, Holds, TypeOK, Dropped

-----------------------------------------------------------------------------
(***************************************************************************)
(* Where the loops are.                                                    *)
(***************************************************************************)
OrderOf(p) ==
    /\ pc[p] \in FirstLoop => \A d \in todo[p] : d < at[p]
    /\ pc[p] = "write" => at[p] \in todo[p] /\ Saves(at[p])

Order == \A p \in Procs : OrderOf(p)

\* The dictionaries left to save are behind the first loop, and one is written
\* only if it was left.
LEMMA OrderNext ==
    ASSUME TypeOK, TypeOK', Order, [Next]_vars
    PROVE  Order'
<1>a. ASSUME NEW p \in Procs, Moved(p, "acquire"), pc[p] \in FirstLoop,
             \/ todo' = todo
             \/ todo' = [todo EXCEPT ![p] = @ \cup {at[p]}]
      PROVE  Order'
  <2>1. ASSUME NEW d \in todo'[p] PROVE d \in Nat /\ d <= at[p] /\ at[p] \in Nat
    BY <1>a, <2>1 DEF Order, OrderOf, TypeOK, Dicts
  <2>2. OrderOf(p)'
    BY <1>a, <2>1 DEF Moved, OrderOf, FirstLoop
  <2>3. ASSUME NEW q \in Procs \ {p} PROVE OrderOf(q)'
    BY <1>a DEF Moved, Order, OrderOf, TypeOK
  <2> QED BY <2>2, <2>3 DEF Order
<1>b. ASSUME NEW p \in Procs, Moved(p, "parse"), todo' = todo
      PROVE  Order'
  <2>2. OrderOf(p)'
    BY <1>b DEF Moved, OrderOf, FirstLoop
  <2>3. ASSUME NEW q \in Procs \ {p} PROVE OrderOf(q)'
    BY <1>b DEF Moved, Order, OrderOf
  <2> QED BY <2>2, <2>3 DEF Order
<1>c. ASSUME NEW p \in Procs, Dropped(p),
             \A q \in Procs \ {p} : todo'[q] = todo[q]
      PROVE  Order'
  BY <1>c DEF Dropped, Order, OrderOf, FirstLoop
<1>1. ASSUME NEW p \in Procs, Skip(p) PROVE Order'
  BY <1>1, <1>a, <1>b, AdvanceFacts DEF Skip, FirstLoop
<1>2. ASSUME NEW p \in Procs, Acquire(p) PROVE Order'
  BY <1>2 DEF Acquire, Order, OrderOf, FirstLoop
<1>3. ASSUME NEW p \in Procs, CarryOn(p) PROVE Order'
  BY <1>3 DEF CarryOn, Order, OrderOf, FirstLoop
<1>4. ASSUME NEW p \in Procs, Saved(p) PROVE Order'
  BY <1>4 DEF Saved, Existing, Order, OrderOf, FirstLoop
<1>5. ASSUME NEW p \in Procs, Load(p) PROVE Order'
  BY <1>5, <1>a, <1>c, AdvanceFacts, FailFacts DEF Load, FirstLoop
<1>6. ASSUME NEW p \in Procs, NotSaved(p) PROVE Order'
  <2>1. pc[p] \in FirstLoop /\ todo' = [todo EXCEPT ![p] = @ \cup {at[p]}]
    BY <1>6 DEF NotSaved, Missing, FirstLoop
  <2>2. \A q \in Procs \ {p} : todo'[q] = todo[q]
    BY <2>1 DEF TypeOK
  <2> QED BY <1>6, <2>1, <2>2, <1>a, <1>c, AdvanceFacts, FailFacts DEF NotSaved
<1>7. ASSUME NEW p \in Procs, Parse(p) PROVE Order'
  BY <1>7, <1>b, AdvanceFacts DEF Parse
<1>8. ASSUME NEW p \in Procs, Open(p) PROVE Order'
  BY <1>8 DEF Open, Order, OrderOf, FirstLoop
<1>9. ASSUME NEW p \in Procs, Finish(p) PROVE Order'
  BY <1>9, <1>b, AdvanceFacts DEF Finish
<1>10. ASSUME NEW p \in Procs, Error(p) PROVE Order'
  BY <1>10, <1>c, FailFacts DEF Error
<1>11. ASSUME NEW p \in Procs, Kill(p) PROVE Order'
  BY <1>11 DEF Kill, Order, OrderOf, FirstLoop
<1>12. CASE UNCHANGED vars
  BY <1>12 DEF vars, Order, OrderOf
<1> QED
  BY <1>1, <1>2, <1>3, <1>4, <1>5, <1>6, <1>7, <1>8, <1>9, <1>10, <1>11, <1>12
     DEF Next, Proceed, Faults, AllEnded, Denied, TimeOut

-----------------------------------------------------------------------------
(***************************************************************************)
(* The locks.                                                              *)
(***************************************************************************)
\* Is p going to write d?
Pending(p, d) ==
    /\ d \in todo[p]
    /\ pc[p] \notin Ended
    /\ pc[p] \in {"parse", "write"} => at[p] <= d

Locking ==
    \A p \in Procs :
        /\ pc[p] = "check" /\ at[p] \notin gaveUp[p] => Holds(p, at[p])
        /\ \A d \in Dicts : Pending(p, d) /\ d \notin gaveUp[p] /\ ~Unlocks(d)
                              => Holds(p, d)

\* Moving on adds nothing to what is still to be written, and leaves the
\* dictionary of the second loop behind.
LEMMA MovedPending ==
    ASSUME TypeOK, NEW p \in Procs, NEW loop \in {"acquire", "parse"},
           Moved(p, loop), todo' = todo,
           loop = "acquire" => pc[p] \in FirstLoop,
           loop = "parse" => pc[p] \in {"parse", "write"},
           NEW q \in Procs, NEW d \in Dicts, Pending(q, d)'
    PROVE  /\ Pending(q, d)
           /\ ~(q = p /\ pc[p] = "write" /\ at[p] = d)
<1>1. CASE q = p
  BY <1>1 DEF Moved, Pending, FirstLoop, Ended, TypeOK, Dicts
<1>2. CASE q # p
  BY <1>2 DEF Moved, Pending
<1> QED BY <1>1, <1>2

\* What is not saved has an entity that releases the lock.
LEMMA SavedOrUnlocked ==
    ASSUME NEW d \in Dicts, ~Saves(d)
    PROVE  Unlocks(d)
<1>1. Entities[d] \in Seq(BOOLEAN) /\ Entities[d] # <<>>
  BY CacheAssumption
<1>2. Len(Entities[d]) \in 1..Len(Entities[d])
  BY <1>1
<1> QED BY <1>2 DEF Saves, Unlocks

\* A lock is held from the look for the image until the image is written.
LEMMA LockingNext ==
    ASSUME TypeOK, TypeOK', Order, Locking, [Next]_vars
    PROVE  Locking'
<1>1. ASSUME NEW p \in Procs, Skip(p) PROVE Locking'
  <2>1. Moved(p, pc[p]) /\ pc[p] \in {"acquire", "parse"}
    BY <1>1, AdvanceFacts DEF Skip
  <2>2. ASSUME NEW q \in Procs, NEW d \in Dicts, Pending(q, d)' PROVE Pending(q, d)
    BY <1>1, <2>1, <2>2, MovedPending DEF Skip, FirstLoop
  <2>3. ASSUME NEW q \in Procs, pc'[q] = "check" PROVE pc[q] = "check" /\ at'[q] = at[q]
    BY <2>1, <2>3 DEF Moved
  <2>4. ASSUME NEW q \in Procs, NEW d \in Dicts, Holds(q, d)
        PROVE  Holds(q, d)' \/ (q = p /\ pc'[p] = "done")
    BY <1>1, <2>4 DEF Skip, Finally, Release, Holds
  <2>5. \A q \in Procs : at'[q] \in Dicts
    BY DEF TypeOK
  <2> QED BY <1>1, <2>2, <2>3, <2>4, <2>5 DEF Skip, Locking, Pending, Ended
<1>2. ASSUME NEW p \in Procs, Acquire(p) PROVE Locking'
  BY <1>2, CacheAssumption DEF Acquire, Holds, Locking, Pending, TypeOK, Ended
<1>3. ASSUME NEW p \in Procs, CarryOn(p) PROVE Locking'
  BY <1>3 DEF CarryOn, Holds, Locking, Pending, TypeOK, Ended
<1>4. ASSUME NEW p \in Procs, Saved(p) PROVE Locking'
  BY <1>4
     DEF Saved, Existing, Release, Holds, Locking, Order, OrderOf, Pending, TypeOK, Ended,
         FirstLoop, Dicts
<1>5. ASSUME NEW p \in Procs, Load(p) PROVE Locking'
  <2>0. UNCHANGED <<todo, gaveUp>> /\ pc[p] = "load"
    BY <1>5 DEF Load
  <2>1. CASE Moved(p, "acquire") /\ UNCHANGED holder
    BY <2>0, <2>1 DEF Moved, Locking, Pending, Holds, Ended
  <2>2. CASE Dropped(p)
    <3>1. at' = at
      BY <2>2 DEF Dropped, TypeOK
    <3> QED BY <2>0, <2>2, <3>1 DEF Dropped, Locking, Pending, Holds, Ended, TypeOK
  <2> QED BY <1>5, <2>1, <2>2, AdvanceFacts, FailFacts DEF Load
<1>6. ASSUME NEW p \in Procs, NotSaved(p) PROVE Locking'
  <2>1. CASE Moved(p, "acquire") /\ holder' = Kept(p, at[p])
    BY <1>6, <2>1
       DEF NotSaved, Missing, Kept, Release, Moved, Locking, Pending, Holds, Ended, TypeOK
  <2>2. CASE Dropped(p)
    BY <1>6, <2>2 DEF NotSaved, Dropped, Locking, Pending, Holds, Ended, TypeOK
  <2> QED BY <1>6, <2>1, <2>2, AdvanceFacts, FailFacts DEF NotSaved
<1>7. ASSUME NEW p \in Procs, Parse(p) PROVE Locking'
  <2>1. Moved(p, "parse")
    BY <1>7, AdvanceFacts DEF Parse
  <2>2. ASSUME NEW q \in Procs, NEW d \in Dicts, Pending(q, d)' PROVE Pending(q, d)
    BY <1>7, <2>1, <2>2, MovedPending DEF Parse, FirstLoop
  <2>3. ASSUME NEW q \in Procs, pc'[q] = "check" PROVE pc[q] = "check" /\ at'[q] = at[q]
    BY <2>1, <2>3 DEF Moved
  <2>4. ASSUME NEW q \in Procs, NEW d \in Dicts, Holds(q, d)
        PROVE  Holds(q, d)' \/ (q = p /\ pc'[p] = "done")
    BY <1>7, <2>4 DEF Parse, Finally, Release, Holds
  <2>5. \A q \in Procs : at'[q] \in Dicts
    BY DEF TypeOK
  <2> QED BY <1>7, <2>2, <2>3, <2>4, <2>5 DEF Parse, Locking, Pending, Ended
<1>8. ASSUME NEW p \in Procs, Open(p) PROVE Locking'
  BY <1>8 DEF Open, Holds, Locking, Pending, Ended
<1>9. ASSUME NEW p \in Procs, Finish(p) PROVE Locking'
  <2>1. Moved(p, "parse")
    BY <1>9, AdvanceFacts DEF Finish
  <2>2. ASSUME NEW q \in Procs, NEW d \in Dicts, Pending(q, d)'
        PROVE  Pending(q, d) /\ ~(q = p /\ at[p] = d)
    BY <1>9, <2>1, <2>2, MovedPending DEF Finish, FirstLoop
  <2>3. ASSUME NEW q \in Procs, pc'[q] = "check" PROVE pc[q] = "check" /\ at'[q] = at[q]
    BY <2>1, <2>3 DEF Moved
  <2>4. ASSUME NEW q \in Procs, NEW d \in Dicts, Holds(q, d)
        PROVE  Holds(q, d)' \/ (q = p /\ (pc'[p] = "done" \/ d = at[p]))
    BY <1>9, <2>4 DEF Finish, Finally, Release, Holds
  <2>5. \A q \in Procs : at'[q] \in Dicts
    BY DEF TypeOK
  <2>6. pc[p] = "write"
    BY <1>9 DEF Finish
  <2> QED
    BY <1>9, <2>1, <2>2, <2>3, <2>4, <2>5, <2>6
       DEF Finish, Moved, Locking, Pending, Ended
<1>10. ASSUME NEW p \in Procs, Error(p) PROVE Locking'
  BY <1>10 DEF Error, Fail, Finally, Release, Holds, Locking, Pending, TypeOK, Ended
<1>11. ASSUME NEW p \in Procs, Kill(p) PROVE Locking'
  BY <1>11 DEF Kill, Release, Holds, Locking, Pending, TypeOK, Ended
<1>12. CASE UNCHANGED vars
  BY <1>12 DEF vars, Locking, Pending, Holds
<1> QED
  BY <1>1, <1>2, <1>3, <1>4, <1>5, <1>6, <1>7, <1>8, <1>9, <1>10, <1>11, <1>12
     DEF Next, Proceed, Faults, AllEnded, Denied, TimeOut

\* And it is held for nothing else.
LEMMA LockUseNext ==
    ASSUME TypeOK, TypeOK', Order, LocksAreForWriting, [Next]_vars
    PROVE  LocksAreForWriting'
<1>1. ASSUME NEW p \in Procs, Skip(p) PROVE LocksAreForWriting'
  <2>1. Moved(p, pc[p]) /\ pc[p] \in {"acquire", "parse"}
    BY <1>1, AdvanceFacts DEF Skip
  <2>2. ASSUME NEW q \in Procs, NEW d \in Dicts, Holds(q, d)'
        PROVE  Holds(q, d) /\ ~(q = p /\ pc'[p] = "done")
    BY <1>1, <2>2, CacheAssumption DEF Skip, Finally, Release, Holds, TypeOK
  <2>3. at[p] \in Dicts /\ NumDicts \in Nat
    BY <1>1, CacheAssumption DEF Skip, TypeOK, Dicts
  <2> QED
    BY <1>1, <2>1, <2>2, <2>3
       DEF Skip, Moved, LocksAreForWriting, Dicts
<1>2. ASSUME NEW p \in Procs, Acquire(p) PROVE LocksAreForWriting'
  BY <1>2 DEF Acquire, Holds, LocksAreForWriting, TypeOK
<1>3. ASSUME NEW p \in Procs, CarryOn(p) PROVE LocksAreForWriting'
  BY <1>3 DEF CarryOn, Holds, LocksAreForWriting
<1>4. ASSUME NEW p \in Procs, Saved(p) PROVE LocksAreForWriting'
  BY <1>4, CacheAssumption DEF Saved, Existing, Release, Holds, LocksAreForWriting
<1>5. ASSUME NEW p \in Procs, Load(p) PROVE LocksAreForWriting'
  <2>0. UNCHANGED todo /\ pc[p] = "load"
    BY <1>5 DEF Load
  <2>1. CASE Moved(p, "acquire") /\ UNCHANGED holder
    BY <2>0, <2>1 DEF Moved, LocksAreForWriting, Holds, TypeOK, Dicts
  <2>2. CASE Dropped(p)
    <3>1. ASSUME NEW q \in Procs, NEW d \in Dicts, Holds(q, d)'
          PROVE  q # p /\ Holds(q, d)
      BY <2>2, <3>1, CacheAssumption DEF Dropped, Holds
    <3> QED BY <2>0, <2>2, <3>1 DEF Dropped, LocksAreForWriting
  <2> QED BY <1>5, <2>1, <2>2, AdvanceFacts, FailFacts DEF Load
<1>6. ASSUME NEW p \in Procs, NotSaved(p) PROVE LocksAreForWriting'
  <2>0. /\ todo' = [todo EXCEPT ![p] = @ \cup {at[p]}]
        /\ pc[p] = "check"
    BY <1>6 DEF NotSaved, Missing
  <2>1. CASE Moved(p, "acquire") /\ holder' = Kept(p, at[p])
    <3>1. ASSUME NEW q \in Procs, NEW d \in Dicts, holder'[d] = q
          PROVE  /\ holder[d] = q
                 /\ q = p /\ d = at[p] => ~Unlocks(d)
      BY <2>1, <3>1, CacheAssumption DEF Kept, Release, Holds, TypeOK
    <3> QED BY <2>0, <2>1, <3>1 DEF Moved, LocksAreForWriting, Holds, TypeOK, Dicts
  <2>2. CASE Dropped(p)
    BY <2>0, <2>2, CacheAssumption DEF Dropped, LocksAreForWriting, Holds, TypeOK
  <2> QED BY <1>6, <2>1, <2>2, AdvanceFacts, FailFacts DEF NotSaved
<1>7. ASSUME NEW p \in Procs, Parse(p) PROVE LocksAreForWriting'
  <2>1. Moved(p, "parse")
    BY <1>7, AdvanceFacts DEF Parse
  <2>2. ASSUME NEW q \in Procs, NEW d \in Dicts, Holds(q, d)'
        PROVE  Holds(q, d) /\ ~(q = p /\ pc'[p] = "done")
    BY <1>7, <2>2, CacheAssumption DEF Parse, Finally, Release, Holds, TypeOK
  <2>3. at[p] \in Dicts /\ NumDicts \in Nat
    BY <1>7, CacheAssumption DEF Parse, TypeOK, Dicts
  <2> QED
    BY <1>7, <2>1, <2>2, <2>3, SavedOrUnlocked
       DEF Parse, Moved, LocksAreForWriting, Dicts
<1>8. ASSUME NEW p \in Procs, Open(p) PROVE LocksAreForWriting'
  BY <1>8 DEF Open, Holds, LocksAreForWriting
<1>9. ASSUME NEW p \in Procs, Finish(p) PROVE LocksAreForWriting'
  <2>1. Moved(p, "parse")
    BY <1>9, AdvanceFacts DEF Finish
  <2>2. ASSUME NEW q \in Procs, NEW d \in Dicts, Holds(q, d)'
        PROVE  Holds(q, d) /\ ~(q = p /\ (pc'[p] = "done" \/ d = at[p]))
    BY <1>9, <2>2, CacheAssumption DEF Finish, Finally, Release, Holds, TypeOK
  <2>3. at[p] \in Dicts /\ NumDicts \in Nat
    BY <1>9, CacheAssumption DEF Finish, TypeOK, Dicts
  <2> QED
    BY <1>9, <2>1, <2>2, <2>3
       DEF Finish, Moved, LocksAreForWriting, Dicts
<1>10. ASSUME NEW p \in Procs, Error(p) PROVE LocksAreForWriting'
  BY <1>10, CacheAssumption DEF Error, Fail, Finally, Release, Holds, LocksAreForWriting
<1>11. ASSUME NEW p \in Procs, Kill(p) PROVE LocksAreForWriting'
  BY <1>11, CacheAssumption DEF Kill, Release, Holds, LocksAreForWriting
<1>12. CASE UNCHANGED vars
  BY <1>12 DEF vars, LocksAreForWriting, Holds
<1> QED
  BY <1>1, <1>2, <1>3, <1>4, <1>5, <1>6, <1>7, <1>8, <1>9, <1>10, <1>11, <1>12
     DEF Next, Proceed, Faults, AllEnded, Denied, TimeOut

-----------------------------------------------------------------------------
(***************************************************************************)
(* The images.                                                             *)
(***************************************************************************)
Owned ==
    \A d \in Dicts, p \in Procs :
        image[d] = p => Writing(p, d) \/ pc[p] \in {"failed", "killed"}

Existent ==
    \A p \in Procs :
        pc[p] \in {"load", "write"} => image[at[p]] # "absent"

\* Nobody who has the lock is still to write the image that p has found.
Settled ==
    \A p \in Procs, q \in Procs :
        /\ pc[p] = "load"
        /\ at[p] \notin gaveUp[p]
        /\ ~Unlocks(at[p])
        /\ Pending(q, at[p])
        => at[p] \in gaveUp[q]

Storing ==
    \A p \in Procs, d \in Dicts :
        Pending(p, d) /\ ~Bypassed(d) =>
            image[d] = IF Writing(p, d) THEN p ELSE "absent"

\* Only one process is going to write an image nobody bypasses.
LEMMA OnePending ==
    ASSUME Locking, NEW p \in Procs, NEW q \in Procs, NEW d \in Dicts,
           Pending(p, d), Pending(q, d), ~Bypassed(d)
    PROVE  p = q
BY DEF Locking, Bypassed, Holds

\* The process an image is left with is writing it, or failed or died so.
LEMMA OwnedNext ==
    ASSUME TypeOK, TypeOK', Owned, [Next]_vars
    PROVE  Owned'
<1>1. ASSUME NEW p \in Procs, Skip(p) PROVE Owned'
  <2>1. Moved(p, pc[p]) /\ pc[p] \in {"acquire", "parse"}
    BY <1>1, AdvanceFacts DEF Skip
  <2> QED BY <1>1, <2>1 DEF Skip, Moved, Owned, Writing
<1>2. ASSUME NEW p \in Procs, Acquire(p) PROVE Owned'
  BY <1>2 DEF Acquire, Owned, Writing, TypeOK
<1>3. ASSUME NEW p \in Procs, CarryOn(p) PROVE Owned'
  BY <1>3 DEF CarryOn, Owned, Writing, TypeOK
<1>4. ASSUME NEW p \in Procs, Saved(p) PROVE Owned'
  BY <1>4 DEF Saved, Existing, Owned, Writing
<1>5. ASSUME NEW p \in Procs, Load(p) PROVE Owned'
  <2>0. UNCHANGED <<todo, gaveUp, image>> /\ pc[p] = "load"
    BY <1>5 DEF Load
  <2>1. CASE Moved(p, "acquire")
    BY <2>0, <2>1 DEF Moved, Owned, Writing, TypeOK
  <2>2. CASE Dropped(p)
    BY <2>0, <2>2 DEF Dropped, Owned, Writing, TypeOK
  <2> QED BY <1>5, <2>1, <2>2, AdvanceFacts, FailFacts DEF Load
<1>6. ASSUME NEW p \in Procs, NotSaved(p) PROVE Owned'
  <2>0. /\ UNCHANGED <<gaveUp, image>>
        /\ todo' = [todo EXCEPT ![p] = @ \cup {at[p]}]
        /\ pc[p] = "check" /\ image[at[p]] = "absent"
    BY <1>6 DEF NotSaved, Missing
  <2>1. CASE Moved(p, "acquire")
    BY <2>0, <2>1 DEF Moved, Owned, Writing, TypeOK
  <2>2. CASE Dropped(p)
    BY <2>0, <2>2 DEF Dropped, Owned, Writing, TypeOK
  <2> QED BY <1>6, <2>1, <2>2, AdvanceFacts, FailFacts DEF NotSaved
<1>7. ASSUME NEW p \in Procs, Parse(p) PROVE Owned'
  <2>1. Moved(p, "parse")
    BY <1>7, AdvanceFacts DEF Parse
  <2> QED BY <1>7, <2>1 DEF Parse, Moved, Owned, Writing
<1>8. ASSUME NEW p \in Procs, Open(p) PROVE Owned'
  BY <1>8 DEF Open, Owned, Writing, TypeOK
<1>9. ASSUME NEW p \in Procs, Finish(p) PROVE Owned'
  <2>1. Moved(p, "parse")
    BY <1>9, AdvanceFacts DEF Finish
  <2>2. ASSUME NEW d \in Dicts, NEW q \in Procs, image'[d] = q
        PROVE  /\ image[d] = q
               /\ ~(q = p /\ d = at[p])
    BY <1>9, <2>2, CacheAssumption DEF Finish, TypeOK
  <2> QED BY <1>9, <2>1, <2>2 DEF Finish, Moved, Owned, Writing
<1>10. ASSUME NEW p \in Procs, Error(p) PROVE Owned'
  <2>1. Dropped(p)
    BY <1>10, FailFacts DEF Error
  <2> QED BY <1>10, <2>1 DEF Error, Dropped, Owned, Writing
<1>11. ASSUME NEW p \in Procs, Kill(p) PROVE Owned'
  BY <1>11 DEF Kill, Owned, Writing, TypeOK
<1>12. CASE UNCHANGED vars
  BY <1>12 DEF vars, Owned, Writing, TypeOK
<1> QED
  BY <1>1, <1>2, <1>3, <1>4, <1>5, <1>6, <1>7, <1>8, <1>9, <1>10, <1>11, <1>12
     DEF Next, Proceed, Faults, AllEnded, Denied, TimeOut

\* An image that was found stays.
LEMMA ExistentNext ==
    ASSUME TypeOK, TypeOK', Existent, [Next]_vars
    PROVE  Existent'
<1>1. ASSUME NEW p \in Procs, Skip(p) PROVE Existent'
  <2>1. Moved(p, pc[p]) /\ pc[p] \in {"acquire", "parse"}
    BY <1>1, AdvanceFacts DEF Skip
  <2> QED BY <1>1, <2>1 DEF Skip, Moved, Existent, TypeOK
<1>2. ASSUME NEW p \in Procs, Acquire(p) PROVE Existent'
  BY <1>2 DEF Acquire, Existent, TypeOK
<1>3. ASSUME NEW p \in Procs, CarryOn(p) PROVE Existent'
  BY <1>3 DEF CarryOn, Existent, TypeOK
<1>4. ASSUME NEW p \in Procs, Saved(p) PROVE Existent'
  BY <1>4 DEF Saved, Existing, Existent, TypeOK
<1>5. ASSUME NEW p \in Procs, Load(p) PROVE Existent'
  <2>0. UNCHANGED <<todo, gaveUp, image>> /\ pc[p] = "load"
    BY <1>5 DEF Load
  <2>1. CASE Moved(p, "acquire")
    BY <2>0, <2>1 DEF Moved, Existent, TypeOK
  <2>2. CASE Dropped(p)
    BY <2>0, <2>2 DEF Dropped, Existent, TypeOK
  <2> QED BY <1>5, <2>1, <2>2, AdvanceFacts, FailFacts DEF Load
<1>6. ASSUME NEW p \in Procs, NotSaved(p) PROVE Existent'
  <2>0. /\ UNCHANGED <<gaveUp, image>>
        /\ todo' = [todo EXCEPT ![p] = @ \cup {at[p]}]
        /\ pc[p] = "check" /\ image[at[p]] = "absent"
    BY <1>6 DEF NotSaved, Missing
  <2>1. CASE Moved(p, "acquire")
    BY <2>0, <2>1 DEF Moved, Existent, TypeOK
  <2>2. CASE Dropped(p)
    BY <2>0, <2>2 DEF Dropped, Existent, TypeOK
  <2> QED BY <1>6, <2>1, <2>2, AdvanceFacts, FailFacts DEF NotSaved
<1>7. ASSUME NEW p \in Procs, Parse(p) PROVE Existent'
  <2>1. Moved(p, "parse")
    BY <1>7, AdvanceFacts DEF Parse
  <2> QED BY <1>7, <2>1 DEF Parse, Moved, Existent, TypeOK
<1>8. ASSUME NEW p \in Procs, Open(p) PROVE Existent'
  BY <1>8, CacheAssumption DEF Open, Existent, TypeOK
<1>9. ASSUME NEW p \in Procs, Finish(p) PROVE Existent'
  <2>1. Moved(p, "parse")
    BY <1>9, AdvanceFacts DEF Finish
  <2> QED BY <1>9, <2>1 DEF Finish, Moved, Existent, TypeOK
<1>10. ASSUME NEW p \in Procs, Error(p) PROVE Existent'
  <2>1. Dropped(p)
    BY <1>10, FailFacts DEF Error
  <2> QED BY <1>10, <2>1 DEF Error, Dropped, Existent, TypeOK
<1>11. ASSUME NEW p \in Procs, Kill(p) PROVE Existent'
  BY <1>11 DEF Kill, Existent, TypeOK
<1>12. CASE UNCHANGED vars
  BY <1>12 DEF vars, Existent, TypeOK
<1> QED
  BY <1>1, <1>2, <1>3, <1>4, <1>5, <1>6, <1>7, <1>8, <1>9, <1>10, <1>11, <1>12
     DEF Next, Proceed, Faults, AllEnded, Denied, TimeOut

\* No other holder of the lock writes an image that was found under the lock.
LEMMA SettledNext ==
    ASSUME TypeOK, TypeOK', Order, Locking, Existent, Settled, [Next]_vars
    PROVE  Settled'
<1>1. ASSUME NEW p \in Procs, Skip(p) PROVE Settled'
  <2>1. Moved(p, pc[p]) /\ pc[p] \in {"acquire", "parse"}
    BY <1>1, AdvanceFacts DEF Skip
  <2>3. ASSUME NEW q \in Procs, pc'[q] = "load" PROVE pc[q] = "load" /\ at'[q] = at[q]
    BY <2>1, <2>3 DEF Moved
  <2>4. ASSUME NEW q \in Procs, NEW d \in Dicts, Pending(q, d)' PROVE Pending(q, d)
    BY <1>1, <2>1, <2>4, MovedPending DEF Skip, FirstLoop
  <2> QED BY <1>1, <2>3, <2>4 DEF Skip, Settled, TypeOK
<1>2. ASSUME NEW p \in Procs, Acquire(p) PROVE Settled'
  BY <1>2 DEF Acquire, Settled, Pending, Ended
<1>3. ASSUME NEW p \in Procs, CarryOn(p) PROVE Settled'
  BY <1>3 DEF CarryOn, Settled, Pending, Ended
<1>4. ASSUME NEW p \in Procs, Saved(p) PROVE Settled'
  BY <1>4
     DEF Saved, Existing, Settled, Order, OrderOf, Locking, Pending, Holds, FirstLoop, Ended,
         TypeOK, Dicts
<1>5. ASSUME NEW p \in Procs, Load(p) PROVE Settled'
  <2>0. UNCHANGED <<todo, gaveUp, image>> /\ pc[p] = "load"
    BY <1>5 DEF Load
  <2>1. CASE Moved(p, "acquire")
    BY <2>0, <2>1 DEF Moved, Settled, Pending, Ended
  <2>2. CASE Dropped(p)
    BY <2>0, <2>2 DEF Dropped, Settled, Pending, Ended
  <2> QED BY <1>5, <2>1, <2>2, AdvanceFacts, FailFacts DEF Load
<1>6. ASSUME NEW p \in Procs, NotSaved(p) PROVE Settled'
  <2>0. /\ UNCHANGED <<gaveUp, image>>
        /\ todo' = [todo EXCEPT ![p] = @ \cup {at[p]}]
        /\ pc[p] = "check" /\ image[at[p]] = "absent"
    BY <1>6 DEF NotSaved, Missing
  <2>1. CASE Moved(p, "acquire")
    BY <2>0, <2>1 DEF Moved, Settled, Locking, Existent, Pending, Ended
  <2>2. CASE Dropped(p)
    BY <2>0, <2>2 DEF Dropped, Settled, Pending, Ended
  <2> QED BY <1>6, <2>1, <2>2, AdvanceFacts, FailFacts DEF NotSaved
<1>7. ASSUME NEW p \in Procs, Parse(p) PROVE Settled'
  <2>1. Moved(p, "parse")
    BY <1>7, AdvanceFacts DEF Parse
  <2>3. ASSUME NEW q \in Procs, pc'[q] = "load" PROVE pc[q] = "load" /\ at'[q] = at[q]
    BY <2>1, <2>3 DEF Moved
  <2>4. ASSUME NEW q \in Procs, NEW d \in Dicts, Pending(q, d)' PROVE Pending(q, d)
    BY <1>7, <2>1, <2>4, MovedPending DEF Parse, FirstLoop
  <2> QED BY <1>7, <2>3, <2>4 DEF Parse, Settled, TypeOK
<1>8. ASSUME NEW p \in Procs, Open(p) PROVE Settled'
  BY <1>8 DEF Open, Settled, Pending, Ended
<1>9. ASSUME NEW p \in Procs, Finish(p) PROVE Settled'
  <2>1. Moved(p, "parse")
    BY <1>9, AdvanceFacts DEF Finish
  <2> QED BY <1>9, <2>1
     DEF Finish, Moved, Settled, Locking, Existent, Pending, Holds, Ended, TypeOK, Dicts
<1>10. ASSUME NEW p \in Procs, Error(p) PROVE Settled'
  <2>1. Dropped(p)
    BY <1>10, FailFacts DEF Error
  <2> QED BY <1>10, <2>1 DEF Error, Dropped, Settled, Pending, Ended
<1>11. ASSUME NEW p \in Procs, Kill(p) PROVE Settled'
  BY <1>11 DEF Kill, Settled, Pending, Ended
<1>12. CASE UNCHANGED vars
  BY <1>12 DEF vars, Settled, Pending
<1> QED
  BY <1>1, <1>2, <1>3, <1>4, <1>5, <1>6, <1>7, <1>8, <1>9, <1>10, <1>11, <1>12
     DEF Next, Proceed, Faults, AllEnded, Denied, TimeOut

\* An image nobody bypasses is absent until the one process that holds its lock
\* writes it.
LEMMA StoringNext ==
    ASSUME TypeOK, TypeOK', Order, Locking, Storing, [Next]_vars
    PROVE  Storing'
<1>1. ASSUME NEW p \in Procs, Skip(p) PROVE Storing'
  <2>1. Moved(p, pc[p]) /\ pc[p] \in {"acquire", "parse"}
    BY <1>1, AdvanceFacts DEF Skip
  <2>2. ASSUME NEW q \in Procs, NEW d \in Dicts, Pending(q, d)' PROVE Pending(q, d)
    BY <1>1, <2>1, <2>2, MovedPending DEF Skip, FirstLoop
  <2>3. ASSUME NEW q \in Procs, NEW d \in Dicts PROVE Writing(q, d)' <=> Writing(q, d)
    BY <1>1, <2>1 DEF Skip, Moved, Writing
  <2> QED BY <1>1, <2>2, <2>3 DEF Skip, Storing, Bypassed
<1>2. ASSUME NEW p \in Procs, Acquire(p) PROVE Storing'
  BY <1>2 DEF Acquire, Storing, Pending, Writing, Bypassed, Ended
<1>3. ASSUME NEW p \in Procs, CarryOn(p) PROVE Storing'
  BY <1>3 DEF CarryOn, Storing, Pending, Writing, Bypassed, Ended
<1>4. ASSUME NEW p \in Procs, Saved(p) PROVE Storing'
  BY <1>4 DEF Saved, Existing, Storing, Pending, Writing, Bypassed, Ended
<1>5. ASSUME NEW p \in Procs, Load(p) PROVE Storing'
  <2>0. UNCHANGED <<todo, gaveUp, image>> /\ pc[p] = "load"
    BY <1>5 DEF Load
  <2>1. CASE Moved(p, "acquire")
    <3>1. ASSUME NEW q \in Procs, NEW d \in Dicts, Pending(q, d)' PROVE Pending(q, d)
      BY <2>0, <2>1, <3>1, MovedPending DEF FirstLoop
    <3>2. ASSUME NEW q \in Procs, NEW d \in Dicts PROVE Writing(q, d)' <=> Writing(q, d)
      BY <2>0, <2>1 DEF Moved, Writing
    <3> QED BY <2>0, <3>1, <3>2 DEF Storing, Bypassed
  <2>2. CASE Dropped(p)
    <3>1. ASSUME NEW q \in Procs, NEW d \in Dicts, Pending(q, d)'
          PROVE  Pending(q, d) /\ (Writing(q, d)' <=> Writing(q, d))
      BY <2>0, <2>2, <3>1 DEF Dropped, Pending, Writing, Ended
    <3> QED BY <2>0, <3>1 DEF Storing, Bypassed
  <2> QED BY <1>5, <2>1, <2>2, AdvanceFacts, FailFacts DEF Load
<1>6. ASSUME NEW p \in Procs, NotSaved(p) PROVE Storing'
  <2>0. /\ UNCHANGED <<gaveUp, image>>
        /\ todo' = [todo EXCEPT ![p] = @ \cup {at[p]}]
        /\ pc[p] = "check" /\ image[at[p]] = "absent"
    BY <1>6 DEF NotSaved, Missing
  <2>1. CASE Moved(p, "acquire")
    <3>1. ASSUME NEW q \in Procs, NEW d \in Dicts PROVE Writing(q, d)' <=> Writing(q, d)
      BY <2>0, <2>1 DEF Moved, Writing
    <3>2. ASSUME NEW q \in Procs, NEW d \in Dicts, Pending(q, d)'
          PROVE  Pending(q, d) \/ (q = p /\ d = at[p])
      <4>1. CASE q = p
        BY <2>0, <3>2, <4>1 DEF Pending, Ended, TypeOK
      <4>2. CASE q # p
        BY <2>0, <2>1, <3>2, <4>2 DEF Moved, Pending, TypeOK
      <4> QED BY <4>1, <4>2
    <3> QED BY <2>0, <3>1, <3>2 DEF Storing, Bypassed, Writing
  <2>2. CASE Dropped(p)
    <3>1. ASSUME NEW q \in Procs, NEW d \in Dicts, Pending(q, d)'
          PROVE  q # p /\ Pending(q, d) /\ (Writing(q, d)' <=> Writing(q, d))
      BY <2>0, <2>2, <3>1 DEF Dropped, Pending, Writing, Ended
    <3> QED BY <2>0, <3>1 DEF Storing, Bypassed
  <2> QED BY <1>6, <2>1, <2>2, AdvanceFacts, FailFacts DEF NotSaved
<1>7. ASSUME NEW p \in Procs, Parse(p) PROVE Storing'
  <2>1. Moved(p, "parse")
    BY <1>7, AdvanceFacts DEF Parse
  <2>2. ASSUME NEW q \in Procs, NEW d \in Dicts, Pending(q, d)' PROVE Pending(q, d)
    BY <1>7, <2>1, <2>2, MovedPending DEF Parse, FirstLoop
  <2>3. ASSUME NEW q \in Procs, NEW d \in Dicts PROVE Writing(q, d)' <=> Writing(q, d)
    BY <1>7, <2>1 DEF Parse, Moved, Writing
  <2> QED BY <1>7, <2>2, <2>3 DEF Parse, Storing, Bypassed
<1>8. ASSUME NEW p \in Procs, Open(p) PROVE Storing'
  <2>1. /\ Pending(p, at[p]) /\ ~Writing(p, at[p])
        /\ at[p] \in Dicts
    BY <1>8 DEF Open, Pending, Writing, Ended, TypeOK, Dicts
  <2>2. ASSUME NEW q \in Procs, NEW d \in Dicts, Pending(q, d)' PROVE Pending(q, d)
    BY <1>8, <2>2 DEF Open, Pending, Ended, TypeOK
  <2>3. ASSUME NEW q \in Procs, NEW d \in Dicts
        PROVE  Writing(q, d)' <=> Writing(q, d) \/ (q = p /\ d = at[p])
    BY <1>8 DEF Open, Writing, TypeOK
  <2>4. ASSUME NEW d \in Dicts PROVE image'[d] = IF d = at[p] THEN p ELSE image[d]
    BY <1>8 DEF Open, TypeOK
  <2>5. ASSUME NEW q \in Procs, NEW d \in Dicts, Pending(q, d)', ~Bypassed(d)'
        PROVE  image'[d] = IF Writing(q, d)' THEN q ELSE "absent"
    <3>1. Pending(q, d) /\ ~Bypassed(d)
      BY <1>8, <2>2, <2>5 DEF Open, Bypassed
    <3>2. CASE d = at[p]
      <4>1. q = p
        BY <2>1, <3>1, <3>2, OnePending
      <4> QED BY <2>3, <2>4, <3>2, <4>1
    <3>3. CASE d # at[p]
      BY <2>3, <2>4, <3>1, <3>3 DEF Storing
    <3> QED BY <3>2, <3>3
  <2> QED BY <2>5 DEF Storing
<1>9. ASSUME NEW p \in Procs, Finish(p) PROVE Storing'
  <2>1. Moved(p, "parse") /\ pc[p] = "write"
    BY <1>9, AdvanceFacts DEF Finish
  <2>2. Pending(p, at[p]) /\ at[p] \in Dicts
    BY <2>1 DEF Order, OrderOf, Pending, Ended, TypeOK, Dicts
  <2>3. ASSUME NEW q \in Procs, NEW d \in Dicts, Pending(q, d)'
        PROVE  Pending(q, d) /\ ~(q = p /\ at[p] = d)
    BY <1>9, <2>1, <2>3, MovedPending DEF Finish, FirstLoop
  <2>4. ASSUME NEW q \in Procs, NEW d \in Dicts, ~(q = p /\ at[p] = d)
        PROVE  Writing(q, d)' <=> Writing(q, d)
    BY <2>1, <2>4 DEF Moved, Writing
  <2>5. ASSUME NEW d \in Dicts, d # at[p] PROVE image'[d] = image[d]
    BY <1>9, <2>5 DEF Finish, TypeOK
  <2>6. ASSUME NEW q \in Procs, NEW d \in Dicts, Pending(q, d)', ~Bypassed(d)'
        PROVE  image'[d] = IF Writing(q, d)' THEN q ELSE "absent"
    <3>1. Pending(q, d) /\ ~Bypassed(d)
      BY <1>9, <2>3, <2>6 DEF Finish, Bypassed
    <3>2. d # at[p]
      BY <2>2, <2>3, <2>6, <3>1, OnePending
    <3> QED BY <2>4, <2>5, <3>1, <3>2 DEF Storing
  <2> QED BY <2>6 DEF Storing
<1>10. ASSUME NEW p \in Procs, Error(p) PROVE Storing'
  <2>1. Dropped(p) /\ UNCHANGED <<todo, gaveUp, image>>
    BY <1>10, FailFacts DEF Error
  <2>2. ASSUME NEW q \in Procs, NEW d \in Dicts, Pending(q, d)'
        PROVE  Pending(q, d) /\ (Writing(q, d)' <=> Writing(q, d))
    BY <2>1, <2>2 DEF Dropped, Pending, Writing, Ended
  <2> QED BY <2>1, <2>2 DEF Storing, Bypassed
<1>11. ASSUME NEW p \in Procs, Kill(p) PROVE Storing'
  BY <1>11 DEF Kill, Storing, Pending, Writing, Bypassed, Ended
<1>12. CASE UNCHANGED vars
  BY <1>12 DEF vars, Storing, Pending, Writing, Bypassed
<1> QED
  BY <1>1, <1>2, <1>3, <1>4, <1>5, <1>6, <1>7, <1>8, <1>9, <1>10, <1>11, <1>12
     DEF Next, Proceed, Faults, AllEnded, Denied, TimeOut

-----------------------------------------------------------------------------
(***************************************************************************)
(* The theorems.                                                           *)
(***************************************************************************)
CacheInv ==
    /\ TypeOK
    /\ Order
    /\ Locking
    /\ LocksAreForWriting
    /\ Owned
    /\ Existent
    /\ Settled
    /\ Storing

\* The invariant holds when nobody has started.
LEMMA CacheInvInit == Init => CacheInv
<1> SUFFICES ASSUME Init PROVE CacheInv
  OBVIOUS
<1>1. TypeOK
  BY TypeInit
<1>2. /\ \A p \in Procs : pc[p] = "acquire" /\ todo[p] = {}
      /\ \A d \in Dicts : holder[d] \notin Procs /\ image[d] \notin Procs
  BY CacheAssumption DEF Init
<1>3. Order
  BY <1>2 DEF Order, OrderOf
<1>4. Locking
  BY <1>2 DEF Locking, Pending
<1>5. LocksAreForWriting
  BY <1>2 DEF LocksAreForWriting, Holds
<1>6. Owned /\ Existent /\ Settled
  BY <1>2 DEF Owned, Existent, Settled
<1>7. Storing
  BY <1>2 DEF Storing, Pending
<1> QED BY <1>1, <1>3, <1>4, <1>5, <1>6, <1>7 DEF CacheInv

\* Every step keeps the invariant.
LEMMA CacheInvNext == CacheInv /\ [Next]_vars => CacheInv'
BY TypeNext, OrderNext, LockingNext, LockUseNext, OwnedNext, ExistentNext, SettledNext,
   StoringNext
   DEF CacheInv

\* The cache never leaves its inductive invariant.
THEOREM CacheInvariant == Spec => []CacheInv
BY CacheInvInit, CacheInvNext, PTL DEF Spec

\* A process that writes an image holds its lock, unless it does without.
THEOREM LocksHeld == Spec => []WritersHoldLock
<1>1. CacheInv => WritersHoldLock
  <2> SUFFICES ASSUME CacheInv, NEW p \in Procs, NEW d \in Dicts,
                      Writing(p, d), d \notin gaveUp[p], ~Unlocks(d)
               PROVE  Holds(p, d)
    BY DEF WritersHoldLock
  <2>1. Pending(p, d)
    BY DEF CacheInv, Order, OrderOf, Pending, Writing, Ended, Dicts
  <2> QED BY <2>1 DEF CacheInv, Locking
<1> QED BY <1>1, CacheInvariant, PTL

\* Nobody keeps the lock of an image it is not going to write.
THEOREM LocksForWriting == Spec => []LocksAreForWriting
<1>1. CacheInv => LocksAreForWriting
  BY DEF CacheInv
<1> QED BY <1>1, CacheInvariant, PTL

\* An image that is being loaded is whole, but for a writer that failed or died
\* and for processes without the lock.
THEOREM LoadsAreWhole == Spec => []LoadsWhole
<1>1. ASSUME CacheInv, NEW p \in Procs, pc[p] = "load",
             at[p] \notin gaveUp[p], ~Unlocks(at[p]), image[at[p]] # "whole"
      PROVE  /\ image[at[p]] \in Procs
             /\ \/ pc[image[at[p]]] \in {"failed", "killed"}
                \/ at[p] \in gaveUp[image[at[p]]]
  <2>1. at[p] \in Dicts /\ image[at[p]] \in Procs
    BY <1>1 DEF CacheInv, TypeOK, Existent
  <2>2. CASE Writing(image[at[p]], at[p])
    <3>1. Pending(image[at[p]], at[p])
      BY <1>1, <2>1, <2>2 DEF CacheInv, Order, OrderOf, Pending, Writing, Ended, Dicts
    <3> QED BY <1>1, <2>1, <3>1 DEF CacheInv, Settled
  <2>3. CASE pc[image[at[p]]] \in {"failed", "killed"}
    BY <2>1, <2>3
  <2> QED BY <1>1, <2>1, <2>2, <2>3 DEF CacheInv, Owned
<1>2. ASSUME CacheInv, NEW p \in Procs, pc[p] = "load"
      PROVE  image[at[p]] \in Procs \cup {"whole"}
  BY <1>2 DEF CacheInv, TypeOK, Existent
<1>3. CacheInv => LoadsWhole
  BY <1>1, <1>2 DEF LoadsWhole
<1> QED BY <1>3, CacheInvariant, PTL

\* A step of the cache is a step of the store of images, or none.
LEMMA StoreStep ==
    ASSUME CacheInv, [Next]_vars
    PROVE  [Store!Next]_(Store!vars)
<1>1. ASSUME UNCHANGED <<image, gaveUp>> PROVE UNCHANGED Store!vars
  BY <1>1 DEF Store!vars, Bypassed
<1>2. ASSUME NEW p \in Procs, CarryOn(p) PROVE Store!Next
  <2>1. at[p] \in Dicts
    BY DEF CacheInv, TypeOK
  <2>2. \A d \in Dicts : Bypassed(d)' <=> Bypassed(d) \/ d = at[p]
    BY <1>2 DEF CarryOn, Bypassed, CacheInv, TypeOK
  <2>3. {d \in Dicts : Bypassed(d)}' = {d \in Dicts : Bypassed(d)} \cup {at[p]}
    BY <2>1, <2>2
  <2> QED BY <1>2, <2>1, <2>3 DEF CarryOn, Store!Next, Store!Bypass
<1>3. ASSUME NEW p \in Procs, Open(p) PROVE Store!Next
  <2>1. at[p] \in Dicts /\ Pending(p, at[p]) /\ ~Writing(p, at[p])
    BY <1>3 DEF Open, CacheInv, TypeOK, Pending, Writing, Ended, Dicts
  <2>2. ~Bypassed(at[p]) => image[at[p]] = "absent"
    BY <2>1 DEF CacheInv, Storing
  <2>3. {d \in Dicts : Bypassed(d)}' = {d \in Dicts : Bypassed(d)}
    BY <1>3 DEF Open, Bypassed
  <2> QED BY <1>3, <2>1, <2>2, <2>3 DEF Open, Store!Next, Store!Open
<1>4. ASSUME NEW p \in Procs, Finish(p) PROVE [Store!Next]_(Store!vars)
  <2>1. at[p] \in Dicts /\ Pending(p, at[p]) /\ Writing(p, at[p])
    BY <1>4 DEF Finish, CacheInv, TypeOK, Order, OrderOf, Pending, Writing, Ended, Dicts
  <2>2. {d \in Dicts : Bypassed(d)}' = {d \in Dicts : Bypassed(d)}
    BY <1>4 DEF Finish, Bypassed
  <2>3. CASE image' = image
    BY <2>2, <2>3 DEF Store!vars
  <2>4. CASE image' # image
    <3>1. image' = [image EXCEPT ![at[p]] = "whole"]
      BY <1>4, <2>4 DEF Finish
    <3>2. image[at[p]] \in Procs
      BY <2>1, <2>4, <3>1 DEF CacheInv, TypeOK, Existent, Writing
    <3>3. ~Bypassed(at[p]) => image[at[p]] = p
      BY <2>1 DEF CacheInv, Storing
    <3>4. Store!Close(p, at[p])
      BY <2>1, <2>2, <3>1, <3>2, <3>3 DEF Store!Close
    <3> QED BY <2>1, <3>4 DEF Store!Next
  <2> QED BY <2>3, <2>4
<1>5. ASSUME NEW p \in Procs,
             \/ Skip(p) \/ Acquire(p) \/ Saved(p) \/ Load(p) \/ NotSaved(p)
             \/ Parse(p) \/ Error(p) \/ Kill(p)
      PROVE  UNCHANGED <<image, gaveUp>>
  BY <1>5 DEF Skip, Acquire, Saved, Load, NotSaved, Parse, Error, Kill
<1>6. UNCHANGED vars => UNCHANGED <<image, gaveUp>>
  BY DEF vars
<1> QED
  BY <1>1, <1>2, <1>3, <1>4, <1>5, <1>6 DEF Next, Proceed, Faults, AllEnded, Denied, TimeOut

\* The cache implements the store of images.
THEOREM StoreImplemented == Spec => ImplementsImageStore
<1>1. Init => Store!Init
  BY DEF Init, Store!Init
<1>2. CacheInv /\ [Next]_vars => [Store!Next]_(Store!vars)
  BY StoreStep
<1> QED BY <1>1, <1>2, CacheInvariant, PTL DEF Spec, ImplementsImageStore, Store!Spec
=============================================================================
