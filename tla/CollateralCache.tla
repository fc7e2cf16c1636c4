--------------------------- MODULE CollateralCache ---------------------------
(***************************************************************************)
(* The cache of compiled collateral dictionaries: parse_all_collaterals    *)
(* (htd_info/htd_collaterals_parser.py) executed by several processes of a *)
(* site that share the directory of saved images, each image guarded by a  *)
(* lock file (htd_info/filelock.py).                                       *)
(*                                                                         *)
(* A process goes through its dictionaries twice.  The first time it takes *)
(* the lock of each image and loads the image if there is one; else it     *)
(* keeps the lock.  The second time it parses and saves what it has not    *)
(* loaded.  One FileLock object is used once per image, so the counter of  *)
(* nested locking is 1 exactly while the process holds the lock.           *)
(***************************************************************************)
EXTENDS Naturals, Sequences

CONSTANTS
  Procs,
  NumDicts,   \* dictionaries, numbered in the order of te_cfg_col_order
  Entities,   \* d -> is each entity of d to be compiled ("compile" in TE_cfg)?
  Wanted,     \* p -> dictionaries not on its exclude list
  Openers,    \* processes whose user may open the lock files for writing
  Writers,    \* processes whose user may write to the image directory
  Compilers,  \* processes where "compile_collaterals" is not switched off
  Impatient,  \* processes whose wait for a lock may time out
  None

Dicts == 1..NumDicts

ASSUME CacheAssumption ==
    /\ NumDicts \in Nat \ {0}
    /\ Entities \in [Dicts -> Seq(BOOLEAN)]
    /\ \A d \in Dicts : Entities[d] # <<>>
    /\ Wanted \in [Procs -> SUBSET Dicts]
    /\ Openers \subseteq Procs
    /\ Writers \subseteq Procs
    /\ Compilers \subseteq Procs
    /\ Impatient \subseteq Procs
    /\ None \notin Procs
    /\ Procs \cap {"absent", "whole"} = {}

VARIABLES
  pc,      \* p -> what it does next, or how it ended
  at,      \* p -> the dictionary it is at
  todo,    \* p -> not_saved_dictionaries
  gaveUp,  \* p -> dictionaries it goes on with although it got no lock
  holder,  \* d -> the process that holds the flock of d's lock file
  image    \* d -> "absent", "whole", or the last process that opened it for
           \*      writing and has not finished

vars == <<pc, at, todo, gaveUp, holder, image>>

Ended == {"done", "failed", "killed"}
Steps == {"acquire", "check", "load", "parse", "write"}

Compile(d) == \E i \in 1..Len(Entities[d]) : Entities[d][i]
\* An entity that is not compiled releases the lock, the others keep it.
Unlocks(d) == \E i \in 1..Len(Entities[d]) : ~Entities[d][i]
\* The image is saved if the entity the loop over entities ends with says so.
Saves(d) == Entities[d][Len(Entities[d])]

Holds(p, d) == holder[d] = p
Writing(p, d) == pc[p] = "write" /\ at[p] = d

-----------------------------------------------------------------------------
\* FileLock.release, and the force release of what is locked in the finally.
ReleaseAll(p, D) ==   \* mutant: releases what other objects lock
    [d \in Dicts |-> IF Holds(p, d) THEN None ELSE holder[d]]
Release(p, D) == [d \in Dicts |-> IF d \in D /\ Holds(p, d) THEN None ELSE holder[d]]

FinallyDropped(p, D) == holder   \* mutant: no finally
Finally(p, D) == Release(p, D)

\* The next dictionary of the loop, or the next loop, or the end.
AdvancePast(p, loop) ==   \* mutant: off by one
    IF at[p] <= NumDicts
      THEN /\ at' = [at EXCEPT ![p] = @ + 1]
           /\ pc' = [pc EXCEPT ![p] = loop]
      ELSE UNCHANGED <<at, pc>>
Advance(p, loop) ==
    IF at[p] < NumDicts
      THEN /\ at' = [at EXCEPT ![p] = @ + 1]
           /\ pc' = [pc EXCEPT ![p] = loop]
      ELSE /\ at' = [at EXCEPT ![p] = 1]
           /\ pc' = [pc EXCEPT ![p] = IF loop = "acquire" THEN "parse" ELSE "done"]

\* An error ends parse_all_collaterals, through its finally.
Fail(p) ==
    /\ pc' = [pc EXCEPT ![p] = "failed"]
    /\ holder' = Finally(p, Dicts)
    /\ UNCHANGED at

Skip(p) ==
    /\ \/ pc[p] = "acquire" /\ at[p] \notin Wanted[p]
       \/ pc[p] = "parse" /\ at[p] \notin todo[p]
    /\ Advance(p, pc[p])
    /\ holder' = IF pc'[p] = "done" THEN Finally(p, Dicts) ELSE holder
    /\ UNCHANGED <<todo, gaveUp, image>>

(***************************************************************************)
(* The first loop.  The lock file is polled until flock succeeds; a        *)
(* timeout and a lock file that cannot be opened raise an OSError alike,   *)
(* and the process carries on without the lock.                            *)
(***************************************************************************)
Acquire(p) ==
    /\ pc[p] = "acquire" /\ at[p] \in Wanted[p]
    /\ p \in Openers
    /\ holder[at[p]] = None
    /\ holder' = [holder EXCEPT ![at[p]] = p]
    /\ pc' = [pc EXCEPT ![p] = "check"]
    /\ UNCHANGED <<at, todo, gaveUp, image>>

CarryOn(p) ==
    /\ pc[p] = "acquire" /\ at[p] \in Wanted[p]
    /\ gaveUp' = [gaveUp EXCEPT ![p] = @ \cup {at[p]}]
    /\ pc' = [pc EXCEPT ![p] = "check"]
    /\ UNCHANGED <<at, todo, holder, image>>

Denied(p) == p \notin Openers /\ CarryOn(p)

TimeOut(p) == p \in Impatient /\ holder[at[p]] # None /\ CarryOn(p)

\* There is an image: the lock is released, and then the image is loaded.
Existing(p) == pc[p] = "check" /\ image[at[p]] # "absent"
MissingOrPartial(p) ==   \* mutant: an unfinished image counts as none
    pc[p] = "check" /\ image[at[p]] # "whole"
Missing(p) == pc[p] = "check" /\ image[at[p]] = "absent"

Saved(p) ==
    /\ Existing(p)
    /\ holder' = Release(p, {at[p]})
    /\ pc' = [pc EXCEPT ![p] = "load"]
    /\ UNCHANGED <<at, todo, gaveUp, image>>

\* An image that is not whole cannot be decoded.
Load(p) ==
    /\ pc[p] = "load"
    /\ IF image[at[p]] = "whole"
         THEN Advance(p, "acquire") /\ UNCHANGED holder
         ELSE Fail(p)
    /\ UNCHANGED <<todo, gaveUp, image>>

\* There is none: it is an error if it must be compiled and may not be.
KeptForNobody(p, d) == Release(p, {d})   \* mutant: all entities release
KeptAlways(p, d) == holder   \* mutant: no entity releases
Kept(p, d) == IF Unlocks(d) THEN Release(p, {d}) ELSE holder

NotSaved(p) ==
    /\ Missing(p)
    /\ todo' = [todo EXCEPT ![p] = @ \cup {at[p]}]
    /\ IF Compile(at[p]) /\ p \notin Compilers \cap Writers
         THEN Fail(p)
         ELSE Advance(p, "acquire") /\ holder' = Kept(p, at[p])
    /\ UNCHANGED <<gaveUp, image>>

(***************************************************************************)
(* The second loop.  An image is written in place.                         *)
(***************************************************************************)
Parse(p) ==
    /\ pc[p] = "parse" /\ at[p] \in todo[p]
    /\ ~Saves(at[p])
    /\ Advance(p, "parse")
    /\ holder' = IF pc'[p] = "done" THEN Finally(p, Dicts) ELSE holder
    /\ UNCHANGED <<todo, gaveUp, image>>

Open(p) ==
    /\ pc[p] = "parse" /\ at[p] \in todo[p]
    /\ Saves(at[p])
    /\ image' = [image EXCEPT ![at[p]] = p]
    /\ pc' = [pc EXCEPT ![p] = "write"]
    /\ UNCHANGED <<at, todo, gaveUp, holder>>

\* The bytes of an image depend on the collaterals only, so an image that two
\* processes write is whole once the last one that truncated it has finished;
\* it may be so earlier, if the others had written nothing before that.
Finish(p) ==
    /\ pc[p] = "write"
    /\ \/ image' = [image EXCEPT ![at[p]] = "whole"]
       \/ image[at[p]] # p /\ UNCHANGED image
    /\ Advance(p, "parse")
    /\ holder' = IF pc'[p] = "done" THEN Finally(p, Dicts) ELSE Release(p, {at[p]})
    /\ UNCHANGED <<todo, gaveUp>>

\* Illegal collateral, a full disk.
Error(p) ==
    /\ \/ pc[p] = "parse" /\ at[p] \in todo[p]
       \/ pc[p] = "write"
    /\ Fail(p)
    /\ UNCHANGED <<todo, gaveUp, image>>

\* The process dies at any point; the system releases its locks.
Kill(p) ==
    /\ pc[p] \notin Ended
    /\ pc' = [pc EXCEPT ![p] = "killed"]
    /\ holder' = Release(p, Dicts)
    /\ UNCHANGED <<at, todo, gaveUp, image>>

-----------------------------------------------------------------------------
Init ==
    /\ pc = [p \in Procs |-> "acquire"]
    /\ at = [p \in Procs |-> 1]
    /\ todo = [p \in Procs |-> {}]
    /\ gaveUp = [p \in Procs |-> {}]
    /\ holder = [d \in Dicts |-> None]
    /\ image \in [Dicts -> {"absent", "whole"}]

\* What the code itself goes on with.
Proceed(p) ==
    \/ Skip(p) \/ Acquire(p) \/ Denied(p) \/ Saved(p) \/ Load(p) \/ NotSaved(p)
    \/ Parse(p) \/ Open(p) \/ Finish(p)

Faults(p) == TimeOut(p) \/ Error(p) \/ Kill(p)

AllEnded == (\A p \in Procs : pc[p] \in Ended) /\ UNCHANGED vars

Next == (\E p \in Procs : Proceed(p) \/ Faults(p)) \/ AllEnded

Spec == Init /\ [][Next]_vars

(***************************************************************************)
(* Every process keeps running, and polls a lock it waits for.  No timeout *)
(* is owed to anybody.                                                     *)
(***************************************************************************)
FairSpec == Spec /\ \A p \in Procs : WF_vars(Proceed(p))
-----------------------------------------------------------------------------
(***************************************************************************)
(* Properties.                                                             *)
(***************************************************************************)

\* The types of the variables.
TypeOK ==
    /\ pc \in [Procs -> Steps \cup Ended]
    /\ at \in [Procs -> Dicts]
    /\ todo \in [Procs -> SUBSET Dicts]
    /\ gaveUp \in [Procs -> SUBSET Dicts]
    /\ holder \in [Dicts -> Procs \cup {None}]
    /\ image \in [Dicts -> {"absent", "whole"} \cup Procs]

\* A process writes an image under its lock, taken in the first loop and held
\* across everything it does until then, unless it never got the lock or an
\* entity that is not compiled released it.
WritersHoldLock ==
    \A p \in Procs, d \in Dicts :
        Writing(p, d) /\ d \notin gaveUp[p] /\ ~Unlocks(d) => Holds(p, d)

\* Although the lock is released before the image is loaded, the image is
\* whole, but for a process that failed or died writing it and for processes
\* without the lock.
LoadsWhole ==
    \A p \in Procs :
        LET d == at[p]
            by == image[d]
        IN  pc[p] = "load" =>
                \/ by = "whole"
                \/ /\ by \in Procs
                   /\ \/ pc[by] \in {"failed", "killed"}
                      \/ d \in gaveUp[p] \cup gaveUp[by]
                      \/ Unlocks(d)

\* Between two steps a process holds the lock of an image only while it looks
\* for it, or if it is going to write it: nobody waits for a process that
\* loaded the image, will not save it, or is through.
LocksAreForWriting ==
    \A p \in Procs, d \in Dicts :
        Holds(p, d) =>
            \/ pc[p] = "check" /\ at[p] = d
            \/ /\ d \in todo[p] /\ ~Unlocks(d)
               /\ \/ pc[p] \in {"acquire", "check", "load"} /\ d < at[p]
                  \/ pc[p] \in {"parse", "write"} /\ d >= at[p]

\* The cache implements the store of images: while no process does without the
\* lock of an image, it is written once, by one process, and stays whole.
Bypassed(d) == Unlocks(d) \/ \E p \in Procs : d \in gaveUp[p]
Store == INSTANCE ImageStore WITH bypassed <- {d \in Dicts : Bypassed(d)}
ImplementsImageStore == Store!Spec

\* Holding several locks at once never blocks anybody for good, even if no wait
\* times out: the locks are taken in the order of the dictionaries, and every
\* way out of parse_all_collaterals releases them.
EveryoneEnds == \A p \in Procs : <>(pc[p] \in Ended)

\* A process that did not get the lock fails the test of write access to the
\* directory: "Most likely due to not having write permissions to private
\* collaterals dir, carry on and let the directory write test below fail"
\* (htd_collaterals_parser.py:2751).
NoLockNoWrite ==
    \A p \in Procs, d \in Dicts : Writing(p, d) => d \notin gaveUp[p]
=============================================================================
