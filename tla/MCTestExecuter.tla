--------------------------- MODULE MCTestExecuter ---------------------------
(***************************************************************************)
(* Small instances of TestExecuter.  Each run gives user code a handful of *)
(* calls that differ in the arguments the run is about.                    *)
(***************************************************************************)
EXTENDS DocumentedArguments

Plain == [name |-> "a", stop |-> FALSE, disabled |-> FALSE, gated |-> FALSE,
          invalid |-> FALSE, dummy |-> FALSE, silent |-> FALSE,
          reads |-> FALSE, lock |-> FALSE, unlock |-> FALSE,
          reg |-> "r1", val |-> 1]

Seg == [name |-> "s", ip |-> FALSE, disabled |-> FALSE, gated |-> FALSE,
        stop |-> FALSE, stopAt |-> None, extends |-> {}]

MCNames == {"a", "b", "s"}
NoCmd == [f \in Flows |-> {}]

\* Control: stops, silence, dummies, errors.
ControlCalls ==
    {Plain,
     [Plain EXCEPT !.stop = TRUE],
     [Plain EXCEPT !.disabled = TRUE, !.stop = TRUE],
     [Plain EXCEPT !.silent = TRUE],
     [Plain EXCEPT !.silent = TRUE, !.dummy = TRUE],
     [Plain EXCEPT !.gated = TRUE],
     [Plain EXCEPT !.invalid = TRUE]}
ControlCmd == [f \in Flows |-> IF f = 1 THEN {"a", "b", "s"} ELSE {}]
ControlSpared == [f \in Flows |-> IF f = 1 THEN {"b"} ELSE {}]
ControlSegments == {[Seg EXCEPT !.stopAt = "a", !.extends = {<<"a", "post">>}]}

\* An action that calls inner ones, a silent action, a stopping action.
NestedCalls == {Plain, [Plain EXCEPT !.silent = TRUE], [Plain EXCEPT !.stop = TRUE]}

\* A locked register read, or overwritten by an inner action.
LockedCalls == {[Plain EXCEPT !.lock = TRUE], [Plain EXCEPT !.reads = TRUE],
                [Plain EXCEPT !.val = 2]}

\* Segments with cluster mode on, and the blacklist.
IpSeg == [Seg EXCEPT !.ip = TRUE]
SegmentKinds ==
    {Seg,
     [IpSeg EXCEPT !.stopAt = "b", !.extends = {<<"a", "pre">>}],
     [IpSeg EXCEPT !.stopAt = "b", !.extends = {<<"b", "post">>}],
     [IpSeg EXCEPT !.gated = TRUE],
     [IpSeg EXCEPT !.disabled = TRUE],
     [IpSeg EXCEPT !.stop = TRUE]}
LockSegmentCalls ==
    {[Plain EXCEPT !.lock = TRUE]}
    \cup {[Plain EXCEPT !.val = 2, !.lock = l, !.unlock = u] : l, u \in BOOLEAN}
    \cup {[Plain EXCEPT !.reads = TRUE],
          [Plain EXCEPT !.name = "b", !.lock = TRUE],
          [Plain EXCEPT !.name = "b", !.stop = TRUE, !.val = 2]}
SegmentCmd == [f \in Flows |-> IF f = 1 THEN {"s"} ELSE {}]
DocSegments == {[Seg EXCEPT !.stop = TRUE]}
=============================================================================
