----------------------------- MODULE TwoPassRun -----------------------------
(***************************************************************************)
(* What one invocation of htd_te_manager.py promises about a test: the     *)
(* flows of the command line are verified in ascending order, then, if no  *)
(* verification error was collected, run in the same order, and the        *)
(* history checkpoint is written only after the last of them has run.  An  *)
(* invocation may start with the run pass (checks switched off, or         *)
(* verified while running) and may be abandoned at any point, in which     *)
(* case nothing is saved.                                                  *)
(***************************************************************************)
EXTENDS Naturals

CONSTANT NumFlows   \* the flows are numbered 1..NumFlows, in execution order

VARIABLES pass,     \* "verify", "run", "done" or "failed"
          next,     \* the next flow of the pass
          saved     \* has the history checkpoint been written?

vars == <<pass, next, saved>>

Init ==
    /\ pass \in {"verify", "run"}
    /\ next = 1
    /\ saved = FALSE

\* One flow of the current pass has been executed to its end.
FlowDone ==
    /\ pass \in {"verify", "run"}
    /\ next <= NumFlows
    /\ next' = next + 1
    /\ UNCHANGED <<pass, saved>>

BeginRun ==
    /\ pass = "verify"
    /\ next = NumFlows + 1
    /\ pass' = "run"
    /\ next' = 1
    /\ UNCHANGED saved

Commit ==
    /\ pass = "run"
    /\ next = NumFlows + 1
    /\ pass' = "done"
    /\ saved' = TRUE
    /\ UNCHANGED next

Abandon ==
    /\ pass \in {"verify", "run"}
    /\ pass' = "failed"
    /\ UNCHANGED <<next, saved>>

Next == FlowDone \/ BeginRun \/ Commit \/ Abandon

Spec == Init /\ [][Next]_vars
=============================================================================
