------------------------- MODULE DocumentedArguments -------------------------
(***************************************************************************)
(* What the descriptions given to declare_arg say of the arguments of      *)
(* actions, segments and flows, where the executer does something else.    *)
(***************************************************************************)
EXTENDS TestExecuter

\* Segment argument stop_flow: "Used to stop flow run after the action
\* execution" (htd_basic_segment.py:155).  It stops the flow, it does not
\* bring the process down.
SegmentStopsItsFlow == phase # "crashed"

\* Action argument silent_mode: "Disable any DUT activity (TE emulation mode)
\* on current action" (htd_basic_action.py:69), for as long as it executes.
SilentActionDrivesNothing ==
    event.kind = "drive" => \A i \in DOMAIN event.stack : ~event.stack[i].silent

\* Action argument action_lock: "Locking setting for following override.
\* (Asserting error if trying override the setting)" (htd_basic_action.py:63).
\* While no error was asserted, nothing has overridden a locked setting, inner
\* actions included.
LockedSettingKept ==
    phase = "run" /\ Outer /\ ~errors =>
        \A r \in Regs :
            locks[r] # None /\ writes[r] # None =>
                (writes[r].by # "unlock" => writes[r].val = locks[r])
=============================================================================
