---------------------------- MODULE TestExecuter ----------------------------
(***************************************************************************)
(* The test executer (tools/htd_te/bin): htd_te_manager.py takes the flows *)
(* of the command line through a verification pass and a run pass; a flow  *)
(* (htd_basic_flow.py) calls segments and actions, a segment               *)
(* (htd_basic_segment.py) calls actions, and an action                     *)
(* (htd_basic_action.py) drives the DUT through htdPlayer and may call     *)
(* inner actions.                                                          *)
(*                                                                         *)
(* The bodies of flows, segments and actions are user code.  They appear   *)
(* here as an environment that makes any sequence of API calls (segments   *)
(* from Segments, action calls from Calls); everything the executer does   *)
(* in answer is the code's.  There is one thread, so a step is one API     *)
(* call or one return from user code.                                      *)
(***************************************************************************)
EXTENDS Naturals, Sequences

CONSTANTS
  NumFlows,     \* flows of the command line, numbered in execution order
  Silenced,     \* the flows whose "silent_mode" argument is set
  Aligned,      \* the flows whose "pre_alignment"/"post_alignment" are set
  CmdNames,     \* flow -> names given per-action arguments on the command line
  CmdSpared,    \* of these, the names given no argument that post_verify checks
  Calls,        \* the action calls user code makes, see Call
  Segments,     \* the segments flows call, see Segment
  Names,        \* names of actions and segments
  Regs,         \* unique keys of actions (get_action_indexing)
  Vals,         \* values assigned to a register field
  None,         \* no value, no segment
  ClusterMode,  \* CFG["TE"]["cluster_model_mode"]
  PostDelay,    \* is CFG["TE"]["post_flow_delay"] positive?
  MaxSteps,     \* bound: API calls and DUT writes per execution of a flow
  MaxDepth      \* bound: nesting of inner actions

Flows == 1..NumFlows

(***************************************************************************)
(* An action call with the final value of its arguments (flow arguments,   *)
(* call arguments, command line, segment overrides, in that order).        *)
(* "gated" stands for a false constraint or a readout that the flow's      *)
(* "disable_readout" switches off; "invalid" for arguments that            *)
(* verify_action_arguments or verify_obligatory_arguments reject.  A call  *)
(* writes val to one field of register reg, or reads it.                   *)
(***************************************************************************)
Call == [name : Names, stop : BOOLEAN, disabled : BOOLEAN, gated : BOOLEAN,
         invalid : BOOLEAN, dummy : BOOLEAN, silent : BOOLEAN,
         reads : BOOLEAN, lock : BOOLEAN, unlock : BOOLEAN,
         reg : Regs, val : Vals]

(***************************************************************************)
(* A segment call.  "disabled" stands for disable_segment or a masked IP;  *)
(* "stopAt" is stop_segment_at_action; "extends" are the names of actions  *)
(* for which the segment registers sub-sequences with sequence_extend, to  *)
(* execute before or after them (several for the same pair follow each     *)
(* other, and are one here).  No code looks at the segment's silent_mode   *)
(* and dummy arguments.                                                    *)
(***************************************************************************)
Parts == {"pre", "post"}
Segment == [name : Names, ip : BOOLEAN, disabled : BOOLEAN, gated : BOOLEAN,
            stop : BOOLEAN, stopAt : Names \cup {None},
            extends : SUBSET (Names \X Parts)]

ASSUME ExecuterAssumption ==
    /\ NumFlows \in Nat \ {0}
    /\ Silenced \subseteq Flows
    /\ Aligned \subseteq Flows
    /\ CmdNames \in [Flows -> SUBSET Names]
    /\ CmdSpared \in [Flows -> SUBSET Names]
    /\ Calls \subseteq Call
    /\ Segments \subseteq Segment
    /\ None \notin Names /\ None \notin Vals /\ None \notin Segments
    /\ ClusterMode \in BOOLEAN
    /\ PostDelay \in BOOLEAN
    /\ MaxSteps \in Nat
    /\ MaxDepth \in Nat

VARIABLES
  mode,      \* "twopass", "nocheck" (-check 0) or "runtime" (verify_at_runtime)
  phase,     \* the pass, or how the process ended
  flow,      \* the flow the pass is at
  inFlow,    \* is its flow_run() executing?
  inSegment, \* is a segment_run() of it executing?
  current,   \* the flow's __current_segment
  ext,       \* sub-sequences of that segment not triggered yet
  pending,   \* the segment's calls that wait for a sub-sequence, outermost first
  frames,    \* the calls of the actions executing, outermost first
  steps,     \* API calls made by this execution of the flow (bounded)
  stopFlow,  \* flow -> __stop_flow
  stopAll,   \* htd_base_flow.__stop_all_segments, shared by all flows
  silent,    \* htdPlayer.silent_mode
  errors,    \* has htdte_logger collected errors?
  accessed,  \* flow -> command-line names a call has picked up
  locks,     \* register -> value locked in the blacklist, or None
  saved,     \* has the history checkpoint been written?
  event,     \* what the last step let the outside see
  writes     \* register -> its last write on the DUT since it was last locked

vars == <<mode, phase, flow, inFlow, inSegment, current, ext, pending, frames,
          steps, stopFlow, stopAll, silent, errors, accessed, locks, saved,
          event, writes>>

Passes == {"verify", "run"}
Phases == Passes \cup {"done", "failed", "crashed"}
Writes == [val : Vals, by : {"inner", "unlock", "outer"}]
Quiet == [kind |-> "quiet", stack |-> <<>>]
Event(kind, stack) == [kind |-> kind, stack |-> stack]
Waiting(c, part) == [call |-> c, part |-> part]
Events == [kind : {"quiet", "drive", "clash", "sync"},
           stack : Seq(Calls)]

Verifying == phase = "verify"
Outer == frames = <<>>
Top == frames[Len(frames)]
Waiter == pending[Len(pending)]
Pop(stack) == SubSeq(stack, 1, Len(stack) - 1)
InUserCode == phase \in Passes /\ inFlow
(***************************************************************************)
(* Errors.  htdte_logger.error collects the error while the collect mode   *)
(* is on, and the handler goes on; otherwise the process exits.            *)
(***************************************************************************)
CollectingUnlessVerified == mode # "twopass" \/ Verifying   \* mutant
Collecting == Verifying \/ mode = "runtime"

ReportForgetting(bad) ==   \* mutant: a later report overwrites the errors
    /\ errors' = (bad /\ Collecting)
    /\ phase' = IF bad /\ ~Collecting THEN "failed" ELSE phase
Report(bad) ==
    /\ errors' = (errors \/ (bad /\ Collecting))
    /\ phase' = IF bad /\ ~Collecting THEN "failed" ELSE phase

Exits(bad) == bad /\ ~Collecting

(***************************************************************************)
(* The silent flag of the player is a plain flag: any action that set it   *)
(* clears it on its way out.                                               *)
(***************************************************************************)

\* set_silent_mode by exec_action_obj (verification) and pre_run (argument).
SilentAtStart(c) == silent \/ c.silent \/ (Verifying /\ Outer)

SilentLeftWhenSkipped ==   \* mutant: no unset when a silent flow skips run()
    silent \/ (Verifying /\ Outer /\ flow \in Silenced)
SilentWhenSkipped == IF Verifying /\ Outer THEN FALSE ELSE silent

\* post_run, then the unset at the end of exec_action_obj.
SilentAfterUnguarded(c, outer) ==   \* mutant: post_run also clears it verifying
    ~c.silent /\ ~(Verifying /\ outer) /\ silent
SilentAfter(c, outer) ==
    IF Verifying THEN ~outer /\ silent ELSE ~c.silent /\ silent

\* pre_run and post_run of a dummy action, with no run() in between.
SilentAfterDummy(c) ==
    IF Verifying THEN ~Outer /\ (silent \/ c.silent) ELSE ~c.silent /\ silent

\* Does this outer call raise stop_all when it is through?
StopsSegmentsAt(c, outer) ==
    outer /\ inSegment /\ ~Verifying /\ c.name = current.stopAt

\* Has the segment a sub-sequence for this outer call?
Extended(c, outer, part) ==
    outer /\ inSegment /\ <<c.name, part>> \in current.extends

\* The way of a segment's call out of exec_action: first the sub-sequence to
\* execute after it, then the stop.  rest are the calls that wait below it.
AfterCall(c, outer, rest) ==
    IF Extended(c, outer, "post")
      THEN /\ pending' = Append(rest, Waiting(c, "post"))
           /\ ext' = ext \ {<<c.name, "post">>}
           /\ UNCHANGED stopAll
      ELSE /\ pending' = rest
           /\ stopAll' = (stopAll \/ StopsSegmentsAt(c, outer))
           /\ UNCHANGED ext

-----------------------------------------------------------------------------
(***************************************************************************)
(* Calls of actions: htd_segment.exec_action, htd_base_flow.exec_action    *)
(* and exec_action_obj up to the start of run().                           *)
(***************************************************************************)
FlowStoppedOutside == stopFlow[flow] /\ Outer   \* mutant: inner calls go on
FlowStopped == stopFlow[flow]

CallStep ==
    /\ InUserCode
    /\ steps < MaxSteps
    /\ steps' = steps + 1

\* A vertical segment in cluster mode.
MaskedWrongly(s) == ClusterMode /\ s.ip   \* mutant: the condition inverted
Masked(s) == ClusterMode /\ ~s.ip

\* A segment's call is ignored once stop_all is raised, and any call is while
\* a vertical segment is current in cluster mode; neither leaves a trace.
MaskedShut == current # None /\ Masked(current)   \* mutant: stop_all not tested
Shut == \/ Outer /\ inSegment /\ stopAll
        \/ current # None /\ Masked(current)

CallShut ==
    /\ CallStep
    /\ Shut
    /\ event' = Quiet
    /\ UNCHANGED <<mode, phase, flow, inFlow, inSegment, current, ext, pending,
                   frames, stopFlow, stopAll, silent, errors, accessed, locks,
                   saved, writes>>

\* A segment's call that has to wait for the sub-sequence before it.
CallWaits(c) ==
    /\ CallStep
    /\ ~Shut
    /\ Extended(c, Outer, "pre")
    /\ pending' = Append(pending, Waiting(c, "pre"))
    /\ ext' = ext \ {<<c.name, "pre">>}
    /\ event' = Quiet
    /\ UNCHANGED <<mode, phase, flow, inFlow, inSegment, current, frames,
                   stopFlow, stopAll, silent, errors, accessed, locks, saved,
                   writes>>

\* The call c gets to the exec_action of the flow: at once, or from a segment
\* when the sub-sequence before it is through.  Nothing looks at stop_all on
\* the way from there.  rest are the calls that wait below c.
Enter(c, rest) ==
    /\ \/ /\ CallStep
          /\ ~Shut /\ ~Extended(c, Outer, "pre")
          /\ rest = pending
       \/ /\ InUserCode
          /\ Outer /\ pending # <<>> /\ Waiter = Waiting(c, "pre")
          /\ rest = Pop(pending)
          /\ UNCHANGED steps
    /\ accessed' = [accessed EXCEPT ![flow] =
                        IF Outer THEN @ \cup ({c.name} \cap CmdNames[flow]) ELSE @]
    /\ UNCHANGED <<mode, flow, inFlow, inSegment, current, locks, saved, writes>>

CallIgnored(c, rest) ==
    /\ Enter(c, rest)
    /\ FlowStopped
    /\ AfterCall(c, Outer, rest)
    /\ event' = Quiet
    /\ UNCHANGED <<phase, frames, stopFlow, silent, errors>>

RaiseStop(c) == stopFlow' = [stopFlow EXCEPT ![flow] = @ \/ c.stop]

CallDisabled(c, rest) ==
    /\ Enter(c, rest)
    /\ ~FlowStopped
    /\ RaiseStop(c)
    /\ c.disabled
    /\ AfterCall(c, Outer, rest)
    /\ event' = Quiet
    /\ UNCHANGED <<phase, frames, silent, errors>>

\* The constraint is false, or the flow is silent: no run().  A silent flow
\* still verifies the arguments.
CallGated(c, rest) ==
    /\ Enter(c, rest)
    /\ ~FlowStopped
    /\ RaiseStop(c)
    /\ ~c.disabled
    /\ c.gated \/ flow \in Silenced
    /\ LET bad == ~c.gated /\ c.invalid
       IN  /\ Report(bad)
           /\ IF Exits(bad)
                THEN pending' = rest /\ UNCHANGED <<silent, stopAll, ext>>
                ELSE silent' = SilentWhenSkipped /\ AfterCall(c, Outer, rest)
    /\ event' = Quiet
    /\ UNCHANGED frames

\* run() is due: the arguments are verified, then a dummy action only passes
\* through pre_run and post_run while another becomes the executing one.
CallRuns(c, rest) ==
    /\ Enter(c, rest)
    /\ ~FlowStopped
    /\ RaiseStop(c)
    /\ ~c.disabled /\ ~c.gated /\ flow \notin Silenced
    /\ Len(frames) < MaxDepth
    /\ Report(c.invalid)
    /\ event' = Quiet
    /\ \/ /\ Exits(c.invalid)
          /\ pending' = rest
          /\ UNCHANGED <<frames, silent, stopAll, ext>>
       \/ /\ ~Exits(c.invalid)
          /\ c.dummy
          /\ silent' = SilentAfterDummy(c)
          /\ AfterCall(c, Outer, rest)
          /\ UNCHANGED frames
       \/ /\ ~Exits(c.invalid)
          /\ ~c.dummy
          /\ silent' = SilentAtStart(c)
          /\ frames' = Append(frames, c)
          /\ pending' = rest
          /\ UNCHANGED <<stopAll, ext>>

(***************************************************************************)
(* run() drives the DUT.  A silenced write goes to another stream and is   *)
(* no step here.                                                           *)
(***************************************************************************)
WriteOf(c) ==
    [val |-> c.val,
     by |-> IF Len(frames) > 1 THEN "inner"
            ELSE IF c.unlock THEN "unlock" ELSE "outer"]

Drive ==
    /\ CallStep
    /\ ~Outer
    /\ ~silent
    /\ event' = Event("drive", frames)
    /\ writes' = IF Top.reads THEN writes
                 ELSE [writes EXCEPT ![Top.reg] = WriteOf(Top)]
    /\ UNCHANGED <<mode, phase, flow, inFlow, inSegment, current, ext, frames,
                   pending, stopFlow, stopAll, silent, errors, accessed, locks,
                   saved>>

(***************************************************************************)
(* run() returns: post_run, then, for an outer action of the run pass, the *)
(* blacklist: evaluate_action_in_blacklist and blacklist_capture.  A read  *)
(* has -1 for the value that is compared with the locked one.              *)
(***************************************************************************)
ClashOfLocking(c) ==   \* mutant: only locking actions are looked up
    c.lock /\ ~c.unlock /\ locks[c.reg] \notin {None, c.val}
Clash(c) == /\ ~c.unlock
            /\ locks[c.reg] # None
            /\ c.reads \/ c.val # locks[c.reg]

Locks(c) == c.lock /\ ~c.reads

Return ==
    LET c == Top
        outer == Len(frames) = 1
        clash == outer /\ ~Verifying /\ Clash(c)
        captures == outer /\ ~Verifying /\ Locks(c) /\ ~Exits(clash)
    IN  /\ InUserCode
        /\ ~Outer
        /\ Report(clash)
        /\ frames' = Pop(frames)
        /\ silent' = SilentAfter(c, outer)
        /\ locks' = IF captures THEN [locks EXCEPT ![c.reg] = c.val] ELSE locks
        /\ writes' = IF captures THEN [writes EXCEPT ![c.reg] = None] ELSE writes
        /\ event' = IF clash THEN Event("clash", frames) ELSE Quiet
        /\ IF Exits(clash) THEN UNCHANGED <<stopAll, ext, pending>>
           ELSE AfterCall(c, outer, pending)
        /\ UNCHANGED <<mode, flow, inFlow, inSegment, current, steps, stopFlow,
                       accessed, saved>>

\* The sub-sequence after a segment's call is through.
EndSubsequence ==
    /\ InUserCode
    /\ Outer /\ pending # <<>> /\ Waiter.part = "post"
    /\ pending' = Pop(pending)
    /\ stopAll' = (stopAll \/ StopsSegmentsAt(Waiter.call, TRUE))
    /\ event' = Quiet
    /\ UNCHANGED <<mode, phase, flow, inFlow, inSegment, current, ext, frames,
                   steps, stopFlow, silent, errors, accessed, locks, saved,
                   writes>>

-----------------------------------------------------------------------------
(***************************************************************************)
(* Segments: htd_base_flow.exec_segment and htd_segment.execute_segment.   *)
(***************************************************************************)

\* The end of exec_segment.  A segment's own stop_flow is assigned through an
\* attribute the flow does not have, and the AttributeError ends the process.
SegmentTail(s, left) ==
    /\ inSegment' = FALSE
    /\ IF s.stop
         THEN phase' = "crashed" /\ UNCHANGED <<current, errors>>
         ELSE current' = None /\ Report(left # {} /\ ~stopAll)

AccessSegment(s) ==
    accessed' = [accessed EXCEPT ![flow] = @ \cup ({s.name} \cap CmdNames[flow])]

CallSegment(s) ==
    /\ CallStep
    /\ Outer /\ ~inSegment
    /\ event' = Quiet
    /\ UNCHANGED <<mode, flow, inFlow, pending, frames, stopFlow, stopAll, silent,
                   locks, saved, writes>>
    /\ \/ /\ FlowStopped
          /\ UNCHANGED <<phase, inSegment, current, ext, errors, accessed>>
       \/ /\ ~FlowStopped
          /\ Masked(s)
          /\ current' = s
          /\ UNCHANGED <<phase, inSegment, ext, errors, accessed>>
       \/ /\ ~FlowStopped /\ ~Masked(s)
          /\ s.disabled
          /\ current' = None
          /\ AccessSegment(s)
          /\ UNCHANGED <<phase, inSegment, ext, errors>>
       \/ /\ ~FlowStopped /\ ~Masked(s) /\ ~s.disabled
          /\ s.gated \/ stopAll
          /\ SegmentTail(s, {})
          /\ AccessSegment(s)
          /\ UNCHANGED ext
       \/ /\ ~FlowStopped /\ ~Masked(s) /\ ~s.disabled
          /\ ~s.gated /\ ~stopAll
          /\ current' = s
          /\ inSegment' = TRUE
          /\ ext' = s.extends
          /\ AccessSegment(s)
          /\ UNCHANGED <<phase, errors>>

EndSegment ==
    /\ InUserCode
    /\ Outer /\ inSegment /\ pending = <<>>
    /\ SegmentTail(current, ext)
    /\ ext' = {}
    /\ event' = Quiet
    /\ UNCHANGED <<mode, flow, inFlow, pending, frames, steps, stopFlow, stopAll, silent,
                   accessed, locks, saved, writes>>

-----------------------------------------------------------------------------
(***************************************************************************)
(* Flows: __execute_flow of htd_te_manager.py.                             *)
(***************************************************************************)

\* The run pass aligns to the modulo clock before pre_flow_run looks at the
\* silent_mode argument of the flow, which it does only when it aligns.
Sync(due) == IF due /\ ~silent THEN Event("sync", <<>>) ELSE Quiet

SilentAtFlowStart ==
    IF ~Verifying /\ flow \in Aligned THEN flow \in Silenced ELSE silent

StartFlow ==
    /\ phase \in Passes /\ ~inFlow
    /\ flow <= NumFlows
    /\ inFlow' = TRUE
    /\ steps' = 0
    /\ silent' = SilentAtFlowStart
    /\ event' = Sync(~Verifying /\ flow \in Aligned)
    /\ UNCHANGED <<mode, phase, flow, inSegment, current, ext, pending, frames,
                   stopFlow, stopAll, errors, accessed, locks, saved, writes>>

\* unset_stop_flow_mode is for the verification pass only.
StopKept == stopFlow   \* mutant: no reset
StopDropped == [f \in Flows \ {flow} |-> stopFlow[f]]   \* mutant: entry removed
StopAfterFlow == [stopFlow EXCEPT ![flow] = ~Verifying /\ @]

SilentAfterFlow == Verifying /\ silent

\* post_flow_run, post_verify and the way to the next flow.  post_verify does
\* not look at arguments that begin with not_declared:, disable_segment or
\* disable_action.
Checked(f) == CmdNames[f] \ CmdSpared[f]
UnusedIfNoneUsed ==   \* mutant: one picked-up name is enough
    IF accessed[flow] = {} THEN Checked(flow) ELSE {}
Unused == Checked(flow) \ accessed[flow]

EndFlow ==
    /\ InUserCode
    /\ Outer /\ ~inSegment
    /\ Report(Unused # {})
    /\ event' = Sync(~Verifying /\ (flow \in Aligned \/ PostDelay))
    /\ inFlow' = FALSE
    /\ IF Exits(Unused # {})
         THEN UNCHANGED <<flow, stopFlow, silent, current>>
         ELSE /\ flow' = flow + 1
              /\ current' = None
              /\ stopFlow' = StopAfterFlow
              /\ silent' = SilentAfterFlow
    /\ UNCHANGED <<mode, inSegment, ext, pending, frames, steps, stopAll, accessed,
                   locks, saved, writes>>

(***************************************************************************)
(* The ends of the passes in the main part of htd_te_manager.py.           *)
(***************************************************************************)
PassOverEarly == ~inFlow /\ flow >= NumFlows   \* mutant: off by one
PassOver == ~inFlow /\ flow = NumFlows + 1

EndVerification ==
    /\ phase = "verify" /\ PassOver
    /\ IF errors
         THEN phase' = "failed" /\ UNCHANGED flow
         ELSE phase' = "run" /\ flow' = 1
    /\ event' = Quiet
    /\ UNCHANGED <<mode, inFlow, inSegment, current, ext, pending, frames, steps,
                   stopFlow, stopAll, silent, errors, accessed, locks, saved,
                   writes>>

EndRun ==
    /\ phase = "run" /\ PassOver
    /\ IF errors
         THEN phase' = "failed" /\ UNCHANGED saved
         ELSE phase' = "done" /\ saved' = TRUE
    /\ event' = Quiet
    /\ UNCHANGED <<mode, flow, inFlow, inSegment, current, ext, pending, frames,
                   steps, stopFlow, stopAll, silent, errors, accessed, locks,
                   writes>>

-----------------------------------------------------------------------------
Init ==
    /\ mode \in {"twopass", "nocheck", "runtime"}
    /\ phase = IF mode = "twopass" THEN "verify" ELSE "run"
    /\ flow = 1
    /\ inFlow = FALSE
    /\ inSegment = FALSE
    /\ current = None
    /\ ext = {}
    /\ pending = <<>>
    /\ frames = <<>>
    /\ steps = 0
    /\ stopFlow = [f \in Flows |-> FALSE]
    /\ stopAll = FALSE
    /\ silent = FALSE
    /\ errors = FALSE
    /\ accessed = [f \in Flows |-> {}]
    /\ locks \in [Regs -> Vals \cup {None}]   \* restored from a checkpoint
    /\ saved = FALSE
    /\ event = Quiet
    /\ writes = [r \in Regs |-> None]

CallAction ==
    \/ CallShut
    \/ \E c \in Calls : CallWaits(c)
    \/ \E c \in Calls, rest \in {pending, Pop(pending)} :
          \/ CallIgnored(c, rest) \/ CallDisabled(c, rest)
          \/ CallGated(c, rest) \/ CallRuns(c, rest)

UserCode == CallAction \/ Drive \/ \E s \in Segments : CallSegment(s)

Executer == StartFlow \/ EndFlow \/ EndVerification \/ EndRun

\* The process has ended; nothing else ever stops the executer.
Terminated == phase \notin Passes /\ UNCHANGED vars

Next == UserCode \/ Return \/ EndSubsequence \/ EndSegment \/ Executer \/ Terminated

Spec == Init /\ [][Next]_vars

(***************************************************************************)
(* The process is single-threaded and user code is finite: it keeps        *)
(* executing until main exits.                                             *)
(***************************************************************************)
FairSpec == Spec /\ WF_vars(Next)
-----------------------------------------------------------------------------
(***************************************************************************)
(* Properties.                                                             *)
(***************************************************************************)

\* The types of the variables.
TypeOK ==
    /\ mode \in {"twopass", "nocheck", "runtime"}
    /\ phase \in Phases
    /\ flow \in 1..(NumFlows + 1)
    /\ inFlow \in BOOLEAN
    /\ inSegment \in BOOLEAN
    /\ current \in Segments \cup {None}
    /\ ext \in SUBSET (Names \X Parts)
    /\ pending \in Seq([call : Calls, part : Parts])
    /\ frames \in Seq(Calls)
    /\ steps \in 0..MaxSteps
    /\ stopFlow \in [Flows -> BOOLEAN]
    /\ stopAll \in BOOLEAN
    /\ silent \in BOOLEAN
    /\ errors \in BOOLEAN
    /\ accessed \in [Flows -> SUBSET Names]
    /\ locks \in [Regs -> Vals \cup {None}]
    /\ saved \in BOOLEAN
    /\ event \in Events
    /\ writes \in [Regs -> Writes \cup {None}]

\* The verification pass executes the very action bodies the run pass executes,
\* and none of their writes reaches the DUT: the silent flag that
\* exec_action_obj raises survives inner actions, dummies and silent actions.
VerificationDrivesNothing ==
    event.kind \in {"drive", "sync"} => ~Verifying

\* Between two outer actions the silent flag is what the flow asked for: no
\* action, however it is skipped, leaves the player silent (or, in a silent
\* flow, audible) behind it.
SilentBetweenActions ==
    InUserCode /\ Outer =>
        (silent <=> ~Verifying /\ flow \in Silenced \cap Aligned)

\* A command-line argument that names an action or segment no flow calls is
\* reported before the run pass of a verified test touches the DUT, unless it
\* only disables the name or is not declared (CmdSpared).
TyposFoundBeforeRun ==
    mode = "twopass" /\ phase \in {"run", "done"} =>
        \A f \in Flows : Checked(f) \subseteq accessed[f]

\* Arguments that fail verification never reach the DUT, not even through an
\* inner action of the failing one, unless errors are collected while running
\* (verify_at_runtime).
InvalidNeverDriven ==
    event.kind = "drive" /\ mode # "runtime" =>
        \A i \in DOMAIN event.stack : ~event.stack[i].invalid

\* A stop raised while verifying a flow does not keep its run pass from
\* executing it.
RunStartsUnstopped ==
    phase = "run" /\ ~inFlow /\ flow \in Flows => ~stopFlow[flow]

\* Once the action that a segment is to stop at is through, only calls of the
\* segment that had begun before go on: those around it, which waited for the
\* sub-sequence that executed it.  No other begins, in this flow or in a later
\* one; while verifying the stop is not taken.
Underway == Len(pending) + (IF Outer THEN 0 ELSE 1)
StopAllHolds ==
    [][stopAll =>
           /\ ~Verifying
           /\ stopAll'
           /\ inSegment' => inSegment /\ Underway' <= Underway]_vars

\* In cluster mode no vertical segment drives the DUT, nor does a flow-level
\* action while the skipped one is still the current segment.
ClusterDrivesIpOnly ==
    ClusterMode /\ event.kind = "drive" => current = None \/ current.ip

\* As long as no error was reported, a locked register holds the value it was
\* locked with, up to writes of inner actions and of actions that unlock.
LockKept ==
    phase \in {"run", "done"} /\ Outer /\ ~errors =>
        \A r \in Regs :
            locks[r] # None /\ writes[r] # None =>
                (writes[r].by = "outer" => writes[r].val = locks[r])

\* The invocation implements the two-pass protocol.
Protocol == INSTANCE TwoPassRun WITH
    pass <- IF phase \in {"failed", "crashed"} THEN "failed" ELSE phase,
    next <- flow
ImplementsTwoPass == Protocol!Spec

\* A collected error is never lost: it makes the invocation fail in the end,
\* whatever flows still execute.
ErrorsFail == errors ~> phase \in {"failed", "crashed"}

\* Once a flow of the run pass is stopped, the actions that are executing
\* finish and no action begins any more.
StopFlowDrains ==
    [][phase = "run" /\ inFlow /\ flow' = flow /\ stopFlow[flow] =>
           /\ stopFlow'[flow]
           /\ Len(frames') <= Len(frames)]_vars
=============================================================================
