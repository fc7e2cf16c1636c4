------------------------- MODULE TestExecuterProofs -------------------------
(***************************************************************************)
(* Proofs about TestExecuter, for any number of flows, any user code and   *)
(* any nesting of inner actions.                                           *)
(***************************************************************************)
EXTENDS TestExecuter, SequenceTheorems, TLAPS

-----------------------------------------------------------------------------
(***************************************************************************)
(* The calls executing form a stack.                                       *)
(***************************************************************************)

\* Returning from the innermost call leaves the calls around it as they were.
LEMMA PopProperties ==
    ASSUME NEW S, NEW s \in Seq(S), s # <<>>
    PROVE  /\ Len(s) \in Nat \ {0}
           /\ Pop(s) \in Seq(S)
           /\ Len(Pop(s)) = Len(s) - 1
           /\ \A i \in 1..(Len(s) - 1) : Pop(s)[i] = s[i]
           /\ Pop(s) = <<>> <=> Len(s) = 1
<1>1. Len(s) \in Nat \ {0}
  BY EmptySeq, LenProperties
<1>2. \A i \in 1..(Len(s) - 1) : s[i] \in S
  BY <1>1, ElementOfSeq
<1>3. /\ Pop(s) \in Seq(S)
      /\ Len(Pop(s)) = Len(s) - 1
      /\ \A i \in 1..(Len(s) - 1) : Pop(s)[i] = s[i]
  <2> DEFINE n == Len(s) - 1
  <2>1. n \in Int /\ 1 \in Int /\ \A i \in 1..n : s[i] \in S
    BY <1>1, <1>2
  <2> HIDE DEF n
  <2>2. /\ SubSeq(s, 1, n) \in Seq(S)
        /\ Len(SubSeq(s, 1, n)) = IF 1 <= n THEN n - 1 + 1 ELSE 0
        /\ \A i \in 1..(n - 1 + 1) : SubSeq(s, 1, n)[i] = s[1 + i - 1]
    BY <2>1, SubSeqProperties
  <2>3. n \in Nat /\ n - 1 + 1 = n /\ \A i \in 1..n : 1 + i - 1 = i
    BY <1>1 DEF n
  <2>4. Pop(s) = SubSeq(s, 1, n)
    BY DEF Pop, n
  <2>5. Len(Pop(s)) = n
    BY <2>2, <2>3, <2>4
  <2>6. \A i \in 1..n : Pop(s)[i] = s[i]
    BY <2>2, <2>3, <2>4
  <2> QED
    BY <2>2, <2>4, <2>5, <2>6 DEF n
<1>4. Pop(s) = <<>> <=> Len(s) = 1
  <2>1. Len(<<>>) = 0 /\ \A q \in Seq(S) : q # <<>> => Len(q) \in Nat \ {0}
    BY EmptySeq
  <2> QED
    BY <1>1, <1>3, <2>1
<1> QED
  BY <1>1, <1>3, <1>4

\* A new call goes on top of the calls executing.
LEMMA PushProperties ==
    ASSUME NEW S, NEW s \in Seq(S), NEW e \in S
    PROVE  /\ Append(s, e) \in Seq(S)
           /\ Append(s, e) # <<>>
           /\ Len(Append(s, e)) = Len(s) + 1
           /\ \A i \in 1..Len(s) : Append(s, e)[i] = s[i]
           /\ Append(s, e)[Len(s) + 1] = e
  BY AppendProperties

\* The call on top of a non-empty stack is a call.
LEMMA TopIsCall ==
    ASSUME frames \in Seq(Calls), frames # <<>>
    PROVE  Top \in Calls /\ Len(frames) \in Nat \ {0}
<1>1. Len(frames) \in Nat \ {0}
  BY EmptySeq, LenProperties
<1> QED
  BY <1>1, ElementOfSeq DEF Top

-----------------------------------------------------------------------------
(***************************************************************************)
(* Types.  flow + 1 stays in range because a flow of the command line is   *)
(* what executes.                                                          *)
(***************************************************************************)
FlowOfPass == inFlow => flow \in Flows

Typed == TypeOK /\ FlowOfPass

LEMMA EventTypes ==
    /\ Quiet \in Events
    /\ \A k \in {"quiet", "drive", "clash", "sync"} :
          \A s \in Seq(Calls) : Event(k, s) \in Events
<1>1. <<>> \in Seq(Calls)
  BY EmptySeq
<1> QED
  BY <1>1 DEF Quiet, Event, Events

-----------------------------------------------------------------------------
(***************************************************************************)
(* Calls.  A call gets to the flow at once or after the sub-sequence it    *)
(* waited for; on its way back it waits for another, or is through.        *)
(***************************************************************************)
Waiters == [call : Calls, part : Parts]

FlowCall(c, rest) ==
    \/ CallIgnored(c, rest) \/ CallDisabled(c, rest)
    \/ CallGated(c, rest) \/ CallRuns(c, rest)

LEMMA CallCases ==
    ASSUME CallAction
    PROVE  \/ CallShut
           \/ \E c \in Calls : CallWaits(c)
           \/ \E c \in Calls, rest \in {pending, Pop(pending)} : FlowCall(c, rest)
  BY DEF CallAction, FlowCall

\* What waits below a call on its way in.
LEMMA RestProperties ==
    ASSUME Typed, NEW c \in Calls, NEW rest, Enter(c, rest)
    PROVE  /\ rest \in Seq(Waiters)
           /\ steps' \in 0..MaxSteps
           /\ \/ rest = pending /\ ~Shut
              \/ /\ Outer /\ pending # <<>>
                 /\ Len(pending) \in Nat \ {0} /\ Len(rest) = Len(pending) - 1
<1>1. pending \in Seq(Waiters) /\ steps \in 0..MaxSteps /\ steps \in Nat
  BY ExecuterAssumption DEF Typed, TypeOK, Waiters
<1>2. CASE CallStep /\ ~Shut /\ rest = pending
  BY <1>1, <1>2, ExecuterAssumption DEF CallStep
<1>3. CASE Outer /\ pending # <<>> /\ rest = Pop(pending) /\ UNCHANGED steps
  <2>1. rest \in Seq(Waiters) /\ Len(rest) = Len(pending) - 1 /\ Len(pending) \in Nat \ {0}
    BY <1>1, <1>3, PopProperties
  <2> QED
    BY <1>1, <1>3, <2>1
<1> QED
  BY <1>2, <1>3 DEF Enter

\* What waits after a call on its way out: at most the call itself is added,
\* and only if it is one of the segment.
LEMMA AfterCallProperties ==
    ASSUME Typed, NEW c \in Calls, NEW outer \in BOOLEAN, NEW rest \in Seq(Waiters),
           AfterCall(c, outer, rest)
    PROVE  /\ pending' \in Seq(Waiters)
           /\ pending' = rest \/ (outer /\ inSegment /\ Len(pending') = Len(rest) + 1)
           /\ ext' \in SUBSET (Names \X Parts)
           /\ stopAll' \in BOOLEAN
           /\ stopAll => stopAll'
           /\ stopAll' => stopAll \/ ~Verifying
<1>1. ext \in SUBSET (Names \X Parts) /\ stopAll \in BOOLEAN
  BY DEF Typed, TypeOK
<1>2. CASE Extended(c, outer, "post")
  <2>1. /\ pending' = Append(rest, Waiting(c, "post"))
        /\ ext' = ext \ {<<c.name, "post">>}
        /\ stopAll' = stopAll
        /\ outer /\ inSegment
    BY <1>2 DEF AfterCall, Extended
  <2>2. Waiting(c, "post") \in Waiters
    BY DEF Waiting, Waiters, Parts
  <2>3. /\ Append(rest, Waiting(c, "post")) \in Seq(Waiters)
        /\ Len(Append(rest, Waiting(c, "post"))) = Len(rest) + 1
    BY <2>2, PushProperties
  <2> QED
    BY <1>1, <2>1, <2>3
<1>3. CASE ~Extended(c, outer, "post")
  <2>1. /\ pending' = rest
        /\ ext' = ext
        /\ stopAll' = (stopAll \/ StopsSegmentsAt(c, outer))
    BY <1>3 DEF AfterCall
  <2>2. StopsSegmentsAt(c, outer) => ~Verifying
    BY DEF StopsSegmentsAt
  <2> QED
    BY <1>1, <2>1, <2>2
<1> QED
  BY <1>2, <1>3

\* A call is through at once, or its run() is next, or the process exits.
LEMMA CallOutcome ==
    ASSUME NEW c, NEW rest, FlowCall(c, rest)
    PROVE  /\ Enter(c, rest)
           /\ \/ frames' = frames /\ AfterCall(c, Outer, rest)
              \/ /\ pending' = rest /\ UNCHANGED <<stopAll, ext>>
                 /\ phase' = "failed" \/ frames' = Append(frames, c)
           /\ phase' = phase \/ phase' = "failed"
           /\ errors => errors'
           /\ \/ UNCHANGED <<phase, errors>>
              \/ Report(c.invalid) \/ Report(~c.gated /\ c.invalid)
<1>1. Enter(c, rest)
  BY DEF FlowCall, CallIgnored, CallDisabled, CallGated, CallRuns
<1>2. CASE CallIgnored(c, rest) \/ CallDisabled(c, rest)
  BY <1>1, <1>2 DEF CallIgnored, CallDisabled
<1>3. CASE CallGated(c, rest)
  BY <1>1, <1>3 DEF CallGated, Exits, Report
<1>4. CASE CallRuns(c, rest)
  BY <1>1, <1>4 DEF CallRuns, Exits, Report
<1> QED
  BY <1>2, <1>3, <1>4 DEF FlowCall

\* Calls, returns and the ends of sub-sequences keep the types.
LEMMA TypedCall ==
    ASSUME Typed, NEW c \in Calls, NEW rest, FlowCall(c, rest)
    PROVE  Typed'
<1>0. Enter(c, rest)
  BY CallOutcome
<1>1. c \in Call /\ flow \in Flows
  BY <1>0, ExecuterAssumption DEF Enter, CallStep, InUserCode, Typed, FlowOfPass
<1>2. Append(frames, c) \in Seq(Calls)
  BY PushProperties DEF Typed, TypeOK
<1>3. /\ accessed' \in [Flows -> SUBSET Names]
      /\ UNCHANGED <<mode, flow, inFlow, inSegment, current, locks, saved, writes>>
  BY <1>0, <1>1, ExecuterAssumption DEF Enter, Typed, TypeOK, Call
<1>4. steps' \in 0..MaxSteps /\ rest \in Seq(Waiters)
  BY <1>0, RestProperties
<1>5. /\ pending' \in Seq(Waiters)
      /\ ext' \in SUBSET (Names \X Parts)
      /\ stopAll' \in BOOLEAN
  <2>1. CASE AfterCall(c, Outer, rest)
    <3>1. Outer \in BOOLEAN
      BY DEF Outer
    <3> QED
      BY <1>4, <2>1, <3>1, AfterCallProperties
  <2>2. CASE pending' = rest /\ UNCHANGED <<stopAll, ext>>
    BY <1>4, <2>2 DEF Typed, TypeOK
  <2> QED
    BY <2>1, <2>2, CallOutcome
<1>6. phase' \in Phases /\ errors' \in BOOLEAN
  BY CallOutcome DEF Report, Typed, TypeOK, Phases, Passes, Collecting, Verifying
<1>7. frames' \in Seq(Calls)
  BY <1>2 DEF FlowCall, CallIgnored, CallDisabled, CallGated, CallRuns, Typed, TypeOK
<1>8. stopFlow' \in [Flows -> BOOLEAN]
  BY <1>1 DEF FlowCall, CallIgnored, CallDisabled, CallGated, CallRuns, RaiseStop, Typed,
     TypeOK, Call
<1>9. silent' \in BOOLEAN
  BY DEF FlowCall, CallIgnored, CallDisabled, CallGated, CallRuns, SilentWhenSkipped,
     SilentAfterDummy, SilentAtStart, Typed, TypeOK, Verifying
<1>10. event' \in Events
  BY <1>2, EventTypes DEF FlowCall, CallIgnored, CallDisabled, CallGated, CallRuns
<1> QED
  BY <1>1, <1>3, <1>4, <1>5, <1>6, <1>7, <1>8, <1>9, <1>10
     DEF Typed, TypeOK, FlowOfPass, Waiters

LEMMA TypedWaits ==
    ASSUME Typed, (\E c \in Calls : CallWaits(c)) \/ EndSubsequence
    PROVE  Typed'
<1>1. ASSUME NEW c \in Calls, CallWaits(c)
      PROVE  Typed'
  <2>1. Waiting(c, "pre") \in Waiters
    BY DEF Waiting, Waiters, Parts
  <2>2. pending' \in Seq(Waiters)
    BY <1>1, <2>1, PushProperties DEF CallWaits, Typed, TypeOK, Waiters
  <2>3. event' \in Events /\ steps' \in 0..MaxSteps
    BY <1>1, EventTypes, ExecuterAssumption DEF CallWaits, CallStep, Typed, TypeOK
  <2>4. ext' \in SUBSET (Names \X Parts)
    BY <1>1 DEF CallWaits, Typed, TypeOK
  <2> QED
    BY <1>1, <2>2, <2>3, <2>4 DEF CallWaits, Typed, TypeOK, FlowOfPass, Waiters
<1>2. CASE EndSubsequence
  <2>1. pending' \in Seq(Waiters)
    BY <1>2, PopProperties DEF EndSubsequence, Typed, TypeOK, Waiters
  <2>2. event' \in Events
    BY <1>2, EventTypes DEF EndSubsequence
  <2>3. stopAll' \in BOOLEAN
    BY <1>2 DEF EndSubsequence, StopsSegmentsAt, Typed, TypeOK
  <2> QED
    BY <1>2, <2>1, <2>2, <2>3 DEF EndSubsequence, Typed, TypeOK, FlowOfPass, Waiters
<1> QED
  BY <1>1, <1>2

LEMMA TypedDrive ==
    ASSUME Typed, Drive
    PROVE  Typed'
<1>1. flow \in Flows /\ Top \in Call /\ Top \in Calls /\ frames \in Seq(Calls)
  BY TopIsCall, ExecuterAssumption DEF Drive, CallStep, InUserCode, Outer, Typed,
     FlowOfPass, TypeOK
<1>2. WriteOf(Top) \in Writes
  BY <1>1 DEF WriteOf, Writes, Call
<1>3. writes' \in [Regs -> Writes \cup {None}]
  BY <1>1, <1>2 DEF Drive, Typed, TypeOK
<1>4. event' \in Events
  BY <1>1, EventTypes DEF Drive
<1>5. steps' \in 0..MaxSteps
  BY ExecuterAssumption DEF Drive, CallStep, Typed, TypeOK
<1> QED
  BY <1>3, <1>4, <1>5 DEF Drive, Typed, TypeOK, FlowOfPass

LEMMA TypedReturn ==
    ASSUME Typed, Return
    PROVE  Typed'
<1>1. Top \in Call /\ Top \in Calls /\ frames \in Seq(Calls)
  BY TopIsCall, ExecuterAssumption DEF Return, Outer, Typed, TypeOK
<1>2. frames' \in Seq(Calls)
  BY <1>1, PopProperties DEF Return, Outer
<1>3. locks' \in [Regs -> Vals \cup {None}] /\ writes' \in [Regs -> Writes \cup {None}]
  BY <1>1 DEF Return, Typed, TypeOK, Call
<1>4. event' \in Events
  BY <1>1, EventTypes DEF Return
<1>5. phase' \in Phases /\ errors' \in BOOLEAN /\ silent' \in BOOLEAN
  BY DEF Return, Report, SilentAfter, Collecting, Verifying, Typed, TypeOK, Phases, Passes
<1>6. /\ pending' \in Seq(Waiters)
      /\ ext' \in SUBSET (Names \X Parts)
      /\ stopAll' \in BOOLEAN
  <2>1. pending \in Seq(Waiters) /\ (Len(frames) = 1) \in BOOLEAN
    BY DEF Typed, TypeOK, Waiters
  <2>2. CASE AfterCall(Top, Len(frames) = 1, pending)
    BY <1>1, <2>1, <2>2, AfterCallProperties
  <2>3. CASE UNCHANGED <<stopAll, ext, pending>>
    BY <2>1, <2>3 DEF Typed, TypeOK
  <2> QED
    BY <2>2, <2>3 DEF Return
<1> QED
  BY <1>2, <1>3, <1>4, <1>5, <1>6 DEF Return, Typed, TypeOK, FlowOfPass, Waiters

LEMMA TypedSegment ==
    ASSUME Typed, (\E s \in Segments : CallSegment(s)) \/ EndSegment
    PROVE  Typed'
<1>1. CASE EndSegment
  <2>1. event' \in Events
    BY <1>1, EventTypes DEF EndSegment
  <2> QED
    BY <1>1, <2>1 DEF EndSegment, SegmentTail, Report, Collecting, Verifying,
       InUserCode, Typed, TypeOK, FlowOfPass, Phases, Passes
<1>2. ASSUME NEW s \in Segments, CallSegment(s)
      PROVE  Typed'
  <2>1. s \in Segment
    BY ExecuterAssumption
  <2>2. event' \in Events /\ steps' \in 0..MaxSteps /\ flow \in Flows
    BY <1>2, EventTypes, ExecuterAssumption DEF CallSegment, CallStep, InUserCode,
       Typed, TypeOK, FlowOfPass
  <2>3. accessed' \in [Flows -> SUBSET Names]
    BY <1>2, <2>1, <2>2, ExecuterAssumption DEF CallSegment, AccessSegment, Typed,
       TypeOK, Segment
  <2>4. /\ ext' \in SUBSET (Names \X Parts)
        /\ current' \in Segments \cup {None}
        /\ inSegment' \in BOOLEAN
        /\ phase' \in Phases
        /\ errors' \in BOOLEAN
    BY <1>2, <2>1 DEF CallSegment, SegmentTail, Report, Collecting, Verifying,
       Typed, TypeOK, Segment, Phases, Passes
  <2> QED
    BY <1>2, <2>2, <2>3, <2>4 DEF CallSegment, Typed, TypeOK, FlowOfPass
<1> QED
  BY <1>1, <1>2

LEMMA TypedExecuter ==
    ASSUME Typed, Executer
    PROVE  Typed'
<1>1. CASE StartFlow
  <2>1. event' \in Events
    BY <1>1, EventTypes, EmptySeq DEF StartFlow, Sync
  <2>2. flow \in Flows
    BY <1>1, ExecuterAssumption DEF StartFlow, Typed, TypeOK, Flows
  <2>3. silent' \in BOOLEAN
    <3>1. silent \in BOOLEAN /\ (flow \in Silenced) \in BOOLEAN
      BY DEF Typed, TypeOK
    <3>2. silent' = SilentAtFlowStart
      BY <1>1 DEF StartFlow
    <3> QED
      BY <3>1, <3>2, Zenon DEF SilentAtFlowStart
  <2>4. steps' \in 0..MaxSteps
    BY <1>1, ExecuterAssumption DEF StartFlow
  <2> QED
    BY <1>1, <2>1, <2>2, <2>3, <2>4 DEF StartFlow, Typed, TypeOK, FlowOfPass
<1>2. CASE EndFlow
  <2>1. event' \in Events
    BY <1>2, EventTypes, EmptySeq DEF EndFlow, Sync
  <2>2. flow \in Flows
    BY <1>2 DEF EndFlow, InUserCode, Typed, FlowOfPass
  <2>3. flow' \in 1..(NumFlows + 1)
    BY <1>2, <2>2, ExecuterAssumption DEF EndFlow, Typed, TypeOK, Flows
  <2>4. phase' \in Phases /\ errors' \in BOOLEAN
    BY <1>2 DEF EndFlow, Report, Collecting, Verifying, Typed, TypeOK, Phases, Passes
  <2>5. stopFlow' \in [Flows -> BOOLEAN] /\ silent' \in BOOLEAN
    BY <1>2, <2>2 DEF EndFlow, StopAfterFlow, SilentAfterFlow, Verifying, Typed, TypeOK
  <2> QED
    BY <1>2, <2>1, <2>3, <2>4, <2>5 DEF EndFlow, Typed, TypeOK, FlowOfPass
<1>3. CASE EndVerification
  BY <1>3, EventTypes, ExecuterAssumption DEF EndVerification, PassOver, Typed, TypeOK,
     FlowOfPass, Flows, Phases, Passes
<1>4. CASE EndRun
  BY <1>4, EventTypes DEF EndRun, PassOver, Typed, TypeOK, FlowOfPass, Phases, Passes
<1> QED
  BY <1>1, <1>2, <1>3, <1>4 DEF Executer

LEMMA TypedInit == Init => Typed
<1>1. /\ <<>> \in Seq(Calls) /\ Quiet \in Events
      /\ <<>> \in Seq([call : Calls, part : Parts])
  BY EmptySeq, EventTypes
<1> SUFFICES ASSUME Init
             PROVE  Typed
  OBVIOUS
<1>2. flow \in 1..(NumFlows + 1) /\ steps \in 0..MaxSteps
  BY ExecuterAssumption DEF Init
<1>3. phase \in Phases
  BY DEF Init, Phases, Passes
<1>4. /\ locks \in [Regs -> Vals \cup {None}]
      /\ writes \in [Regs -> Writes \cup {None}]
      /\ stopFlow \in [Flows -> BOOLEAN]
      /\ accessed \in [Flows -> SUBSET Names]
  BY DEF Init
<1> QED
  BY <1>1, <1>2, <1>3, <1>4 DEF Init, Typed, TypeOK, FlowOfPass

LEMMA TypedNext == Typed /\ [Next]_vars => Typed'
<1> SUFFICES ASSUME Typed, [Next]_vars
             PROVE  Typed'
  OBVIOUS
<1>1. CASE UNCHANGED vars
  BY <1>1 DEF vars, Typed, TypeOK, FlowOfPass
<1>2. CASE CallShut
  <2>1. event' \in Events
    BY <1>2, EventTypes DEF CallShut
  <2> QED
    BY <1>2, <2>1, ExecuterAssumption DEF CallShut, CallStep, Typed, TypeOK, FlowOfPass
<1> QED
  BY <1>1, <1>2, CallCases, TypedCall, TypedWaits, TypedDrive, TypedReturn, TypedSegment,
     TypedExecuter DEF Next, UserCode, Terminated

\* The types of the variables, for every execution.
THEOREM TypeCorrect == Spec => []TypeOK
<1>1. Typed => TypeOK
  BY DEF Typed
<1> QED
  BY <1>1, TypedInit, TypedNext, PTL DEF Spec

-----------------------------------------------------------------------------
(***************************************************************************)
(* Silence.  While verifying, the player is silent exactly while an outer  *)
(* action executes.  In a flow of the run pass it is silent all along if   *)
(* the flow is, and else only while a silent action is among those         *)
(* executing (but, as SilentActionDrivesNothing shows, not always then).   *)
(***************************************************************************)
Silence ==
    phase \in Passes =>
        /\ ~Outer => inFlow /\ flow \notin Silenced
        /\ ~inFlow => ~silent
        /\ Verifying => (silent <=> ~Outer)
        /\ phase = "run" /\ inFlow =>
              IF flow \in Silenced \cap Aligned THEN silent
              ELSE silent => \E i \in 1..Len(frames) : frames[i].silent

LEMMA SilenceCall ==
    ASSUME Typed, Silence, NEW c \in Calls, NEW rest, FlowCall(c, rest)
    PROVE  Silence'
<1>1. inFlow /\ inFlow' /\ flow' = flow /\ phase \in Passes
  BY DEF FlowCall, CallIgnored, CallDisabled, CallGated, CallRuns, Enter, CallStep, InUserCode
<1>2. CASE phase' \notin Passes
  BY <1>2 DEF Silence
<1>3. ASSUME phase' = phase, frames' = frames, silent' = SilentWhenSkipped \/ silent' = silent
      PROVE  Silence'
  <2>1. CASE silent' = silent
    BY <1>1, <1>3, <2>1 DEF Silence, Outer, Verifying, Passes
  <2>2. CASE Verifying /\ Outer /\ silent' = FALSE
    BY <1>1, <1>3, <2>2 DEF Silence, Outer, Verifying, Passes
  <2> QED
    BY <1>3, <2>1, <2>2, Zenon DEF SilentWhenSkipped
<1>4. CASE CallIgnored(c, rest) \/ CallDisabled(c, rest)
  BY <1>3, <1>4 DEF CallIgnored, CallDisabled
<1>5. CASE CallGated(c, rest)
  BY <1>2, <1>3, <1>5 DEF CallGated, Report, Exits, Passes
<1>6. CASE CallRuns(c, rest)
  <2>1. flow \notin Silenced
    BY <1>6 DEF CallRuns
  <2>2. CASE Exits(c.invalid)
    BY <1>2, <1>6, <2>2 DEF CallRuns, Report, Exits, Passes
  <2>3. CASE ~Exits(c.invalid) /\ c.dummy
    <3>1. phase' = phase /\ frames' = frames /\ silent' = SilentAfterDummy(c)
      BY <1>6, <2>3 DEF CallRuns, Report, Exits
    <3> QED
      BY <1>1, <2>1, <3>1 DEF Silence, SilentAfterDummy, Outer, Verifying, Passes
  <2>4. CASE ~Exits(c.invalid) /\ ~c.dummy
    <3>1. phase' = phase /\ frames' = Append(frames, c) /\ silent' = SilentAtStart(c)
      BY <1>6, <2>4 DEF CallRuns, Report, Exits
    <3>2. /\ Append(frames, c) # <<>>
          /\ Len(frames) \in Nat
          /\ Len(Append(frames, c)) = Len(frames) + 1
          /\ \A i \in 1..Len(frames) : Append(frames, c)[i] = frames[i]
          /\ Append(frames, c)[Len(frames) + 1] = c
      BY PushProperties, LenProperties DEF Typed, TypeOK
    <3>3. CASE Verifying
      BY <1>1, <2>1, <3>1, <3>2, <3>3 DEF Silence, SilentAtStart, Outer, Verifying
    <3>4. CASE phase = "run"
      <4>1. silent' => \E i \in 1..Len(frames') : frames'[i].silent
        <5>1. CASE c.silent
          BY <3>1, <3>2, <5>1
        <5>2. CASE ~c.silent
          <6>1. silent' => silent
            BY <3>1, <3>4, <5>2 DEF SilentAtStart, Verifying
          <6>2. silent => \E i \in 1..Len(frames) : frames[i].silent
            BY <1>1, <2>1, <3>4 DEF Silence
          <6> QED
            BY <3>1, <3>2, <6>1, <6>2
        <5> QED
          BY <5>1, <5>2
      <4> QED
        BY <1>1, <2>1, <3>1, <3>2, <3>4, <4>1 DEF Silence, Outer, Verifying
    <3> QED
      BY <1>1, <3>3, <3>4 DEF Passes, Verifying
  <2> QED
    BY <1>6, <2>2, <2>3, <2>4
<1> QED
  BY <1>4, <1>5, <1>6 DEF FlowCall

LEMMA SilenceReturn ==
    ASSUME Typed, Silence, Return
    PROVE  Silence'
<1> DEFINE outer == Len(frames) = 1
<1>1. /\ inFlow /\ inFlow' /\ flow' = flow /\ phase \in Passes
      /\ ~Outer /\ flow \notin Silenced
      /\ frames' = Pop(frames)
      /\ silent' = SilentAfter(Top, outer)
  BY DEF Return, InUserCode, Silence
<1>2. /\ Len(frames) \in Nat \ {0}
      /\ Len(Pop(frames)) = Len(frames) - 1
      /\ \A i \in 1..(Len(frames) - 1) : Pop(frames)[i] = frames[i]
      /\ Pop(frames) = <<>> <=> outer
  BY <1>1, PopProperties DEF Outer, Typed, TypeOK
<1>3. CASE phase' \notin Passes
  BY <1>3 DEF Silence
<1>4. CASE phase' = phase /\ Verifying
  BY <1>1, <1>2, <1>4 DEF Silence, SilentAfter, Outer, Verifying
<1>5. CASE phase' = phase /\ phase = "run"
  <2>1. silent' => \E i \in 1..Len(frames') : frames'[i].silent
    <3>1. silent' => silent /\ ~frames[Len(frames)].silent
      BY <1>1, <1>5 DEF SilentAfter, Verifying, Top
    <3>2. silent => \E i \in 1..Len(frames) : frames[i].silent
      BY <1>1, <1>5 DEF Silence
    <3> QED
      BY <1>1, <1>2, <3>1, <3>2
  <2> QED
    BY <1>1, <1>5, <2>1 DEF Silence, Verifying
<1>6. phase' = phase \/ phase' \notin Passes
  BY DEF Return, Report, Passes
<1> QED
  BY <1>1, <1>3, <1>4, <1>5, <1>6 DEF Passes, Verifying

LEMMA SilenceExecuter ==
    ASSUME Typed, Silence, Executer
    PROVE  Silence'
<1>1. CASE StartFlow
  <2>1. /\ phase' = phase /\ inFlow' /\ flow' = flow /\ frames' = frames
        /\ silent' = SilentAtFlowStart /\ phase \in Passes
        /\ ~silent /\ frames = <<>>
    BY <1>1 DEF StartFlow, Silence, Outer
  <2> QED
    BY <2>1 DEF Silence, SilentAtFlowStart, Outer, Verifying, Passes
<1>2. CASE EndFlow
  <2>1. CASE phase' \notin Passes
    BY <2>1 DEF Silence
  <2>2. CASE phase' = phase
    <3>1. ~Exits(Unused # {})
      BY <1>2, <2>2 DEF EndFlow, Exits, Report, InUserCode, Passes
    <3> QED
      BY <1>2, <2>2, <3>1 DEF EndFlow, Silence, SilentAfterFlow, Outer, Verifying, Passes
  <2> QED
    BY <1>2, <2>1, <2>2 DEF EndFlow, Report, Passes
<1>3. CASE EndVerification
  BY <1>3 DEF EndVerification, PassOver, Silence, Outer, Verifying, Passes
<1>4. CASE EndRun
  BY <1>4 DEF EndRun, Silence, Passes
<1> QED
  BY <1>1, <1>2, <1>3, <1>4 DEF Executer

LEMMA SilenceNext == Typed /\ Silence /\ [Next]_vars => Silence'
<1> SUFFICES ASSUME Typed, Silence, [Next]_vars
             PROVE  Silence'
  OBVIOUS
<1>1. ASSUME UNCHANGED <<inFlow, flow, frames, silent>>, phase' = phase \/ phase' \notin Passes
      PROVE  Silence'
  BY <1>1 DEF Silence, Outer, Verifying
<1>2. CASE \/ CallShut \/ Drive \/ EndSubsequence \/ UNCHANGED vars
           \/ \E c \in Calls : CallWaits(c)
  BY <1>1, <1>2 DEF CallShut, Drive, EndSubsequence, CallWaits, vars
<1>3. CASE EndSegment \/ \E s \in Segments : CallSegment(s)
  BY <1>1, <1>3 DEF EndSegment, CallSegment, SegmentTail, Report, Passes
<1> QED
  BY <1>2, <1>3, CallCases, SilenceCall, SilenceReturn, SilenceExecuter
     DEF Next, UserCode, Terminated

THEOREM SilenceHolds == Spec => [](Typed /\ Silence)
<1>1. Init => Silence
  BY EmptySeq DEF Init, Silence, Outer, Verifying, Passes
<1> QED
  BY <1>1, TypedInit, TypedNext, SilenceNext, PTL DEF Spec

\* No skipped, dummy or silent action leaves the player in a wrong mode.
THEOREM SilentBetween == Spec => []SilentBetweenActions
<1>1. Typed /\ Silence => SilentBetweenActions
  <2>1. Len(<<>>) = 0
    BY EmptySeq
  <2> QED
    BY <2>1 DEF Typed, Silence, SilentBetweenActions, InUserCode, Outer, Verifying, Passes
<1> QED
  BY <1>1, SilenceHolds, PTL

\* Nothing the verification pass executes reaches the DUT: what drives is an
\* action executing while the player is not silent.
THEOREM VerificationSafe == Spec => []VerificationDrivesNothing
<1> DEFINE Inv == Typed /\ Silence
<1>1. Init => VerificationDrivesNothing
  BY DEF Init, Quiet, VerificationDrivesNothing
<1>2. Inv /\ VerificationDrivesNothing /\ [Next]_vars => VerificationDrivesNothing'
  <2> SUFFICES ASSUME Silence, VerificationDrivesNothing, [Next]_vars
               PROVE  VerificationDrivesNothing'
    OBVIOUS
  <2>1. CASE Drive
    <3>1. phase' = phase /\ phase \in Passes /\ ~Outer /\ ~silent
      BY <2>1 DEF Drive, CallStep, InUserCode
    <3> QED
      BY <3>1 DEF Silence, VerificationDrivesNothing, Verifying
  <2>2. CASE StartFlow
    BY <2>2 DEF StartFlow, Sync, Quiet, Event, VerificationDrivesNothing, Verifying
  <2>3. CASE EndFlow
    BY <2>3 DEF EndFlow, Sync, Quiet, Event, Report, VerificationDrivesNothing, Verifying
  <2>4. ASSUME event'.kind \in {"quiet", "clash"}
        PROVE  VerificationDrivesNothing'
    BY <2>4 DEF VerificationDrivesNothing
  <2>5. ASSUME NEW c \in Calls, NEW rest, FlowCall(c, rest)
        PROVE  VerificationDrivesNothing'
    BY <2>4, <2>5 DEF FlowCall, CallIgnored, CallDisabled, CallGated, CallRuns, Quiet, Event
  <2>6. CASE CallShut \/ EndSubsequence \/ EndSegment \/ EndVerification \/ EndRun
    <3>1. event' = Quiet
      BY <2>6 DEF CallShut, EndSubsequence, EndSegment, EndVerification, EndRun
    <3> QED
      BY <2>4, <3>1 DEF Quiet
  <2>9. CASE Return
    BY <2>4, <2>9 DEF Return, Quiet, Event
  <2>8. CASE (\E s \in Segments : CallSegment(s)) \/ \E c \in Calls : CallWaits(c)
    BY <2>4, <2>8 DEF CallSegment, CallWaits, Quiet
  <2>7. CASE UNCHANGED vars
    BY <2>7 DEF vars, VerificationDrivesNothing, Verifying
  <2> QED
    BY <2>1, <2>2, <2>3, <2>5, <2>6, <2>7, <2>8, <2>9, CallCases
       DEF Next, UserCode, Executer, Terminated
<1> QED
  BY <1>1, <1>2, SilenceHolds, PTL DEF Spec

-----------------------------------------------------------------------------
(***************************************************************************)
(* Stops, invalid arguments, cluster mode, command-line names, locks, and  *)
(* the two-pass protocol.  Each invariant is strengthened until it is      *)
(* inductive together with the types and the silence above.                *)
(***************************************************************************)

(***************************************************************************)
(* Stopped segments.                                                       *)
(***************************************************************************)

StopWhileRunning == stopAll => ~Verifying

LEMMA StopWhileRunningNext == Typed /\ StopWhileRunning /\ [Next]_vars => StopWhileRunning'
<1> SUFFICES ASSUME Typed, StopWhileRunning, [Next]_vars
             PROVE  StopWhileRunning'
  OBVIOUS
<1>1. ASSUME stopAll' => stopAll \/ ~Verifying, phase' = phase \/ phase' # "verify"
      PROVE  StopWhileRunning'
  BY <1>1 DEF StopWhileRunning, Verifying
<1>2. CASE \/ CallShut \/ Drive \/ UNCHANGED vars
           \/ \E c \in Calls : CallWaits(c)
  BY <1>1, <1>2 DEF CallShut, Drive, CallWaits, vars
<1>3. CASE EndSubsequence
  BY <1>1, <1>3 DEF EndSubsequence, StopsSegmentsAt
<1>4. ASSUME NEW c \in Calls, NEW rest, FlowCall(c, rest)
      PROVE  StopWhileRunning'
  <2>1. phase' = phase \/ phase' # "verify"
    BY <1>4, CallOutcome
  <2>2. CASE AfterCall(c, Outer, rest)
    BY <1>1, <2>1, <2>2 DEF AfterCall, StopsSegmentsAt
  <2>3. CASE UNCHANGED stopAll
    BY <1>1, <2>1, <2>3
  <2> QED
    BY <1>4, <2>2, <2>3, CallOutcome
<1>5. CASE Return
  <2>1. phase' = phase \/ phase' # "verify"
    BY <1>5 DEF Return, Report
  <2>2. stopAll' => stopAll \/ ~Verifying
    BY <1>5 DEF Return, AfterCall, StopsSegmentsAt
  <2> QED
    BY <1>1, <2>1, <2>2
<1>6. CASE EndSegment \/ \E s \in Segments : CallSegment(s)
  BY <1>1, <1>6 DEF EndSegment, CallSegment, SegmentTail, Report
<1>7. CASE Executer
  BY <1>1, <1>7 DEF Executer, StartFlow, EndFlow, EndVerification, EndRun, Report
<1> QED
  BY <1>2, <1>3, <1>4, <1>5, <1>6, <1>7, CallCases DEF Next, UserCode, Terminated

\* No step begins a call of a stopped segment or enters another segment.
LEMMA StoppedStep ==
    ASSUME Typed, [Next]_vars, stopAll
    PROVE  /\ stopAll'
           /\ inSegment' => inSegment /\ Underway' <= Underway
<1>1. /\ Len(pending) \in Nat
      /\ Len(frames) \in Nat
      /\ Underway \in Nat
  BY LenProperties DEF Typed, TypeOK, Underway
<1>2. ASSUME UNCHANGED <<pending, frames, inSegment>>, stopAll'
      PROVE  /\ stopAll'
             /\ inSegment' => inSegment /\ Underway' <= Underway
  <2>1. Underway' = Underway
    BY <1>2 DEF Underway, Outer
  <2> QED
    BY <1>1, <1>2, <2>1
<1>3. CASE CallShut \/ Drive \/ Executer \/ UNCHANGED vars
  BY <1>2, <1>3 DEF CallShut, Drive, Executer, StartFlow, EndFlow, EndVerification, EndRun, vars
<1>4. CASE \E c \in Calls : CallWaits(c)
  BY <1>4 DEF CallWaits, Extended, Shut
<1>5. CASE EndSegment \/ \E s \in Segments : CallSegment(s)
  <2>1. stopAll' /\ UNCHANGED <<pending, frames>> /\ (inSegment' => inSegment)
    <3>1. CASE EndSegment
      BY <3>1 DEF EndSegment, SegmentTail
    <3>2. ASSUME NEW s \in Segments, CallSegment(s)
          PROVE  stopAll' /\ UNCHANGED <<pending, frames>> /\ (inSegment' => inSegment)
      BY <3>2 DEF CallSegment, SegmentTail
    <3> QED
      BY <1>5, <3>1, <3>2
  <2>2. Underway' = Underway
    BY <2>1 DEF Underway, Outer
  <2> QED
    BY <1>1, <2>1, <2>2
<1>6. CASE EndSubsequence
  <2>1. /\ Len(pending') = Len(pending) - 1
        /\ UNCHANGED <<frames, inSegment>> /\ stopAll'
    BY <1>6, PopProperties DEF EndSubsequence, Typed, TypeOK
  <2>2. Underway' = Underway - 1
    BY <1>1, <2>1 DEF Underway, Outer
  <2> QED
    BY <1>1, <2>1, <2>2
<1>7. CASE Return
  <2>1. /\ ~Outer /\ frames # <<>> /\ frames' = Pop(frames) /\ inSegment' = inSegment
        /\ Top \in Calls
    BY <1>7, TopIsCall DEF Return, Outer, Typed, TypeOK
  <2>2. /\ frames' = <<>> <=> Len(frames) = 1
        /\ pending \in Seq(Waiters) /\ (Len(frames) = 1) \in BOOLEAN
    BY <2>1, PopProperties DEF Typed, TypeOK, Waiters
  <2>3. /\ stopAll'
        /\ pending' = pending \/ (Len(frames) = 1 /\ Len(pending') = Len(pending) + 1)
    BY <1>7, <2>1, <2>2, AfterCallProperties DEF Return
  <2>4. Underway = Len(pending) + 1
    BY <2>1 DEF Underway
  <2>5. Underway' <= Len(pending) + 1
    <3>1. CASE pending' = pending
      BY <1>1, <3>1 DEF Underway
    <3>2. CASE Len(frames) = 1 /\ Len(pending') = Len(pending) + 1
      BY <1>1, <2>2, <3>2 DEF Underway, Outer
    <3> QED
      BY <2>3, <3>1, <3>2
  <2> QED
    BY <2>1, <2>3, <2>4, <2>5
<1>8. ASSUME NEW c \in Calls, NEW rest, FlowCall(c, rest)
      PROVE  /\ stopAll'
             /\ inSegment' => inSegment /\ Underway' <= Underway
  <2>1. /\ rest \in Seq(Waiters)
        /\ \/ rest = pending /\ ~Shut
           \/ Outer /\ Len(rest) = Len(pending) - 1 /\ Len(pending) \in Nat \ {0}
        /\ inSegment' = inSegment
    <3>1. Enter(c, rest)
      BY <1>8, CallOutcome
    <3>2. inSegment' = inSegment
      BY <3>1 DEF Enter
    <3> QED
      BY <3>1, <3>2, RestProperties
  <2>2. /\ stopAll'
        /\ \/ /\ frames' = frames
              /\ pending' = rest \/ (Outer /\ inSegment /\ Len(pending') = Len(rest) + 1)
           \/ pending' = rest
    <3>1. Outer \in BOOLEAN
      BY DEF Outer
    <3>2. CASE frames' = frames /\ AfterCall(c, Outer, rest)
      BY <2>1, <3>1, <3>2, AfterCallProperties
    <3>3. CASE pending' = rest /\ UNCHANGED stopAll
      BY <3>3
    <3> QED
      BY <1>8, <3>2, <3>3, CallOutcome
  <2>3. Len(rest) \in Nat /\ Len(pending') \in Nat
    BY <1>1, <2>1, <2>2, LenProperties
  <2>4. CASE Outer /\ Len(rest) = Len(pending) - 1
    <3>1. Underway = Len(pending)
      BY <1>1, <2>4 DEF Underway
    <3>2. CASE frames' = frames
      <4>1. Underway' = Len(pending')
        BY <2>3, <2>4, <3>2 DEF Underway, Outer
      <4>2. Len(pending') <= Len(pending)
        BY <1>1, <2>2, <2>3, <2>4
      <4> QED
        BY <2>1, <2>2, <3>1, <4>1, <4>2
    <3>3. CASE pending' = rest
      BY <1>1, <2>1, <2>2, <2>4, <3>1, <3>3 DEF Underway
    <3> QED
      BY <2>2, <3>2, <3>3
  <2>5. CASE rest = pending /\ ~Shut /\ inSegment
    <3>1. ~Outer
      BY <2>5 DEF Shut
    <3>2. pending' = pending
      BY <2>2, <2>5, <3>1
    <3>3. Underway = Len(pending) + 1 /\ Underway' <= Len(pending) + 1
      BY <1>1, <3>1, <3>2 DEF Underway
    <3> QED
      BY <2>1, <2>2, <3>3
  <2> QED
    BY <2>1, <2>2, <2>4, <2>5
<1> QED
  BY <1>3, <1>4, <1>5, <1>6, <1>7, <1>8, CallCases DEF Next, UserCode, Terminated

\* Once stop_segment_at_action of any segment took effect, no call of any
\* segment begins, in this flow or in a later one; only the calls around the
\* stopping one go on.  It is never raised while verifying
\* (htd_basic_segment.py, exec_action).
THEOREM StopsHold == Spec => StopAllHolds
<1>1. Init => StopWhileRunning
  BY DEF Init, StopWhileRunning
<1>2. Typed /\ StopWhileRunning /\ [Next]_vars =>
        [stopAll => /\ ~Verifying
                    /\ stopAll'
                    /\ inSegment' => inSegment /\ Underway' <= Underway]_vars
  BY StoppedStep DEF StopWhileRunning
<1> QED
  BY <1>1, <1>2, TypedInit, TypedNext, StopWhileRunningNext, PTL DEF Spec, StopAllHolds

(***************************************************************************)
(* Stopped flows.  While a pass is on, the stop flag is raised only of the *)
(* flow that executes and, in the run pass, of those before it.            *)
(***************************************************************************)
StopsBehind ==
    phase \in Passes =>
        \A f \in Flows : stopFlow[f] => (inFlow /\ f = flow) \/ (phase = "run" /\ f < flow)

LEMMA StopsBehindNext == Typed /\ StopsBehind /\ [Next]_vars => StopsBehind'
<1> SUFFICES ASSUME Typed, StopsBehind, [Next]_vars
             PROVE  StopsBehind'
  OBVIOUS
<1>1. ASSUME UNCHANGED <<inFlow, flow, stopFlow>>, phase' = phase \/ phase' \notin Passes
      PROVE  StopsBehind'
  BY <1>1 DEF StopsBehind
<1>2. CASE \/ UNCHANGED vars \/ CallShut \/ Drive \/ EndSubsequence
           \/ \E c \in Calls : CallWaits(c)
  BY <1>1, <1>2 DEF vars, CallShut, Drive, EndSubsequence, CallWaits
<1>3. CASE Return \/ EndSegment \/ \E s \in Segments : CallSegment(s)
  BY <1>1, <1>3 DEF Return, EndSegment, CallSegment, SegmentTail, Report, Passes
<1>4. ASSUME NEW c \in Calls, NEW rest, FlowCall(c, rest)
      PROVE  StopsBehind'
  <2>1. /\ inFlow /\ inFlow' /\ flow' = flow
        /\ phase' = phase \/ phase' \notin Passes
        /\ stopFlow' = stopFlow \/ RaiseStop(c)
    BY <1>4 DEF FlowCall, CallIgnored, CallDisabled, CallGated, CallRuns, Enter, CallStep,
       InUserCode,
       Report, Passes
  <2> QED
    BY <2>1 DEF StopsBehind, RaiseStop, Typed, TypeOK
<1>5. CASE StartFlow
  BY <1>5 DEF StartFlow, StopsBehind, Typed, TypeOK, Flows
<1>6. CASE EndFlow
  <2>1. CASE phase' \notin Passes
    BY <2>1 DEF StopsBehind
  <2>2. CASE phase' = phase
    <3>1. ~Exits(Unused # {})
      BY <1>6, <2>2 DEF EndFlow, Exits, Report, InUserCode, Passes
    <3>2. /\ flow \in Flows /\ flow' = flow + 1 /\ stopFlow' = StopAfterFlow
          /\ stopFlow \in [Flows -> BOOLEAN]
      BY <1>6, <3>1 DEF EndFlow, InUserCode, Typed, TypeOK, FlowOfPass
    <3>3. \A f \in Flows : stopFlow'[f] => stopFlow[f] /\ (f = flow => ~Verifying)
      BY <3>2 DEF StopAfterFlow
    <3>4. \A f \in Flows : f < flow \/ f = flow => f < flow + 1
      BY <3>2, ExecuterAssumption DEF Flows
    <3>5. phase \in Passes /\ (~Verifying => phase = "run")
      BY <1>6 DEF EndFlow, InUserCode, Passes, Verifying
    <3> QED
      BY <2>2, <3>2, <3>3, <3>4, <3>5 DEF StopsBehind, Passes, Verifying
  <2> QED
    BY <1>6, <2>1, <2>2 DEF EndFlow, Report, Passes
<1>7. CASE EndVerification
  BY <1>7 DEF EndVerification, PassOver, StopsBehind, Passes
<1>8. CASE EndRun
  BY <1>8 DEF EndRun, StopsBehind, Passes
<1> QED
  BY <1>2, <1>3, <1>4, <1>5, <1>6, <1>7, <1>8, CallCases
     DEF Next, UserCode, Executer, Terminated

\* A stop that verification raised never keeps a flow's run pass from
\* executing it (htd_te_manager.py, unset_stop_flow_mode).
THEOREM RunUnstopped == Spec => []RunStartsUnstopped
<1>1. Init => StopsBehind
  BY DEF Init, StopsBehind
<1>2. Typed /\ StopsBehind => RunStartsUnstopped
  BY DEF Typed, TypeOK, StopsBehind, RunStartsUnstopped, Passes, Flows
<1> QED
  BY <1>1, <1>2, TypedInit, TypedNext, StopsBehindNext, PTL DEF Spec

\* Once a flow of the run pass is stopped, its executing actions finish and
\* none begins (htd_basic_flow.py, exec_action).
THEOREM StoppedFlowDrains == Spec => StopFlowDrains
<1> DEFINE Drains ==
      phase = "run" /\ inFlow /\ flow' = flow /\ stopFlow[flow] =>
          stopFlow'[flow] /\ Len(frames') <= Len(frames)
<1>1. Typed /\ [Next]_vars => [Drains]_vars
  <2> SUFFICES ASSUME Typed, Next, phase = "run", inFlow, flow' = flow, stopFlow[flow]
               PROVE  stopFlow'[flow] /\ Len(frames') <= Len(frames)
    BY Zenon
  <2>1. Len(frames) \in Nat
    BY LenProperties DEF Typed, TypeOK
  <2>2. CASE UNCHANGED <<stopFlow, frames>>
    BY <2>1, <2>2
  <2>3. CASE Return
    <3>1. Len(frames') = Len(frames) - 1 /\ stopFlow' = stopFlow
      BY <2>3, PopProperties DEF Return, Outer, Typed, TypeOK
    <3> QED
      BY <2>1, <3>1
  <2>4. CASE EndFlow
    <3>1. flow \in Nat
      BY DEF Typed, TypeOK
    <3> QED
      BY <2>2, <2>4, <3>1 DEF EndFlow
  <2>5. ASSUME NEW c \in Calls, NEW rest, FlowCall(c, rest)
        PROVE  UNCHANGED <<stopFlow, frames>>
    BY <2>5 DEF FlowCall, CallIgnored, CallDisabled, CallGated, CallRuns, FlowStopped
  <2> QED
    BY <2>2, <2>3, <2>4, <2>5, CallCases
       DEF Next, UserCode, CallShut, CallWaits, Drive, EndSubsequence, CallSegment, EndSegment,
           Executer, StartFlow, EndVerification, EndRun, Terminated, vars
<1> QED
  BY <1>1, TypedInit, TypedNext, PTL DEF Spec, StopFlowDrains

-----------------------------------------------------------------------------
(***************************************************************************)
(* Command-line names.  As long as verification collected no error, the    *)
(* flows behind it have picked up all their names that are checked.        *)
(***************************************************************************)
NamesBehind ==
    mode = "twopass" =>
        /\ Verifying /\ ~errors => \A f \in Flows : f < flow => Checked(f) \subseteq accessed[f]
        /\ phase \in {"run", "done"} => \A f \in Flows : Checked(f) \subseteq accessed[f]

\* Names that were picked up stay so.
LEMMA AccessedGrows ==
    ASSUME Typed, [Next]_vars
    PROVE  \A f \in Flows : accessed[f] \subseteq accessed'[f]
<1>1. CASE UNCHANGED accessed
  BY <1>1
<1>2. ASSUME NEW c \in Calls, NEW rest, FlowCall(c, rest)
      PROVE  \A f \in Flows : accessed[f] \subseteq accessed'[f]
  <2>1. Enter(c, rest)
    BY <1>2 DEF FlowCall, CallIgnored, CallDisabled, CallGated, CallRuns
  <2> QED
    BY <2>1 DEF Enter, Typed, TypeOK
<1>3. ASSUME NEW s \in Segments, CallSegment(s)
      PROVE  \A f \in Flows : accessed[f] \subseteq accessed'[f]
  <2>1. accessed' = accessed \/ AccessSegment(s)
    BY <1>3 DEF CallSegment
  <2> QED
    BY <2>1 DEF AccessSegment, Typed, TypeOK
<1> QED
  BY <1>1, <1>2, <1>3, CallCases
     DEF Next, UserCode, CallShut, CallWaits, Drive, EndSubsequence, Return,
         EndSegment, Executer, StartFlow,
         EndFlow, EndVerification, EndRun, Terminated, vars

LEMMA NamesBehindNext == Typed /\ NamesBehind /\ [Next]_vars => NamesBehind'
<1> SUFFICES ASSUME Typed, NamesBehind, [Next]_vars
             PROVE  NamesBehind'
  OBVIOUS
<1>1. \A f \in Flows : accessed[f] \subseteq accessed'[f]
  BY AccessedGrows
<1>2. ASSUME UNCHANGED <<mode, flow>>, phase' = phase \/ phase' \in {"failed", "crashed"},
             errors => errors'
      PROVE  NamesBehind'
  BY <1>1, <1>2 DEF NamesBehind, Verifying
<1>3. CASE UNCHANGED vars \/ CallShut \/ Drive \/ StartFlow
  BY <1>2, <1>3 DEF vars, CallShut, Drive, StartFlow
<1>9. CASE EndSubsequence \/ \E c \in Calls : CallWaits(c)
  BY <1>2, <1>9 DEF EndSubsequence, CallWaits
<1>4. CASE Return \/ EndSegment \/ \E s \in Segments : CallSegment(s)
  BY <1>2, <1>4 DEF Return, EndSegment, CallSegment, SegmentTail, Report
<1>5. ASSUME NEW c \in Calls, NEW rest, FlowCall(c, rest)
      PROVE  NamesBehind'
  BY <1>2, <1>5, CallOutcome DEF Enter
<1>6. CASE EndFlow
  <2>1. CASE phase' # phase \/ ~Verifying
    BY <1>1, <1>6, <2>1 DEF EndFlow, Report, NamesBehind, Verifying
  <2>2. CASE phase' = phase /\ Verifying
    <3>1. /\ flow \in Flows /\ flow' = flow + 1 /\ mode' = mode
          /\ errors' = (errors \/ Unused # {})
      BY <1>6, <2>2 DEF EndFlow, Report, Exits, Collecting, InUserCode, Typed, FlowOfPass
    <3>2. ~errors' => ~errors /\ Checked(flow) \subseteq accessed[flow]
      BY <3>1 DEF Unused
    <3>3. \A f \in Flows : f < flow + 1 => f < flow \/ f = flow
      BY <3>1, ExecuterAssumption DEF Flows
    <3> QED
      BY <1>1, <2>2, <3>1, <3>2, <3>3 DEF NamesBehind, Verifying
  <2> QED
    BY <2>1, <2>2
<1>7. CASE EndVerification
  <2>1. \A f \in Flows : f < NumFlows + 1
    BY ExecuterAssumption DEF Flows
  <2> QED
    BY <1>1, <1>7, <2>1 DEF EndVerification, PassOver, NamesBehind, Verifying
<1>8. CASE EndRun
  BY <1>1, <1>8 DEF EndRun, NamesBehind, Verifying
<1> QED
  BY <1>3, <1>4, <1>5, <1>6, <1>7, <1>8, <1>9, CallCases
     DEF Next, UserCode, Executer, Terminated

\* A per-action argument on the command line that names nothing the flow calls
\* is reported before the run pass, unless it only disables the name or is not
\* declared (htd_basic_flow.py, post_verify).
THEOREM TyposFound == Spec => []TyposFoundBeforeRun
<1>1. Init => NamesBehind
  BY ExecuterAssumption DEF Init, NamesBehind, Verifying, Flows
<1>2. NamesBehind => TyposFoundBeforeRun
  BY DEF NamesBehind, TyposFoundBeforeRun
<1> QED
  BY <1>1, <1>2, TypedInit, TypedNext, NamesBehindNext, PTL DEF Spec

-----------------------------------------------------------------------------
(***************************************************************************)
(* What may drive.  Every call on the stack of a run pass that exits on    *)
(* errors has valid arguments, and began while no vertical segment of a    *)
(* cluster model was current; neither changes before it returns.  A call   *)
(* that waits for its sub-sequence is of a segment, which is no such one.  *)
(***************************************************************************)
ValidStack ==
    phase = "run" /\ mode # "runtime" => \A i \in 1..Len(frames) : ~frames[i].invalid

UnmaskedStack ==
    /\ pending # <<>> => inSegment
    /\ (~Outer \/ inSegment) /\ current # None => ~Masked(current)

LEMMA StackNext ==
    Typed /\ Silence /\ ValidStack /\ UnmaskedStack /\ [Next]_vars => ValidStack' /\ UnmaskedStack'
<1> SUFFICES ASSUME Typed, Silence, ValidStack, UnmaskedStack, [Next]_vars
             PROVE  ValidStack' /\ UnmaskedStack'
  OBVIOUS
<1>1. ASSUME UNCHANGED <<mode, frames, current, inSegment>>, phase' = phase \/ phase' # "run",
             pending' # <<>> => inSegment
      PROVE  ValidStack' /\ UnmaskedStack'
  BY <1>1 DEF ValidStack, UnmaskedStack, Outer, Masked
<1>2. ASSUME UNCHANGED <<mode, frames, pending>>, phase' = phase \/ phase' # "run", Outer,
             pending = <<>>, inSegment' /\ current' # None => ~Masked(current')
      PROVE  ValidStack' /\ UnmaskedStack'
  BY <1>2 DEF ValidStack, UnmaskedStack, Outer, Masked
<1>3. CASE UNCHANGED vars \/ CallShut \/ Drive \/ StartFlow
  BY <1>1, <1>3 DEF vars, CallShut, Drive, StartFlow, UnmaskedStack
<1>8. CASE EndSubsequence \/ \E c \in Calls : CallWaits(c)
  BY <1>1, <1>8 DEF EndSubsequence, CallWaits, Extended, UnmaskedStack
<1>4. CASE EndSegment \/ EndFlow \/ \E s \in Segments : CallSegment(s)
  <2>1. UNCHANGED <<mode, frames, pending>> /\ Outer /\ pending = <<>>
    BY <1>4 DEF EndSegment, EndFlow, CallSegment, UnmaskedStack
  <2>2. phase' = phase \/ phase' # "run"
    BY <1>4 DEF EndSegment, EndFlow, CallSegment, SegmentTail, Report
  <2>3. inSegment' /\ current' # None => ~Masked(current')
    BY <1>4 DEF EndSegment, EndFlow, CallSegment, SegmentTail, Masked
  <2> QED
    BY <1>2, <2>1, <2>2, <2>3
<1>5. ASSUME NEW c \in Calls, NEW rest, FlowCall(c, rest)
      PROVE  ValidStack' /\ UnmaskedStack'
  <2>1. /\ UNCHANGED <<mode, current, inSegment>>
        /\ phase' = phase \/ phase' = "failed"
    BY <1>5, CallOutcome DEF Enter
  <2>4. current # None => ~Masked(current)
    <3>1. ~Shut \/ pending # <<>>
      BY <1>5, CallOutcome DEF Enter
    <3> QED
      BY <3>1 DEF Shut, UnmaskedStack
  <2>5. pending' # <<>> => inSegment
    <3>1. rest = pending \/ inSegment
      BY <1>5, CallOutcome DEF Enter, UnmaskedStack
    <3>2. pending' = rest \/ inSegment
      BY <1>5, CallOutcome DEF AfterCall, Extended
    <3> QED
      BY <3>1, <3>2 DEF UnmaskedStack
  <2>2. CASE frames' = frames
    BY <1>1, <2>1, <2>2, <2>5
  <2>3. CASE frames' # frames
    <3>1. /\ frames' = Append(frames, c)
          /\ phase' = phase
          /\ phase = "run" /\ mode # "runtime" => ~c.invalid
      BY <1>5, <2>3 DEF FlowCall, CallIgnored, CallDisabled, CallGated, CallRuns, Report, Exits,
         Collecting, Verifying
    <3>2. /\ Len(frames) \in Nat
          /\ Len(Append(frames, c)) = Len(frames) + 1
          /\ \A i \in 1..Len(frames) : Append(frames, c)[i] = frames[i]
          /\ Append(frames, c)[Len(frames) + 1] = c
      BY PushProperties, LenProperties DEF Typed, TypeOK
    <3>3. ValidStack'
      BY <2>1, <3>1, <3>2 DEF ValidStack
    <3>4. UnmaskedStack'
      BY <2>1, <2>4, <2>5 DEF UnmaskedStack, Masked
    <3> QED
      BY <3>3, <3>4
  <2> QED
    BY <2>2, <2>3
<1>6. CASE Return
  <2>1. /\ Len(frames) \in Nat \ {0}
        /\ Len(frames') = Len(frames) - 1
        /\ \A i \in 1..(Len(frames) - 1) : frames'[i] = frames[i]
        /\ ~Outer
    BY <1>6, PopProperties DEF Return, Outer, Typed, TypeOK
  <2>2. UNCHANGED <<mode, current, inSegment>> /\ (phase' = phase \/ phase' = "failed")
    BY <1>6 DEF Return, Report
  <2>3. pending' # <<>> => inSegment
    BY <1>6 DEF Return, AfterCall, Extended, UnmaskedStack
  <2> QED
    BY <2>1, <2>2, <2>3 DEF ValidStack, UnmaskedStack, Masked
<1>7. CASE EndVerification \/ EndRun
  <2>1. frames = <<>> /\ frames' = frames /\ Len(<<>>) = 0
    BY <1>7, EmptySeq DEF EndVerification, EndRun, PassOver, Silence, Outer, Passes
  <2>2. UNCHANGED <<pending, inSegment, current>>
    BY <1>7 DEF EndVerification, EndRun
  <2> QED
    BY <2>1, <2>2 DEF ValidStack, UnmaskedStack, Outer, Masked
<1> QED
  BY <1>3, <1>4, <1>5, <1>6, <1>7, <1>8, CallCases DEF Next, UserCode, Executer, Terminated

LEMMA StackInvariant == Spec => [](Typed /\ Silence /\ ValidStack /\ UnmaskedStack)
<1>1. Init => ValidStack /\ UnmaskedStack
  <2>1. Len(<<>>) = 0
    BY EmptySeq
  <2> QED
    BY <2>1 DEF Init, ValidStack, UnmaskedStack, Outer
<1>2. Init => Silence
  BY EmptySeq DEF Init, Silence, Outer, Verifying, Passes
<1> QED
  BY <1>1, <1>2, TypedInit, TypedNext, SilenceNext, StackNext, PTL DEF Spec

\* Only Drive is seen as a drive, and it happens in the run pass alone.
LEMMA DrivesFrom ==
    ASSUME Silence, [Next]_vars, event'.kind = "drive"
    PROVE  \/ /\ phase = "run" /\ ~Outer
              /\ event'.stack = frames
              /\ UNCHANGED <<mode, current, phase>>
           \/ UNCHANGED <<event, mode, current>>
<1>1. CASE Drive
  BY <1>1 DEF Drive, CallStep, InUserCode, Silence, Verifying, Passes, Event
<1>2. ASSUME event' = Quiet \/ event'.kind # "drive"
      PROVE  FALSE
  BY <1>2 DEF Quiet
<1>3. CASE UNCHANGED vars
  BY <1>3 DEF vars
<1>4. CASE StartFlow \/ EndFlow
  BY <1>2, <1>4 DEF StartFlow, EndFlow, Sync, Event
<1>5. CASE Return
  BY <1>2, <1>5 DEF Return, Event
<1>6. CASE \/ CallShut \/ EndSegment \/ EndVerification \/ EndRun
           \/ EndSubsequence
           \/ \E s \in Segments : CallSegment(s)
           \/ \E c \in Calls : CallWaits(c)
           \/ \E c \in Calls, rest \in {pending, Pop(pending)} : FlowCall(c, rest)
  BY <1>2, <1>6 DEF CallShut, EndSegment, EndVerification, EndRun, EndSubsequence, CallSegment,
     CallWaits, FlowCall, CallIgnored, CallDisabled, CallGated, CallRuns
<1> QED
  BY <1>1, <1>3, <1>4, <1>5, <1>6, CallCases DEF Next, UserCode, Executer, Terminated

\* Arguments that fail verification never reach the DUT, in the failing action
\* or in an inner one of it (htd_basic_flow.py, exec_action_obj).
THEOREM InvalidSafe == Spec => []InvalidNeverDriven
<1> DEFINE Inv == Typed /\ Silence /\ ValidStack /\ UnmaskedStack
<1>1. Init => InvalidNeverDriven
  BY DEF Init, Quiet, InvalidNeverDriven
<1>2. Inv /\ InvalidNeverDriven /\ [Next]_vars => InvalidNeverDriven'
  <2> SUFFICES ASSUME Typed, Silence, ValidStack, InvalidNeverDriven, [Next]_vars,
                      event'.kind = "drive", mode' # "runtime"
               PROVE  \A i \in DOMAIN event'.stack : ~event'.stack[i].invalid
    BY DEF InvalidNeverDriven
  <2>1. DOMAIN frames = 1..Len(frames)
    BY LenProperties DEF Typed, TypeOK
  <2> QED
    BY <2>1, DrivesFrom DEF ValidStack, InvalidNeverDriven
<1> QED
  BY <1>1, <1>2, StackInvariant, PTL DEF Spec

\* In cluster mode neither a vertical segment nor what follows it on the flow's
\* level drives the DUT (htd_basic_flow.py, exec_segment).
THEOREM ClusterSafe == Spec => []ClusterDrivesIpOnly
<1> DEFINE Inv == Typed /\ Silence /\ ValidStack /\ UnmaskedStack
<1>1. Init => ClusterDrivesIpOnly
  BY DEF Init, Quiet, ClusterDrivesIpOnly
<1>2. Inv /\ ClusterDrivesIpOnly /\ [Next]_vars => ClusterDrivesIpOnly'
  BY DrivesFrom DEF UnmaskedStack, Masked, ClusterDrivesIpOnly
<1> QED
  BY <1>1, <1>2, StackInvariant, PTL DEF Spec

-----------------------------------------------------------------------------
(***************************************************************************)
(* Locks.  A write that differs from the lock is, until it is reported,    *)
(* one of the outermost action, which is still executing.  LockKept is not *)
(* inductive, as it says nothing while an action executes.                 *)
(***************************************************************************)
Pending(r) ==
    /\ ~Outer
    /\ frames[1].reg = r /\ frames[1].val = writes[r].val
    /\ ~frames[1].unlock /\ ~frames[1].reads

LockedOrPending ==
    /\ Verifying => \A r \in Regs : writes[r] = None
    /\ phase \in {"run", "done"} /\ ~errors =>
          \A r \in Regs :
              /\ locks[r] # None /\ writes[r] # None
              /\ writes[r].by = "outer" /\ writes[r].val # locks[r]
              => Pending(r)

LEMMA LockedDrive ==
    ASSUME Typed, Silence, LockedOrPending, Drive
    PROVE  LockedOrPending'
<1>1. /\ phase = "run" /\ ~Outer
      /\ UNCHANGED <<phase, errors, locks, frames>>
  BY DEF Drive, CallStep, InUserCode, Silence, Verifying, Passes
<1>2. Top \in Calls /\ Top \in Call /\ Len(frames) \in Nat \ {0}
  BY <1>1, TopIsCall, ExecuterAssumption DEF Outer, Typed, TypeOK
<1>3. ASSUME NEW r \in Regs, writes'[r] = writes[r]
      PROVE  Pending(r) => Pending(r)'
  BY <1>1, <1>3 DEF Pending, Outer
<1>4. CASE Top.reads
  BY <1>1, <1>3, <1>4 DEF Drive, LockedOrPending, Verifying
<1>5. CASE ~Top.reads
  <2>1. writes' = [writes EXCEPT ![Top.reg] = WriteOf(Top)]
    BY <1>5 DEF Drive
  <2>2. Top.reg \in Regs /\ writes'[Top.reg] = WriteOf(Top)
        /\ \A r \in Regs : r # Top.reg => writes'[r] = writes[r]
    BY <1>2, <2>1 DEF Call, Typed, TypeOK
  <2>3. WriteOf(Top).by = "outer" => Len(frames) = 1 /\ ~Top.unlock
    <3>1. \A n \in Nat \ {0} : n > 1 \/ n = 1
      OBVIOUS
    <3>2. Len(frames) > 1 \/ Len(frames) = 1
      BY <1>2, <3>1, Zenon
    <3>3. CASE Len(frames) > 1
      BY <3>3 DEF WriteOf
    <3>4. CASE Len(frames) = 1 /\ Top.unlock
      BY <3>4 DEF WriteOf
    <3>5. CASE Len(frames) = 1 /\ ~Top.unlock
      BY <3>5
    <3> QED
      BY <3>2, <3>3, <3>4, <3>5, Zenon
  <2>4. Len(frames) = 1 => Top = frames[1]
    BY DEF Top
  <2>5. WriteOf(Top).val = Top.val
    BY DEF WriteOf
  <2>6. ASSUME NEW r \in Regs, r = Top.reg, writes'[r].by = "outer"
        PROVE  Pending(r)'
    <3>1. Top = frames[1] /\ ~Top.unlock /\ frames' = frames /\ frames # <<>>
      BY <1>1, <2>2, <2>3, <2>4, <2>6 DEF Outer
    <3>2. writes'[r].val = Top.val
      BY <2>2, <2>5, <2>6
    <3> QED
      BY <1>5, <2>6, <3>1, <3>2 DEF Pending, Outer
  <2>7. ASSUME NEW r \in Regs, ~errors, locks[r] # None, writes'[r] # None,
               writes'[r].by = "outer", writes'[r].val # locks[r]
        PROVE  Pending(r)'
    <3>1. CASE r = Top.reg
      BY <2>6, <2>7, <3>1
    <3>2. CASE r # Top.reg
      BY <1>1, <1>3, <2>2, <2>7, <3>2 DEF LockedOrPending
    <3> QED
      BY <3>1, <3>2
  <2> QED
    BY <1>1, <2>7 DEF LockedOrPending, Verifying
<1> QED
  BY <1>4, <1>5

LEMMA LockedReturn ==
    ASSUME Typed, LockedOrPending, Return
    PROVE  LockedOrPending'
<1> DEFINE c == Top
           outer == Len(frames) = 1
           clash == outer /\ ~Verifying /\ Clash(c)
           captures == outer /\ ~Verifying /\ Locks(c) /\ ~Exits(clash)
<1>1. /\ phase \in Passes /\ ~Outer
      /\ Report(clash)
      /\ frames' = Pop(frames)
      /\ locks' = IF captures THEN [locks EXCEPT ![c.reg] = c.val] ELSE locks
      /\ writes' = IF captures THEN [writes EXCEPT ![c.reg] = None] ELSE writes
  BY DEF Return, InUserCode
<1>2. /\ Len(frames) \in Nat \ {0}
      /\ Len(frames') = Len(frames) - 1
      /\ \A i \in 1..(Len(frames) - 1) : frames'[i] = frames[i]
      /\ frames' = <<>> <=> outer
  BY <1>1, PopProperties DEF Outer, Typed, TypeOK
<1>3. Top \in Call
  BY <1>1, TopIsCall, ExecuterAssumption DEF Outer, Typed, TypeOK
<1>4. CASE Verifying
  BY <1>1, <1>4 DEF LockedOrPending, Report, Collecting, Verifying
<1>5. CASE ~Verifying /\ ~outer
  <2>1. locks' = locks /\ writes' = writes
    BY <1>1, <1>5
  <2>2. \A r \in Regs : Pending(r) => Pending(r)'
    BY <1>2, <1>5, <2>1 DEF Pending, Outer
  <2> QED
    BY <1>1, <1>5, <2>1, <2>2 DEF LockedOrPending, Report, Verifying
<1>6. CASE ~Verifying /\ outer /\ clash
  BY <1>1, <1>6 DEF LockedOrPending, Report, Collecting, Verifying, Passes
<1>7. CASE ~Verifying /\ outer /\ ~clash
  <2>1. phase' = phase /\ errors' = errors /\ phase = "run" /\ Top = frames[1]
    BY <1>1, <1>7 DEF Report, Passes, Verifying, Top, Typed, TypeOK
  <2>2. ASSUME NEW r \in Regs, ~errors, writes[r] = writes'[r], locks[r] = locks'[r],
               locks[r] # None, writes[r] # None, writes[r].by = "outer"
        PROVE  writes[r].val = locks[r]
    <3>1. SUFFICES ASSUME writes[r].val # locks[r]
                   PROVE  FALSE
      OBVIOUS
    <3>2. Pending(r)
      BY <2>1, <2>2, <3>1 DEF LockedOrPending
    <3>3. Clash(Top)
      BY <2>1, <2>2, <3>1, <3>2 DEF Pending, Clash
    <3> QED
      BY <1>7, <3>3
  <2>3. ASSUME NEW r \in Regs
        PROVE  \/ writes[r] = writes'[r] /\ locks[r] = locks'[r]
               \/ writes'[r] = None
    BY <1>1, <1>3 DEF Call, Typed, TypeOK
  <2> QED
    BY <2>1, <2>2, <2>3 DEF LockedOrPending, Verifying
<1> QED
  BY <1>4, <1>5, <1>6, <1>7

LEMMA LockedNext == Typed /\ Silence /\ LockedOrPending /\ [Next]_vars => LockedOrPending'
<1> SUFFICES ASSUME Typed, Silence, LockedOrPending, [Next]_vars
             PROVE  LockedOrPending'
  OBVIOUS
<1>1. ASSUME UNCHANGED <<frames, locks, writes>>, errors => errors',
             phase' = phase \/ phase' \in {"failed", "crashed"}
      PROVE  LockedOrPending'
  <2>1. \A r \in Regs : Pending(r) => Pending(r)'
    BY <1>1 DEF Pending, Outer
  <2> QED
    BY <1>1, <2>1 DEF LockedOrPending, Verifying
<1>2. CASE UNCHANGED vars \/ CallShut \/ StartFlow
  BY <1>1, <1>2 DEF vars, CallShut, StartFlow
<1>8. CASE EndSubsequence \/ \E c \in Calls : CallWaits(c)
  BY <1>1, <1>8 DEF EndSubsequence, CallWaits
<1>5. CASE EndFlow
  BY <1>1, <1>5 DEF EndFlow, Report
<1>6. CASE EndSegment
  BY <1>1, <1>6 DEF EndSegment, SegmentTail, Report
<1>7. ASSUME NEW s \in Segments, CallSegment(s)
      PROVE  LockedOrPending'
  <2>1. /\ UNCHANGED <<frames, locks, writes>>
        /\ phase' = phase \/ phase' \in {"failed", "crashed"}
    BY <1>7 DEF CallSegment, SegmentTail, Report
  <2>2. errors => errors'
    BY <1>7 DEF CallSegment, SegmentTail, Report
  <2> QED
    BY <1>1, <2>1, <2>2
<1>3. ASSUME NEW c \in Calls, NEW rest, FlowCall(c, rest)
      PROVE  LockedOrPending'
  <2>1. /\ UNCHANGED <<locks, writes>>
        /\ errors => errors'
        /\ phase' = phase \/ phase' = "failed"
    BY <1>3, CallOutcome DEF Enter
  <2>2. CASE frames' = frames
    BY <1>1, <2>1, <2>2
  <2>3. CASE frames' = Append(frames, c)
    <3>1. ~Outer => frames'[1] = frames[1] /\ ~(frames' = <<>>)
      <4>1. ~Outer => Len(frames) \in Nat \ {0}
        BY TopIsCall DEF Outer, Typed, TypeOK
      <4> QED
        BY <2>3, <4>1, PushProperties DEF Typed, TypeOK
    <3>2. \A r \in Regs : Pending(r) => Pending(r)'
      BY <2>1, <3>1 DEF Pending, Outer
    <3> QED
      BY <2>1, <3>2 DEF LockedOrPending, Verifying
  <2> QED
    BY <1>3, <2>2, <2>3 DEF FlowCall, CallIgnored, CallDisabled, CallGated, CallRuns
<1>4. CASE EndVerification \/ EndRun
  <2>1. Outer /\ UNCHANGED <<frames, locks, writes, errors>>
    BY <1>4 DEF EndVerification, EndRun, PassOver, Silence, Passes
  <2> QED
    BY <1>4, <2>1 DEF EndVerification, EndRun, LockedOrPending, Pending, Verifying
<1> QED
  BY <1>2, <1>3, <1>4, <1>5, <1>6, <1>7, <1>8, CallCases, LockedDrive, LockedReturn
     DEF Next, UserCode, Executer, Terminated

\* Without an error a locked register holds the value it was locked with, up
\* to writes of inner and of unlocking actions
\* (htd_basic_flow.py, evaluate_action_in_blacklist).
THEOREM LocksKept == Spec => []LockKept
<1>1. Init => LockedOrPending /\ Silence
  BY EmptySeq DEF Init, LockedOrPending, Silence, Outer, Verifying, Passes
<1>2. LockedOrPending => LockKept
  BY DEF LockedOrPending, LockKept, Pending
<1> QED
  BY <1>1, <1>2, TypedInit, TypedNext, SilenceNext, LockedNext, PTL DEF Spec

-----------------------------------------------------------------------------
(***************************************************************************)
(* The two-pass protocol.                                                  *)
(***************************************************************************)

\* However user code calls, stops, errs or crashes: the flows are verified in
\* order, then run in order, and the checkpoint is written after the last one
\* or not at all (htd_te_manager.py).
THEOREM TwoPassImplemented == Spec => ImplementsTwoPass
<1>1. Init => Protocol!Init
  BY DEF Init, Protocol!Init
<1>2. Typed /\ [Next]_vars => [Protocol!Next]_(Protocol!vars)
  <2> SUFFICES ASSUME Typed, [Next]_vars
               PROVE  Protocol!Next \/ UNCHANGED Protocol!vars
    BY DEF Protocol!vars
  <2> USE DEF Protocol!vars
  <2>1. ASSUME UNCHANGED <<flow, saved>>, phase' = phase
        PROVE  UNCHANGED Protocol!vars
    BY <2>1
  <2>2. ASSUME UNCHANGED <<flow, saved>>, phase \in Passes, phase' \in {"failed", "crashed"}
        PROVE  Protocol!Abandon
    BY <2>2 DEF Protocol!Abandon, Passes
  <2>3. CASE \/ UNCHANGED vars \/ CallShut \/ Drive \/ StartFlow \/ EndSubsequence
             \/ \E c \in Calls : CallWaits(c)
    BY <2>1, <2>3 DEF vars, CallShut, Drive, StartFlow, EndSubsequence, CallWaits
  <2>4. CASE Return \/ EndSegment \/ \E s \in Segments : CallSegment(s)
    <3>1. /\ UNCHANGED <<flow, saved>> /\ phase \in Passes
          /\ phase' = phase \/ phase' \in {"failed", "crashed"}
      BY <2>4 DEF Return, EndSegment, CallSegment, CallStep, InUserCode, SegmentTail, Report
    <3> QED
      BY <2>1, <2>2, <3>1 DEF Protocol!Next
  <2>5. ASSUME NEW c \in Calls, NEW rest, FlowCall(c, rest)
        PROVE  Protocol!Next \/ UNCHANGED Protocol!vars
    <3>1. /\ UNCHANGED <<flow, saved>> /\ phase \in Passes
          /\ phase' = phase \/ phase' = "failed"
      BY <2>5, CallOutcome DEF Enter, CallStep, InUserCode
    <3> QED
      BY <2>1, <2>2, <3>1 DEF Protocol!Next
  <2>6. CASE EndFlow
    <3>1. /\ phase \in Passes /\ flow \in Flows /\ saved' = saved
          /\ \/ flow' = flow /\ phase' = "failed"
             \/ flow' = flow + 1 /\ phase' = phase
      BY <2>6 DEF EndFlow, Report, Exits, InUserCode, Typed, FlowOfPass
    <3>2. flow' = flow + 1 /\ phase' = phase => Protocol!FlowDone
      BY <3>1, ExecuterAssumption DEF Protocol!FlowDone, Passes, Flows
    <3> QED
      BY <2>2, <3>1, <3>2 DEF Protocol!Next
  <2>7. CASE EndVerification
    BY <2>2, <2>7 DEF EndVerification, PassOver, Protocol!BeginRun, Protocol!Next, Passes
  <2>8. CASE EndRun
    BY <2>2, <2>8 DEF EndRun, PassOver, Protocol!Commit, Protocol!Next, Passes
  <2> QED
    BY <2>3, <2>4, <2>5, <2>6, <2>7, <2>8, CallCases DEF Next, UserCode, Executer, Terminated
<1> QED
  BY <1>1, <1>2, TypedInit, TypedNext, PTL DEF Spec, ImplementsTwoPass, Protocol!Spec
=============================================================================
