------------------------- MODULE ActionSessionProofs --------------------------
(***************************************************************************)
(* Theorems about ActionSession, for every network, register, set of       *)
(* breakpoint machines and signals, and for scripts of any length: that    *)
(* the stimulus synchronises before it aligns, how long an action takes,   *)
(* that what was verified runs, and that what is remembered of the DUT is  *)
(* so.  The last sections are the lemmas about the packets of a test       *)
(* network and the registers of its stops that StfNetworkProofs is built   *)
(* from.                                                                   *)
(***************************************************************************)
EXTENDS ActionSession, FiniteSetTheorems, TLAPS

(***************************************************************************)
(* What every action finds: a script of actions of its family, of which    *)
(* those before the next one have run, and a knowledge and a DUT with all  *)
(* their parts.                                                            *)
(***************************************************************************)
Phases == {"verify", "run", "rejected", "failed", "done", "closed"}

Shaped(k, d) ==
    /\ DOMAIN k = DOMAIN Ignorant
    /\ DOMAIN d = DOMAIN Untouched
    /\ DOMAIN d.spf = {"last", "said", "template"}

WellFormed ==
    /\ phase \in Phases
    /\ family \in DOMAIN Actions
    /\ script \in Seq(Actions[family])
    /\ at \in 0..Len(script)
    /\ phase \in {"verify", "rejected"} => at = 0 /\ dut = Untouched
    /\ Shaped(know, dut)

\* Each family has its own way to execute an action.
LEMMA DoByFamily ==
  ASSUME NEW k, NEW d, NEW a
  PROVE  /\ family = "STF" => Do(k, d, a) = DoStf(k, d, a)
         /\ family = "PKT" => Do(k, d, a) = DoPkt(k, d, a)
         /\ family = "TAP" => Do(k, d, a) = DoTap(k, d, a)
         /\ family = "SPF" => Do(k, d, a) = DoSpf(k, d, a)
         /\ family = "XREG" => Do(k, d, a) = DoCr(k, d, a)
         /\ family = "UBP" => Do(k, d, a) = DoBreak(k, d, a)
         /\ family = "SIG" => Do(k, d, a) = DoSig(k, d, a)
         /\ family = "GEN" => Do(k, d, a) = DoGen(k, d, a)
<1> DEFINE stf == DoStf(k, d, a)
           pkt == DoPkt(k, d, a)
           tap == DoTap(k, d, a)
           spf == DoSpf(k, d, a)
           cr  == DoCr(k, d, a)
           ubp == DoBreak(k, d, a)
           sig == DoSig(k, d, a)
           gen == DoGen(k, d, a)
<1>1. Do(k, d, a) =
        CASE family = "STF" -> stf
          [] family = "PKT" -> pkt
          [] family = "TAP" -> tap
          [] family = "SPF" -> spf
          [] family = "XREG" -> cr
          [] family = "UBP" -> ubp
          [] family = "SIG" -> sig
          [] family = "GEN" -> gen
  BY DEF Do
<1> HIDE DEF stf, pkt, tap, spf, cr, ubp, sig, gen
<1> QED
  BY <1>1 DEF stf, pkt, tap, spf, cr, ubp, sig, gen

(***************************************************************************)
(* What an action of each family does: when it is rejected, and the parts  *)
(* of the knowledge and of the DUT that it changes.                        *)
(***************************************************************************)
LEMMA StfEffect ==
  ASSUME family = "STF", NEW k, NEW d, NEW a
  PROVE  Do(k, d, a) =
           LET w == VerifyStf(te, k.stf, a)
               r == RunOps([te |-> te, net |-> d.net, track |-> k.track], w.ops)
           IN  [bad |-> w.bad, know |-> [k EXCEPT !.stf = w.h, !.track = r.track],
                dut |-> [d EXCEPT !.net = r.net]]
<1> DEFINE w == VerifyStf(te, k.stf, a)
           r == RunOps([te |-> te, net |-> d.net, track |-> k.track], w.ops)
<1>1. Do(k, d, a) = OnOps(k, d, w, r)
  BY DoByFamily DEF DoStf, OnVerified
<1> HIDE DEF w, r
<1>2. Do(k, d, a) = [bad |-> w.bad, know |-> [k EXCEPT !.stf = w.h, !.track = r.track],
                     dut |-> [d EXCEPT !.net = r.net]]
  BY <1>1 DEF OnOps, Done
<1> QED
  BY <1>2 DEF w, r

LEMMA PktEffect ==
  ASSUME family = "PKT", NEW k, NEW d, NEW a
  PROVE  Do(k, d, a) =
           [bad |-> ~PacketOk(a), know |-> k,
            dut |-> IF PacketOk(a) THEN [d EXCEPT !.pkt = PacketsOf(a)] ELSE d]
BY DoByFamily DEF DoPkt, Done

LEMMA TapEffect ==
  ASSUME family = "TAP", NEW k, NEW d, NEW a
  PROVE  Do(k, d, a) =
           [bad |-> ~TapOk(k.tap, a) \/ Clash(k.tap, a),
            know |-> [k EXCEPT !.tap = IF phase = "run" THEN Captured(@, a) ELSE @],
            dut |-> [d EXCEPT !.reg = Sent(k.tap, a)]]
BY DoByFamily DEF DoTap, Done

LEMMA CrEffect ==
  ASSUME family = "XREG", NEW k, NEW d, NEW a
  PROVE  Do(k, d, a) =
           [bad |-> ~CrOk(te, a), know |-> k,
            dut |-> [d EXCEPT !.told = RunCr(@, a), !.awaited = Waits(te, a)]]
BY DoByFamily DEF DoCr, Done

LEMMA TriggerEffect ==
  ASSUME family = "UBP", NEW k, NEW d, NEW a, a.op = "trigger"
  PROVE  Do(k, d, a) =
           LET r == DoTrigger(phase = "verify", te, k.ubp, d.ubp, a)
           IN  [bad |-> r.bad, know |-> [k EXCEPT !.ubp = r.k], dut |-> [d EXCEPT !.ubp = r.d]]
BY DoByFamily DEF DoBreak, Triggered, Broken, Done

LEMMA BreakEffect ==
  ASSUME family = "UBP", NEW k, NEW d, NEW a, a.op # "trigger"
  PROVE  Do(k, d, a) =
           LET r == DoUbp(k.ubp, d.ubp, a)
           IN  [bad |-> FALSE, know |-> [k EXCEPT !.ubp = r.k], dut |-> [d EXCEPT !.ubp = r.d]]
BY DoByFamily DEF DoBreak, Broken, Done

LEMMA SigEffect ==
  ASSUME family = "SIG", NEW k, NEW d, NEW a
  PROVE  Do(k, d, a) =
           LET r == DoSignals(phase = "verify" \/ a.silent, te, k.sig, d.sig, a)
           IN  [bad |-> ~SignalOk(a), know |-> [k EXCEPT !.sig = r.k],
                dut |-> [d EXCEPT !.sig = r.d]]
BY DoByFamily DEF DoSig, Signalled, Done

LEMMA GenEffect ==
  ASSUME family = "GEN", NEW k, NEW d, NEW a
  PROVE  Do(k, d, a) =
           [bad |-> ~GenOk(k.player, a),
            know |-> IF a.op = "label" THEN [k EXCEPT !.labels = Counted(@, a.name)]
                                       ELSE [k EXCEPT !.player = Ratioed(@, a)],
            dut |-> IF a.silent THEN d ELSE [d EXCEPT !.out = Played(@, k.player, k.labels, a)]]
BY DoByFamily DEF DoGen, Done

LEMMA SpfEffect ==
  ASSUME family = "SPF", NEW k, NEW d, NEW a
  PROVE  Do(k, d, a) =
           LET pm == RelateAll(k.pat, a)
               es == PatmodsOf(pm, a)
           IN  IF ShiftOk(te, k.pat, es, a)
                 THEN [bad |-> FALSE, know |-> [k EXCEPT !.pat = pm],
                       dut |-> WithCommand(d, Command(te, pm, es, a))]
                 ELSE [bad |-> TRUE, know |-> k, dut |-> d]
BY DoByFamily DEF DoSpf, OnRelated, Shifted, Done

\* When an action is rejected, for the families that it depends on few things.
LEMMA Rejections ==
  ASSUME NEW k, NEW d, NEW a
  PROVE  /\ family = "PKT" => Do(k, d, a).bad = ~PacketOk(a)
         /\ family = "TAP" => Do(k, d, a).bad = (~TapOk(k.tap, a) \/ Clash(k.tap, a))
         /\ family = "XREG" => Do(k, d, a).bad = ~CrOk(te, a)
         /\ family = "SIG" => Do(k, d, a).bad = ~SignalOk(a)
         /\ family = "GEN" => Do(k, d, a).bad = ~GenOk(k.player, a)
         /\ family = "STF" => Do(k, d, a).bad = VerifyStf(te, k.stf, a).bad
<1>1. family = "PKT" => Do(k, d, a).bad = ~PacketOk(a)
  BY DoByFamily DEF DoPkt, Done
<1>2. family = "TAP" => Do(k, d, a).bad = (~TapOk(k.tap, a) \/ Clash(k.tap, a))
  BY DoByFamily DEF DoTap, Done
<1>3. family = "XREG" => Do(k, d, a).bad = ~CrOk(te, a)
  <2> DEFINE dut2 == [d EXCEPT !.told = RunCr(@, a), !.awaited = Waits(te, a)]
  <2>1. family = "XREG" => Do(k, d, a) = [bad |-> ~CrOk(te, a), know |-> k, dut |-> dut2]
    BY CrEffect
  <2> HIDE DEF dut2
  <2> QED
    BY <2>1
<1>4. family = "SIG" => Do(k, d, a).bad = ~SignalOk(a)
  BY DoByFamily DEF DoSig, Signalled, Done
<1>5. family = "GEN" => Do(k, d, a).bad = ~GenOk(k.player, a)
  BY DoByFamily DEF DoGen, Done
<1>6. family = "STF" => Do(k, d, a).bad = VerifyStf(te, k.stf, a).bad
  <2> DEFINE w == VerifyStf(te, k.stf, a)
             o == RunOps([te |-> te, net |-> d.net, track |-> k.track], w.ops)
             know2 == [k EXCEPT !.stf = w.h, !.track = o.track]
             dut2 == [d EXCEPT !.net = o.net]
  <2>1. family = "STF" => Do(k, d, a) = [bad |-> w.bad, know |-> know2, dut |-> dut2]
    BY StfEffect
  <2> HIDE DEF know2, dut2
  <2> QED
    BY <2>1
<1> QED
  BY <1>1, <1>2, <1>3, <1>4, <1>5, <1>6

\* Executing an action leaves knowledge and DUT with all their parts.
LEMMA DoShapes ==
  ASSUME family \in DOMAIN Actions, NEW k, NEW d, Shaped(k, d), NEW a
  PROVE  Shaped(Do(k, d, a).know, Do(k, d, a).dut)
<1> DEFINE r == Do(k, d, a)
<1> SUFFICES Shaped(r.know, r.dut)
  OBVIOUS
<1>0. DOMAIN d = {"net", "reg", "told", "awaited", "ubp", "sig", "out", "pkt", "spf"}
  BY DEF Shaped, Untouched
<1> HIDE DEF r
<1>1. CASE family = "STF"
  <2> DEFINE w == VerifyStf(te, k.stf, a)
             o == RunOps([te |-> te, net |-> d.net, track |-> k.track], w.ops)
             know2 == [k EXCEPT !.stf = w.h, !.track = o.track]
             dut2 == [d EXCEPT !.net = o.net]
  <2>1. r = [bad |-> w.bad, know |-> know2, dut |-> dut2]
    BY <1>1, StfEffect DEF r
  <2> HIDE DEF w, o
  <2>2. Shaped(know2, dut2)
    BY <1>0 DEF Shaped
  <2> QED
    BY <2>1, <2>2
<1>2. CASE family = "PKT"
  BY <1>2, PktEffect, <1>0 DEF Shaped, r
<1>3. CASE family = "TAP"
  BY <1>3, TapEffect, <1>0 DEF Shaped, r
<1>4. CASE family = "XREG"
  <2> DEFINE told == RunCr(d.told, a)
             awaited == Waits(te, a)
             dut2 == [d EXCEPT !.told = told, !.awaited = awaited]
  <2>1. r = [bad |-> ~CrOk(te, a), know |-> k, dut |-> dut2]
    BY <1>4, CrEffect DEF r
  <2> HIDE DEF told, awaited
  <2>2. Shaped(k, dut2)
    BY <1>0 DEF Shaped
  <2> QED
    BY <2>1, <2>2
<1>5. CASE family = "UBP"
  <2>1. CASE a.op = "trigger"
    BY <1>5, <2>1, TriggerEffect, <1>0 DEF Shaped, r
  <2>2. CASE a.op # "trigger"
    BY <1>5, <2>2, BreakEffect, <1>0 DEF Shaped, r
  <2> QED
    BY <2>1, <2>2
<1>6. CASE family = "SIG"
  BY <1>6, SigEffect, <1>0 DEF Shaped, r
<1>7. CASE family = "GEN"
  BY <1>7, GenEffect, <1>0 DEF Shaped, r
<1>8. CASE family = "SPF"
  <2> DEFINE pm == RelateAll(k.pat, a)
             es == PatmodsOf(pm, a)
             ok == ShiftOk(te, k.pat, es, a)
             cmd == Command(te, pm, es, a)
  <2>1. r = IF ok THEN [bad |-> FALSE, know |-> [k EXCEPT !.pat = pm], dut |-> WithCommand(d, cmd)]
            ELSE [bad |-> TRUE, know |-> k, dut |-> d]
    BY <1>8, SpfEffect DEF r
  <2> HIDE DEF pm, es, ok, cmd
  <2> QED
    BY <2>1, <1>0 DEF Shaped, WithCommand
<1> QED
  BY <1>1, <1>2, <1>3, <1>4, <1>5, <1>6, <1>7, <1>8, SessionAssumption

(***************************************************************************)
(* The steps of a session, on the parts that all families have.            *)
(***************************************************************************)
LEMMA InitWellFormed == Init => WellFormed
<1> SUFFICES ASSUME Init PROVE WellFormed
  OBVIOUS
<1>1. Shaped(know, dut)
  BY DEF Init, Shaped, Ignorant, Untouched
<1> QED
  BY <1>1 DEF Init, WellFormed, Phases

\* An action of the script that is verified next.
LEMMA VerifyStep ==
  ASSUME WellFormed, NEW a \in Actions[family], Verify(a)
  PROVE  LET r == Do(know, dut, a)
         IN  /\ phase = "verify" /\ at = 0 /\ dut = Untouched
             /\ UNCHANGED <<te, resets, family, at, dut>>
             /\ r.bad => phase' = "rejected" /\ UNCHANGED <<script, know>>
             /\ ~r.bad => /\ script' = Append(script, a)
                          /\ know' = r.know
                          /\ phase' = "verify"
<1> DEFINE r == Do(know, dut, a)
<1>1. AfterVerify(a, r) /\ phase = "verify" /\ UNCHANGED <<te, resets, family, at, dut>>
  BY DEF Verify
<1> HIDE DEF r
<1>2. /\ r.bad => phase' = "rejected" /\ UNCHANGED <<script, know>>
      /\ ~r.bad => script' = Append(script, a) /\ know' = r.know /\ phase' = "verify"
  BY <1>1 DEF AfterVerify
<1> QED
  BY <1>1, <1>2 DEF WellFormed, r

\* The next action of the script that runs.
LEMMA RunStep ==
  ASSUME WellFormed, Run
  PROVE  LET a == script[at + 1]
             r == Do(know, dut, a)
         IN  /\ phase = "run" /\ at \in Nat /\ at + 1 \in 1..Len(script)
             /\ a \in Actions[family]
             /\ UNCHANGED <<te, resets, family, script>>
             /\ r.bad => phase' = "failed" /\ UNCHANGED <<at, know, dut>>
             /\ ~r.bad => /\ at' = at + 1
                          /\ phase' \in {"run", "done"}
                          /\ know' = r.know
                          /\ dut' = r.dut
<1> DEFINE a == script[at + 1]
           r == Do(know, dut, a)
<1>1. /\ AfterRun(r) /\ phase = "run" /\ at < Len(script)
      /\ UNCHANGED <<te, resets, family, script>>
  BY DEF Run
<1>2. at \in Nat /\ at + 1 \in 1..Len(script) /\ script \in Seq(Actions[family])
  BY <1>1 DEF WellFormed
<1>3. a \in Actions[family]
  BY <1>2
<1> HIDE DEF r
<1>4. /\ r.bad => phase' = "failed" /\ UNCHANGED <<at, know, dut>>
      /\ ~r.bad => /\ at' = at + 1 /\ phase' \in {"run", "done"}
                   /\ know' = r.know /\ dut' = r.dut
  BY <1>1 DEF AfterRun
<1> QED
  BY <1>1, <1>2, <1>3, <1>4 DEF r

LEMMA StepWellFormed == WellFormed /\ [Next]_vars => WellFormed'
<1> SUFFICES ASSUME WellFormed, [Next]_vars PROVE WellFormed'
  OBVIOUS
<1> USE DEF WellFormed
<1>0. Shaped(know, dut) /\ family \in DOMAIN Actions
  OBVIOUS
<1>1. ASSUME NEW a \in Actions[family], Verify(a) PROVE WellFormed'
  <2> DEFINE r == Do(know, dut, a)
  <2>1. Shaped(r.know, r.dut)
    BY DoShapes, <1>0
  <2> HIDE DEF r
  <2>2. Shaped(r.know, dut)
    BY <2>1, <1>0 DEF Shaped
  <2>3. CASE r.bad
    <3>1. /\ at = 0 /\ dut = Untouched /\ UNCHANGED <<te, resets, family, at, dut>>
          /\ phase' = "rejected" /\ UNCHANGED <<script, know>>
      BY <1>1, <2>3, VerifyStep DEF r
    <3> QED
      BY <3>1 DEF Phases
  <2>4. CASE ~r.bad
    <3>1. /\ at = 0 /\ dut = Untouched /\ UNCHANGED <<te, resets, family, at, dut>>
          /\ script' = Append(script, a) /\ know' = r.know /\ phase' = "verify"
      BY <1>1, <2>4, VerifyStep DEF r
    <3> QED
      BY <3>1, <2>2 DEF Phases
  <2> QED
    BY <2>3, <2>4
<1>2. CASE BeginRun
  <2>1. DOMAIN InitialHistory = DOMAIN Ignorant
    BY <1>0 DEF InitialHistory, Shaped
  <2> QED
    BY <1>2, <2>1 DEF BeginRun, Phases, Shaped
<1>3. CASE Run
  <2> DEFINE a == script[at + 1]
             r == Do(know, dut, a)
  <2>1. Shaped(r.know, r.dut)
    BY DoShapes, <1>0
  <2> HIDE DEF r
  <2>2. CASE r.bad
    <3>1. /\ UNCHANGED <<te, resets, family, script>> /\ phase' = "failed"
          /\ UNCHANGED <<at, know, dut>>
      BY <1>3, <2>2, RunStep DEF r
    <3> QED
      BY <3>1 DEF Phases
  <2>3. CASE ~r.bad
    <3>1. /\ at \in Nat /\ at + 1 \in 1..Len(script) /\ UNCHANGED <<te, resets, family, script>>
          /\ at' = at + 1 /\ phase' \in {"run", "done"} /\ know' = r.know /\ dut' = r.dut
      BY <1>3, <2>3, RunStep DEF r
    <3> QED
      BY <3>1, <2>1 DEF Phases
  <2> QED
    BY <2>2, <2>3
<1>4. CASE Close
  <2>1. Shaped(know, dut)'
    BY <1>4, <1>0 DEF Close, Shaped, Untouched
  <2> QED
    BY <1>4, <2>1 DEF Close, Phases
<1>5. CASE UNCHANGED vars
  BY <1>5 DEF vars, Shaped
<1> QED
  BY <1>1, <1>2, <1>3, <1>4, <1>5 DEF Next

LEMMA AlwaysWellFormed == Spec => []WellFormed
  BY InitWellFormed, StepWellFormed, PTL DEF Spec

-----------------------------------------------------------------------------
(***************************************************************************)
(* Signals.                                                                *)
(***************************************************************************)
Registers == {"value", "forced", "took", "poll", "sync"}
SyncWords == {"start_sync", "align_sync"}

LEMMA DrivingTakes ==
  ASSUME NEW d, DOMAIN d = Registers, NEW silicon, NEW a
  PROVE  /\ DOMAIN Driving(d, silicon, a) = Registers
         /\ Driving(d, silicon, a).took = Takes(silicon, a)
         /\ Driving(d, silicon, a).poll = IF a.op # "wait" THEN 0
                                          ELSE IF silicon THEN PollTime(a)
                                          ELSE a.cycles * Period[a.clock]
         /\ Driving(d, silicon, a).sync = d.sync
<1> DEFINE took == Takes(silicon, a)
           poll == IF a.op # "wait" THEN 0
                   ELSE IF silicon THEN PollTime(a) ELSE a.cycles * Period[a.clock]
           rtl == IF External(a) THEN OnPins(Rtl(d), a) ELSE OnPaths(Rtl(d), a)
           value == rtl.value
           forced == rtl.forced
           e == [d EXCEPT !.took = took, !.poll = poll]
<1>1. Driving(d, silicon, a) =
        IF a.op \notin {"set", "force", "unforce", "pulse"} THEN e
        ELSE [e EXCEPT !.value = value, !.forced = forced]
  BY DEF Driving
<1> HIDE DEF took, poll, rtl, value, forced
<1> SUFFICES /\ DOMAIN Driving(d, silicon, a) = Registers
             /\ Driving(d, silicon, a).took = took
             /\ Driving(d, silicon, a).poll = poll
             /\ Driving(d, silicon, a).sync = d.sync
  BY DEF took, poll
<1>2. DOMAIN e = Registers /\ e.took = took /\ e.poll = poll /\ e.sync = d.sync
  BY DEF Registers
<1> HIDE DEF e
<1> QED
  BY <1>1, <1>2 DEF Registers

\* The signals of a family that has none stay as they were; otherwise the
\* synchronisation is known to be started exactly when the stimulus has
\* something of it.
SyncInv ==
    /\ family # "SIG" => dut.sig = NoSignals
    /\ family = "SIG" =>
         /\ know.sig \in [started : BOOLEAN]
         /\ DOMAIN dut.sig = Registers /\ dut.sig.sync \in Seq(SyncWords)
         /\ know.sig.started <=> dut.sig.sync # <<>>
         /\ SyncStartsFirst

\* A DUT whose stimulus is aligned, and that starts what was not started.
AlignedAfter(e, started) ==
    [e EXCEPT !.sync = @ \o (IF ~started THEN <<"start_sync">> ELSE <<>>) \o <<"align_sync">>]

\* What a signal action leaves, when it is quiet, when it does not align, and
\* when it does.
LEMMA SignalsDone ==
  ASSUME family = "SIG", NEW k, "sig" \in DOMAIN k, k.sig \in [started : BOOLEAN],
         NEW d, "sig" \in DOMAIN d, DOMAIN d.sig = Registers, NEW a
  PROVE  /\ phase = "verify" \/ a.silent =>
              Do(k, d, a).know.sig = k.sig /\ Do(k, d, a).dut.sig = d.sig
         /\ ~(phase = "verify" \/ a.silent) /\ ~(a.align /\ te.sync) =>
              /\ Do(k, d, a).know.sig = k.sig
              /\ Do(k, d, a).dut.sig = Driving(d.sig, te.silicon, a)
         /\ ~(phase = "verify" \/ a.silent) /\ a.align /\ te.sync =>
              /\ Do(k, d, a).know.sig \in [started : BOOLEAN]
              /\ Do(k, d, a).know.sig.started
              /\ Do(k, d, a).dut.sig = AlignedAfter(Driving(d.sig, te.silicon, a), k.sig.started)
<1> DEFINE quiet == phase = "verify" \/ a.silent
           aligns == a.align /\ te.sync
           e == Driving(d.sig, te.silicon, a)
           starts == Starts(k.sig, quiet)
           st == k.sig.started \/ (aligns /\ starts)
           k2 == [k.sig EXCEPT !.started = st]
           d2 == IF quiet THEN d.sig ELSE IF aligns THEN Aligned(e, k.sig, quiet) ELSE e
           r == Do(k, d, a)
<1>1. r.know.sig = k2 /\ r.dut.sig = d2
  BY SigEffect DEF DoSignals
<1>3. starts <=> (~k.sig.started /\ ~quiet)
  BY DEF Starts
<1>4. ~quiet => Aligned(e, k.sig, quiet) = AlignedAfter(e, k.sig.started)
  BY <1>3 DEF Aligned, AlignedAfter
<1>5. st \in BOOLEAN
  OBVIOUS
<1> HIDE DEF quiet, aligns, starts, st, e, r
<1>6. k2 \in [started : BOOLEAN] /\ k2.started = st
  BY <1>5
<1>7. st = k.sig.started => k2 = k.sig
  BY <1>5
<1>8. quiet \/ ~aligns => st = k.sig.started
  <2>1. quiet \/ ~aligns => (st <=> k.sig.started)
    BY <1>3 DEF st
  <2> QED
    BY <2>1, <1>5
<1>9. ~quiet /\ aligns => st
  BY <1>3 DEF st
<1>10. CASE quiet
  BY <1>1, <1>7, <1>8, <1>10 DEF quiet, r
<1>11. CASE ~quiet /\ ~aligns
  BY <1>1, <1>7, <1>8, <1>11 DEF quiet, r, e, aligns
<1>12. CASE ~quiet /\ aligns
  BY <1>1, <1>6, <1>9, <1>4, <1>12 DEF quiet, r, e, aligns
<1> QED
  BY <1>10, <1>11, <1>12

\* The first two, by themselves.
LEMMA QuietSignals ==
  ASSUME family = "SIG", NEW k, "sig" \in DOMAIN k, k.sig \in [started : BOOLEAN],
         NEW d, "sig" \in DOMAIN d, DOMAIN d.sig = Registers, NEW a,
         phase = "verify" \/ a.silent
  PROVE  Do(k, d, a).know.sig = k.sig /\ Do(k, d, a).dut.sig = d.sig
BY SignalsDone

LEMMA PlainSignals ==
  ASSUME family = "SIG", NEW k, "sig" \in DOMAIN k, k.sig \in [started : BOOLEAN],
         NEW d, "sig" \in DOMAIN d, DOMAIN d.sig = Registers, NEW a,
         ~(phase = "verify" \/ a.silent), ~(a.align /\ te.sync)
  PROVE  /\ Do(k, d, a).know.sig = k.sig
         /\ Do(k, d, a).dut.sig = Driving(d.sig, te.silicon, a)
BY SignalsDone

\* What starts the synchronisation and aligns to it is first in it.
LEMMA StartComesFirst ==
  ASSUME NEW s \in Seq(SyncWords), NEW b \in BOOLEAN, b <=> s # <<>>,
         \A i \in 1..Len(s) : s[i] = "start_sync" <=> i = 1
  PROVE  LET t == s \o (IF ~b THEN <<"start_sync">> ELSE <<>>) \o <<"align_sync">>
         IN  /\ t \in Seq(SyncWords) /\ t # <<>>
             /\ \A i \in 1..Len(t) : t[i] = "start_sync" <=> i = 1
<1>1. CASE b
  <2> DEFINE t == s \o <<"align_sync">>
  <2>1. s \o <<>> = s
    OBVIOUS
  <2>0. s # <<>> /\ Len(s) \in Nat /\ Len(s) # 0
    BY <1>1
  <2>2. t \in Seq(SyncWords) /\ Len(t) = Len(s) + 1 /\ Len(s) \in Nat /\ Len(s) # 0
    <3>1. <<"align_sync">> \in Seq(SyncWords) /\ Len(<<"align_sync">>) = 1
      BY DEF SyncWords
    <3> QED
      BY <2>0, <3>1
  <2>3. t[Len(s) + 1] = "align_sync" /\ \A i \in 1..Len(s) : t[i] = s[i]
    BY <2>2
  <2> HIDE DEF t
  <2>4. \A i \in 1..Len(t) : t[i] = "start_sync" <=> i = 1
    BY <2>2, <2>3
  <2> QED
    BY <1>1, <2>1, <2>2, <2>4 DEF t
<1>2. CASE ~b
  <2>0. s = <<>>
    BY <1>2
  <2>1. <<>> \o <<"start_sync">> = <<"start_sync">>
    OBVIOUS
  <2> DEFINE t == <<"start_sync">> \o <<"align_sync">>
  <2>2. t \in Seq(SyncWords) /\ Len(t) = 2 /\ t[1] = "start_sync" /\ t[2] = "align_sync"
    <3>1. <<"start_sync">> \in Seq(SyncWords) /\ <<"align_sync">> \in Seq(SyncWords)
      BY DEF SyncWords
    <3>2. Len(<<"start_sync">>) = 1 /\ Len(<<"align_sync">>) = 1
      OBVIOUS
    <3> QED
      BY <3>1, <3>2
  <2> HIDE DEF t
  <2>3. t # <<>> /\ \A i \in 1..Len(t) : t[i] = "start_sync" <=> i = 1
    BY <2>2
  <2> QED
    BY <1>2, <2>0, <2>1, <2>2, <2>3 DEF t
<1> QED
  BY <1>1, <1>2

\* What is known and what is done is a matter of one family each.
LEMMA OthersStay ==
  ASSUME family \in DOMAIN Actions, NEW k, NEW d, Shaped(k, d), NEW a
  PROVE  LET r == Do(k, d, a)
         IN  /\ family # "STF" => r.know.stf = k.stf /\ r.know.track = k.track /\ r.dut.net = d.net
             /\ family # "TAP" => r.know.tap = k.tap /\ r.dut.reg = d.reg
             /\ family # "UBP" => r.know.ubp = k.ubp /\ r.dut.ubp = d.ubp
             /\ family # "SPF" => r.know.pat = k.pat /\ r.dut.spf = d.spf
             /\ family # "SIG" => r.know.sig = k.sig /\ r.dut.sig = d.sig
<1> DEFINE r == Do(k, d, a)
           Stays ==
             /\ family # "STF" => r.know.stf = k.stf /\ r.know.track = k.track /\ r.dut.net = d.net
             /\ family # "TAP" => r.know.tap = k.tap /\ r.dut.reg = d.reg
             /\ family # "UBP" => r.know.ubp = k.ubp /\ r.dut.ubp = d.ubp
             /\ family # "SPF" => r.know.pat = k.pat /\ r.dut.spf = d.spf
             /\ family # "SIG" => r.know.sig = k.sig /\ r.dut.sig = d.sig
<1> SUFFICES Stays
  OBVIOUS
<1>0. DOMAIN d = {"net", "reg", "told", "awaited", "ubp", "sig", "out", "pkt", "spf"}
  BY DEF Shaped, Untouched
<1>00. DOMAIN k = {"stf", "tap", "labels", "ubp", "track", "player", "sig", "pat"}
  BY DEF Shaped, Ignorant
<1> HIDE DEF r
<1>1. CASE family = "STF"
  <2> DEFINE w == VerifyStf(te, k.stf, a)
             o == RunOps([te |-> te, net |-> d.net, track |-> k.track], w.ops)
             know2 == [k EXCEPT !.stf = w.h, !.track = o.track]
             dut2 == [d EXCEPT !.net = o.net]
  <2>1. r = [bad |-> w.bad, know |-> know2, dut |-> dut2]
    BY <1>1, StfEffect DEF r
  <2> HIDE DEF w, o
  <2>2. /\ \A x \in {"tap", "ubp", "pat", "sig"} : know2[x] = k[x]
        /\ \A x \in {"reg", "ubp", "spf", "sig"} : dut2[x] = d[x]
    BY <1>0, <1>00
  <2> HIDE DEF know2, dut2
  <2> QED
    BY <1>1, <2>1, <2>2
<1>2. CASE family = "PKT"
  BY <1>2, PktEffect, <1>0, <1>00 DEF r
<1>3. CASE family = "TAP"
  BY <1>3, TapEffect, <1>0, <1>00 DEF r
<1>4. CASE family = "XREG"
  <2> DEFINE told == RunCr(d.told, a)
             awaited == Waits(te, a)
             dut2 == [d EXCEPT !.told = told, !.awaited = awaited]
  <2>1. r = [bad |-> ~CrOk(te, a), know |-> k, dut |-> dut2]
    BY <1>4, CrEffect DEF r
  <2> HIDE DEF told, awaited
  <2>2. \A x \in {"net", "reg", "ubp", "spf", "sig"} : dut2[x] = d[x]
    BY <1>0, <1>00
  <2> HIDE DEF dut2
  <2> QED
    BY <1>4, <2>1, <2>2
<1>5. CASE family = "UBP"
  <2>1. CASE a.op = "trigger"
    BY <1>5, <2>1, TriggerEffect, <1>0, <1>00 DEF r
  <2>2. CASE a.op # "trigger"
    BY <1>5, <2>2, BreakEffect, <1>0, <1>00 DEF r
  <2> QED
    BY <2>1, <2>2
<1>6. CASE family = "SIG"
  BY <1>6, SigEffect, <1>0, <1>00 DEF r
<1>7. CASE family = "GEN"
  BY <1>7, GenEffect, <1>0, <1>00 DEF r
<1>8. CASE family = "SPF"
  <2> DEFINE pm == RelateAll(k.pat, a)
             es == PatmodsOf(pm, a)
             ok == ShiftOk(te, k.pat, es, a)
             cmd == Command(te, pm, es, a)
  <2>1. r = IF ok THEN [bad |-> FALSE, know |-> [k EXCEPT !.pat = pm], dut |-> WithCommand(d, cmd)]
            ELSE [bad |-> TRUE, know |-> k, dut |-> d]
    BY <1>8, SpfEffect DEF r
  <2> HIDE DEF pm, es, ok, cmd
  <2> QED
    BY <1>8, <2>1, <1>0, <1>00 DEF WithCommand
<1> QED
  BY <1>1, <1>2, <1>3, <1>4, <1>5, <1>6, <1>7, <1>8, SessionAssumption

LEMMA InitSync == Init => SyncInv
<1> SUFFICES ASSUME Init PROVE SyncInv
  OBVIOUS
<1>1. dut.sig = NoSignals
  BY DEF Init, Untouched
<1>2. family = "SIG" => know.sig = Unsynced
  BY DEF Init, Ignorant
<1>3. DOMAIN NoSignals = Registers /\ NoSignals.sync = <<>> /\ <<>> \in Seq(SyncWords)
  BY DEF NoSignals, Registers
<1>4. Unsynced \in [started : BOOLEAN] /\ ~Unsynced.started
  BY DEF Unsynced
<1> QED
  BY <1>1, <1>2, <1>3, <1>4 DEF SyncInv, SyncStartsFirst

LEMMA StepSync == WellFormed /\ SyncInv /\ [Next]_vars => SyncInv'
<1> SUFFICES ASSUME WellFormed, SyncInv, [Next]_vars PROVE SyncInv'
  OBVIOUS
<1>0. Shaped(know, dut) /\ family \in DOMAIN Actions
  BY DEF WellFormed
<1>00. "sig" \in DOMAIN know /\ "sig" \in DOMAIN dut
  BY <1>0 DEF Shaped, Ignorant, Untouched
<1>1. ASSUME NEW a \in Actions[family], Verify(a) PROVE SyncInv'
  <2> DEFINE r == Do(know, dut, a)
  <2>1. phase = "verify" /\ UNCHANGED <<family, dut>> /\ (know' = know \/ know' = r.know)
    BY <1>1, VerifyStep
  <2>2. CASE family = "SIG"
    <3>1. know.sig \in [started : BOOLEAN] /\ DOMAIN dut.sig = Registers
      BY <2>2 DEF SyncInv
    <3>2. know'.sig = know.sig
      BY <2>1, <2>2, <3>1, <1>00, SignalsDone
    <3> QED
      BY <3>2, <2>1, <2>2 DEF SyncInv, SyncStartsFirst
  <2>3. CASE family # "SIG"
    BY <2>1, <2>3 DEF SyncInv
  <2> QED
    BY <2>2, <2>3
<1>2. CASE BeginRun
  <2>1. know'.sig = know.sig /\ UNCHANGED <<family, dut>>
    BY <1>2, <1>0 DEF BeginRun, InitialHistory, Shaped, Ignorant
  <2> QED
    BY <2>1 DEF SyncInv, SyncStartsFirst
<1>3. CASE Run
  <2> DEFINE a == script[at + 1]
             r == Do(know, dut, a)
  <2>1. /\ phase = "run" /\ UNCHANGED family
        /\ UNCHANGED <<know, dut>> \/ (know' = r.know /\ dut' = r.dut)
    BY <1>3, RunStep
  <2>2. CASE UNCHANGED <<know, dut>>
    BY <2>1, <2>2 DEF SyncInv, SyncStartsFirst
  <2>3. CASE family # "SIG" /\ know' = r.know /\ dut' = r.dut
    BY <2>1, <2>3, OthersStay, <1>0 DEF SyncInv
  <2>4. CASE family = "SIG" /\ know' = r.know /\ dut' = r.dut
    <3> DEFINE quiet == phase = "verify" \/ a.silent
               aligns == a.align /\ te.sync
               e == Driving(dut.sig, te.silicon, a)
    <3> HIDE DEF a
    <3>2. know.sig \in [started : BOOLEAN] /\ DOMAIN dut.sig = Registers
      BY <2>4 DEF SyncInv
    <3>3. DOMAIN e = Registers /\ e.sync = dut.sig.sync
      BY <3>2, DrivingTakes
    <3>4. CASE quiet
      <4>1. r.know.sig = know.sig /\ r.dut.sig = dut.sig
        BY <3>2, <3>4, <2>4, <1>00, QuietSignals
      <4> QED
        BY <4>1, <2>1, <2>4 DEF SyncInv, SyncStartsFirst
    <3>5. CASE ~quiet /\ ~aligns
      <4>1. r.know.sig = know.sig /\ r.dut.sig = e
        BY <3>2, <3>5, <2>4, <1>00, PlainSignals
      <4> HIDE DEF r, e
      <4> QED
        BY <4>1, <3>3, <2>1, <2>4 DEF SyncInv, SyncStartsFirst
    <3>6. CASE ~quiet /\ aligns
      <4> DEFINE t == dut.sig.sync \o (IF ~know.sig.started THEN <<"start_sync">> ELSE <<>>)
                                   \o <<"align_sync">>
      <4>1. /\ r.know.sig \in [started : BOOLEAN] /\ r.know.sig.started
            /\ r.dut.sig = AlignedAfter(e, know.sig.started)
        BY <3>2, <3>6, <2>4, <1>00, SignalsDone
      <4>2. t \in Seq(SyncWords) /\ t # <<>> /\ \A i \in 1..Len(t) : t[i] = "start_sync" <=> i = 1
        <5>1. /\ dut.sig.sync \in Seq(SyncWords) /\ know.sig.started \in BOOLEAN
              /\ know.sig.started <=> dut.sig.sync # <<>>
              /\ \A i \in 1..Len(dut.sig.sync) : dut.sig.sync[i] = "start_sync" <=> i = 1
          BY <2>4 DEF SyncInv, SyncStartsFirst
        <5> QED
          BY <5>1, StartComesFirst
      <4> HIDE DEF r, e, t
      <4>3. DOMAIN dut'.sig = Registers /\ dut'.sig.sync = t
        BY <2>4, <4>1, <3>3 DEF Registers, AlignedAfter, t
      <4> QED
        BY <4>1, <4>2, <4>3, <2>1, <2>4 DEF SyncInv, SyncStartsFirst
    <3> QED
      BY <3>4, <3>5, <3>6
  <2> QED
    BY <2>1, <2>2, <2>3, <2>4
<1>4. CASE Close
  <2>1. dut'.sig = dut.sig /\ UNCHANGED <<family, know>> /\ family # "SIG"
    BY <1>4, <1>00, <1>0 DEF Close, Shaped, Untouched
  <2> QED
    BY <2>1 DEF SyncInv
<1>5. CASE UNCHANGED vars
  BY <1>5 DEF vars, SyncInv, SyncStartsFirst
<1> QED
  BY <1>1, <1>2, <1>3, <1>4, <1>5 DEF Next

\* The stimulus starts the synchronisation once, before it aligns to it
\* (wait_clock_modulo of the SPF interface): in the run pass the interface
\* remembers of the verification pass only what was written.
THEOREM SynchronisesFirst == Spec => []SyncStartsFirst
<1>1. SyncInv => SyncStartsFirst
  BY DEF SyncInv, SyncStartsFirst, NoSignals
<1> QED
  BY <1>1, InitWellFormed, StepWellFormed, InitSync, StepSync, PTL DEF Spec

-----------------------------------------------------------------------------
(***************************************************************************)
(* Time.                                                                   *)
(***************************************************************************)
\* A division that rounds up.
LEMMA RoundsUp ==
  ASSUME NEW n \in Nat, NEW v \in Nat, v > 0
  PROVE  LET q == (n + v - 1) \div v
         IN  q \in Int /\ q * v >= n /\ (q - 1) * v < n
<1> DEFINE x == n + v - 1
           q == x \div v
<1>1. x \in Int /\ v \in Int /\ v > 0 /\ q \in Int
  OBVIOUS
<1>2. v * q <= x /\ x < v * q + v
  BY <1>1
<1> HIDE DEF q
<1>3. q * v = v * q /\ (q - 1) * v = v * q - v /\ v * q \in Int
  BY <1>1
<1> QED
  BY <1>1, <1>2, <1>3 DEF q

LEMMA PollsForward ==
  ASSUME NEW a, a.cycles \in Nat, a.maxtimeout \in Int, a.clock \in DOMAIN Period
  PROVE  PollTime(a) >= 0 /\ a.cycles * Period[a.clock] >= 0
<1> DEFINE n == a.cycles
           t == a.maxtimeout
           p == Period[a.clock]
           waited == n * p
<1>1. n \in Nat /\ t \in Int /\ p \in Nat /\ p > 0
  BY SignalAssumption
<1>2. waited \in Nat
  BY <1>1
<1>3. PollTime(a) = IF t > waited THEN t * p - waited ELSE waited
  BY DEF PollTime
<1> HIDE DEF n, t, p, waited
<1>4. t > waited => t * p >= t
  <2> SUFFICES ASSUME t > waited PROVE t * p >= t
    OBVIOUS
  <2>1. t > 0 /\ p - 1 >= 0 /\ p - 1 \in Int
    BY <1>1, <1>2
  <2>2. t * (p - 1) >= 0
    BY <2>1, <1>1
  <2>3. t * p = t * (p - 1) + t
    BY <1>1
  <2> QED
    BY <2>2, <2>3, <1>1
<1>5. t * p \in Int
  BY <1>1
<1> QED
  BY <1>1, <1>2, <1>3, <1>4, <1>5 DEF n, p, waited

\* A step that TimeKept is about.
TimeStep ==
    \A a \in Actions[family] : Runs(a) /\ family = "SIG" /\ ~a.silent =>
        LET asked == a.cycles * Period[a.clock]
            cycle == Period[PatVecClock]
        IN  /\ a.op = "delay" \/ (a.op = "pulse" /\ External(a)) =>
                 dut'.sig.took * cycle >= asked /\ (dut'.sig.took - 1) * cycle < asked
            /\ dut'.sig.poll >= 0

LEMMA StepKeepsTime == WellFormed /\ SyncInv /\ [Next]_vars => [TimeStep]_vars
<1> SUFFICES ASSUME WellFormed, SyncInv, Next, NEW a \in Actions[family],
                    Runs(a), family = "SIG", ~a.silent
             PROVE  LET asked == a.cycles * Period[a.clock]
                        cycle == Period[PatVecClock]
                    IN  /\ a.op = "delay" \/ (a.op = "pulse" /\ External(a)) =>
                             /\ dut'.sig.took * cycle >= asked
                             /\ (dut'.sig.took - 1) * cycle < asked
                        /\ dut'.sig.poll >= 0
  BY DEF TimeStep
<1> DEFINE r == Do(know, dut, a)
           e == Driving(dut.sig, te.silicon, a)
<1>1. Run
  BY DEF Next, Runs, Verify, BeginRun, Close
<1>2. a = script[at + 1] /\ at' = at + 1 /\ phase = "run"
  BY DEF Runs
<1>3. dut' = r.dut
  BY <1>1, <1>2, RunStep
<1>4. /\ "sig" \in DOMAIN know /\ know.sig \in [started : BOOLEAN]
      /\ "sig" \in DOMAIN dut /\ DOMAIN dut.sig = Registers
  BY DEF WellFormed, SyncInv, Shaped, Ignorant, Untouched
<1>5. /\ DOMAIN e = Registers /\ e.took = Takes(te.silicon, a)
      /\ e.poll = IF a.op # "wait" THEN 0
                  ELSE IF te.silicon THEN PollTime(a) ELSE a.cycles * Period[a.clock]
  BY <1>4, DrivingTakes
<1>6. dut'.sig.took = e.took /\ dut'.sig.poll = e.poll
  <2>1. CASE a.align /\ te.sync
    <3>1. r.dut.sig = AlignedAfter(e, know.sig.started)
      BY <2>1, <1>2, <1>4, SignalsDone
    <3> HIDE DEF r, e
    <3> QED
      BY <3>1, <1>3, <1>5 DEF AlignedAfter, Registers
  <2>2. CASE ~(a.align /\ te.sync)
    <3>1. r.dut.sig = e
      BY <2>2, <1>2, <1>4, PlainSignals
    <3> QED
      BY <3>1, <1>3
  <2> QED
    BY <2>1, <2>2
<1>7. a.cycles \in Nat /\ a.maxtimeout \in Int /\ a.clock \in DOMAIN Period
  BY ArgumentAssumption DEF WellFormed
<1>8. dut'.sig.poll >= 0
  BY <1>5, <1>6, <1>7, PollsForward
<1>9. ASSUME a.op = "delay" \/ (a.op = "pulse" /\ External(a))
      PROVE  /\ dut'.sig.took * Period[PatVecClock] >= a.cycles * Period[a.clock]
             /\ (dut'.sig.took - 1) * Period[PatVecClock] < a.cycles * Period[a.clock]
  <2> DEFINE n == a.cycles * Period[a.clock]
             v == Period[PatVecClock]
  <2>1. dut'.sig.took = VecCycles(a.cycles, a.clock)
    BY <1>5, <1>6, <1>9 DEF Takes
  <2>2. dut'.sig.took = (n + v - 1) \div v
    BY <2>1 DEF VecCycles
  <2>3. v \in Nat /\ v > 0 /\ Period[a.clock] \in Nat /\ a.cycles \in Nat
    BY SignalAssumption, <1>7
  <2>4. n \in Nat
    BY <2>3
  <2> HIDE DEF n, v
  <2>5. dut'.sig.took * v >= n /\ (dut'.sig.took - 1) * v < n
    BY <2>2, <2>3, <2>4, RoundsUp
  <2> QED
    BY <2>5 DEF n, v
<1> QED
  BY <1>8, <1>9

\* A delay, and the pulse of a pin, last as long as they were asked to, to the
\* next cycle of the vectors (wait_clock_num, signalset_pulse), and nothing is
\* polled for a negative time (signalset_wait).
THEOREM DelaysAreExact == Spec => TimeKept
<1>1. TimeKept <=> [][TimeStep]_vars
  BY DEF TimeKept, TimeStep
<1> QED
  BY <1>1, InitWellFormed, StepWellFormed, InitSync, StepSync, StepKeepsTime, PTL DEF Spec

-----------------------------------------------------------------------------
(***************************************************************************)
(* What was verified runs: for each family, what the run pass finds again  *)
(* of what the verification pass found.                                    *)
(***************************************************************************)
NoTap == [f \in {} |-> {}]

\* Packets, control registers and signals are judged by the action alone; a
\* TAP action is so before anything is remembered.
Accepted(a) ==
    /\ family = "PKT" => PacketOk(a)
    /\ family = "XREG" => CrOk(te, a)
    /\ family = "SIG" => SignalOk(a)
    /\ family = "TAP" => TapOk(NoTap, a) /\ ~Clash(NoTap, a)
AcceptedInv == \A i \in 1..Len(script) : Accepted(script[i])

\* The clock of the ratio was set by an action before one that restores it.
ClockInv ==
    family = "GEN" =>
        /\ DOMAIN know.player = {"ratio", "clk"}
        /\ \A i \in 1..Len(script) : script[i].op = "restore" => know.player.clk

\* The fields of a TAP register that are remembered are some that the script
\* names, with values that fit.
Remembered(h) ==
    /\ DOMAIN h \subseteq NamedFields \cap DocField
    /\ \A f \in DOMAIN h : h[f] \subseteq 0..(Msb[f] - Lsb[f])
TapInv ==
    family = "TAP" =>
        /\ phase = "verify" => know.tap = NoTap
        /\ phase = "run" /\ resets /\ Every(SoundTap) => Remembered(know.tap)

\* The places of a script that an action is appended to.
LEMMA Appended ==
  ASSUME NEW S, NEW s \in Seq(S), NEW a \in S, NEW i \in 1..Len(Append(s, a))
  PROVE  \/ i \in 1..Len(s) /\ Append(s, a)[i] = s[i]
         \/ i = Len(s) + 1 /\ Append(s, a)[i] = a
OBVIOUS

LEMMA InitAccepted == Init => AcceptedInv /\ ClockInv /\ TapInv
<1> SUFFICES ASSUME Init PROVE AcceptedInv /\ ClockInv /\ TapInv
  OBVIOUS
<1>1. script = <<>> /\ Len(script) = 0 /\ at = 0 /\ phase \in {"verify", "rejected"}
  BY DEF Init
<1>2. 1..Len(script) = {}
  BY <1>1
<1>3. family # "SPF" => know = Ignorant
  BY DEF Init
<1>4. AcceptedInv
  BY <1>2 DEF AcceptedInv
<1>5. ClockInv
  BY <1>2, <1>3 DEF ClockInv, Ignorant, NewPlayer
<1>6. TapInv
  BY <1>1, <1>3 DEF TapInv, Ignorant, NoTap
<1> QED
  BY <1>4, <1>5, <1>6

LEMMA VerifyAccepted ==
  ASSUME WellFormed, AcceptedInv, TapInv, NEW a \in Actions[family], Verify(a)
  PROVE  AcceptedInv'
<1> DEFINE r == Do(know, dut, a)
<1>0. /\ family \in DOMAIN Actions /\ script \in Seq(Actions[family])
      /\ UNCHANGED <<te, family>>
  BY VerifyStep DEF WellFormed
<1>1. CASE r.bad
  BY <1>1, <1>0, VerifyStep DEF AcceptedInv, Accepted
<1>2. CASE ~r.bad
  <2>1. script' = Append(script, a)
    BY <1>2, VerifyStep
  <2>2. Accepted(a)
    <3>1. family = "PKT" => PacketOk(a)
      BY <1>2, Rejections
    <3>2. family = "XREG" => CrOk(te, a)
      BY <1>2, Rejections
    <3>3. family = "SIG" => SignalOk(a)
      BY <1>2, Rejections
    <3>4. family = "TAP" => TapOk(NoTap, a) /\ ~Clash(NoTap, a)
      <4>1. family = "TAP" => know.tap = NoTap
        BY VerifyStep DEF TapInv
      <4> QED
        BY <1>2, <4>1, Rejections
    <3> QED
      BY <3>1, <3>2, <3>3, <3>4 DEF Accepted
  <2>3. \A i \in 1..Len(script') : Accepted(script'[i])
    BY <2>1, <2>2, <1>0, Appended DEF AcceptedInv
  <2> QED
    BY <2>3, <1>0 DEF AcceptedInv, Accepted
<1> QED
  BY <1>1, <1>2

\* The clock of the ratio, once it was set, stays known as set.
LEMMA ClockStays ==
  ASSUME family = "GEN", NEW k, NEW d, Shaped(k, d), NEW a,
         DOMAIN k.player = {"ratio", "clk"}
  PROVE  /\ DOMAIN Do(k, d, a).know.player = {"ratio", "clk"}
         /\ k.player.clk => Do(k, d, a).know.player.clk
<1> DEFINE p == Ratioed(k.player, a)
           know2 == IF a.op = "label" THEN [k EXCEPT !.labels = Counted(@, a.name)]
                                      ELSE [k EXCEPT !.player = p]
           dut2 == IF a.silent THEN d ELSE [d EXCEPT !.out = Played(@, k.player, k.labels, a)]
<1>1. Do(k, d, a) = [bad |-> ~GenOk(k.player, a), know |-> know2, dut |-> dut2]
  BY GenEffect
<1>2. DOMAIN p = {"ratio", "clk"} /\ (k.player.clk => p.clk)
  BY DEF Ratioed
<1>3. "player" \in DOMAIN k
  BY DEF Shaped, Ignorant
<1> HIDE DEF p, dut2
<1>4. know2.player = IF a.op = "label" THEN k.player ELSE p
  BY <1>3
<1> HIDE DEF know2
<1>5. Do(k, d, a).know = know2
  BY <1>1
<1> QED
  BY <1>2, <1>4, <1>5

LEMMA StepClock ==
  ASSUME WellFormed, ClockInv, Next
  PROVE  ClockInv'
<1>0. Shaped(know, dut) /\ family \in DOMAIN Actions /\ script \in Seq(Actions[family])
  BY DEF WellFormed
<1> SUFFICES ASSUME family = "GEN", UNCHANGED family
             PROVE  /\ DOMAIN know'.player = {"ratio", "clk"}
                    /\ \A i \in 1..Len(script') : script'[i].op = "restore" => know'.player.clk
  BY DEF ClockInv, Next, Verify, BeginRun, Run, Close
<1> DEFINE Known2 == \A i \in 1..Len(script) : script[i].op = "restore" => know.player.clk
<1>00. DOMAIN know.player = {"ratio", "clk"} /\ Known2
  BY DEF ClockInv
<1>1. ASSUME NEW a \in Actions[family], Verify(a)
      PROVE  /\ DOMAIN know'.player = {"ratio", "clk"}
             /\ \A i \in 1..Len(script') : script'[i].op = "restore" => know'.player.clk
  <2> DEFINE r == Do(know, dut, a)
  <2>1. CASE r.bad
    BY <1>1, <2>1, <1>00, VerifyStep
  <2>2. CASE ~r.bad
    <3>1. script' = Append(script, a) /\ know' = r.know
      BY <1>1, <2>2, VerifyStep
    <3>2. DOMAIN r.know.player = {"ratio", "clk"} /\ (know.player.clk => r.know.player.clk)
      BY <1>0, <1>00, ClockStays
    <3>3. a.op = "restore" => know.player.clk
      BY <2>2, Rejections DEF GenOk
    <3> HIDE DEF r
    <3>4. ASSUME NEW i \in 1..Len(script'), script'[i].op = "restore" PROVE know.player.clk
      BY <3>1, <3>3, <3>4, <1>0, <1>00, Appended
    <3> QED
      BY <3>1, <3>2, <3>4
  <2> QED
    BY <2>1, <2>2
<1>2. CASE BeginRun
  <2>1. know'.player = know.player /\ UNCHANGED script
    BY <1>2, <1>0 DEF BeginRun, InitialHistory, Shaped, Ignorant
  <2> QED
    BY <2>1, <1>00
<1>3. CASE Run
  <2> DEFINE a == script[at + 1]
             r == Do(know, dut, a)
  <2>1. UNCHANGED script /\ (know' = know \/ know' = r.know)
    BY <1>3, RunStep
  <2>2. DOMAIN r.know.player = {"ratio", "clk"} /\ (know.player.clk => r.know.player.clk)
    BY <1>0, <1>00, ClockStays
  <2> HIDE DEF r
  <2> QED
    BY <2>1, <2>2, <1>00
<1>4. CASE Close
  BY <1>4, <1>00 DEF Close
<1> QED
  BY <1>1, <1>2, <1>3, <1>4 DEF Next

\* The history of an STF session after an action.
LEMMA StfHistory ==
  ASSUME family = "STF", NEW k, NEW d, Shaped(k, d), NEW a
  PROVE  Do(k, d, a).know.stf = VerifyStf(te, k.stf, a).h
<1> DEFINE w == VerifyStf(te, k.stf, a)
           o == RunOps([te |-> te, net |-> d.net, track |-> k.track], w.ops)
           know2 == [k EXCEPT !.stf = w.h, !.track = o.track]
           dut2 == [d EXCEPT !.net = o.net]
<1>1. Do(k, d, a) = [bad |-> w.bad, know |-> know2, dut |-> dut2]
  BY StfEffect
<1>2. "stf" \in DOMAIN k
  BY DEF Shaped, Ignorant
<1> HIDE DEF w, o, dut2
<1>3. know2.stf = w.h
  BY <1>2
<1> HIDE DEF know2
<1> QED
  BY <1>1, <1>3 DEF w

-----------------------------------------------------------------------------
(***************************************************************************)
(* The two folds of the TAP action: the documented fields that are listed, *)
(* and the ranges of bits of a field.  Of the folds in this module the     *)
(* steps are used, and nothing is said to hold of all of them.             *)
(***************************************************************************)
holds(c, d, x) == TRUE
Listing(S, unused, seq, f) == IF f \in S THEN Append(seq, f) ELSE seq
Ranging(unused, unused2, value, r) == OnRange(value, r)
L == INSTANCE FoldFacts WITH op <- Listing
R == INSTANCE FoldFacts WITH op <- Ranging

LEMMA ListedFields ==
  ASSUME NEW S
  PROVE  Listed(S) \in Seq(S \cap DocField)
<1> DEFINE n == Len(DocFields)
<1>1. Listed(S) = L!Fold(S, S, <<>>, DocFields)
  BY DEF Listed, Listing, FoldLeft, MapThenFoldSet, Max, L!Fold, L!Top
<1>2. DOMAIN DocFields = 1..n /\ n \in Nat
  BY RegisterAssumption
<1>3. PICK g : L!Steps(g, S, S, <<>>, DocFields, n) /\ L!Fold(S, S, <<>>, DocFields) = g[n]
  BY <1>2, L!FoldSteps
<1> DEFINE P == {i \in 0..n : g[i] \in Seq(S \cap DocField)}
<1>4. 0 \in P
  <2>1. g[0] = <<>> /\ <<>> \in Seq(S \cap DocField)
    BY <1>3 DEF L!Steps
  <2>2. 0 \in 0..n
    BY <1>2
  <2> HIDE DEF n
  <2> QED
    BY <2>1, <2>2
<1>5. ASSUME NEW i \in 1..n, i - 1 \in P PROVE i \in P
  <2>1. g[i] = Listing(S, S, g[i - 1], DocFields[i])
    BY <1>3 DEF L!Steps
  <2>2. DocFields[i] \in DocField
    BY DEF DocField
  <2>3. g[i] \in Seq(S \cap DocField)
    BY <2>1, <2>2, <1>5 DEF Listing
  <2> QED
    BY <2>3
<1>6. \A i \in 0..n : i \in P
  <2> HIDE DEF P
  <2> QED
    BY <1>2, <1>4, <1>5, L!BoundedInduction
<1>7. n \in P
  BY <1>6, <1>2
<1> QED
  BY <1>1, <1>3, <1>7

Argument == [field : DocField, exact : BOOLEAN, ranges : Seq(TapRange)]
Size(f) == Msb[f] - Lsb[f]

\* The ranges of a field that fit make a value that fits.
LEMMA RangesFit ==
  ASSUME NEW f \in DocField, NEW ranges \in Seq(TapRange),
         \A j \in 1..Len(ranges) : RangeFits(f, ranges[j]) /\ ranges[j].msb <= Size(f)
  PROVE  FoldLeft(OnRange, ResetOf[f], ranges) \subseteq 0..Size(f)
<1> DEFINE n == Len(ranges)
           b == ResetOf[f]
           res == FoldLeft(OnRange, b, ranges)
<1>0. Lsb[f] \in Nat /\ Msb[f] \in Nat /\ Lsb[f] <= Msb[f] /\ b \subseteq 0..Size(f) /\ Size(f) \in Nat
  BY RegisterAssumption DEF Size
<1>1. res = R!Fold(f, f, b, ranges)
  BY DEF Ranging, FoldLeft, MapThenFoldSet, Max, R!Fold, R!Top
<1>2. DOMAIN ranges = 1..n /\ n \in Nat
  OBVIOUS
<1> HIDE DEF b, res
<1>3. PICK g : R!Steps(g, f, f, b, ranges, n) /\ R!Fold(f, f, b, ranges) = g[n]
  BY <1>2, R!FoldSteps
<1> DEFINE P == {i \in 0..n : g[i] \subseteq 0..Size(f)}
<1>4. 0 \in P
  <2>1. g[0] = b
    BY <1>3 DEF R!Steps
  <2>2. 0 \in 0..n
    BY <1>2
  <2> HIDE DEF n
  <2> QED
    BY <2>1, <2>2, <1>0
<1>5. ASSUME NEW i \in 1..n, i - 1 \in P PROVE i \in P
  <2> DEFINE r == ranges[i]
  <2>1. g[i] = OnRange(g[i - 1], r)
    BY <1>3 DEF R!Steps, Ranging
  <2>2. r.lsb \in Int /\ r.msb \in Int /\ r.bits \subseteq Nat
    <3>1. r \in TapRange
      OBVIOUS
    <3> QED
      BY <3>1 DEF TapRange
  <2>3. RangeFits(f, r) /\ r.msb <= Size(f)
    OBVIOUS
  <2>4. g[i - 1] \subseteq 0..Size(f)
    BY <1>5
  <2> HIDE DEF r
  <2>5. g[i] \subseteq 0..Size(f)
    <3> SUFFICES ASSUME NEW x \in g[i] PROVE x \in 0..Size(f)
      OBVIOUS
    <3>1. CASE r.lsb < 0
      <4>1. x \in r.bits
        BY <3>1, <2>1 DEF OnRange
      <4>2. x <= Size(f) /\ x \in Nat
        BY <4>1, <3>1, <2>2, <2>3 DEF RangeFits, Size
      <4> QED
        BY <4>2, <1>0
    <3>2. CASE ~(r.lsb < 0)
      <4>1. x \in g[i - 1] \/ \E y \in r.bits : x = y + r.lsb
        BY <3>2, <2>1 DEF OnRange
      <4>2. ASSUME NEW y \in r.bits, x = y + r.lsb PROVE x \in 0..Size(f)
        <5>1. y \in Nat /\ y <= r.msb - r.lsb
          BY <3>2, <2>2, <2>3 DEF RangeFits
        <5> QED
          BY <5>1, <4>2, <3>2, <2>2, <2>3, <1>0
      <4> QED
        BY <4>1, <4>2, <2>4
    <3> QED
      BY <3>1, <3>2
  <2> QED
    BY <2>5
<1>6. \A i \in 0..n : i \in P
  <2> HIDE DEF P
  <2> QED
    BY <1>2, <1>4, <1>5, R!BoundedInduction
<1>7. n \in P
  BY <1>6, <1>2
<1>8. res \subseteq 0..Size(f)
  BY <1>1, <1>3, <1>7
<1> QED
  BY <1>8 DEF res, b

\* What an action is given: its own arguments, then fields that are remembered.
LEMMA GivenArguments ==
  ASSUME NEW h, NEW a, a.args \in Seq(Argument)
  PROVE  /\ Len(Given(h, a)) \in Nat /\ Len(Given(h, a)) >= Len(a.args)
         /\ \A i \in 1..Len(a.args) : Given(h, a)[i] = a.args[i]
         /\ \A i \in 1..Len(Given(h, a)) : i > Len(a.args) =>
              \E f \in DOMAIN h \cap DocField :
                  Given(h, a)[i] = [field |-> f, exact |-> TRUE, ranges |-> <<Whole(h[f])>>]
<1> DEFINE missing == IF a.op = "read" THEN DOMAIN h ELSE DOMAIN h \ Exact(a.args)
           seq == Listed(missing)
           more == [i \in 1..Len(seq) |->
                      [field |-> seq[i], exact |-> TRUE, ranges |-> <<Whole(h[seq[i]])>>]]
           res == Given(h, a)
<1>1. seq \in Seq(DOMAIN h \cap DocField)
  <2>1. missing \subseteq DOMAIN h
    OBVIOUS
  <2> HIDE DEF missing
  <2>2. seq \in Seq(missing \cap DocField)
    BY ListedFields
  <2> HIDE DEF seq
  <2> QED
    BY <2>1, <2>2
<1>2. res = IF a.incremental THEN a.args \o more ELSE a.args
  BY DEF Given
<1> HIDE DEF seq, res
<1>3. /\ more \in Seq([field : DocField, exact : BOOLEAN, ranges : {<<Whole(h[f])>> : f \in DOMAIN h}])
      /\ Len(more) = Len(seq) /\ Len(seq) \in Nat
  BY <1>1
<1>4. \A i \in 1..Len(more) : \E f \in DOMAIN h \cap DocField :
         more[i] = [field |-> f, exact |-> TRUE, ranges |-> <<Whole(h[f])>>]
  <2> SUFFICES ASSUME NEW i \in 1..Len(seq)
               PROVE  \E f \in DOMAIN h \cap DocField :
                         more[i] = [field |-> f, exact |-> TRUE, ranges |-> <<Whole(h[f])>>]
    BY <1>3
  <2>1. seq[i] \in DOMAIN h \cap DocField
    BY <1>1
  <2> QED
    BY <2>1
<1> HIDE DEF more
<1>5. CASE a.incremental
  <2>1. res = a.args \o more /\ Len(a.args) \in Nat /\ Len(more) \in Nat
    BY <1>2, <1>3, <1>5
  <2> DEFINE M == [field : DocField, exact : BOOLEAN, ranges : {<<Whole(h[f])>> : f \in DOMAIN h}]
  <2>0. a.args \in Seq(Argument \cup M) /\ more \in Seq(Argument \cup M)
    <3>1. more \in Seq(M)
      BY <1>3
    <3> HIDE DEF M
    <3> QED
      BY <3>1
  <2> HIDE DEF M
  <2>2. Len(res) = Len(a.args) + Len(more)
    BY <2>1, <2>0
  <2>3. \A i \in 1..Len(a.args) : res[i] = a.args[i]
    BY <2>1, <1>3
  <2>4. ASSUME NEW i \in 1..Len(res), i > Len(a.args)
        PROVE  i - Len(a.args) \in 1..Len(more) /\ res[i] = more[i - Len(a.args)]
    BY <2>1, <2>2, <2>4, <1>3
  <2>5. \A i \in 1..Len(res) : i > Len(a.args) =>
          \E f \in DOMAIN h \cap DocField :
             res[i] = [field |-> f, exact |-> TRUE, ranges |-> <<Whole(h[f])>>]
    BY <2>4, <1>4
  <2>6. Len(res) \in Nat /\ Len(res) >= Len(a.args)
    BY <2>1, <2>2
  <2> QED
    BY <2>3, <2>5, <2>6 DEF res
<1>6. CASE ~a.incremental
  BY <1>2, <1>6 DEF res
<1> QED
  BY <1>5, <1>6

\* An action of the script is accepted with what is remembered, if it was with
\* nothing.
LEMMA StillAccepted ==
  ASSUME NEW h, Remembered(h), NEW a, a.args \in Seq(Argument), Named(a.args) \subseteq NamedFields,
         SoundTap(a), TapOk(NoTap, a)
  PROVE  TapOk(h, a) /\ ~Clash(h, a)
<1>1. \A i \in 1..Len(a.args) : \A j \in 1..Len(a.args[i].ranges) :
         RangeFits(a.args[i].field, a.args[i].ranges[j])
  <2>1. \A i \in 1..Len(Given(NoTap, a)) : \A j \in 1..Len(Given(NoTap, a)[i].ranges) :
          RangeFits(Given(NoTap, a)[i].field, Given(NoTap, a)[i].ranges[j])
    BY DEF TapOk
  <2>2. \A i \in 1..Len(a.args) : i \in 1..Len(Given(NoTap, a)) /\ Given(NoTap, a)[i] = a.args[i]
    BY GivenArguments
  <2> QED
    BY <2>1, <2>2
<1> DEFINE args == Given(h, a)
<1>2. /\ Len(args) \in Nat /\ Len(args) >= Len(a.args) /\ Len(a.args) \in Nat
      /\ \A i \in 1..Len(a.args) : args[i] = a.args[i]
      /\ \A i \in 1..Len(args) : i > Len(a.args) =>
           \E f \in DOMAIN h \cap DocField :
               args[i] = [field |-> f, exact |-> TRUE, ranges |-> <<Whole(h[f])>>]
  BY GivenArguments
<1> HIDE DEF args
<1>3. ASSUME NEW i \in 1..Len(args), NEW j \in 1..Len(args[i].ranges)
      PROVE  RangeFits(args[i].field, args[i].ranges[j])
  <2>1. CASE i <= Len(a.args)
    BY <2>1, <1>1, <1>2
  <2>2. CASE i > Len(a.args)
    <3>1. PICK f \in DOMAIN h \cap DocField :
             args[i] = [field |-> f, exact |-> TRUE, ranges |-> <<Whole(h[f])>>]
      BY <2>2, <1>2
    <3>2. args[i].field = f /\ args[i].ranges = <<Whole(h[f])>>
      BY <3>1
    <3>3. j = 1 /\ args[i].ranges[j] = Whole(h[f])
      BY <3>2
    <3>4. Whole(h[f]).lsb < 0 /\ Whole(h[f]).bits = h[f]
      BY DEF Whole
    <3>5. \A b \in h[f] : b <= Msb[f] - Lsb[f]
      BY DEF Remembered
    <3> QED
      BY <3>2, <3>3, <3>4, <3>5 DEF RangeFits
  <2> QED
    BY <2>1, <2>2, <1>2
<1>4. Named(args) \subseteq NamedFields
  <2> SUFFICES ASSUME NEW i \in 1..Len(args) PROVE args[i].field \in NamedFields
    BY DEF Named
  <2>1. CASE i <= Len(a.args)
    BY <2>1, <1>2 DEF Named
  <2>2. CASE i > Len(a.args)
    <3>1. PICK f \in DOMAIN h \cap DocField :
             args[i] = [field |-> f, exact |-> TRUE, ranges |-> <<Whole(h[f])>>]
      BY <2>2, <1>2
    <3>2. args[i].field = f
      BY <3>1
    <3> QED
      BY <3>2 DEF Remembered
  <2> QED
    BY <2>1, <2>2, <1>2
<1>5. ~Clash(h, a)
  BY <1>4 DEF Clash, SoundTap, Apart, args
<1>6. a.op = "raw" => a.args = <<>>
  BY DEF TapOk
<1>7. TapOk(h, a)
  BY <1>3, <1>6 DEF TapOk, args
<1> QED
  BY <1>5, <1>7

\* What it writes is remembered with values that fit.
LEMMA StillRemembered ==
  ASSUME NEW h, Remembered(h), NEW a, a.args \in Seq(Argument), Named(a.args) \subseteq NamedFields,
         SoundTap(a), TapOk(h, a)
  PROVE  Remembered(Captured(h, a))
<1> DEFINE args == Given(h, a)
           old == IF a.op = "read" THEN Len(a.args) ELSE 0
           values == NamedValues(h, a)
<1>2. /\ Len(args) \in Nat /\ Len(args) >= Len(a.args) /\ Len(a.args) \in Nat
      /\ \A i \in 1..Len(a.args) : args[i] = a.args[i]
      /\ \A i \in 1..Len(args) : i > Len(a.args) =>
           \E f \in DOMAIN h \cap DocField :
               args[i] = [field |-> f, exact |-> TRUE, ranges |-> <<Whole(h[f])>>]
  BY GivenArguments
<1>3. \A i \in 1..Len(args) : \A j \in 1..Len(args[i].ranges) :
         RangeFits(args[i].field, args[i].ranges[j])
  BY DEF TapOk
<1>4. values = [f \in Named(args) |->
         LET last == CHOOSE i \in {k \in 1..Len(args) : args[k].field = f} :
                        \A j \in {k \in 1..Len(args) : args[k].field = f} : j <= i
         IN  IF last <= old THEN ResetOf[f] ELSE FoldLeft(OnRange, ResetOf[f], args[last].ranges)]
  BY DEF NamedValues
<1> HIDE DEF args, old, values
<1>5. ASSUME NEW i \in 1..Len(args)
      PROVE  /\ args[i].field \in NamedFields \cap DocField
             /\ args[i].ranges \in Seq(TapRange)
             /\ \A j \in 1..Len(args[i].ranges) : args[i].ranges[j].msb <= Size(args[i].field)
  <2>1. CASE i <= Len(a.args)
    <3>1. i \in 1..Len(a.args) /\ args[i] = a.args[i] /\ a.args[i] \in Argument
      BY <2>1, <1>2
    <3>2. a.args[i].field \in Named(a.args)
      BY <3>1 DEF Named
    <3>3. \A j \in 1..Len(a.args[i].ranges) :
             a.args[i].ranges[j].msb <= Msb[a.args[i].field] - Lsb[a.args[i].field]
      BY <3>1 DEF SoundTap, Fits
    <3> QED
      BY <3>1, <3>2, <3>3 DEF Argument, Size
  <2>2. CASE i > Len(a.args)
    <3>1. PICK f \in DOMAIN h \cap DocField :
             args[i] = [field |-> f, exact |-> TRUE, ranges |-> <<Whole(h[f])>>]
      BY <2>2, <1>2
    <3>2. args[i].field = f /\ args[i].ranges = <<Whole(h[f])>>
      BY <3>1
    <3>3. h[f] \subseteq Nat /\ Size(f) \in Nat
      BY RegisterAssumption DEF Remembered, Size
    <3>4. Whole(h[f]) \in TapRange /\ Whole(h[f]).msb = -1
      BY <3>3 DEF Whole, TapRange
    <3>5. <<Whole(h[f])>> \in Seq(TapRange) /\ Len(<<Whole(h[f])>>) = 1
          /\ <<Whole(h[f])>>[1] = Whole(h[f])
      BY <3>4
    <3>6. f \in NamedFields
      BY DEF Remembered
    <3> QED
      BY <3>2, <3>3, <3>4, <3>5, <3>6
  <2> QED
    BY <2>1, <2>2, <1>2
<1>6. DOMAIN values = Named(args) /\ Named(args) \subseteq NamedFields \cap DocField
  BY <1>4, <1>5 DEF Named
<1>7. ASSUME NEW f \in Named(args) PROVE values[f] \subseteq 0..Size(f)
  <2> DEFINE of == {k \in 1..Len(args) : args[k].field = f}
             last == CHOOSE i \in of : \A j \in of : j <= i
  <2>1. of \in SUBSET (1..Len(args)) /\ of # {}
    BY DEF Named
  <2>2. \E i \in of : \A j \in of : j <= i
    <3> HIDE DEF of
    <3>1. L!Top(of) \in of /\ \A y \in of : y <= L!Top(of)
      BY <1>2, <2>1, L!TopOf
    <3> QED
      BY <3>1
  <2>3. last \in of
    <3> HIDE DEF of
    <3> QED
      BY <2>2
  <2>4. last \in 1..Len(args) /\ args[last].field = f
    BY <2>3
  <2>5. values[f] = IF last <= old THEN ResetOf[f] ELSE FoldLeft(OnRange, ResetOf[f], args[last].ranges)
    BY <1>4
  <2>6. f \in DocField /\ ResetOf[f] \subseteq 0..Size(f)
    BY <1>6, RegisterAssumption DEF Size
  <2> HIDE DEF last
  <2>7. FoldLeft(OnRange, ResetOf[f], args[last].ranges) \subseteq 0..Size(f)
    BY <2>4, <2>6, <1>3, <1>5, RangesFit
  <2> QED
    BY <2>5, <2>6, <2>7
<1>8. DOMAIN h \subseteq NamedFields \cap DocField /\ \A f \in DOMAIN h : h[f] \subseteq 0..Size(f)
  BY DEF Remembered, Size
<1>9. Captured(h, a) = IF a.op = "read" THEN h ELSE Over(values, h)
  BY DEF Captured, values
<1>10. /\ DOMAIN Over(values, h) = DOMAIN values \cup DOMAIN h
       /\ \A f \in DOMAIN values \cup DOMAIN h :
            Over(values, h)[f] = IF f \in DOMAIN values THEN values[f] ELSE h[f]
  BY DEF Over
<1>11. Remembered(Over(values, h))
  BY <1>6, <1>7, <1>8, <1>10 DEF Remembered, Size
<1> QED
  BY <1>9, <1>11

\* What a TAP session remembers after an action.
LEMMA TapMemory ==
  ASSUME family = "TAP", NEW k, NEW d, Shaped(k, d), NEW a
  PROVE  Do(k, d, a).know.tap = IF phase = "run" THEN Captured(k.tap, a) ELSE k.tap
<1>1. "tap" \in DOMAIN k
  BY DEF Shaped, Ignorant
<1> QED
  BY <1>1, TapEffect

\* An action of the script has fields with ranges of bits, and is accepted
\* wherever what is remembered fits.
LEMMA TapOfScript ==
  ASSUME WellFormed, AcceptedInv, family = "TAP", Every(SoundTap), Remembered(know.tap),
         NEW i \in 1..Len(script)
  PROVE  /\ TapOk(know.tap, script[i]) /\ ~Clash(know.tap, script[i])
         /\ Remembered(Captured(know.tap, script[i]))
<1> DEFINE a == script[i]
           h == know.tap
<1>1. a \in Actions[family]
  BY DEF WellFormed
<1>2. a.args \in Seq(Argument)
  BY <1>1, ArgumentAssumption DEF WellFormed, Argument
<1>3. Named(a.args) \subseteq NamedFields
  BY DEF NamedFields
<1>4. SoundTap(a)
  BY DEF Every
<1>5. TapOk(NoTap, a)
  BY DEF AcceptedInv, Accepted
<1> HIDE DEF a, h
<1>6. Remembered(h)
  BY DEF h
<1>7. TapOk(h, a) /\ ~Clash(h, a)
  BY <1>2, <1>3, <1>4, <1>5, <1>6, StillAccepted
<1>8. Remembered(Captured(h, a))
  BY <1>2, <1>3, <1>4, <1>6, <1>7, StillRemembered
<1> QED
  BY <1>7, <1>8 DEF a, h

LEMMA StepTap ==
  ASSUME WellFormed, AcceptedInv, TapInv, Next
  PROVE  TapInv'
<1>0. Shaped(know, dut) /\ family \in DOMAIN Actions
  BY DEF WellFormed
<1>00. UNCHANGED <<te, family, resets>>
  BY DEF Next, Verify, BeginRun, Run, Close
<1> SUFFICES ASSUME family = "TAP"
             PROVE  /\ phase' = "verify" => know'.tap = NoTap
                    /\ phase' = "run" /\ resets /\ Every(SoundTap)' => Remembered(know.tap)'
  BY <1>00 DEF TapInv
<1>1. ASSUME NEW a \in Actions[family], Verify(a)
      PROVE  phase' = "verify" => know'.tap = NoTap
  BY <1>1, <1>0, VerifyStep, TapMemory DEF TapInv
<1>2. CASE BeginRun
  <2>1. phase' = "run" /\ (resets => know'.tap = NoTap)
    BY <1>2, <1>0 DEF BeginRun, InitialHistory, Shaped, Ignorant, NoTap
  <2>2. DOMAIN NoTap = {}
    BY DEF NoTap
  <2> QED
    BY <2>1, <2>2 DEF Remembered
<1>3. CASE Run
  <2> DEFINE r == Do(know, dut, script[at + 1])
  <2>1. /\ UNCHANGED script /\ phase = "run" /\ at + 1 \in 1..Len(script)
        /\ phase' # "verify"
        /\ phase' = "run" => know' = r.know
    BY <1>3, RunStep
  <2>2. Every(SoundTap)' => Every(SoundTap)
    BY <2>1 DEF Every, SoundTap, Apart, NamedFields
  <2>3. phase' = "run" => know'.tap = Captured(know.tap, script[at + 1])
    BY <2>1, <1>0, TapMemory
  <2>4. ASSUME resets, Every(SoundTap) PROVE Remembered(Captured(know.tap, script[at + 1]))
    BY <2>1, <2>4, TapOfScript DEF TapInv
  <2>5. phase' = "run" /\ resets /\ Every(SoundTap) => Remembered(know.tap)'
    BY <2>1, <2>3, <2>4 DEF Remembered, NamedFields
  <2> QED
    BY <2>1, <2>2, <2>5
<1>4. CASE Close
  BY <1>4 DEF Close
<1>5. ASSUME NEW a \in Actions[family], Verify(a) PROVE phase' # "run"
  BY <1>5, VerifyStep
<1> QED
  BY <1>1, <1>2, <1>3, <1>4, <1>5 DEF Next

-----------------------------------------------------------------------------
(***************************************************************************)
(* Breakpoint actions.  Of the actions that are enabled no two are rivals, *)
(* if none shares its trigger on purpose: then verification and run make   *)
(* the same of the table.                                                  *)
(***************************************************************************)
Alone(S) == \A x, y \in S : x # y => ~(Trigger[x] = Trigger[y] /\ (IsChord(x) <=> IsChord(y)))
TableOk(k) == DOMAIN k = {"enabled", "configured"} /\ Alone(k.enabled)

\* What one action of a trigger makes of the table in the run pass.
Prepared(act, k, a) ==
    LET was  == k.enabled \ (IF act.force THEN {a} ELSE {})
        off  == IF a \in was THEN {}
                ELSE Rivals([k EXCEPT !.enabled = was], a)
                       \ {act.actions[i] : i \in 1..Len(act.actions)}
        left == was \ off
    IN  [k EXCEPT !.enabled = IF a \in left /\ a \in Rearm THEN left ELSE left \ {a}]

Unprepared(bad, k, a) == bad \/ a \notin k.configured

PreparedAs(v, act, q, a) ==
    /\ Prepare(v, act, q, a).k = Prepared(act, q.k, a)
    /\ Prepare(v, act, q, a).bad = Unprepared(q.bad, q.k, a)
    /\ DOMAIN Prepare(v, act, q, a) = {"k", "d", "bad"}
    /\ TableOk(Prepared(act, q.k, a))

LEMMA AnyPass ==
  ASSUME NEW v, NEW act, NEW q, TableOk(q.k),
         NEW a, a \in {act.actions[i] : i \in 1..Len(act.actions)}
  PROVE  PreparedAs(v, act, q, a)
<1> DEFINE k == q.k
           named == {act.actions[i] : i \in 1..Len(act.actions)}
           was == k.enabled \ (IF act.force THEN {a} ELSE {})
           rivals == Rivals([k EXCEPT !.enabled = was], a) \ named
           offV == IF a \in was /\ ~v THEN {} ELSE rivals
           off == IF a \in was THEN {} ELSE rivals
           leftV == was \ offV
           left == was \ off
           new == IF a \in left /\ a \in Rearm THEN left ELSE left \ {a}
<1>1. DOMAIN k = {"enabled", "configured"} /\ Alone(k.enabled)
  BY DEF TableOk
<1>2. [k EXCEPT !.enabled = was].enabled = was
  BY <1>1
<1>3. a \in named
  OBVIOUS
<1>4. a \in was => rivals = {}
  <2> SUFFICES ASSUME a \in was, NEW b \in rivals PROVE FALSE
    OBVIOUS
  <2>1. b \in was /\ Trigger[b] = Trigger[a] /\ (IsChord(b) <=> IsChord(a)) /\ b \notin named
    BY <1>2 DEF Rivals
  <2>2. b # a /\ b \in k.enabled /\ a \in k.enabled
    BY <2>1, <1>3
  <2> QED
    BY <2>1, <2>2, <1>1 DEF Alone
<1>5. leftV = left
  BY <1>4
<1>6. Prepare(v, act, q, a) =
        [k |-> [q.k EXCEPT !.enabled = IF a \in leftV /\ a \in Rearm THEN leftV ELSE leftV \ {a}],
         d |-> IF a \in was THEN q.d ELSE Enable(Disable(q.d, offV), {a}),
         bad |-> q.bad \/ a \notin q.k.configured]
  BY DEF Prepare
<1>7. Prepared(act, q.k, a) = [k EXCEPT !.enabled = new]
  BY DEF Prepared
<1>8. new \subseteq k.enabled
  OBVIOUS
<1> DEFINE d2 == IF a \in was THEN q.d ELSE Enable(Disable(q.d, offV), {a})
           k2 == [q.k EXCEPT !.enabled = IF a \in leftV /\ a \in Rearm THEN leftV ELSE leftV \ {a}]
<1>9. k2 = [k EXCEPT !.enabled = new]
  BY <1>5
<1> HIDE DEF d2, leftV, left, was, rivals, new, off, offV, k2
<1>10. Prepare(v, act, q, a) = [k |-> k2, d |-> d2, bad |-> q.bad \/ a \notin q.k.configured]
  BY <1>6 DEF k2, d2
<1>11. TableOk([k EXCEPT !.enabled = new])
  BY <1>1, <1>8 DEF TableOk, Alone
<1> QED
  BY <1>7, <1>9, <1>10, <1>11 DEF Unprepared, PreparedAs

Pr == INSTANCE FoldFacts WITH op <- Prepare

\* A trigger makes the same of the table in both passes, whatever the state of
\* the machines.
LEMMA SameTrigger ==
  ASSUME NEW v1, NEW v2, NEW conf, NEW d1, NEW d2, NEW k, TableOk(k),
         NEW act, act.actions \in Seq(UbpActions)
  PROVE  /\ DoTrigger(v1, conf, k, d1, act).k = DoTrigger(v2, conf, k, d2, act).k
         /\ DoTrigger(v1, conf, k, d1, act).bad = DoTrigger(v2, conf, k, d2, act).bad
         /\ TableOk(DoTrigger(v1, conf, k, d1, act).k)
<1> DEFINE n == Len(act.actions)
           ok == TriggerOk(conf, act)
           b1 == [k |-> k, d |-> d1, bad |-> ~ok]
           b2 == [k |-> k, d |-> d2, bad |-> ~ok]
           r1 == Pr!Fold(v1, act, b1, act.actions)
           r2 == Pr!Fold(v2, act, b2, act.actions)
<1>0. DOMAIN act.actions = 1..n /\ n \in Nat
  OBVIOUS
<1>1. /\ DoTrigger(v1, conf, k, d1, act) = [r1 EXCEPT !.d = Fire(@, Driven(conf, act))]
      /\ DoTrigger(v2, conf, k, d2, act) = [r2 EXCEPT !.d = Fire(@, Driven(conf, act))]
  BY DEF DoTrigger, FoldLeft, MapThenFoldSet, Max, Pr!Fold, Pr!Top
<1>2. PICK g1 : Pr!Steps(g1, v1, act, b1, act.actions, n) /\ r1 = g1[n]
  BY <1>0, Pr!FoldSteps
<1>3. PICK g2 : Pr!Steps(g2, v2, act, b2, act.actions, n) /\ r2 = g2[n]
  BY <1>0, Pr!FoldSteps
<1> HIDE DEF r1, r2, ok
<1> DEFINE P == {i \in 0..n : /\ g1[i].k = g2[i].k /\ g1[i].bad = g2[i].bad /\ TableOk(g1[i].k)
                              /\ DOMAIN g1[i] = {"k", "d", "bad"}
                              /\ DOMAIN g2[i] = {"k", "d", "bad"}}
<1>4. 0 \in P
  <2>1. g1[0] = b1 /\ g2[0] = b2
    BY <1>2, <1>3 DEF Pr!Steps
  <2>2. 0 \in 0..n
    BY <1>0
  <2> HIDE DEF n
  <2> QED
    BY <2>1, <2>2
<1>5. ASSUME NEW i \in 1..n, i - 1 \in P PROVE i \in P
  <2> DEFINE a == act.actions[i]
             q1 == g1[i - 1]
             q2 == g2[i - 1]
  <2>1. g1[i] = Prepare(v1, act, q1, a) /\ g2[i] = Prepare(v2, act, q2, a)
    BY <1>2, <1>3 DEF Pr!Steps
  <2>2. q1.k = q2.k /\ q1.bad = q2.bad /\ TableOk(q1.k) /\ TableOk(q2.k)
    BY <1>5
  <2>3. a \in {act.actions[m] : m \in 1..Len(act.actions)} /\ i \in 0..n
    BY <1>0
  <2> HIDE DEF a, q1, q2
  <2>4. PreparedAs(v1, act, q1, a)
    BY <2>2, <2>3, AnyPass
  <2>5. PreparedAs(v2, act, q2, a)
    BY <2>2, <2>3, AnyPass
  <2>6. /\ Prepare(v1, act, q1, a).k = Prepare(v2, act, q2, a).k
        /\ Prepare(v1, act, q1, a).bad = Prepare(v2, act, q2, a).bad
        /\ TableOk(Prepare(v1, act, q1, a).k)
        /\ DOMAIN Prepare(v1, act, q1, a) = {"k", "d", "bad"}
        /\ DOMAIN Prepare(v2, act, q2, a) = {"k", "d", "bad"}
    BY <2>2, <2>4, <2>5 DEF PreparedAs
  <2> HIDE DEF n
  <2> QED
    BY <2>1, <2>3, <2>6
<1>6. \A i \in 0..n : i \in P
  <2> HIDE DEF P, n
  <2> QED
    BY <1>0, <1>4, <1>5, Pr!BoundedInduction
<1>7. n \in P
  BY <1>0, <1>6
<1>8. /\ r1.k = r2.k /\ r1.bad = r2.bad /\ TableOk(r1.k)
      /\ DOMAIN r1 = {"k", "d", "bad"} /\ DOMAIN r2 = {"k", "d", "bad"}
  BY <1>2, <1>3, <1>7
<1> QED
  BY <1>1, <1>8

\* What a breakpoint action makes of a table in which no two rivals are
\* enabled, and whether it is refused: the machines have no part in it.
TableAfter(conf, k, a) ==
    IF a.op = "trigger" THEN DoTrigger(FALSE, conf, k, ResetMachines, a).k
                        ELSE DoUbp(k, ResetMachines, a).k
TableRefused(conf, k, a) ==
    IF a.op = "trigger" THEN DoTrigger(FALSE, conf, k, ResetMachines, a).bad ELSE FALSE

LEMMA SameTable ==
  ASSUME NEW k, TableOk(k), NEW d, NEW a, SoundBreak(a),
         a.op \in {"enable", "disable", "reset", "direct"}
  PROVE  DoUbp(k, d, a).k = DoUbp(k, ResetMachines, a).k /\ TableOk(DoUbp(k, d, a).k)
<1>1. CASE a.op = "enable"
  <2> DEFINE x == a.action
             off == Rivals(k, x)
             conf == k.configured \ Displaced(x)
             new == [enabled |-> (k.enabled \ off) \cup {x}, configured |-> conf \cup {x}]
  <2>1. ~a.shared
    BY <1>1 DEF SoundBreak
  <2>2. \A m : DoUbp(k, m, a).k = IF x \in k.enabled THEN k ELSE new
    BY <1>1, <2>1 DEF DoUbp, Enabled
  <2>3. TableOk(new)
    <3>1. DOMAIN new = {"enabled", "configured"} /\ new.enabled = (k.enabled \ off) \cup {x}
      OBVIOUS
    <3>2. \A y \in k.enabled \ off : ~(Trigger[y] = Trigger[x] /\ (IsChord(y) <=> IsChord(x)))
      BY DEF Rivals
    <3>3. Alone(new.enabled)
      <4> HIDE DEF new, x, off
      <4> QED
        BY <3>1, <3>2 DEF Alone, TableOk
    <3> QED
      BY <3>1, <3>3 DEF TableOk
  <2> HIDE DEF new, x
  <2> QED
    BY <2>2, <2>3
<1>2. CASE a.op = "disable"
  <2> DEFINE off == IF a.action = Nobody THEN k.enabled ELSE k.enabled \cap {a.action}
             new == [k EXCEPT !.enabled = k.enabled \ off]
  <2>1. \A m : DoUbp(k, m, a).k = new
    BY <1>2 DEF DoUbp, Disabled
  <2>2. TableOk(new)
    BY DEF TableOk, Alone
  <2> HIDE DEF new
  <2> QED
    BY <2>1, <2>2
<1>3. CASE a.op = "reset"
  BY <1>3 DEF DoUbp, NoBreakpoints, TableOk, Alone
<1>4. CASE a.op = "direct"
  <2>1. \A m : DoUbp(k, m, a).k = k
    BY <1>4 DEF DoUbp
  <2> QED
    BY <2>1
<1> QED
  BY <1>1, <1>2, <1>3, <1>4

LEMMA BreakTable ==
  ASSUME family = "UBP", NEW k, NEW d, Shaped(k, d), TableOk(k.ubp), NEW a,
         SoundBreak(a), a.op \in {"enable", "disable", "reset", "direct", "trigger"},
         a.op = "trigger" => a.actions \in Seq(UbpActions)
  PROVE  /\ Do(k, d, a).know.ubp = TableAfter(te, k.ubp, a)
         /\ Do(k, d, a).bad = TableRefused(te, k.ubp, a)
         /\ TableOk(TableAfter(te, k.ubp, a))
<1>0. "ubp" \in DOMAIN k
  BY DEF Shaped, Ignorant
<1>1. CASE a.op = "trigger"
  <2>1. PICK v : v = (phase = "verify")
    OBVIOUS
  <2> DEFINE r == DoTrigger(v, te, k.ubp, d.ubp, a)
             r0 == DoTrigger(FALSE, te, k.ubp, ResetMachines, a)
  <2>2. PICK w : w = FALSE
    OBVIOUS
  <2> DEFINE r1 == DoTrigger(w, te, k.ubp, ResetMachines, a)
  <2>3. r.k = r1.k /\ r.bad = r1.bad /\ TableOk(r.k)
    BY <1>1, SameTrigger
  <2>4. r1 = r0
    BY <2>2
  <2>5. Do(k, d, a) =
          [bad |-> DoTrigger(phase = "verify", te, k.ubp, d.ubp, a).bad,
           know |-> [k EXCEPT !.ubp = DoTrigger(phase = "verify", te, k.ubp, d.ubp, a).k],
           dut |-> [d EXCEPT !.ubp = DoTrigger(phase = "verify", te, k.ubp, d.ubp, a).d]]
    BY <1>1, TriggerEffect
  <2>6. Do(k, d, a) = [bad |-> r.bad, know |-> [k EXCEPT !.ubp = r.k], dut |-> [d EXCEPT !.ubp = r.d]]
    BY <2>1, <2>5
  <2>7. TableAfter(te, k.ubp, a) = r0.k /\ TableRefused(te, k.ubp, a) = r0.bad
    BY <1>1 DEF TableAfter, TableRefused
  <2> HIDE DEF r, r0, r1
  <2> QED
    BY <1>0, <2>3, <2>4, <2>6, <2>7
<1>2. CASE a.op # "trigger"
  <2> DEFINE r == DoUbp(k.ubp, d.ubp, a)
             r0 == DoUbp(k.ubp, ResetMachines, a)
  <2>1. r.k = r0.k /\ TableOk(r.k)
    BY <1>2, SameTable
  <2>4. PICK w : w = FALSE
    OBVIOUS
  <2>2. Do(k, d, a) = [bad |-> w, know |-> [k EXCEPT !.ubp = r.k], dut |-> [d EXCEPT !.ubp = r.d]]
    BY <1>2, <2>4, BreakEffect
  <2>3. TableAfter(te, k.ubp, a) = r0.k /\ TableRefused(te, k.ubp, a) = w
    BY <1>2, <2>4 DEF TableAfter, TableRefused
  <2> HIDE DEF r, r0
  <2> QED
    BY <1>0, <2>1, <2>2, <2>3
<1> QED
  BY <1>1, <1>2

-----------------------------------------------------------------------------
(***************************************************************************)
(* What an STF or a breakpoint action makes of what is remembered depends  *)
(* on that and on the action alone: so the run pass tells the story of the *)
(* verification pass again, if it begins it with nothing remembered.       *)
(***************************************************************************)
Recalled(f, k) == IF f = "STF" THEN k.stf ELSE k.ubp
Blank(f) == IF f = "STF" THEN NoHistory ELSE NoBreakpoints
After(f, conf, h, a) == IF f = "STF" THEN VerifyStf(conf, h, a).h ELSE TableAfter(conf, h, a)
Refused(f, conf, h, a) == IF f = "STF" THEN VerifyStf(conf, h, a).bad ELSE TableRefused(conf, h, a)
Fine(f, h) == f = "UBP" => TableOk(h)

\* What the actions of a script make, one by one, of nothing remembered.
Story(f, conf, tr, sc) ==
    /\ tr[0] = Blank(f)
    /\ \A i \in 0..Len(sc) : Fine(f, tr[i])
    /\ \A i \in 1..Len(sc) : /\ ~Refused(f, conf, tr[i - 1], sc[i])
                             /\ tr[i] = After(f, conf, tr[i - 1], sc[i])
Stands(tr) ==
    /\ Story(family, te, tr, script)
    /\ phase = "verify" => Recalled(family, know) = tr[Len(script)]
    /\ phase = "run" /\ resets => Recalled(family, know) = tr[at]
Told == family = "STF" \/ (family = "UBP" /\ Every(SoundBreak))
StoryInv == Told => \E tr : Stands(tr)

LEMMA Judgement ==
  ASSUME family \in {"STF", "UBP"}, family \in DOMAIN Actions, NEW k, NEW d, Shaped(k, d),
         NEW a \in Actions[family], family = "UBP" => SoundBreak(a),
         Fine(family, Recalled(family, k))
  PROVE  /\ Recalled(family, Do(k, d, a).know) = After(family, te, Recalled(family, k), a)
         /\ Do(k, d, a).bad = Refused(family, te, Recalled(family, k), a)
         /\ Fine(family, After(family, te, Recalled(family, k), a))
<1>1. CASE family = "STF"
  BY <1>1, StfHistory, Rejections DEF Recalled, After, Refused, Fine
<1>2. CASE family = "UBP"
  <2>1. /\ a.op \in {"enable", "disable", "reset", "direct", "trigger"}
        /\ a.op = "trigger" => a.actions \in Seq(UbpActions)
    BY <1>2, ArgumentAssumption
  <2>2. TableOk(k.ubp) /\ SoundBreak(a)
    BY <1>2 DEF Fine, Recalled
  <2>3. /\ Do(k, d, a).know.ubp = TableAfter(te, k.ubp, a)
        /\ Do(k, d, a).bad = TableRefused(te, k.ubp, a)
        /\ TableOk(TableAfter(te, k.ubp, a))
    BY <1>2, <2>1, <2>2, BreakTable
  <2> QED
    BY <1>2, <2>3 DEF Recalled, After, Refused, Fine
<1> QED
  BY <1>1, <1>2

LEMMA BlankFine ==
  ASSUME NEW f PROVE Fine(f, Blank(f))
BY DEF Fine, Blank, TableOk, NoBreakpoints, Alone

LEMMA InitStory == Init => StoryInv
<1> SUFFICES ASSUME Init, Told PROVE \E tr : Stands(tr)
  BY DEF StoryInv
<1>1. script = <<>> /\ Len(script) = 0 /\ at = 0 /\ phase \in {"verify", "rejected"}
  BY DEF Init
<1>2. 1..Len(script) = {} /\ 0..Len(script) = {0}
  BY <1>1
<1>3. Recalled(family, know) = Blank(family)
  BY DEF Init, Told, Recalled, Blank, Ignorant
<1> DEFINE tr == [i \in {0} |-> Blank(family)]
<1>4. tr[0] = Blank(family)
  OBVIOUS
<1> HIDE DEF tr
<1>5. Stands(tr)
  BY <1>1, <1>2, <1>3, <1>4, BlankFine DEF Stands, Story
<1> QED
  BY <1>5

LEMMA StepStory ==
  ASSUME WellFormed, StoryInv, Next
  PROVE  StoryInv'
<1>0. /\ Shaped(know, dut) /\ family \in DOMAIN Actions /\ script \in Seq(Actions[family])
      /\ Len(script) \in Nat
  BY DEF WellFormed
<1>00. UNCHANGED <<te, family, resets>>
  BY DEF Next, Verify, BeginRun, Run, Close
<1> SUFFICES ASSUME Told'
             PROVE  \E tr : Stands(tr)'
  BY <1>00 DEF StoryInv
<1>02. family \in {"STF", "UBP"}
  BY <1>00 DEF Told
<1>1. ASSUME NEW a \in Actions[family], Verify(a) PROVE \E t2 : Stands(t2)'
  <2> DEFINE r == Do(know, dut, a)
             n == Len(script)
  <2>1. CASE r.bad
    <3>1. phase' = "rejected" /\ UNCHANGED script
      BY <1>1, <2>1, VerifyStep
    <3>2. Told
      BY <3>1, <1>00 DEF Told, Every, SoundBreak
    <3>3. PICK tr : Stands(tr)
      BY <3>2 DEF StoryInv
    <3>4. Stands(tr)'
      BY <3>1, <3>3, <1>00 DEF Stands, Story
    <3> QED
      BY <3>4
  <2>2. CASE ~r.bad
    <3>1. /\ script' = Append(script, a) /\ know' = r.know /\ phase = "verify"
          /\ phase' = "verify"
      BY <1>1, <2>2, VerifyStep
    <3>4. Len(script') = n + 1 /\ \A i \in 1..n : script'[i] = script[i]
      BY <3>1, <1>0
    <3>5. script'[n + 1] = a
      BY <3>1, <1>0
    <3>01. Told /\ (family = "UBP" => SoundBreak(a))
      <4>1. family = "UBP" => \A i \in 1..Len(script') : SoundBreak(script'[i])
        BY <1>00, <1>02 DEF Told, Every, SoundBreak
      <4>2. family = "UBP" => Every(SoundBreak) /\ SoundBreak(a)
        BY <4>1, <3>4, <3>5, <1>0 DEF Every
      <4> QED
        BY <4>2, <1>02 DEF Told
    <3>02. PICK tr : Stands(tr)
      BY <3>01 DEF StoryInv
    <3> DEFINE next == After(family, te, tr[n], a)
               t2 == [i \in 0..(n + 1) |-> IF i = n + 1 THEN next ELSE tr[i]]
    <3>2. Recalled(family, know) = tr[n] /\ Fine(family, tr[n])
      BY <3>1, <3>02, <1>0 DEF Stands, Story
    <3>3. /\ Recalled(family, know') = next /\ ~Refused(family, te, tr[n], a)
          /\ Fine(family, next)
      BY <3>1, <3>2, <3>01, <1>0, <1>02, <2>2, Judgement
    <3> HIDE DEF r, next
    <3>6. t2[n + 1] = next /\ \A i \in 0..n : t2[i] = tr[i]
      BY <1>0
    <3>7. ASSUME NEW i \in 1..(n + 1)
          PROVE  /\ ~Refused(family, te, t2[i - 1], script'[i])
                 /\ t2[i] = After(family, te, t2[i - 1], script'[i])
      <4>1. CASE i = n + 1
        <5>1. t2[i - 1] = tr[n]
          BY <4>1, <3>6, <1>0
        <5> HIDE DEF t2
        <5> QED
          BY <4>1, <5>1, <3>3, <3>5, <3>6 DEF next
      <4>2. CASE i # n + 1
        <5>1. i \in 1..n /\ i - 1 \in 0..n /\ i \in 0..n
          BY <4>2, <1>0
        <5>2. /\ ~Refused(family, te, tr[i - 1], script[i])
              /\ tr[i] = After(family, te, tr[i - 1], script[i])
          BY <5>1, <3>02 DEF Stands, Story
        <5> HIDE DEF t2
        <5> QED
          BY <5>1, <5>2, <3>4, <3>6
      <4> QED
        BY <4>1, <4>2
    <3>8. t2[0] = Blank(family)
      BY <3>02, <1>0 DEF Stands, Story
    <3>9. ASSUME NEW i \in 0..(n + 1) PROVE Fine(family, t2[i])
      <4>1. i = n + 1 \/ i \in 0..n
        BY <1>0
      <4>2. i \in 0..n => Fine(family, tr[i])
        BY <3>02 DEF Stands, Story
      <4> HIDE DEF t2, n
      <4> QED
        BY <4>1, <4>2, <3>3, <3>6
    <3>10. Story(family, te, t2, script')
      <4> HIDE DEF t2, n
      <4> QED
        BY <3>4, <3>7, <3>8, <3>9 DEF Story
    <3>11. Recalled(family, know') = t2[Len(script')]
      BY <3>3, <3>4, <3>6
    <3> HIDE DEF t2, n
    <3>12. PICK t3 : t3 = t2
      OBVIOUS
    <3>13. Stands(t3)'
      BY <3>1, <3>10, <3>11, <3>12, <1>00 DEF Stands
    <3> QED
      BY <3>13
  <2> QED
    BY <2>1, <2>2
<1>2. ASSUME UNCHANGED script
      PROVE  /\ Told
             /\ \E tr : Stands(tr) /\ Story(family, te, tr, script) /\ Story(family, te, tr, script)'
  <2>1. Told
    BY <1>2, <1>00 DEF Told, Every, SoundBreak
  <2>2. PICK tr : Stands(tr)
    BY <2>1 DEF StoryInv
  <2>3. Story(family, te, tr, script)
    BY <2>2 DEF Stands
  <2>4. Story(family, te, tr, script)'
    BY <2>3, <1>2, <1>00 DEF Story
  <2> QED
    BY <2>1, <2>2, <2>3, <2>4
<1>3. CASE BeginRun
  <2>1. phase' = "run" /\ at' = 0 /\ UNCHANGED script
    BY <1>3 DEF BeginRun, WellFormed
  <2>2. resets => Recalled(family, know') = Blank(family)
    BY <1>3, <1>0, <1>02 DEF BeginRun, InitialHistory, Shaped, Ignorant, Recalled, Blank
  <2>3. PICK tr : Stands(tr) /\ Story(family, te, tr, script) /\ Story(family, te, tr, script)'
    BY <2>1, <1>2
  <2>4. tr[0] = Blank(family)
    BY <2>3 DEF Story
  <2>5. Stands(tr)'
    BY <2>1, <2>2, <2>3, <2>4, <1>00 DEF Stands
  <2> QED
    BY <2>5
<1>4. CASE Run
  <2> DEFINE a == script[at + 1]
             r == Do(know, dut, a)
  <2>1. /\ UNCHANGED script /\ phase = "run" /\ at \in Nat /\ at + 1 \in 1..Len(script)
        /\ at \in 0..Len(script)
        /\ a \in Actions[family]
        /\ r.bad => phase' = "failed"
        /\ ~r.bad => at' = at + 1 /\ phase' \in {"run", "done"} /\ know' = r.know
    BY <1>4, <1>0, RunStep
  <2>02. PICK tr : Stands(tr) /\ Story(family, te, tr, script) /\ Story(family, te, tr, script)'
    BY <2>1, <1>2
  <2>2. CASE r.bad
    <3>1. Stands(tr)'
      BY <2>1, <2>2, <2>02, <1>00 DEF Stands
    <3> QED
      BY <3>1
  <2>3. CASE ~r.bad
    <3>0. family = "UBP" => SoundBreak(a)
      BY <2>1, <1>2 DEF Told, Every
    <3>1. resets => Recalled(family, know) = tr[at] /\ Fine(family, tr[at])
      BY <2>1, <2>02 DEF Stands, Story
    <3>2. tr[at + 1] = After(family, te, tr[at], a)
      <4>1. (at + 1) - 1 = at
        BY <2>1
      <4> QED
        BY <2>1, <4>1, <2>02 DEF Story
    <3>3. resets => Recalled(family, r.know) = tr[at + 1]
      BY <3>0, <3>1, <3>2, <2>1, <1>0, <1>02, Judgement
    <3> HIDE DEF r, a
    <3>4. Stands(tr)'
      BY <2>1, <2>3, <2>02, <3>3, <1>00 DEF Stands
    <3> QED
      BY <3>4
  <2> QED
    BY <2>2, <2>3
<1>5. CASE Close
  <2>1. family = "SPF"
    BY <1>5 DEF Close
  <2> QED
    BY <2>1, <1>02
<1> QED
  BY <1>1, <1>3, <1>4, <1>5 DEF Next

-----------------------------------------------------------------------------
(***************************************************************************)
(* The theorem: an action of the run pass is not rejected.                 *)
(***************************************************************************)
SessionInv == WellFormed /\ AcceptedInv /\ ClockInv /\ TapInv /\ StoryInv

LEMMA InitSession == Init => SessionInv
  BY InitWellFormed, InitAccepted, InitStory DEF SessionInv

LEMMA StepSession == SessionInv /\ [Next]_vars => SessionInv'
<1> SUFFICES ASSUME SessionInv, [Next]_vars PROVE SessionInv'
  OBVIOUS
<1>0. WellFormed /\ AcceptedInv /\ ClockInv /\ TapInv /\ StoryInv
  BY DEF SessionInv
<1>1. WellFormed'
  BY <1>0, StepWellFormed
<1>2. CASE Next
  <2>1. AcceptedInv'
    <3>1. ASSUME NEW a \in Actions[family], Verify(a) PROVE AcceptedInv'
      BY <1>0, <3>1, VerifyAccepted
    <3>2. CASE BeginRun \/ Run \/ Close
      BY <3>2, <1>0 DEF BeginRun, Run, Close, AcceptedInv, Accepted
    <3> QED
      BY <1>2, <3>1, <3>2 DEF Next
  <2>2. ClockInv'
    BY <1>0, <1>2, StepClock
  <2>3. TapInv'
    BY <1>0, <1>2, StepTap
  <2>4. StoryInv'
    BY <1>0, <1>2, StepStory
  <2> QED
    BY <1>1, <2>1, <2>2, <2>3, <2>4 DEF SessionInv
<1>3. CASE UNCHANGED vars
  <2>0. UNCHANGED <<phase, te, resets, family, script, at, know, dut>>
    BY <1>3 DEF vars
  <2>1. AcceptedInv'
    BY <2>0, <1>0 DEF AcceptedInv, Accepted
  <2>2. ClockInv'
    BY <2>0, <1>0 DEF ClockInv
  <2>3. Every(SoundTap)' => Every(SoundTap)
    BY <2>0 DEF Every, SoundTap, Apart, NamedFields
  <2>4. Remembered(know.tap) => Remembered(know.tap)'
    BY <2>0 DEF Remembered, NamedFields
  <2>5. TapInv'
    BY <2>0, <2>3, <2>4, <1>0 DEF TapInv
  <2>6. Told' => Told
    BY <2>0 DEF Told, Every, SoundBreak
  <2>7. ASSUME NEW tr, Stands(tr) PROVE Stands(tr)'
    BY <2>0, <2>7 DEF Stands, Story
  <2>8. StoryInv'
    BY <2>6, <2>7, <1>0 DEF StoryInv
  <2> QED
    BY <1>1, <2>1, <2>2, <2>5, <2>8 DEF SessionInv
<1> QED
  BY <1>2, <1>3

\* The action that runs next was verified, and is accepted again.
LEMMA RunAccepts ==
  ASSUME SessionInv, resets, family # "SPF", phase = "run", at < Len(script),
         family = "TAP" => Every(SoundTap), family = "UBP" => Every(SoundBreak)
  PROVE  ~Do(know, dut, script[at + 1]).bad
<1> DEFINE a == script[at + 1]
<1>0. WellFormed /\ AcceptedInv /\ ClockInv /\ TapInv /\ StoryInv
  BY DEF SessionInv
<1>1. /\ Shaped(know, dut) /\ family \in DOMAIN Actions /\ script \in Seq(Actions[family])
      /\ at \in Nat /\ at + 1 \in 1..Len(script) /\ at \in 0..Len(script)
  BY <1>0 DEF WellFormed
<1>2. a \in Actions[family]
  BY <1>1
<1>3. Accepted(a)
  BY <1>0, <1>1 DEF AcceptedInv
<1>4. family \in {"STF", "PKT", "TAP", "XREG", "UBP", "SIG", "GEN"}
  BY <1>1, SessionAssumption
<1>5. CASE family \in {"PKT", "XREG", "SIG"}
  BY <1>3, <1>5, Rejections DEF Accepted
<1>6. CASE family = "TAP"
  <2>1. Remembered(know.tap)
    BY <1>0, <1>6 DEF TapInv
  <2>2. TapOk(know.tap, a) /\ ~Clash(know.tap, a)
    BY <1>0, <1>1, <1>6, <2>1, TapOfScript
  <2> QED
    BY <1>6, <2>2, Rejections
<1>7. CASE family = "GEN"
  <2>1. a.op = "restore" => know.player.clk
    BY <1>0, <1>1, <1>7 DEF ClockInv
  <2> QED
    BY <1>7, <2>1, Rejections DEF GenOk
<1>8. CASE family \in {"STF", "UBP"}
  <2>1. Told
    BY <1>8 DEF Told
  <2>2. PICK tr : Stands(tr)
    BY <1>0, <2>1 DEF StoryInv
  <2>3. /\ Recalled(family, know) = tr[at] /\ Fine(family, tr[at])
        /\ ~Refused(family, te, tr[(at + 1) - 1], a)
    BY <1>1, <2>2 DEF Stands, Story
  <2>4. family = "UBP" => SoundBreak(a)
    BY <1>1 DEF Every
  <2>5. (at + 1) - 1 = at
    BY <1>1
  <2> HIDE DEF a
  <2> QED
    BY <1>1, <1>2, <1>8, <2>3, <2>4, <2>5, Judgement DEF a
<1> QED
  BY <1>4, <1>5, <1>6, <1>7, <1>8

\* What was verified runs: no action of the run pass is rejected, if the
\* history is reset and the script keeps clear of the two cases in which the
\* passes judge differently; but for SPF, where the run pass knows of parts of
\* registers that the verification pass had not related yet.
THEOREM VerifiedRunsAgain == Spec => [](family # "SPF" => VerifiedRuns)
<1>1. Init => (family # "SPF" => VerifiedRuns)
  BY DEF Init, VerifiedRuns
<1>2. SessionInv /\ (family # "SPF" => VerifiedRuns) /\ [Next]_vars
        => (family # "SPF" => VerifiedRuns)'
  <2> SUFFICES ASSUME SessionInv, family # "SPF" => VerifiedRuns, [Next]_vars,
                      family' # "SPF", resets',
                      (family = "TAP" => Every(SoundTap))', (family = "UBP" => Every(SoundBreak))',
                      phase' = "failed"
               PROVE  FALSE
    BY DEF VerifiedRuns
  <2>0. WellFormed /\ UNCHANGED <<family, resets>>
    BY DEF SessionInv, Next, Verify, BeginRun, Run, Close, vars
  <2>1. ASSUME UNCHANGED script
        PROVE  (family = "TAP" => Every(SoundTap)) /\ (family = "UBP" => Every(SoundBreak))
    BY <2>0, <2>1 DEF Every, SoundTap, SoundBreak, Apart, NamedFields
  <2>2. CASE Run
    <3>1. UNCHANGED script /\ phase = "run" /\ at < Len(script)
      BY <2>2 DEF Run
    <3>2. ~Do(know, dut, script[at + 1]).bad
      BY <2>0, <2>1, <3>1, RunAccepts
    <3> QED
      BY <2>0, <2>2, <3>2, RunStep
  <2>3. ASSUME NEW a \in Actions[family], Verify(a) PROVE FALSE
    BY <2>0, <2>3, VerifyStep
  <2>4. CASE BeginRun \/ Close
    BY <2>4 DEF BeginRun, Close
  <2>5. CASE UNCHANGED vars
    <3>1. UNCHANGED script /\ phase = "failed"
      BY <2>5 DEF vars
    <3> QED
      BY <2>0, <2>1, <3>1 DEF VerifiedRuns
  <2> QED
    BY <2>2, <2>3, <2>4, <2>5 DEF Next
<1> QED
  BY <1>1, <1>2, InitSession, StepSession, PTL DEF Spec

-----------------------------------------------------------------------------
(***************************************************************************)
(* What is remembered is so, for the breakpoint machines and for the ratio *)
(* of the test clock.                                                      *)
(***************************************************************************)
\* Every action that is thought to be configured has its machines.
Programmed(k, d) ==
    /\ DOMAIN k = {"enabled", "configured"} /\ DOMAIN d = {"ctl", "on", "fired"}
    /\ k.configured \subseteq UbpActions
    /\ DOMAIN d.ctl = AllMachines
    /\ \A a \in k.configured : \A m \in Machines(a) : d.ctl[m] = a

LEMMA MachinesKnown == \A a \in UbpActions : Machines(a) \subseteq AllMachines
BY DEF AllMachines

LEMMA DisablingKeeps ==
  ASSUME NEW d, DOMAIN d = {"ctl", "on", "fired"}, NEW as
  PROVE  /\ DOMAIN Disable(d, as) = {"ctl", "on", "fired"} /\ Disable(d, as).ctl = d.ctl
         /\ DOMAIN Enable(d, as) = {"ctl", "on", "fired"} /\ Enable(d, as).ctl = d.ctl
BY DEF Disable, Enable

LEMMA EnablingPrograms ==
  ASSUME NEW k, NEW d, Programmed(k, d), Shareable, NEW act, act.action \in UbpActions
  PROVE  Programmed(Enabled(k, d, act).k, Enabled(k, d, act).d)
<1> DEFINE a == act.action
           off == IF act.shared THEN {} ELSE Rivals(k, a)
           conf == k.configured \ Displaced(a)
           d1 == Disable(d, off)
           d2 == IF a \in conf THEN d1 ELSE Program(d1, a)
           d3 == Enable(d2, {a})
           k2 == [enabled |-> (k.enabled \ off) \cup {a}, configured |-> conf \cup {a}]
<1>0. /\ DOMAIN k = {"enabled", "configured"} /\ DOMAIN d = {"ctl", "on", "fired"}
      /\ k.configured \subseteq UbpActions /\ DOMAIN d.ctl = AllMachines
      /\ \A b \in k.configured : \A m \in Machines(b) : d.ctl[m] = b
  BY DEF Programmed
<1>1. Enabled(k, d, act) = IF a \in k.enabled THEN [k |-> k, d |-> d] ELSE [k |-> k2, d |-> d3]
  BY DEF Enabled
<1>2. DOMAIN d1 = {"ctl", "on", "fired"} /\ d1.ctl = d.ctl
  BY <1>0, DisablingKeeps
<1> DEFINE ctl2 == [m \in AllMachines |-> IF m \in Machines(a) THEN a ELSE d1.ctl[m]]
<1>3. DOMAIN d2 = {"ctl", "on", "fired"} /\ d2.ctl = IF a \in conf THEN d.ctl ELSE ctl2
  <2> HIDE DEF d1, ctl2
  <2>1. Program(d1, a) = [d1 EXCEPT !.ctl = ctl2]
    BY DEF Program, ctl2
  <2> QED
    BY <1>2, <2>1
<1>4. DOMAIN d3 = {"ctl", "on", "fired"} /\ d3.ctl = IF a \in conf THEN d.ctl ELSE ctl2
  <2> HIDE DEF d2
  <2> QED
    BY <1>3, DisablingKeeps
<1>5. ASSUME NEW b \in conf \cup {a}, NEW m \in Machines(b)
      PROVE  (IF a \in conf THEN d.ctl ELSE ctl2)[m] = b
  <2>1. m \in AllMachines /\ b \in UbpActions
    BY <1>0, <1>5, MachinesKnown
  <2>2. CASE a \in conf
    BY <1>0, <1>5, <2>2
  <2>3. CASE a \notin conf
    <3>1. CASE m \in Machines(a)
      <4>1. b = a
        <5> SUFFICES ASSUME b # a PROVE FALSE
          OBVIOUS
        <5>1. Ip[a] = Ip[b] /\ Ubp[a] = Ubp[b]
          BY <1>5, <2>1, <3>1 DEF Shareable, Machines
        <5>2. b \in Displaced(a)
          BY <2>1, <5>1 DEF Displaced
        <5> QED
          BY <1>5, <5>2
      <4> QED
        BY <2>1, <2>3, <3>1, <4>1
    <3>2. CASE m \notin Machines(a)
      <4>1. b \in k.configured
        BY <1>5, <3>2
      <4>2. d1.ctl[m] = b
        BY <1>0, <1>2, <1>5, <4>1
      <4> QED
        BY <2>1, <2>3, <3>2, <4>2
    <3> QED
      BY <3>1, <3>2
  <2> QED
    BY <2>2, <2>3
<1>6. DOMAIN (IF a \in conf THEN d.ctl ELSE ctl2) = AllMachines
  BY <1>0
<1>7. k2.configured = conf \cup {a} /\ DOMAIN k2 = {"enabled", "configured"}
  OBVIOUS
<1>8. conf \cup {a} \subseteq UbpActions
  BY <1>0
<1> HIDE DEF k2, d3, ctl2, conf
<1>9. Programmed(k2, d3)
  BY <1>4, <1>5, <1>6, <1>7, <1>8 DEF Programmed
<1> QED
  BY <1>1, <1>9

LEMMA TriggerPrograms ==
  ASSUME NEW v, NEW conf, NEW k, NEW d, Programmed(k, d),
         NEW act, act.actions \in Seq(UbpActions)
  PROVE  Programmed(DoTrigger(v, conf, k, d, act).k, DoTrigger(v, conf, k, d, act).d)
<1> DEFINE n == Len(act.actions)
           b == [k |-> k, d |-> d, bad |-> ~TriggerOk(conf, act)]
           r == Pr!Fold(v, act, b, act.actions)
<1>0. DOMAIN act.actions = 1..n /\ n \in Nat
  OBVIOUS
<1>1. DoTrigger(v, conf, k, d, act) = [r EXCEPT !.d = Fire(@, Driven(conf, act))]
  BY DEF DoTrigger, FoldLeft, MapThenFoldSet, Max, Pr!Fold, Pr!Top
<1>2. PICK g : Pr!Steps(g, v, act, b, act.actions, n) /\ r = g[n]
  BY <1>0, Pr!FoldSteps
<1> HIDE DEF r
<1> DEFINE P == {i \in 0..n : Programmed(g[i].k, g[i].d) /\ DOMAIN g[i] = {"k", "d", "bad"}}
<1>3. 0 \in P
  <2>1. g[0] = b
    BY <1>2 DEF Pr!Steps
  <2>2. 0 \in 0..n
    BY <1>0
  <2> HIDE DEF n
  <2> QED
    BY <2>1, <2>2
<1>4. ASSUME NEW i \in 1..n, i - 1 \in P PROVE i \in P
  <2> DEFINE a == act.actions[i]
             q == g[i - 1]
  <2>1. g[i] = Prepare(v, act, q, a)
    BY <1>2 DEF Pr!Steps
  <2>2. Programmed(q.k, q.d) /\ i \in 0..n
    BY <1>4
  <2> HIDE DEF a, q
  <2> DEFINE was == q.k.enabled \ (IF act.force THEN {a} ELSE {})
             off == IF a \in was /\ ~v THEN {}
                    ELSE Rivals([q.k EXCEPT !.enabled = was], a)
                           \ {act.actions[j] : j \in 1..Len(act.actions)}
             left == was \ off
             k2 == [q.k EXCEPT !.enabled = IF a \in left /\ a \in Rearm THEN left ELSE left \ {a}]
             d1 == Disable(q.d, off)
             d2 == IF a \in was THEN q.d ELSE Enable(d1, {a})
  <2>3. Prepare(v, act, q, a) = [k |-> k2, d |-> d2, bad |-> q.bad \/ a \notin q.k.configured]
    BY DEF Prepare
  <2> HIDE DEF left
  <2>4. DOMAIN k2 = {"enabled", "configured"} /\ k2.configured = q.k.configured
    BY <2>2 DEF Programmed
  <2> HIDE DEF was, off, k2
  <2>5. DOMAIN d2 = {"ctl", "on", "fired"} /\ d2.ctl = q.d.ctl
    <3>1. DOMAIN d1 = {"ctl", "on", "fired"} /\ d1.ctl = q.d.ctl
      BY <2>2, DisablingKeeps DEF Programmed
    <3> HIDE DEF d1
    <3> QED
      BY <2>2, <3>1, DisablingKeeps DEF Programmed
  <2> HIDE DEF d2
  <2>6. Programmed(k2, d2)
    BY <2>2, <2>4, <2>5 DEF Programmed
  <2> HIDE DEF n
  <2> QED
    BY <2>1, <2>2, <2>3, <2>6
<1>5. \A i \in 0..n : i \in P
  <2> HIDE DEF P, n
  <2> QED
    BY <1>0, <1>3, <1>4, Pr!BoundedInduction
<1>6. Programmed(r.k, r.d) /\ DOMAIN r = {"k", "d", "bad"}
  BY <1>0, <1>2, <1>5
<1> DEFINE e == Fire(r.d, Driven(conf, act))
<1>7. DOMAIN e = {"ctl", "on", "fired"} /\ e.ctl = r.d.ctl
  BY <1>6 DEF Programmed, Fire
<1> HIDE DEF e
<1>8. Programmed(r.k, e)
  BY <1>6, <1>7 DEF Programmed
<1>9. [r EXCEPT !.d = e].k = r.k /\ [r EXCEPT !.d = e].d = e
  BY <1>6
<1> QED
  BY <1>1, <1>8, <1>9 DEF e

\* A breakpoint action leaves every configured action its machines.
LEMMA BreakPrograms ==
  ASSUME family = "UBP", family \in DOMAIN Actions, Shareable,
         NEW k, NEW d, Shaped(k, d), Programmed(k.ubp, d.ubp), NEW a \in Actions[family]
  PROVE  Programmed(Do(k, d, a).know.ubp, Do(k, d, a).dut.ubp)
<1>0. "ubp" \in DOMAIN k /\ "ubp" \in DOMAIN d
  BY DEF Shaped, Ignorant, Untouched
<1>1. /\ a.op \in {"enable", "disable", "reset", "direct", "trigger"}
      /\ a.op = "enable" => a.action \in UbpActions
      /\ a.op = "trigger" => a.actions \in Seq(UbpActions)
  BY ArgumentAssumption
<1>2. CASE a.op = "trigger"
  <2>1. PICK v : v = (phase = "verify")
    OBVIOUS
  <2> DEFINE r == DoTrigger(v, te, k.ubp, d.ubp, a)
  <2>2. Programmed(r.k, r.d)
    BY <1>1, <1>2, TriggerPrograms
  <2>3. Do(k, d, a) =
          [bad |-> DoTrigger(phase = "verify", te, k.ubp, d.ubp, a).bad,
           know |-> [k EXCEPT !.ubp = DoTrigger(phase = "verify", te, k.ubp, d.ubp, a).k],
           dut |-> [d EXCEPT !.ubp = DoTrigger(phase = "verify", te, k.ubp, d.ubp, a).d]]
    BY <1>2, TriggerEffect
  <2>4. Do(k, d, a) = [bad |-> r.bad, know |-> [k EXCEPT !.ubp = r.k], dut |-> [d EXCEPT !.ubp = r.d]]
    BY <2>1, <2>3
  <2> HIDE DEF r
  <2> QED
    BY <1>0, <2>2, <2>4
<1>3. CASE a.op # "trigger"
  <2> DEFINE r == DoUbp(k.ubp, d.ubp, a)
  <2>1. Programmed(r.k, r.d)
    <3>1. CASE a.op = "enable"
      BY <1>1, <3>1, EnablingPrograms DEF DoUbp
    <3>2. CASE a.op = "disable"
      <4> DEFINE off == IF a.action = Nobody THEN k.ubp.enabled ELSE k.ubp.enabled \cap {a.action}
                 k2 == [k.ubp EXCEPT !.enabled = @ \ off]
                 d2 == Disable(d.ubp, off)
      <4>1. r = [k |-> k2, d |-> d2]
        BY <3>2 DEF DoUbp, Disabled
      <4>2. DOMAIN k2 = {"enabled", "configured"} /\ k2.configured = k.ubp.configured
        BY DEF Programmed
      <4>3. DOMAIN d2 = {"ctl", "on", "fired"} /\ d2.ctl = d.ubp.ctl
        BY DisablingKeeps DEF Programmed
      <4> HIDE DEF k2, d2
      <4> QED
        BY <4>1, <4>2, <4>3 DEF Programmed
    <3>3. CASE a.op = "reset"
      BY <3>3 DEF DoUbp, Programmed, NoBreakpoints
    <3>4. CASE a.op = "direct"
      <4> DEFINE d2 == [d.ubp EXCEPT !.on = @ \ {a.machine}]
      <4>1. r = [k |-> k.ubp, d |-> d2]
        BY <3>4 DEF DoUbp
      <4>2. DOMAIN d2 = {"ctl", "on", "fired"} /\ d2.ctl = d.ubp.ctl
        BY DEF Programmed
      <4> HIDE DEF d2
      <4> QED
        BY <4>1, <4>2 DEF Programmed
    <3> QED
      BY <1>1, <1>3, <3>1, <3>2, <3>3, <3>4
  <2>4. PICK w : w = FALSE
    OBVIOUS
  <2>2. Do(k, d, a) = [bad |-> w, know |-> [k EXCEPT !.ubp = r.k], dut |-> [d EXCEPT !.ubp = r.d]]
    BY <1>3, <2>4, BreakEffect
  <2> HIDE DEF r
  <2> QED
    BY <1>0, <2>1, <2>2
<1> QED
  BY <1>2, <1>3

MachinesInv ==
    family = "UBP" /\ resets /\ Shareable /\ phase \in {"run", "done"}
      => Programmed(know.ubp, dut.ubp)

\* After the verification of a script that restores the ratio at last, the
\* player is where it began; so is the stimulus, and both go together.
RatioInv ==
    family = "GEN" =>
        /\ DOMAIN know.player = {"ratio", "clk"} /\ DOMAIN dut.out = {"ratio", "labels"}
        /\ phase = "verify" /\ script # <<>> /\ script[Len(script)].op = "restore"
             => know.player.ratio = DefaultRatio
        /\ phase \in {"run", "done"} /\ Every(Loud) /\ script[Len(script)].op = "restore"
             => dut.out.ratio = know.player.ratio

LEMMA InitTruth == Init => MachinesInv /\ RatioInv
<1> SUFFICES ASSUME Init PROVE MachinesInv /\ RatioInv
  OBVIOUS
<1>1. phase \in {"verify", "rejected"} /\ script = <<>> /\ dut = Untouched
  BY DEF Init
<1>2. family = "GEN" => know = Ignorant
  BY DEF Init
<1>3. DOMAIN Ignorant.player = {"ratio", "clk"} /\ DOMAIN Untouched.out = {"ratio", "labels"}
  BY DEF Ignorant, NewPlayer, Untouched, NoStimulus
<1> QED
  BY <1>1, <1>2, <1>3 DEF MachinesInv, RatioInv

LEMMA StepMachines ==
  ASSUME WellFormed, MachinesInv, [Next]_vars
  PROVE  MachinesInv'
<1>0. Shaped(know, dut) /\ family \in DOMAIN Actions
  BY DEF WellFormed
<1>00. UNCHANGED <<family, resets>>
  BY DEF Next, Verify, BeginRun, Run, Close, vars
<1> SUFFICES ASSUME family = "UBP", resets, Shareable, phase' \in {"run", "done"}
             PROVE  Programmed(know.ubp, dut.ubp)'
  BY <1>00 DEF MachinesInv, Shareable
<1>1. ASSUME NEW a \in Actions[family], Verify(a) PROVE FALSE
  BY <1>1, VerifyStep
<1>2. CASE BeginRun
  <2>1. know'.ubp = NoBreakpoints /\ dut'.ubp = ResetMachines
    BY <1>2 DEF BeginRun, InitialHistory, Ignorant, WellFormed, Untouched
  <2>2. Programmed(NoBreakpoints, ResetMachines)
    BY DEF Programmed, NoBreakpoints, ResetMachines
  <2> QED
    BY <2>1, <2>2 DEF Programmed
<1>3. CASE Run
  <2> DEFINE a == script[at + 1]
             r == Do(know, dut, a)
  <2>1. phase = "run" /\ a \in Actions[family] /\ know' = r.know /\ dut' = r.dut
    BY <1>3, RunStep
  <2>2. Programmed(know.ubp, dut.ubp)
    BY <2>1 DEF MachinesInv
  <2>3. Programmed(r.know.ubp, r.dut.ubp)
    BY <1>0, <2>1, <2>2, BreakPrograms
  <2> HIDE DEF r
  <2> QED
    BY <2>1, <2>3 DEF Programmed
<1>4. CASE Close
  BY <1>4 DEF Close
<1>5. CASE UNCHANGED vars
  BY <1>5 DEF vars, MachinesInv, Programmed
<1> QED
  BY <1>1, <1>2, <1>3, <1>4, <1>5 DEF Next

LEMMA GenDone ==
  ASSUME family = "GEN", NEW k, NEW d, Shaped(k, d), NEW a,
         DOMAIN k.player = {"ratio", "clk"}, DOMAIN d.out = {"ratio", "labels"}
  PROVE  LET r == Do(k, d, a)
         IN  /\ DOMAIN r.know.player = {"ratio", "clk"} /\ DOMAIN r.dut.out = {"ratio", "labels"}
             /\ a.op = "restore" => r.know.player.ratio = DefaultRatio
             /\ Loud(a) /\ d.out.ratio = k.player.ratio => r.dut.out.ratio = r.know.player.ratio
<1> DEFINE p == Ratioed(k.player, a)
           o == Played(d.out, k.player, k.labels, a)
           know2 == IF a.op = "label" THEN [k EXCEPT !.labels = Counted(@, a.name)]
                                      ELSE [k EXCEPT !.player = p]
           dut2 == IF a.silent THEN d ELSE [d EXCEPT !.out = o]
           r == Do(k, d, a)
<1>1. r = [bad |-> ~GenOk(k.player, a), know |-> know2, dut |-> dut2]
  BY GenEffect
<1>2. "player" \in DOMAIN k /\ "out" \in DOMAIN d
  BY DEF Shaped, Ignorant, Untouched
<1>3. DOMAIN p = {"ratio", "clk"} /\ (a.op = "restore" => p.ratio = DefaultRatio)
  BY DEF Ratioed
<1>4. DOMAIN o = {"ratio", "labels"}
  BY DEF Played
<1>5. a.op = "label" => o.ratio = d.out.ratio
  BY DEF Played
<1>6. a.op # "label" /\ d.out.ratio = k.player.ratio => o.ratio = p.ratio
  BY DEF Played, Ratioed, Wanted
<1> HIDE DEF p, o
<1>7. know2.player = IF a.op = "label" THEN k.player ELSE p
  BY <1>2
<1>8. dut2.out = IF a.silent THEN d.out ELSE o
  BY <1>2
<1> HIDE DEF know2, dut2
<1>9. r.know = know2 /\ r.dut = dut2
  BY <1>1
<1> HIDE DEF r
<1>10. /\ DOMAIN r.know.player = {"ratio", "clk"} /\ DOMAIN r.dut.out = {"ratio", "labels"}
       /\ a.op = "restore" => r.know.player.ratio = DefaultRatio
  BY <1>3, <1>4, <1>7, <1>8, <1>9
<1>11. Loud(a) /\ d.out.ratio = k.player.ratio => r.dut.out.ratio = r.know.player.ratio
  BY <1>5, <1>6, <1>7, <1>8, <1>9 DEF Loud
<1> QED
  BY <1>10, <1>11 DEF r

LEMMA StepRatio ==
  ASSUME WellFormed, RatioInv, [Next]_vars
  PROVE  RatioInv'
<1>0. /\ Shaped(know, dut) /\ family \in DOMAIN Actions /\ script \in Seq(Actions[family])
  BY DEF WellFormed
<1>00. UNCHANGED <<family, resets>>
  BY DEF Next, Verify, BeginRun, Run, Close, vars
<1>01. CASE family # "GEN"
  BY <1>00, <1>01 DEF RatioInv
<1>02. CASE family = "GEN"
  <2>0. DOMAIN know.player = {"ratio", "clk"} /\ DOMAIN dut.out = {"ratio", "labels"}
    BY <1>02 DEF RatioInv
  <2>1. ASSUME NEW a \in Actions[family], Verify(a) PROVE RatioInv'
    <3> DEFINE r == Do(know, dut, a)
    <3>1. CASE r.bad
      <4>1. phase' = "rejected" /\ UNCHANGED <<know, dut>>
        BY <2>1, <3>1, VerifyStep
      <4> QED
        BY <4>1, <2>0 DEF RatioInv
    <3>2. CASE ~r.bad
      <4>1. /\ script' = Append(script, a) /\ know' = r.know /\ phase' = "verify" /\ UNCHANGED dut
        BY <2>1, <3>2, VerifyStep
      <4>2. script'[Len(script')] = a
        BY <1>0, <4>1
      <4>3. /\ DOMAIN r.know.player = {"ratio", "clk"}
            /\ a.op = "restore" => r.know.player.ratio = DefaultRatio
        BY <1>0, <1>02, <2>0, GenDone
      <4> HIDE DEF r
      <4> QED
        BY <4>1, <4>2, <4>3, <2>0 DEF RatioInv
    <3> QED
      BY <3>1, <3>2
  <2>2. CASE BeginRun
    <3>1. /\ phase = "verify" /\ script # <<>> /\ phase' = "run" /\ UNCHANGED <<script, dut>>
          /\ know'.player = know.player
      BY <2>2, <1>0 DEF BeginRun, InitialHistory, Shaped, Ignorant
    <3>2. dut'.out.ratio = DefaultRatio
      BY <3>1 DEF WellFormed, Untouched, NoStimulus
    <3> QED
      BY <3>1, <3>2, <2>0, <1>02 DEF RatioInv
  <2>3. CASE Run
    <3> DEFINE a == script[at + 1]
               r == Do(know, dut, a)
    <3>1. /\ phase = "run" /\ at + 1 \in 1..Len(script) /\ UNCHANGED script
          /\ r.bad => phase' = "failed" /\ UNCHANGED <<know, dut>>
          /\ ~r.bad => phase' \in {"run", "done"} /\ know' = r.know /\ dut' = r.dut
      BY <2>3, RunStep
    <3>2. /\ DOMAIN r.know.player = {"ratio", "clk"} /\ DOMAIN r.dut.out = {"ratio", "labels"}
          /\ Loud(a) /\ dut.out.ratio = know.player.ratio => r.dut.out.ratio = r.know.player.ratio
      BY <1>0, <1>02, <2>0, GenDone
    <3>3. Every(Loud)' => Every(Loud) /\ Loud(a)
      BY <3>1 DEF Every, Loud
    <3>4. CASE r.bad
      BY <3>1, <3>4, <2>0 DEF RatioInv
    <3>5. CASE ~r.bad
      <4> HIDE DEF r, a
      <4> QED
        BY <3>1, <3>2, <3>3, <3>5, <1>02 DEF RatioInv
    <3> QED
      BY <3>4, <3>5
  <2>4. CASE Close
    BY <2>4, <1>02 DEF Close
  <2>5. CASE UNCHANGED vars
    BY <2>5 DEF vars, RatioInv, Every, Loud
  <2> QED
    BY <2>1, <2>2, <2>3, <2>4, <2>5 DEF Next
<1> QED
  BY <1>01, <1>02

-----------------------------------------------------------------------------
(***************************************************************************)
(* The groups of the stops.  While an action is verified its ops are       *)
(* collected; what they would make of the network is compared with the     *)
(* history after every op that is added.                                   *)
(***************************************************************************)
NetRun(conf, n0, ops, net) ==
    /\ \E S : ops \in Seq(S)
    /\ \E tr : /\ tr[0] = n0 /\ net = tr[Len(ops)]
               /\ \A i \in 1..Len(ops) : tr[i] = OnNetwork(conf, tr[i - 1], ops[i])

LEMMA RunExtends ==
  ASSUME NEW conf, NEW n0, NEW ops, NEW net, NetRun(conf, n0, ops, net), NEW op
  PROVE  NetRun(conf, n0, Append(ops, op), OnNetwork(conf, net, op))
<1>1. PICK S : ops \in Seq(S)
  BY DEF NetRun
<1>2. PICK tr : /\ tr[0] = n0 /\ net = tr[Len(ops)]
                /\ \A i \in 1..Len(ops) : tr[i] = OnNetwork(conf, tr[i - 1], ops[i])
  BY DEF NetRun
<1> DEFINE n == Len(ops)
           last == OnNetwork(conf, net, op)
           more == Append(ops, op)
           t2 == [i \in 0..(n + 1) |-> IF i = n + 1 THEN last ELSE tr[i]]
<1>3. n \in Nat /\ more \in Seq(S \cup {op}) /\ Len(more) = n + 1 /\ more[n + 1] = op
      /\ \A i \in 1..n : more[i] = ops[i]
  <2>1. ops \in Seq(S \cup {op})
    BY <1>1
  <2> QED
    BY <1>1, <2>1
<1> HIDE DEF last, more
<1>4. t2[n + 1] = last /\ \A i \in 0..n : t2[i] = tr[i]
  BY <1>3
<1>5. ASSUME NEW i \in 1..(n + 1) PROVE t2[i] = OnNetwork(conf, t2[i - 1], more[i])
  <2>1. CASE i = n + 1
    <3>1. t2[i - 1] = tr[n]
      BY <2>1, <1>3, <1>4
    <3> HIDE DEF t2
    <3> QED
      BY <2>1, <3>1, <1>2, <1>3, <1>4 DEF last
  <2>2. CASE i # n + 1
    <3>1. i \in 1..n /\ i - 1 \in 0..n /\ i \in 0..n
      BY <2>2, <1>3
    <3> HIDE DEF t2, n
    <3> QED
      BY <3>1, <1>2, <1>3, <1>4 DEF n
  <2> QED
    BY <2>1, <2>2
<1>6. t2[0] = n0
  BY <1>2, <1>3
<1> HIDE DEF t2, n
<1>7. NetRun(conf, n0, more, last)
  BY <1>3, <1>4, <1>5, <1>6 DEF NetRun
<1> QED
  BY <1>7 DEF more, last

\* Running the ops is that; only where SPF programs the network by itself, a
\* selection is tracked instead.
RunOpIn(ops, unused, q, i) == RunOp(q, ops, i)
Ro == INSTANCE FoldFacts WITH op <- RunOpIn

LEMMA RunsAll ==
  ASSUME NEW conf, NEW n0, NEW t, NEW ops, NEW net, NetRun(conf, n0, ops, net),
         conf.network => \A i \in 1..Len(ops) : ops[i].op # "select"
  PROVE  LET r == RunOps([te |-> conf, net |-> n0, track |-> t], ops)
         IN  r.net = net /\ r.track = t
<1> DEFINE n == Len(ops)
           r0 == [te |-> conf, net |-> n0, track |-> t]
           is == [i \in 1..n |-> i]
<1>1. n \in Nat
  BY DEF NetRun
<1>2. PICK tr : /\ tr[0] = n0 /\ net = tr[n]
                /\ \A i \in 1..n : tr[i] = OnNetwork(conf, tr[i - 1], ops[i])
  BY DEF NetRun
<1>3. RunOps(r0, ops) = Ro!Fold(ops, ops, r0, is)
  BY DEF RunOps, RunOpIn, FoldLeft, MapThenFoldSet, Max, Ro!Fold, Ro!Top
<1>4. PICK g : Ro!Steps(g, ops, ops, r0, is, n) /\ Ro!Fold(ops, ops, r0, is) = g[n]
  <2>1. DOMAIN is = 1..n
    OBVIOUS
  <2> HIDE DEF is, r0
  <2> QED
    BY <1>1, <2>1, Ro!FoldSteps
<1> DEFINE P == {i \in 0..n : /\ DOMAIN g[i] = {"te", "net", "track"}
                              /\ g[i].te = conf /\ g[i].net = tr[i] /\ g[i].track = t}
<1>5. 0 \in P
  <2>1. g[0] = r0
    BY <1>4 DEF Ro!Steps
  <2>2. 0 \in 0..n
    BY <1>1
  <2> HIDE DEF n
  <2> QED
    BY <2>1, <2>2, <1>2
<1>6. ASSUME NEW i \in 1..n, i - 1 \in P PROVE i \in P
  <2> DEFINE q == g[i - 1]
  <2>1. g[i] = RunOp(q, ops, i)
    BY <1>4 DEF Ro!Steps, RunOpIn
  <2>2. DOMAIN q = {"te", "net", "track"} /\ q.te = conf /\ q.net = tr[i - 1] /\ q.track = t
        /\ i \in 0..n
    BY <1>6
  <2> HIDE DEF q
  <2>3. RunOp(q, ops, i) = [q EXCEPT !.net = OnNetwork(q.te, q.net, ops[i])]
    BY <2>2 DEF RunOp
  <2>4. tr[i] = OnNetwork(conf, tr[i - 1], ops[i])
    BY <1>2
  <2> HIDE DEF n
  <2> QED
    BY <2>1, <2>2, <2>3, <2>4
<1>7. \A i \in 0..n : i \in P
  <2> HIDE DEF P, n
  <2> QED
    BY <1>1, <1>5, <1>6, Ro!BoundedInduction
<1>8. n \in P
  BY <1>1, <1>7
<1> QED
  BY <1>2, <1>3, <1>4, <1>8

NetParts == {"bank", "value", "grouping", "answer", "lost"}
BookParts == {"bank", "members", "count", "value", "usrops", "seq"}

LEMMA NetShape ==
  ASSUME NEW conf, NEW net, DOMAIN net = NetParts, NEW op
  PROVE  /\ DOMAIN OnNetwork(conf, net, op) = NetParts
         /\ OnNetwork(conf, net, op).bank =
              IF op.op = "select" THEN [net.bank EXCEPT ![op.stop][op.bank] = op.gid] ELSE net.bank
<1>1. CASE op.op = "select"
  BY <1>1 DEF OnNetwork, NetParts
<1>2. CASE op.op = "write_read"
  <2> DEFINE hit == {op.stops[i] : i \in Hit(conf, net, op)}
             value == [s \in Stops |-> IF s \in hit THEN OnRegister(net.value[s], op.data)
                                       ELSE net.value[s]]
             lost == net.lost \/ \E i \in 1..Len(op.stops) : op.gids[i] # 0 /\ i \notin Hit(conf, net, op)
  <2>1. OnNetwork(conf, net, op) = [net EXCEPT !.value = value, !.lost = lost]
    BY <1>2 DEF OnNetwork
  <2> HIDE DEF value, lost
  <2> QED
    BY <1>2, <2>1 DEF NetParts
<1>3. CASE op.op = "replace"
  BY <1>3 DEF OnNetwork, NetParts
<1>4. CASE op.op \notin {"select", "write_read", "replace"}
  BY <1>4 DEF OnNetwork
<1> QED
  BY <1>1, <1>2, <1>3, <1>4

\* What is verified so far has the history hb of the groups, and its ops lead
\* the network to the groups bk.
Leads(conf, n0, w, hb, bk) ==
    /\ DOMAIN w = {"te", "h", "ops", "bad"} /\ w.te = conf
    /\ DOMAIN w.h = BookParts /\ w.h.bank = hb
    /\ \E net : NetRun(conf, n0, w.ops, net) /\ DOMAIN net = NetParts /\ net.bank = bk

\* The history and the network agree; what was never set is 0.
Agreed(hb, bk) ==
    /\ hb \in [Stops -> [Banks -> Gids \cup {None}]]
    /\ bk \in [Stops -> [Banks -> Gids]]
    /\ \A s \in Stops : \A b \in Banks : bk[s][b] = IF hb[s][b] = None THEN 0 ELSE hb[s][b]

LEMMA EmitLeads ==
  ASSUME NEW conf, NEW n0, NEW w, NEW hb, NEW bk, Leads(conf, n0, w, hb, bk), NEW op
  PROVE  Leads(conf, n0, Emit(w, op), hb,
               IF op.op = "select" THEN [bk EXCEPT ![op.stop][op.bank] = op.gid] ELSE bk)
<1>1. PICK net : NetRun(conf, n0, w.ops, net) /\ DOMAIN net = NetParts /\ net.bank = bk
  BY DEF Leads
<1> DEFINE net2 == OnNetwork(conf, net, op)
           ops2 == Append(w.ops, op)
<1>2. DOMAIN net2 = NetParts
      /\ net2.bank = IF op.op = "select" THEN [bk EXCEPT ![op.stop][op.bank] = op.gid] ELSE bk
  BY <1>1, NetShape
<1>3. NetRun(conf, n0, ops2, net2)
  BY <1>1, RunExtends
<1>4. Emit(w, op) = [w EXCEPT !.ops = ops2]
  BY DEF Emit
<1> HIDE DEF net2, ops2
<1>5. DOMAIN [w EXCEPT !.ops = ops2] = DOMAIN w /\ [w EXCEPT !.ops = ops2].ops = ops2
      /\ [w EXCEPT !.ops = ops2].te = w.te /\ [w EXCEPT !.ops = ops2].h = w.h
  BY DEF Leads
<1> QED
  BY <1>2, <1>3, <1>4, <1>5 DEF Leads

\* The history alone changes.
LEMMA BookLeads ==
  ASSUME NEW conf, NEW n0, NEW w, NEW hb, NEW bk, Leads(conf, n0, w, hb, bk),
         NEW h2, DOMAIN h2 = BookParts
  PROVE  Leads(conf, n0, [w EXCEPT !.h = h2], h2.bank, bk)
BY DEF Leads

LEMMA WriteLeads ==
  ASSUME NEW conf, NEW n0, NEW w, NEW hb, NEW bk, Leads(conf, n0, w, hb, bk),
         NEW stops, NEW gids, NEW data, NEW read
  PROVE  Leads(conf, n0, WriteFields(w, stops, gids, data, read), hb, bk)
<1> DEFINE h2 == Remember(w.h, stops, data)
           w2 == [w EXCEPT !.h = h2]
           op == WriteOp(stops, gids, data, read)
<1>1. DOMAIN h2 = BookParts /\ h2.bank = hb
  BY DEF Remember, Leads, BookParts
<1>2. WriteFields(w, stops, gids, data, read) = Emit(w2, op)
  BY DEF WriteFields
<1>3. op.op = "write_read"
  BY DEF WriteOp
<1> HIDE DEF h2, op
<1>4. Leads(conf, n0, w2, hb, bk)
  BY <1>1, BookLeads
<1> HIDE DEF w2
<1>5. Leads(conf, n0, Emit(w2, op), hb,
            IF op.op = "select" THEN [bk EXCEPT ![op.stop][op.bank] = op.gid] ELSE bk)
  BY <1>4, EmitLeads
<1> QED
  BY <1>2, <1>3, <1>5

LEMMA NullsLead ==
  ASSUME NEW conf, NEW n0, NEW w, NEW hb, NEW bk, Leads(conf, n0, w, hb, bk), NEW num
  PROVE  Leads(conf, n0, Nulls(w, num), hb, bk)
<1> DEFINE op == NopOp(0, num)
<1>1. op.op # "select" /\ Nulls(w, num) = Emit(w, op)
  BY DEF NopOp, Nulls
<1> HIDE DEF op
<1>2. Leads(conf, n0, Emit(w, op), hb,
            IF op.op = "select" THEN [bk EXCEPT ![op.stop][op.bank] = op.gid] ELSE bk)
  BY EmitLeads
<1> QED
  BY <1>1, <1>2

LEMMA MovesLead ==
  ASSUME NEW conf, NEW n0, NEW w, NEW hb, NEW bk, Leads(conf, n0, w, hb, bk),
         NEW s, NEW g, NEW b, NEW mode
  PROVE  /\ Leads(conf, n0, Emit(w, SelectOp(s, g, b)), hb, [bk EXCEPT ![s][b] = g])
         /\ Leads(conf, n0, Emit(w, [SelectOp(s, g, b) EXCEPT !.mode = mode]), hb,
                  [bk EXCEPT ![s][b] = g])
<1> DEFINE op1 == SelectOp(s, g, b)
           op2 == [SelectOp(s, g, b) EXCEPT !.mode = mode]
<1>1. /\ op1.op = "select" /\ op1.stop = s /\ op1.gid = g /\ op1.bank = b
      /\ op2.op = "select" /\ op2.stop = s /\ op2.gid = g /\ op2.bank = b
  BY DEF SelectOp
<1> HIDE DEF op1, op2
<1>2. /\ Leads(conf, n0, Emit(w, op1), hb,
               IF op1.op = "select" THEN [bk EXCEPT ![op1.stop][op1.bank] = op1.gid] ELSE bk)
      /\ Leads(conf, n0, Emit(w, op2), hb,
               IF op2.op = "select" THEN [bk EXCEPT ![op2.stop][op2.bank] = op2.gid] ELSE bk)
  BY EmitLeads
<1>3. /\ Leads(conf, n0, Emit(w, op1), hb, [bk EXCEPT ![s][b] = g])
      /\ Leads(conf, n0, Emit(w, op2), hb, [bk EXCEPT ![s][b] = g])
  BY <1>1, <1>2
<1> QED
  BY <1>3 DEF op1, op2

\* A stop that joins or leaves a group does so in both.
LEMMA AssignLeads ==
  ASSUME NEW conf, NEW n0, NEW w, NEW hb, NEW bk, Leads(conf, n0, w, hb, bk), Agreed(hb, bk),
         NEW s \in Stops, NEW b \in Banks, NEW g \in Gids, NEW prev, NEW mode
  PROVE  \E hb2, bk2 : Leads(conf, n0, Assign(w, g, s, b, prev, mode), hb2, bk2) /\ Agreed(hb2, bk2)
<1> DEFINE row == [k \in Banks |-> IF k = b THEN g ELSE IF hb[s][k] = None THEN 0 ELSE hb[s][k]]
           hb2 == IF g # 0 THEN [hb EXCEPT ![s] = row] ELSE [hb EXCEPT ![s] = [hb[s] EXCEPT ![b] = 0]]
           bk2 == [bk EXCEPT ![s][b] = g]
           h2 == IF g # 0 THEN Join(w.h, g, s, b) ELSE Leave(w.h, s, b, prev)
           bad2 == w.bad \/ (g = 0 /\ prev # 0 /\ w.h.bank[s][1 - b] # 0 /\ s \notin w.h.members[prev].of)
           w2 == [w EXCEPT !.h = h2, !.bad = bad2]
           op == [SelectOp(s, g, b) EXCEPT !.mode = mode]
<1>0. /\ DOMAIN w = {"te", "h", "ops", "bad"} /\ DOMAIN w.h = BookParts /\ w.h.bank = hb
      /\ w.te = conf
      /\ \E net : NetRun(conf, n0, w.ops, net) /\ DOMAIN net = NetParts /\ net.bank = bk
  BY DEF Leads
<1>00. /\ hb \in [Stops -> [Banks -> Gids \cup {None}]]
       /\ bk \in [Stops -> [Banks -> Gids]]
       /\ \A x \in Stops : \A y \in Banks : bk[x][y] = IF hb[x][y] = None THEN 0 ELSE hb[x][y]
  BY DEF Agreed
<1>1. Assign(w, g, s, b, prev, mode) = Emit(w2, op)
  BY DEF Assign
<1>2. DOMAIN h2 = BookParts /\ h2.bank = hb2
  <2>1. CASE g # 0
    <3> DEFINE of == [w.h.members EXCEPT ![g] = [known |-> TRUE, of |-> @.of \cup {s}]]
               bank == [hb EXCEPT ![s] = row]
    <3>1. Join(w.h, g, s, b) = [w.h EXCEPT !.members = of, !.bank = bank]
      BY <1>0 DEF Join
    <3> HIDE DEF of, bank
    <3>2. DOMAIN Join(w.h, g, s, b) = BookParts /\ Join(w.h, g, s, b).bank = bank
      BY <3>1, <1>0 DEF BookParts
    <3> QED
      BY <2>1, <3>2 DEF bank
  <2>2. CASE g = 0
    <3> DEFINE bank == [hb EXCEPT ![s] = [hb[s] EXCEPT ![b] = 0]]
               gone == [w.h EXCEPT !.bank[s][b] = 0]
    <3>1. gone = [w.h EXCEPT !.bank = bank]
      BY <1>0
    <3>2. DOMAIN gone = BookParts /\ gone.bank = bank
      BY <3>1, <1>0 DEF BookParts
    <3> HIDE DEF gone, bank
    <3>3. Leave(w.h, s, b, prev) =
            IF prev # 0 /\ gone.bank[s][0] # gone.bank[s][1]
              THEN [gone EXCEPT !.members[prev] = [known |-> TRUE, of |-> @.of \ {s}]] ELSE gone
      BY DEF Leave, gone
    <3>4. DOMAIN Leave(w.h, s, b, prev) = BookParts /\ Leave(w.h, s, b, prev).bank = bank
      BY <3>2, <3>3 DEF BookParts
    <3> QED
      BY <2>2, <3>4 DEF bank
  <2> QED
    BY <2>1, <2>2
<1>3. Agreed(hb2, bk2)
  <2>1. g \in Int /\ 0 \in Gids /\ None \notin Gids
    <3>1. MaxGid \in Nat
      BY NetworkAssumption
    <3> QED
      BY <3>1 DEF Gids, None
  <2>2. row \in [Banks -> Gids \cup {None}] /\ \A y \in Banks : row[y] =
          IF y = b THEN g ELSE IF hb[s][y] = None THEN 0 ELSE hb[s][y]
    BY <1>00, <2>1
  <2>3. hb2 \in [Stops -> [Banks -> Gids \cup {None}]]
    BY <1>00, <2>1, <2>2
  <2>4. bk2 \in [Stops -> [Banks -> Gids]]
    BY <1>00
  <2>5. ASSUME NEW x \in Stops, NEW y \in Banks
        PROVE  bk2[x][y] = IF hb2[x][y] = None THEN 0 ELSE hb2[x][y]
    <3>1. CASE x # s
      BY <3>1, <1>00
    <3>2. CASE x = s
      <4>1. bk2[x][y] = IF y = b THEN g ELSE bk[s][y]
        BY <3>2, <1>00
      <4>2. hb2[x][y] = IF y = b THEN g
                        ELSE IF g # 0 /\ hb[s][y] = None THEN 0 ELSE hb[s][y]
        BY <3>2, <1>00, <2>2
      <4> HIDE DEF hb2, bk2
      <4> QED
        BY <4>1, <4>2, <1>00, <2>1
    <3> QED
      BY <3>1, <3>2
  <2> HIDE DEF hb2, bk2
  <2> QED
    BY <2>3, <2>4, <2>5 DEF Agreed
<1> HIDE DEF h2, bad2, hb2
<1>4. DOMAIN w2 = {"te", "h", "ops", "bad"} /\ w2.te = conf /\ w2.h = h2 /\ w2.ops = w.ops
  BY <1>0
<1> HIDE DEF w2
<1>5. Leads(conf, n0, w2, hb2, bk)
  BY <1>0, <1>2, <1>4 DEF Leads
<1>6. Leads(conf, n0, Emit(w2, op), hb2, bk2)
  BY <1>5, MovesLead
<1> HIDE DEF bk2, op
<1> QED
  BY <1>1, <1>3, <1>6

\* A hub that is programmed ends in the groups that it began in.
LEMMA ProgramLeads ==
  ASSUME NEW conf, NEW n0, NEW w, NEW hb, NEW bk, Leads(conf, n0, w, hb, bk), Agreed(hb, bk),
         NEW hub \in Hubs, NEW want, NEW num
  PROVE  Leads(conf, n0, ProgramHub(w, hub, want, num), hb, bk)
<1> DEFINE back    == IF w.h.bank[hub][0] = None THEN 0 ELSE w.h.bank[hub][0]
           enabled == w.h.bank[hub][0] # None /\ w.h.value[hub][Oe(0)] = 1
           on      == num > 0
           delay   == IF on THEN Delay(hub) ELSE 0
           answers == [f \in {Responder(g) : g \in Gids \ {0}} |->
                         IF f[2] = Scratch THEN 0 ELSE want[f[2]]]
           carried == [f \in {Member(g) : g \in Gids \ {0}} |->
                         IF f[2] = Scratch THEN (IF on THEN 1 ELSE 0) ELSE want[f[2]]]
           w1 == IF enabled THEN SetOe(w, hub, 0, back, 0) ELSE w
           w2 == Emit(w1, SelectOp(hub, Scratch, 0))
           w3 == Write(w2, hub, Scratch, [f \in {Member(Scratch)} |-> 0])
           w4 == Nulls(w3, delay + 1)
           w5 == Write(w4, hub, Scratch, [f \in {<<"tracker", "delay">>} |-> delay])
           w6 == Write(w5, hub, Scratch, [f \in {<<"tracker", "enable">>} |-> IF on THEN 1 ELSE 0])
           w7 == Write(w6, hub, Scratch, answers)
           w8 == Write(w7, hub, Scratch, carried)
           w9 == Emit(w8, SelectOp(hub, back, 0))
           w10 == IF back # 0 /\ enabled THEN SetOe(w9, hub, 0, back, 1) ELSE w9
           bk2 == [bk EXCEPT ![hub][0] = Scratch]
           bk3 == [bk2 EXCEPT ![hub][0] = back]
<1>0. hub \in Stops /\ 0 \in Banks /\ w.h.bank = hb
  BY NetworkAssumption DEF Leads, Banks
<1>1. ProgramHub(w, hub, want, num) = w10
  BY DEF ProgramHub
<1>2. back = bk[hub][0]
  BY <1>0 DEF Agreed
<1>3. bk3 = bk
  <2>1. bk \in [Stops -> [Banks -> Gids]]
    BY DEF Agreed
  <2> HIDE DEF back
  <2> QED
    BY <1>0, <1>2, <2>1
<1> HIDE DEF back, enabled, delay, answers, carried, on, bk2
<1>4. Leads(conf, n0, w1, hb, bk)
  BY WriteLeads DEF SetOe, Write
<1> HIDE DEF w1
<1>5. Leads(conf, n0, w2, hb, bk2)
  BY <1>4, MovesLead DEF bk2
<1> HIDE DEF w2
<1>6. Leads(conf, n0, w3, hb, bk2)
  BY <1>5, WriteLeads DEF Write
<1> HIDE DEF w3
<1>7. Leads(conf, n0, w4, hb, bk2)
  BY <1>6, NullsLead
<1> HIDE DEF w4
<1>8. Leads(conf, n0, w5, hb, bk2)
  BY <1>7, WriteLeads DEF Write
<1> HIDE DEF w5
<1>9. Leads(conf, n0, w6, hb, bk2)
  BY <1>8, WriteLeads DEF Write
<1> HIDE DEF w6
<1>10. Leads(conf, n0, w7, hb, bk2)
  BY <1>9, WriteLeads DEF Write
<1> HIDE DEF w7
<1>11. Leads(conf, n0, w8, hb, bk2)
  BY <1>10, WriteLeads DEF Write
<1> HIDE DEF w8
<1>12. Leads(conf, n0, w9, hb, bk3)
  BY <1>11, MovesLead
<1> HIDE DEF w9
<1>13. Leads(conf, n0, w9, hb, bk)
  BY <1>3, <1>12
<1>14. Leads(conf, n0, w10, hb, bk)
  BY <1>13, WriteLeads DEF SetOe, Write
<1> HIDE DEF w10
<1> QED
  BY <1>1, <1>14

(***************************************************************************)
(* The plan of the hubs: it counts in the history, and leaves the groups.  *)
(***************************************************************************)
PlanParts == {"h", "order", "want", "num"}
Planned(p, h) ==
    /\ DOMAIN p = PlanParts /\ DOMAIN p.h = BookParts
    /\ p.h.bank = h.bank /\ p.h.value = h.value /\ p.h.members = h.members
    /\ p.order \in Seq(Hubs)

LEMMA SetUpPlans ==
  ASSUME NEW p, NEW h, Planned(p, h), NEW hub \in Hubs, NEW of, NEW count, NEW member, NEW num
  PROVE  Planned(SetUp(p, hub, of, count, member, num), h)
<1> DEFINE h2 == [p.h EXCEPT !.count[hub][of] = count]
           order2 == IF hub \in AllOf(p.order) THEN p.order ELSE Append(p.order, hub)
           want2 == [p.want EXCEPT ![hub] = [SetupHub(p.h, hub) EXCEPT ![of] = member]]
           num2 == [p.num EXCEPT ![hub] = num]
           p2 == [p EXCEPT !.h = h2, !.order = order2, !.want = want2, !.num = num2]
<1>1. SetUp(p, hub, of, count, member, num) = p2
  BY DEF SetUp
<1>2. /\ DOMAIN h2 = BookParts /\ h2.bank = h.bank
      /\ h2.value = h.value /\ h2.members = h.members
  BY DEF Planned, BookParts
<1>3. order2 \in Seq(Hubs)
  BY DEF Planned
<1> HIDE DEF h2, order2, want2, num2
<1>4. DOMAIN p2 = PlanParts /\ p2.h = h2 /\ p2.order = order2
  BY DEF Planned, PlanParts
<1> HIDE DEF p2
<1> QED
  BY <1>1, <1>2, <1>3, <1>4 DEF Planned

PlanHubIn(g, prev, p, hub) == PlanHub(p, hub, g, prev)
Ph == INSTANCE FoldFacts WITH op <- PlanHubIn

LEMMA PlanStopPlans ==
  ASSUME NEW p, NEW h, Planned(p, h), NEW s \in Stops, NEW g, NEW b, NEW prev
  PROVE  Planned(PlanStop(p, s, g, b, prev), h)
<1> DEFINE way == Way(s, g)
           n == Len(way)
<1>1. way \in Seq(Hubs)
  <2> DEFINE own == IF s \in Hubs THEN <<s>> ELSE <<>>
             down == Above[s] \o own
  <2>1. Above[s] \in Seq(Hubs)
    BY NetworkAssumption
  <2>2. own \in Seq(Hubs)
    OBVIOUS
  <2> HIDE DEF own
  <2>3. down \in Seq(Hubs)
    BY <2>1, <2>2
  <2> HIDE DEF down
  <2>4. Reverse(down) \in Seq(Hubs)
    <3>1. \A i \in 1..Len(down) : (Len(down) - i) + 1 \in 1..Len(down)
      BY <2>3
    <3> QED
      BY <2>3, <3>1 DEF Reverse
  <2>5. way = IF g = 0 THEN Reverse(down) ELSE down
    BY DEF Way, down, own
  <2> QED
    BY <2>3, <2>4, <2>5
<1>2. DOMAIN way = 1..n /\ n \in Nat
  BY <1>1
<1> HIDE DEF way
<1>3. FoldLeft(LAMBDA q, hub : PlanHub(q, hub, g, prev), p, way) = Ph!Fold(g, prev, p, way)
  BY DEF PlanHubIn, FoldLeft, MapThenFoldSet, Max, Ph!Fold, Ph!Top
<1>4. PICK f : Ph!Steps(f, g, prev, p, way, n) /\ Ph!Fold(g, prev, p, way) = f[n]
  BY <1>2, Ph!FoldSteps
<1> DEFINE P == {i \in 0..n : Planned(f[i], h)}
<1>5. 0 \in P
  <2>1. f[0] = p /\ 0 \in 0..n
    BY <1>2, <1>4 DEF Ph!Steps
  <2> HIDE DEF n
  <2> QED
    BY <2>1
<1>6. ASSUME NEW i \in 1..n, i - 1 \in P PROVE i \in P
  <2>1. f[i] = PlanHub(f[i - 1], way[i], g, prev) /\ way[i] \in Hubs /\ i \in 0..n
    BY <1>1, <1>2, <1>4 DEF Ph!Steps, PlanHubIn
  <2>2. Planned(f[i - 1], h)
    BY <1>6
  <2>3. Planned(PlanHub(f[i - 1], way[i], g, prev), h)
    BY <2>1, <2>2, SetUpPlans DEF PlanHub
  <2> HIDE DEF n
  <2> QED
    BY <2>1, <2>3
<1>7. \A i \in 0..n : i \in P
  <2> HIDE DEF P, n
  <2> QED
    BY <1>2, <1>5, <1>6, Ph!BoundedInduction
<1>8. n \in P
  BY <1>2, <1>7
<1>9. PlanStop(p, s, g, b, prev) = IF p.h.bank[s][b] = g THEN p ELSE f[n]
  BY <1>3, <1>4 DEF PlanStop, way
<1> QED
  BY <1>8, <1>9

PlanStopIn(a, prevs, p, i) == PlanStop(p, a.stops[i], a.gids[i], a.bank, prevs[i])
Ps == INSTANCE FoldFacts WITH op <- PlanStopIn

LEMMA PlanHubsPlans ==
  ASSUME NEW h, DOMAIN h = BookParts, NEW a, a.stops \in Seq(Stops), NEW prevs
  PROVE  Planned(PlanHubs(h, a, prevs), h)
<1> DEFINE n == Len(a.stops)
           is == [i \in 1..n |-> i]
           p0 == [h |-> h, order |-> <<>>, want |-> [hub \in Hubs |-> SetupHub(h, hub)],
                  num |-> [hub \in Hubs |-> 0]]
<1>1. n \in Nat /\ \A i \in 1..n : a.stops[i] \in Stops
  OBVIOUS
<1>2. PlanHubs(h, a, prevs) = Ps!Fold(a, prevs, p0, is)
  BY DEF PlanHubs, PlanStopIn, FoldLeft, MapThenFoldSet, Max, Ps!Fold, Ps!Top
<1>3. PICK f : Ps!Steps(f, a, prevs, p0, is, n) /\ Ps!Fold(a, prevs, p0, is) = f[n]
  <2>1. DOMAIN is = 1..n /\ n \in Nat
    BY <1>1
  <2> HIDE DEF is, p0, n
  <2> QED
    BY <2>1, Ps!FoldSteps
<1> DEFINE P == {i \in 0..n : Planned(f[i], h)}
<1>4. 0 \in P
  <2>1. f[0] = p0 /\ 0 \in 0..n
    BY <1>1, <1>3 DEF Ps!Steps
  <2>2. Planned(p0, h)
    BY DEF Planned, PlanParts
  <2> HIDE DEF n, p0
  <2> QED
    BY <2>1, <2>2
<1>5. ASSUME NEW i \in 1..n, i - 1 \in P PROVE i \in P
  <2>1. f[i] = PlanStop(f[i - 1], a.stops[i], a.gids[i], a.bank, prevs[i]) /\ i \in 0..n
    <3>1. is[i] = i /\ i \in 0..n
      BY <1>1
    <3> HIDE DEF is, p0, n
    <3> QED
      BY <1>3, <3>1 DEF Ps!Steps, PlanStopIn
  <2>2. Planned(f[i - 1], h)
    BY <1>5
  <2>3. Planned(PlanStop(f[i - 1], a.stops[i], a.gids[i], a.bank, prevs[i]), h)
    BY <1>1, <2>2, PlanStopPlans
  <2> HIDE DEF n
  <2> QED
    BY <2>1, <2>3
<1>6. \A i \in 0..n : i \in P
  <2> HIDE DEF P, n
  <2> QED
    BY <1>1, <1>4, <1>5, Ps!BoundedInduction
<1>7. n \in P
  BY <1>1, <1>6
<1> QED
  BY <1>2, <1>3, <1>7

-----------------------------------------------------------------------------
(***************************************************************************)
(* A whole action: its folds, over the stops, the hubs and the groups.     *)
(***************************************************************************)
Truthful(conf, n0, w) == \E hb, bk : Leads(conf, n0, w, hb, bk) /\ Agreed(hb, bk)

OffIn(a, prevs, v, i) == IF a.gids[i] = 0 THEN OffStop(v, a, prevs, i) ELSE v
OnIn(a, unused, v, i) == IF a.gids[i] = 0 THEN v ELSE OnStop(v, a, i)
ProgramIn(want, num, v, hub) == ProgramHub(v, hub, want[hub], num[hub])
PacketIn(a, groups, v, g) == IF g \in groups THEN Emit(v, PacketOp(a, g)) ELSE v
Of == INSTANCE FoldFacts WITH op <- OffIn
On == INSTANCE FoldFacts WITH op <- OnIn
Pg == INSTANCE FoldFacts WITH op <- ProgramIn
Pk == INSTANCE FoldFacts WITH op <- PacketIn

\* What the arguments of an STF action are, if it is not rejected.
Typed(a) == /\ a.stops \in Seq(Stops) /\ a.gids \in Seq(Gids) /\ a.bank \in Banks
            /\ a.op = "select" => Len(a.gids) = Len(a.stops)

LEMMA OutputsLead ==
  ASSUME NEW conf, NEW n0, NEW w, Truthful(conf, n0, w), NEW s, NEW b, NEW g, NEW val
  PROVE  Truthful(conf, n0, SetOe(w, s, b, g, val))
BY WriteLeads DEF SetOe, Write, Truthful

LEMMA StopLeaves ==
  ASSUME NEW conf, NEW n0, NEW w, Truthful(conf, n0, w), NEW a, Typed(a), NEW prevs,
         NEW i \in 1..Len(a.stops)
  PROVE  Truthful(conf, n0, OffStop(w, a, prevs, i))
<1> DEFINE s == a.stops[i]
           off == IF w.te.network THEN w ELSE SetOe(w, s, a.bank, prevs[i], 0)
<1>1. s \in Stops /\ a.bank \in Banks
  BY DEF Typed
<1>2. 0 \in Gids
  <2>1. MaxGid \in Nat
    BY NetworkAssumption
  <2> QED
    BY <2>1 DEF Gids
<1>3. Truthful(conf, n0, off)
  BY OutputsLead
<1>4. OffStop(w, a, prevs, i) = Assign(off, 0, s, a.bank, prevs[i], a.mode)
  BY DEF OffStop
<1> HIDE DEF off, s
<1>5. PICK hb, bk : Leads(conf, n0, off, hb, bk) /\ Agreed(hb, bk)
  BY <1>3 DEF Truthful
<1>6. Truthful(conf, n0, Assign(off, 0, s, a.bank, prevs[i], a.mode))
  BY <1>1, <1>2, <1>5, AssignLeads DEF Truthful
<1> QED
  BY <1>4, <1>6

LEMMA StopJoins ==
  ASSUME NEW conf, NEW n0, NEW w, Truthful(conf, n0, w), NEW a, Typed(a), a.op = "select",
         NEW i \in 1..Len(a.stops)
  PROVE  Truthful(conf, n0, OnStop(w, a, i))
<1> DEFINE s == a.stops[i]
           put == Assign(w, a.gids[i], s, a.bank, 0, a.mode)
<1>1. s \in Stops /\ a.bank \in Banks /\ a.gids[i] \in Gids
  BY DEF Typed
<1>2. PICK hb, bk : Leads(conf, n0, w, hb, bk) /\ Agreed(hb, bk)
  BY DEF Truthful
<1> HIDE DEF s
<1>3. Truthful(conf, n0, put)
  BY <1>1, <1>2, AssignLeads DEF Truthful
<1>4. Truthful(conf, n0, SetOe(put, s, a.bank, a.gids[i], 1))
  BY <1>3, OutputsLead
<1>5. OnStop(w, a, i) = IF w.te.auto /\ ~w.te.network THEN SetOe(put, s, a.bank, a.gids[i], 1)
                        ELSE put
  BY DEF OnStop, s
<1> QED
  BY <1>3, <1>4, <1>5

LEMMA AllLeave ==
  ASSUME NEW conf, NEW n0, NEW w, Truthful(conf, n0, w), NEW a, Typed(a), NEW prevs
  PROVE  Truthful(conf, n0, SwitchOff(w, a, prevs))
<1> DEFINE n == Len(a.stops)
           is == [i \in 1..n |-> i]
<1>1. n \in Nat /\ DOMAIN is = 1..n /\ \A i \in 1..n : is[i] = i
  BY DEF Typed
<1>2. SwitchOff(w, a, prevs) = Of!Fold(a, prevs, w, is)
  BY DEF SwitchOff, OffIn, FoldLeft, MapThenFoldSet, Max, Of!Fold, Of!Top
<1> HIDE DEF is
<1>3. PICK f : Of!Steps(f, a, prevs, w, is, n) /\ Of!Fold(a, prevs, w, is) = f[n]
  BY <1>1, Of!FoldSteps
<1> DEFINE P == {i \in 0..n : Truthful(conf, n0, f[i])}
<1>4. 0 \in P
  <2>1. f[0] = w /\ 0 \in 0..n
    BY <1>1, <1>3 DEF Of!Steps
  <2> HIDE DEF n
  <2> QED
    BY <2>1
<1>5. ASSUME NEW i \in 1..n, i - 1 \in P PROVE i \in P
  <2>1. f[i] = IF a.gids[i] = 0 THEN OffStop(f[i - 1], a, prevs, i) ELSE f[i - 1]
    <3> HIDE DEF n
    <3> QED
      BY <1>1, <1>3 DEF Of!Steps, OffIn
  <2>2. Truthful(conf, n0, f[i - 1]) /\ i \in 0..n
    BY <1>5
  <2>3. Truthful(conf, n0, OffStop(f[i - 1], a, prevs, i))
    BY <2>2, StopLeaves
  <2> HIDE DEF n
  <2> QED
    BY <2>1, <2>2, <2>3
<1>6. \A i \in 0..n : i \in P
  <2> HIDE DEF P, n
  <2> QED
    BY <1>1, <1>4, <1>5, Of!BoundedInduction
<1>7. n \in P
  BY <1>1, <1>6
<1> QED
  BY <1>2, <1>3, <1>7

LEMMA AllJoin ==
  ASSUME NEW conf, NEW n0, NEW w, Truthful(conf, n0, w), NEW a, Typed(a), a.op = "select"
  PROVE  Truthful(conf, n0, SwitchOn(w, a))
<1> DEFINE n == Len(a.stops)
           is == [i \in 1..n |-> i]
<1>1. n \in Nat /\ DOMAIN is = 1..n /\ \A i \in 1..n : is[i] = i
  BY DEF Typed
<1>2. SwitchOn(w, a) = On!Fold(a, a, w, is)
  BY DEF SwitchOn, OnIn, FoldLeft, MapThenFoldSet, Max, On!Fold, On!Top
<1> HIDE DEF is
<1>3. PICK f : On!Steps(f, a, a, w, is, n) /\ On!Fold(a, a, w, is) = f[n]
  BY <1>1, On!FoldSteps
<1> DEFINE P == {i \in 0..n : Truthful(conf, n0, f[i])}
<1>4. 0 \in P
  <2>1. f[0] = w /\ 0 \in 0..n
    BY <1>1, <1>3 DEF On!Steps
  <2> HIDE DEF n
  <2> QED
    BY <2>1
<1>5. ASSUME NEW i \in 1..n, i - 1 \in P PROVE i \in P
  <2>1. f[i] = IF a.gids[i] = 0 THEN f[i - 1] ELSE OnStop(f[i - 1], a, i)
    <3> HIDE DEF n
    <3> QED
      BY <1>1, <1>3 DEF On!Steps, OnIn
  <2>2. Truthful(conf, n0, f[i - 1]) /\ i \in 0..n
    BY <1>5
  <2>3. Truthful(conf, n0, OnStop(f[i - 1], a, i))
    BY <2>2, StopJoins
  <2> HIDE DEF n
  <2> QED
    BY <2>1, <2>2, <2>3
<1>6. \A i \in 0..n : i \in P
  <2> HIDE DEF P, n
  <2> QED
    BY <1>1, <1>4, <1>5, On!BoundedInduction
<1>7. n \in P
  BY <1>1, <1>6
<1> QED
  BY <1>2, <1>3, <1>7

LEMMA HubsLead ==
  ASSUME NEW conf, NEW n0, NEW w, Truthful(conf, n0, w), NEW want, NEW num, NEW order \in Seq(Hubs)
  PROVE  Truthful(conf, n0, Pg!Fold(want, num, w, order))
<1> DEFINE n == Len(order)
<1>1. n \in Nat /\ DOMAIN order = 1..n /\ \A i \in 1..n : order[i] \in Hubs
  OBVIOUS
<1>3. PICK f : Pg!Steps(f, want, num, w, order, n) /\ Pg!Fold(want, num, w, order) = f[n]
  BY <1>1, Pg!FoldSteps
<1> DEFINE P == {i \in 0..n : Truthful(conf, n0, f[i])}
<1>4. 0 \in P
  <2>1. f[0] = w /\ 0 \in 0..n
    BY <1>1, <1>3 DEF Pg!Steps
  <2> HIDE DEF n
  <2> QED
    BY <2>1
<1>5. ASSUME NEW i \in 1..n, i - 1 \in P PROVE i \in P
  <2> DEFINE hub == order[i]
  <2>1. f[i] = ProgramHub(f[i - 1], hub, want[hub], num[hub])
    <3> HIDE DEF n
    <3> QED
      BY <1>3 DEF Pg!Steps, ProgramIn
  <2>2. Truthful(conf, n0, f[i - 1]) /\ i \in 0..n /\ hub \in Hubs
    BY <1>1, <1>5
  <2> HIDE DEF hub
  <2>3. PICK hb, bk : Leads(conf, n0, f[i - 1], hb, bk) /\ Agreed(hb, bk)
    BY <2>2 DEF Truthful
  <2>4. Truthful(conf, n0, ProgramHub(f[i - 1], hub, want[hub], num[hub]))
    BY <2>2, <2>3, ProgramLeads DEF Truthful
  <2> HIDE DEF n
  <2> QED
    BY <2>1, <2>2, <2>4
<1>6. \A i \in 0..n : i \in P
  <2> HIDE DEF P, n
  <2> QED
    BY <1>1, <1>4, <1>5, Pg!BoundedInduction
<1>7. n \in P
  BY <1>1, <1>6
<1> QED
  BY <1>3, <1>7

LEMMA PacketsLead ==
  ASSUME NEW conf, NEW n0, NEW w, Truthful(conf, n0, w), NEW a
  PROVE  Truthful(conf, n0, Packets(w, a))
<1> DEFINE n == MaxGid + 1
           groups == AllOf(GroupsOf(w.h, a))
           is == [i \in 1..MaxGid + 1 |-> i - 1]
<1>1. n \in Nat /\ DOMAIN is = 1..n
  <2>1. MaxGid \in Nat
    BY NetworkAssumption
  <2> QED
    BY <2>1
<1>2. Packets(w, a) = Pk!Fold(a, groups, w, is)
  BY DEF Packets, PacketIn, FoldLeft, MapThenFoldSet, Max, Pk!Fold, Pk!Top
<1> HIDE DEF is, groups
<1>3. PICK f : Pk!Steps(f, a, groups, w, is, n) /\ Pk!Fold(a, groups, w, is) = f[n]
  BY <1>1, Pk!FoldSteps
<1> DEFINE P == {i \in 0..n : Truthful(conf, n0, f[i])}
<1>4. 0 \in P
  <2>1. f[0] = w /\ 0 \in 0..n
    BY <1>1, <1>3 DEF Pk!Steps
  <2> HIDE DEF n
  <2> QED
    BY <2>1
<1>5. ASSUME NEW i \in 1..n, i - 1 \in P PROVE i \in P
  <2> DEFINE op == PacketOp(a, is[i])
  <2>1. f[i] = IF is[i] \in groups THEN Emit(f[i - 1], op) ELSE f[i - 1]
    <3> HIDE DEF n
    <3> QED
      BY <1>3 DEF Pk!Steps, PacketIn
  <2>2. Truthful(conf, n0, f[i - 1]) /\ i \in 0..n
    BY <1>5
  <2>3. op.op # "select"
    BY DEF PacketOp, NopOp
  <2> HIDE DEF op
  <2>4. PICK hb, bk : Leads(conf, n0, f[i - 1], hb, bk) /\ Agreed(hb, bk)
    BY <2>2 DEF Truthful
  <2>5. Leads(conf, n0, Emit(f[i - 1], op), hb,
              IF op.op = "select" THEN [bk EXCEPT ![op.stop][op.bank] = op.gid] ELSE bk)
    BY <2>4, EmitLeads
  <2>6. Truthful(conf, n0, Emit(f[i - 1], op))
    BY <2>3, <2>4, <2>5 DEF Truthful
  <2> HIDE DEF n
  <2> QED
    BY <2>1, <2>2, <2>6
<1>6. \A i \in 0..n : i \in P
  <2> HIDE DEF P, n
  <2> QED
    BY <1>1, <1>4, <1>5, Pk!BoundedInduction
<1>7. n \in P
  BY <1>1, <1>6
<1> QED
  BY <1>2, <1>3, <1>7

LEMMA SelectLeads ==
  ASSUME NEW conf, NEW n0, NEW w, Truthful(conf, n0, w), NEW a, Typed(a), a.op = "select"
  PROVE  Truthful(conf, n0, Select(w, a))
<1> DEFINE prevs == [i \in 1..Len(a.stops) |-> PrevGid(w.h, a, i)]
           p == PlanHubs(w.h, a, prevs)
           ready == IF w.te.network THEN w ELSE [w EXCEPT !.h = p.h]
           off == SwitchOff(ready, a, prevs)
           told == FoldLeft(LAMBDA v, hub : ProgramHub(v, hub, p.want[hub], p.num[hub]), off, p.order)
           hubs == IF w.te.network THEN off ELSE told
<1>1. Select(w, a) = SwitchOn(hubs, a)
  BY DEF Select
<1>2. PICK hb, bk : Leads(conf, n0, w, hb, bk) /\ Agreed(hb, bk)
  BY DEF Truthful
<1>3. Planned(p, w.h) /\ w.h.bank = hb
  <2>1. DOMAIN w.h = BookParts /\ w.h.bank = hb /\ a.stops \in Seq(Stops)
    BY <1>2 DEF Leads, Typed
  <2> HIDE DEF prevs
  <2> QED
    BY <2>1, PlanHubsPlans
<1> HIDE DEF p, prevs
<1>4. Truthful(conf, n0, ready)
  <2>1. Leads(conf, n0, [w EXCEPT !.h = p.h], p.h.bank, bk)
    BY <1>2, <1>3, BookLeads DEF Planned
  <2>2. p.h.bank = hb
    BY <1>3 DEF Planned
  <2> QED
    BY <1>2, <2>1, <2>2 DEF Truthful
<1> HIDE DEF ready
<1>5. Truthful(conf, n0, off)
  BY <1>4, AllLeave
<1> HIDE DEF off
<1>6. Truthful(conf, n0, told)
  <2>1. p.order \in Seq(Hubs)
    BY <1>3 DEF Planned
  <2>2. told = Pg!Fold(p.want, p.num, off, p.order)
    BY DEF ProgramIn, FoldLeft, MapThenFoldSet, Max, Pg!Fold, Pg!Top
  <2> HIDE DEF told
  <2> QED
    BY <1>5, <2>1, <2>2, HubsLead
<1> HIDE DEF told
<1>7. Truthful(conf, n0, hubs)
  BY <1>5, <1>6
<1> HIDE DEF hubs
<1> QED
  BY <1>1, <1>7, AllJoin

LEMMA UsropsLead ==
  ASSUME NEW conf, NEW n0, NEW w, Truthful(conf, n0, w), NEW a
  PROVE  Truthful(conf, n0, MapUsrop(w, a))
<1> DEFINE addrs == Addresses(a)
           used == [i \in 1..Len(addrs) |-> UsropAt(a, i)]
           map == [u \in AllOf(used) |-> addrs[CHOOSE i \in 1..Len(addrs) : used[i] = u]]
           seq == [s \in Stops |-> IF s \in AllOf(a.stops) THEN used ELSE w.h.seq[s]]
           usrops == [s \in Stops |-> IF s \in AllOf(a.stops)
                        THEN [u \in 1..NumUsrops |-> IF u \in DOMAIN map THEN map[u]
                                                     ELSE w.h.usrops[s][u]]
                        ELSE w.h.usrops[s]]
           h2 == [w.h EXCEPT !.seq = seq, !.usrops = usrops]
           w2 == [w EXCEPT !.h = h2]
           op == [op |-> "map_usrop", stops |-> a.stops, gids |-> GroupsOf(w.h, a), map |-> map]
<1>1. PICK hb, bk : Leads(conf, n0, w, hb, bk) /\ Agreed(hb, bk)
  BY DEF Truthful
<1>2. MapUsrop(w, a) = Emit(w2, op)
  BY DEF MapUsrop
<1>3. op.op # "select"
  OBVIOUS
<1> HIDE DEF op, seq, usrops
<1>4. DOMAIN h2 = BookParts /\ h2.bank = hb
  BY <1>1 DEF Leads, BookParts
<1> HIDE DEF h2
<1>5. Leads(conf, n0, w2, hb, bk)
  BY <1>1, <1>4, BookLeads
<1> HIDE DEF w2
<1>6. Leads(conf, n0, Emit(w2, op), hb,
            IF op.op = "select" THEN [bk EXCEPT ![op.stop][op.bank] = op.gid] ELSE bk)
  BY <1>5, EmitLeads
<1> QED
  BY <1>1, <1>2, <1>3, <1>6 DEF Truthful

LEMMA WriteReadLeads ==
  ASSUME NEW conf, NEW n0, NEW w, Truthful(conf, n0, w), NEW a
  PROVE  Truthful(conf, n0, WriteRead(w, a))
<1> DEFINE given == IF a.read THEN <<>> ELSE a.data
           gids == GroupsOf(w.h, a)
           fill == Filled(w.h, a)
           h2 == Remember(w.h, a.stops, fill)
           w2 == [w EXCEPT !.h = h2]
           all == Atop(given, fill)
<1>1. PICK hb, bk : Leads(conf, n0, w, hb, bk) /\ Agreed(hb, bk)
  BY DEF Truthful
<1>2. WriteRead(w, a) = IF a.incremental THEN WriteFields(w, a.stops, gids, all, a.read)
                        ELSE WriteFields(w2, a.stops, gids, given, a.read)
  BY DEF WriteRead
<1> HIDE DEF given, gids, fill, all
<1>3. DOMAIN h2 = BookParts /\ h2.bank = hb
  BY <1>1 DEF Remember, Leads, BookParts
<1> HIDE DEF h2
<1>4. Leads(conf, n0, w2, hb, bk)
  BY <1>1, <1>3, BookLeads
<1> HIDE DEF w2
<1>5. /\ Leads(conf, n0, WriteFields(w, a.stops, gids, all, a.read), hb, bk)
      /\ Leads(conf, n0, WriteFields(w2, a.stops, gids, given, a.read), hb, bk)
  BY <1>1, <1>4, WriteLeads
<1> QED
  BY <1>1, <1>2, <1>5 DEF Truthful

LEMMA NullsTruthful ==
  ASSUME NEW conf, NEW n0, NEW w, Truthful(conf, n0, w), NEW num
  PROVE  Truthful(conf, n0, Nulls(w, num))
BY NullsLead DEF Truthful

\* What an STF action has verified to leads the network to what is remembered.
LEMMA StfLeads ==
  ASSUME NEW conf, NEW h, DOMAIN h = BookParts, NEW net, DOMAIN net = NetParts,
         Agreed(h.bank, net.bank), NEW a, a.stops \in Seq(Stops), a.gids \in Seq(Gids),
         a.bank \in Banks, a.op \in StfOps, OpOk(h, a)
  PROVE  Truthful(conf, net, VerifyStf(conf, h, a))
<1> DEFINE w0 == Begun(conf, h)
           w1 == OpOf(w0, a)
<1>1. Truthful(conf, net, w0)
  <2> DEFINE tr == [i \in {0} |-> net]
  <2>1. w0.ops = <<>> /\ w0.te = conf /\ w0.h = h /\ DOMAIN w0 = {"te", "h", "ops", "bad"}
    BY DEF Begun
  <2> HIDE DEF w0
  <2>2. <<>> \in Seq({}) /\ Len(<<>>) = 0
    OBVIOUS
  <2>3. tr[0] = net /\ \A i \in 1..0 : tr[i] = OnNetwork(conf, tr[i - 1], (<<>>)[i])
    OBVIOUS
  <2> HIDE DEF tr
  <2>4. NetRun(conf, net, <<>>, net)
    BY <2>2, <2>3 DEF NetRun
  <2>5. Leads(conf, net, w0, h.bank, net.bank)
    BY <2>1, <2>4 DEF Leads
  <2> QED
    BY <2>5 DEF Truthful
<1>2. Typed(a)
  BY DEF Typed, OpOk, SelectOk
<1> HIDE DEF w0
<1>3. Truthful(conf, net, w1)
  <2>1. CASE a.op = "select"
    BY <2>1, <1>1, <1>2, SelectLeads DEF OpOf
  <2>2. CASE a.op = "null"
    BY <2>2, <1>1, NullsTruthful DEF OpOf
  <2>3. CASE a.op \in {"nop", "replace"}
    BY <2>3, <1>1, PacketsLead DEF OpOf
  <2>4. CASE a.op = "map_usrop"
    BY <2>4, <1>1, UsropsLead DEF OpOf
  <2>5. CASE a.op = "write_read"
    BY <2>5, <1>1, WriteReadLeads DEF OpOf
  <2>6. a.op \in {"select", "null", "nop", "replace", "map_usrop", "write_read"}
    BY DEF StfOps
  <2> QED
    BY <2>1, <2>2, <2>3, <2>4, <2>5, <2>6
<1> HIDE DEF w1
<1>4. Truthful(conf, net, Waiting(w1, a.wait))
  BY <1>3, NullsTruthful DEF Waiting
<1>5. VerifyStf(conf, h, a) = Waiting(w1, a.wait)
  BY DEF VerifyStf, w1, w0
<1> QED
  BY <1>4, <1>5

\* While an STF script runs on a network that the program selects by itself,
\* history and network agree on the groups.
GroupsInv ==
    family = "STF" /\ resets /\ ~te.network /\ phase \in {"run", "done"} =>
        /\ DOMAIN know.stf = BookParts /\ DOMAIN dut.net = NetParts
        /\ Agreed(know.stf.bank, dut.net.bank)

LEMMA GroupsBegin ==
  /\ DOMAIN NoHistory = BookParts /\ DOMAIN NoNetwork = NetParts
  /\ Agreed(NoHistory.bank, NoNetwork.bank)
<1>1. 0 \in Gids
  <2>1. MaxGid \in Nat
    BY NetworkAssumption
  <2> QED
    BY <2>1 DEF Gids
<1>2. /\ NoHistory.bank = [s \in Stops |-> [b \in Banks |-> None]]
      /\ NoNetwork.bank = [s \in Stops |-> [b \in Banks |-> 0]]
  BY DEF NoHistory, NoNetwork
<1>3. Agreed(NoHistory.bank, NoNetwork.bank)
  BY <1>1, <1>2 DEF Agreed
<1> QED
  BY <1>3 DEF NoHistory, NoNetwork, BookParts, NetParts

LEMMA StfGroups ==
  ASSUME family = "STF", ~te.network, NEW k, NEW d, Shaped(k, d), NEW a \in Actions[family],
         family \in DOMAIN Actions, ~Do(k, d, a).bad,
         DOMAIN k.stf = BookParts, DOMAIN d.net = NetParts, Agreed(k.stf.bank, d.net.bank)
  PROVE  LET r == Do(k, d, a)
         IN  /\ DOMAIN r.know.stf = BookParts /\ DOMAIN r.dut.net = NetParts
             /\ Agreed(r.know.stf.bank, r.dut.net.bank)
<1> DEFINE h == k.stf
           w == VerifyStf(te, h, a)
           r0 == [te |-> te, net |-> d.net, track |-> k.track]
           o == RunOps(r0, w.ops)
           know2 == [k EXCEPT !.stf = w.h, !.track = o.track]
           dut2 == [d EXCEPT !.net = o.net]
           r == Do(k, d, a)
<1>1. r = [bad |-> w.bad, know |-> know2, dut |-> dut2]
  BY StfEffect
<1>2. OpOk(h, a)
  <2>1. w.bad = FALSE
    BY <1>1
  <2>2. Error(Begun(te, h)).bad
    BY DEF Error, Begun
  <2> QED
    BY <2>1, <2>2 DEF VerifyStf
<1>3. a.stops \in Seq(Stops) /\ a.gids \in Seq(Gids) /\ a.bank \in Banks /\ a.op \in StfOps
  BY ArgumentAssumption
<1>4. Truthful(te, d.net, w)
  <2> DEFINE net == d.net
  <2>1. DOMAIN h = BookParts /\ DOMAIN net = NetParts /\ Agreed(h.bank, net.bank)
    OBVIOUS
  <2> HIDE DEF h, net
  <2>2. Truthful(te, net, VerifyStf(te, h, a))
    BY <1>2, <1>3, <2>1, StfLeads
  <2> QED
    BY <2>2 DEF net
<1> HIDE DEF w
<1>5. PICK hb, bk : Leads(te, d.net, w, hb, bk) /\ Agreed(hb, bk)
  BY <1>4 DEF Truthful
<1>6. PICK net : NetRun(te, d.net, w.ops, net) /\ DOMAIN net = NetParts /\ net.bank = bk
  BY <1>5 DEF Leads
<1>7. o.net = net
  <2>1. RunOps([te |-> te, net |-> d.net, track |-> k.track], w.ops).net = net
    BY <1>6, RunsAll
  <2> QED
    BY <2>1
<1> HIDE DEF o
<1>8. know2.stf = w.h /\ dut2.net = net
  BY <1>7 DEF Shaped, Ignorant, Untouched
<1> HIDE DEF know2, dut2
<1>9. r.know.stf = w.h /\ r.dut.net = net
  BY <1>1, <1>8
<1>10. DOMAIN w.h = BookParts /\ w.h.bank = hb
  BY <1>5 DEF Leads
<1> HIDE DEF r
<1> QED
  BY <1>5, <1>6, <1>9, <1>10 DEF r

LEMMA StepGroups ==
  ASSUME WellFormed, GroupsInv, [Next]_vars
  PROVE  GroupsInv'
<1>0. Shaped(know, dut) /\ family \in DOMAIN Actions
  BY DEF WellFormed
<1>00. UNCHANGED <<family, resets, te>>
  BY DEF Next, Verify, BeginRun, Run, Close, vars
<1> SUFFICES ASSUME family = "STF", resets, ~te.network, phase' \in {"run", "done"}
             PROVE  /\ DOMAIN know'.stf = BookParts /\ DOMAIN dut'.net = NetParts
                    /\ Agreed(know'.stf.bank, dut'.net.bank)
  BY <1>00 DEF GroupsInv, Agreed
<1>1. ASSUME NEW a \in Actions[family], Verify(a) PROVE FALSE
  BY <1>1, VerifyStep
<1>2. CASE BeginRun
  <2>1. know'.stf = NoHistory /\ dut'.net = NoNetwork
    BY <1>2 DEF BeginRun, InitialHistory, Ignorant, WellFormed, Untouched
  <2> QED
    BY <2>1, GroupsBegin
<1>3. CASE Run
  <2> DEFINE a == script[at + 1]
             r == Do(know, dut, a)
  <2>1. phase = "run" /\ a \in Actions[family] /\ ~r.bad /\ know' = r.know /\ dut' = r.dut
    BY <1>3, RunStep
  <2>2. /\ DOMAIN know.stf = BookParts /\ DOMAIN dut.net = NetParts
        /\ Agreed(know.stf.bank, dut.net.bank)
    BY <2>1 DEF GroupsInv
  <2>3. /\ DOMAIN r.know.stf = BookParts /\ DOMAIN r.dut.net = NetParts
        /\ Agreed(r.know.stf.bank, r.dut.net.bank)
    BY <1>0, <2>1, <2>2, StfGroups
  <2> HIDE DEF r
  <2> QED
    BY <2>1, <2>3
<1>4. CASE Close
  BY <1>4 DEF Close
<1>5. CASE UNCHANGED vars
  <2>1. phase \in {"run", "done"} /\ UNCHANGED <<know, dut>>
    BY <1>5 DEF vars
  <2>2. /\ DOMAIN know.stf = BookParts /\ DOMAIN dut.net = NetParts
        /\ Agreed(know.stf.bank, dut.net.bank)
    BY <2>1 DEF GroupsInv
  <2> QED
    BY <2>1, <2>2
<1> QED
  BY <1>1, <1>2, <1>3, <1>4, <1>5 DEF Next

TruthInv == WellFormed /\ MachinesInv /\ RatioInv /\ GroupsInv

LEMMA AlwaysTrue == Spec => []TruthInv
<1>1. Init => TruthInv
  <2> SUFFICES ASSUME Init PROVE TruthInv
    OBVIOUS
  <2>1. phase \in {"verify", "rejected"}
    BY DEF Init
  <2> QED
    BY <2>1, InitWellFormed, InitTruth DEF TruthInv, GroupsInv
<1>2. TruthInv /\ [Next]_vars => TruthInv'
  BY StepWellFormed, StepMachines, StepRatio, StepGroups DEF TruthInv
<1> QED
  BY <1>1, <1>2, PTL DEF Spec

\* The groups of the stops are remembered as they are, whatever was selected
\* and deselected, in whichever order and together with whichever others: the
\* hubs come back to the groups that they left to be programmed.
THEOREM GroupsRemembered ==
  Spec => [](Running("STF") /\ resets /\ ~te.network => GroupsTrue)
<1>1. TruthInv => (Running("STF") /\ resets /\ ~te.network => GroupsTrue)
  BY DEF TruthInv, GroupsInv, Running, GroupsTrue, Agreed
<1> QED
  BY <1>1, AlwaysTrue, PTL

-----------------------------------------------------------------------------
(***************************************************************************)
(* A trigger fires what it names.  Of a script that keeps to the           *)
(* conditions of FiresNamed, A are the actions on the machines; S are those*)
(* that are being triggered.                                               *)
(***************************************************************************)
Distinct(A) ==
    /\ A \subseteq UbpActions
    /\ \A a, b \in A : a # b =>
          /\ Machines(a) \cap Machines(b) = {}
          /\ a \in Rearm => Trigger[a] # Trigger[b]
          /\ IsChord(a) /\ IsChord(b) => Reads(16, Trigger[a]) # Reads(16, Trigger[b])

\* An enabled machine belongs to an action that the table has as enabled, that
\* is being triggered, or that armed its machines again when it fired.
Armed(A, S, k, d) ==
    /\ Programmed(k, d) /\ Alone(k.enabled)
    /\ k.enabled \subseteq k.configured /\ k.configured \subseteq A
    /\ \A m \in AllMachines : d.ctl[m] # Nobody =>
          d.ctl[m] \in k.configured /\ m \in Machines(d.ctl[m])
    /\ \A x \in k.enabled \cup S : Machines(x) \subseteq d.on
    /\ \A m \in d.on : \E x \in k.enabled \cup (k.configured \cap Rearm) \cup S : m \in Machines(x)

Rival(x, a) == Trigger[x] = Trigger[a] /\ (IsChord(x) <=> IsChord(a))

LEMMA OffAndOn ==
  ASSUME NEW d, DOMAIN d = {"ctl", "on", "fired"}, NEW as, NEW m
  PROVE  /\ m \in Disable(d, as).on <=> m \in d.on /\ \A x \in as : m \notin Machines(x)
         /\ m \in Enable(d, as).on <=> m \in d.on \/ \E x \in as : m \in Machines(x)
BY DEF Disable, Enable

LEMMA DisablingArms ==
  ASSUME NEW A, Distinct(A), NEW k, NEW d, Armed(A, {}, k, d), NEW act
  PROVE  Armed(A, {}, Disabled(k, d, act).k, Disabled(k, d, act).d)
<1> DEFINE off == IF act.action = Nobody THEN k.enabled ELSE k.enabled \cap {act.action}
           k2 == [k EXCEPT !.enabled = @ \ off]
           d2 == Disable(d, off)
<1>1. Disabled(k, d, act) = [k |-> k2, d |-> d2]
  BY DEF Disabled
<1>2. /\ DOMAIN k = {"enabled", "configured"} /\ DOMAIN d = {"ctl", "on", "fired"}
      /\ k.configured \subseteq UbpActions /\ DOMAIN d.ctl = AllMachines
      /\ \A b \in k.configured : \A m \in Machines(b) : d.ctl[m] = b
  BY DEF Armed, Programmed
<1>3. /\ k.enabled \subseteq k.configured /\ k.configured \subseteq A
      /\ \A x \in k.enabled : Machines(x) \subseteq d.on
      /\ \A m \in d.on : \E x \in k.enabled \cup (k.configured \cap Rearm) : m \in Machines(x)
  BY DEF Armed
<1>4. off \subseteq k.enabled
  OBVIOUS
<1>5. /\ k2.enabled = k.enabled \ off /\ k2.configured = k.configured
      /\ DOMAIN k2 = {"enabled", "configured"}
  BY <1>2
<1>6. /\ DOMAIN d2 = {"ctl", "on", "fired"} /\ d2.ctl = d.ctl
      /\ \A m : m \in d2.on <=> m \in d.on /\ \A x \in off : m \notin Machines(x)
  BY <1>2, DisablingKeeps, OffAndOn
<1> HIDE DEF k2, d2, off
<1>7. Programmed(k2, d2)
  BY <1>2, <1>5, <1>6 DEF Programmed
<1>8. Alone(k2.enabled)
  BY <1>5 DEF Armed, Alone
<1>9. \A x \in k2.enabled : Machines(x) \subseteq d2.on
  BY <1>3, <1>4, <1>5, <1>6 DEF Distinct
<1>10. \A m \in d2.on : \E x \in k2.enabled \cup (k2.configured \cap Rearm) : m \in Machines(x)
  BY <1>3, <1>5, <1>6
<1>11. \A m \in AllMachines : d2.ctl[m] # Nobody =>
          d2.ctl[m] \in k2.configured /\ m \in Machines(d2.ctl[m])
  BY <1>5, <1>6 DEF Armed
<1>12. Armed(A, {}, k2, d2)
  BY <1>3, <1>5, <1>7, <1>8, <1>9, <1>10, <1>11 DEF Armed
<1> QED
  BY <1>1, <1>12

LEMMA EnablingArms ==
  ASSUME NEW A, Distinct(A), NEW k, NEW d, Armed(A, {}, k, d),
         NEW act, act.action \in A, ~act.shared
  PROVE  Armed(A, {}, Enabled(k, d, act).k, Enabled(k, d, act).d)
<1> DEFINE a == act.action
           off == Rivals(k, a)
           conf == k.configured \ Displaced(a)
           k2 == [enabled |-> (k.enabled \ off) \cup {a}, configured |-> conf \cup {a}]
           d1 == Disable(d, off)
           d2 == IF a \in conf THEN d1 ELSE Program(d1, a)
           d3 == Enable(d2, {a})
<1>1. Enabled(k, d, act) = IF a \in k.enabled THEN [k |-> k, d |-> d] ELSE [k |-> k2, d |-> d3]
  BY DEF Enabled
<1>2. /\ DOMAIN k = {"enabled", "configured"} /\ DOMAIN d = {"ctl", "on", "fired"}
      /\ k.configured \subseteq UbpActions /\ DOMAIN d.ctl = AllMachines
      /\ \A b \in k.configured : \A m \in Machines(b) : d.ctl[m] = b
  BY DEF Armed, Programmed
<1>3. /\ k.enabled \subseteq k.configured /\ k.configured \subseteq A
      /\ \A x \in k.enabled : Machines(x) \subseteq d.on
      /\ \A m \in d.on : \E x \in k.enabled \cup (k.configured \cap Rearm) : m \in Machines(x)
  BY DEF Armed
<1>4. a \in UbpActions /\ A \subseteq UbpActions /\ Nobody # a
  BY UbpAssumption DEF Distinct
<1>5. conf = k.configured
  <2> SUFFICES ASSUME NEW b \in k.configured, b \in Displaced(a) PROVE FALSE
    OBVIOUS
  <2>1. b # a /\ Ubp[b] = Ubp[a] /\ Ip[b] = Ip[a] /\ Ip[a] # {}
    BY <1>4, UbpAssumption DEF Displaced
  <2>2. PICK i : i \in Ip[a]
    BY <2>1
  <2>3. <<i, Ubp[a]>> \in Machines(a) /\ <<i, Ubp[a]>> \in Machines(b)
    BY <2>1, <2>2 DEF Machines
  <2> QED
    BY <1>3, <2>1, <2>3 DEF Distinct
<1>6. off = {b \in k.enabled : Rival(b, a)}
  BY DEF Rivals, Rival
<1>7. /\ k2.enabled = (k.enabled \ off) \cup {a} /\ k2.configured = k.configured \cup {a}
      /\ DOMAIN k2 = {"enabled", "configured"}
  BY <1>5
<1>8. /\ DOMAIN d1 = {"ctl", "on", "fired"} /\ d1.ctl = d.ctl
      /\ \A m : m \in d1.on <=> m \in d.on /\ \A x \in off : m \notin Machines(x)
  BY <1>2, DisablingKeeps, OffAndOn
<1> DEFINE ctl2 == [m \in AllMachines |-> IF m \in Machines(a) THEN a ELSE d1.ctl[m]]
<1> HIDE DEF k2, off, a, conf
<1>9. /\ DOMAIN d2 = {"ctl", "on", "fired"} /\ d2.on = d1.on
      /\ d2.ctl = IF a \in conf THEN d.ctl ELSE ctl2
  <2> HIDE DEF d1, ctl2
  <2>1. Program(d1, a) = [d1 EXCEPT !.ctl = ctl2]
    BY DEF Program, ctl2
  <2> QED
    BY <1>8, <2>1
<1> HIDE DEF d2
<1>10. /\ DOMAIN d3 = {"ctl", "on", "fired"} /\ d3.ctl = d2.ctl
       /\ \A m : m \in d3.on <=> m \in d1.on \/ m \in Machines(a)
  BY <1>9, DisablingKeeps, OffAndOn
<1>11. DOMAIN d3.ctl = AllMachines
  BY <1>2, <1>9, <1>10
<1>12. ASSUME NEW m \in AllMachines
       PROVE  d3.ctl[m] = IF m \in Machines(a) THEN a ELSE d.ctl[m]
  BY <1>2, <1>5, <1>8, <1>9, <1>10
<1> HIDE DEF d3, d1, ctl2
<1>13. ASSUME NEW b \in k2.configured, NEW m \in Machines(b) PROVE d3.ctl[m] = b
  <2>1. m \in AllMachines /\ b \in A /\ a \in A
    BY <1>3, <1>4, <1>7, MachinesKnown DEF a
  <2>2. CASE b = a
    BY <1>12, <2>1, <2>2
  <2>3. CASE b # a
    BY <1>2, <1>7, <1>12, <2>1, <2>3 DEF Distinct
  <2> QED
    BY <2>2, <2>3
<1>14. Programmed(k2, d3)
  BY <1>2, <1>4, <1>7, <1>10, <1>9, <1>11, <1>13 DEF Programmed
<1>15. Alone(k2.enabled)
  BY <1>6, <1>7 DEF Armed, Alone, Rival
<1>16. ASSUME NEW m \in AllMachines, d3.ctl[m] # Nobody
       PROVE  d3.ctl[m] \in k2.configured /\ m \in Machines(d3.ctl[m])
  BY <1>7, <1>12, <1>16 DEF Armed
<1>17. ASSUME NEW x \in k2.enabled PROVE Machines(x) \subseteq d3.on
  <2>1. CASE x = a
    BY <1>10, <2>1
  <2>2. CASE x \in k.enabled \ off
    BY <1>3, <1>6, <1>8, <1>10, <2>2 DEF Distinct
  <2> QED
    BY <1>7, <2>1, <2>2
<1>18. \A m \in d3.on : \E x \in k2.enabled \cup (k2.configured \cap Rearm) : m \in Machines(x)
  BY <1>3, <1>7, <1>8, <1>10
<1>19. k2.enabled \subseteq k2.configured /\ k2.configured \subseteq A
  BY <1>3, <1>7 DEF a
<1>20. Armed(A, {}, k2, d3)
  BY <1>14, <1>15, <1>16, <1>17, <1>18, <1>19 DEF Armed
<1> QED
  BY <1>1, <1>20

\* A digit is known from its bits, so two triggers of one bit that share it are
\* the same.
LEMMA DigitBits ==
  ASSUME NEW m \in 0..9, NEW n \in 0..9, BitsOf(m) = BitsOf(n)
  PROVE  m = n
<1>1. 2^0 = 1 /\ 2^1 = 2 /\ 2^2 = 4 /\ 2^3 = 8
  OBVIOUS
<1>2. \A i \in 0..3 : (m \div 2^i) % 2 = 1 <=> (n \div 2^i) % 2 = 1
  <2>1. \A i \in 0..3 : i \in 0..15
    OBVIOUS
  <2>2. \A i \in 0..15 : (m \div 2^i) % 2 = 1 <=> (n \div 2^i) % 2 = 1
    BY DEF BitsOf
  <2> QED
    BY <2>1, <2>2
<1>3. /\ m % 2 = 1 <=> n % 2 = 1
      /\ (m \div 2) % 2 = 1 <=> (n \div 2) % 2 = 1
      /\ (m \div 4) % 2 = 1 <=> (n \div 4) % 2 = 1
      /\ (m \div 8) % 2 = 1 <=> (n \div 8) % 2 = 1
  <2>1. 0 \in 0..3 /\ 1 \in 0..3 /\ 2 \in 0..3 /\ 3 \in 0..3 /\ m \div 1 = m /\ n \div 1 = n
    OBVIOUS
  <2> QED
    BY <1>1, <1>2, <2>1
<1> QED
  BY <1>3

Digit(base, unused, n, x) == base * n + x
Dg == INSTANCE FoldFacts WITH op <- Digit

LEMMA OneDigit ==
  ASSUME NEW base \in Nat, NEW s \in Seq(0..9), Len(s) = 1
  PROVE  Reads(base, s) = s[1]
<1> DEFINE n == Len(s)
<1>1. n \in Nat /\ DOMAIN s = 1..n /\ \A i \in 1..n : s[i] \in 0..9
  <2>1. PICK D : D = 0..9
    OBVIOUS
  <2>2. s \in Seq(D)
    BY <2>1
  <2>3. n \in Nat /\ DOMAIN s = 1..n /\ \A i \in 1..n : s[i] \in D
    BY <2>2
  <2> QED
    BY <2>1, <2>3
<1>2. PICK z : z = 0
  OBVIOUS
<1> DEFINE r == Dg!Fold(base, base, z, s)
<1>3. Reads(base, s) = r
  BY <1>2 DEF Reads, Digit, FoldLeft, MapThenFoldSet, Max, Dg!Fold, Dg!Top
<1>4. PICK g : Dg!Steps(g, base, base, z, s, n) /\ r = g[n]
  <2> HIDE DEF n
  <2> QED
    BY <1>1, Dg!FoldSteps
<1>5. n = 1 /\ g[1] = Digit(base, base, g[0], s[1]) /\ g[0] = z
  <2>1. g[0] = z /\ \A i \in 1..n : g[i] = Digit(base, base, g[i - 1], s[i])
    BY <1>4 DEF Dg!Steps
  <2> QED
    BY <2>1
<1> HIDE DEF r
<1>6. base * 0 + s[1] = s[1]
  BY <1>1
<1> QED
  BY <1>2, <1>3, <1>4, <1>5, <1>6 DEF Digit

LEMMA PinFires ==
  ASSUME NEW a \in UbpActions, ~IsChord(a), OneBit(a)
  PROVE  /\ BitsOf(Reads(16, Trigger[a])) = {Pin(a)}
         /\ \A x \in UbpActions : ~IsChord(x) /\ OneBit(x) /\ Pin(a) \in BitsOf(Reads(16, Trigger[x]))
               => Trigger[x] = Trigger[a]
<1> DEFINE One(x) == /\ Trigger[x] = <<Trigger[x][1]>> /\ Trigger[x][1] \in 0..9
                     /\ Reads(16, Trigger[x]) = Trigger[x][1]
                     /\ BitsOf(Trigger[x][1]) = {Pin(x)}
<1>1. ASSUME NEW x \in UbpActions, ~IsChord(x), OneBit(x) PROVE One(x)
  <2> DEFINE d == Trigger[x][1]
  <2>1. Trigger[x] \in Seq(0..9) /\ Len(Trigger[x]) = 1 /\ Cardinality(BitsOf(d)) = 1
    BY <1>1, UbpAssumption DEF OneBit
  <2>2. Trigger[x] = <<d>> /\ d \in 0..9
    BY <2>1
  <2>3. Reads(16, Trigger[x]) = d /\ Reads(10, Trigger[x]) = d
    BY <2>1, OneDigit
  <2>4. IsFiniteSet(BitsOf(d))
    <3>1. 0 \in Int /\ 15 \in Int
      OBVIOUS
    <3>2. IsFiniteSet(0..15)
      BY <3>1, FS_Interval
    <3>3. BitsOf(d) \subseteq 0..15
      BY DEF BitsOf
    <3> QED
      BY <3>2, <3>3, FS_Subset
  <2>5. PICK p : BitsOf(d) = {p}
    BY <2>1, <2>4, FS_Singleton
  <2>6. p \in 0..15
    BY <2>5 DEF BitsOf
  <2>7. Pin(x) = CHOOSE i \in BitsOf(d) : \A j \in BitsOf(d) : i <= j
    BY <2>3 DEF Pin
  <2> HIDE DEF d
  <2>8. Pin(x) = p
    BY <2>5, <2>6, <2>7
  <2> QED
    BY <2>2, <2>3, <2>5, <2>8 DEF d
<1>2. One(a)
  BY <1>1
<1>3. ASSUME NEW x \in UbpActions, ~IsChord(x), OneBit(x), Pin(a) \in BitsOf(Reads(16, Trigger[x]))
      PROVE  Trigger[x] = Trigger[a]
  <2>1. One(x)
    BY <1>1, <1>3
  <2>2. BitsOf(Trigger[x][1]) = BitsOf(Trigger[a][1])
    BY <2>1, <1>2, <1>3
  <2>3. Trigger[x][1] = Trigger[a][1]
    BY <2>1, <2>2, <1>2, DigitBits
  <2> QED
    BY <2>1, <2>3, <1>2
<1> QED
  BY <1>2, <1>3

Pins(as) == {Pin(a) : a \in {b \in AllOf(as) : ~IsChord(b)}}
Chords(as) == {Reads(16, Trigger[a]) : a \in {b \in AllOf(as) : IsChord(b)}}

LEMMA PinsDriven ==
  ASSUME NEW act, act.actions \in Seq(UbpActions), TriggerOk(te, act), Drives(act)
  PROVE  /\ Driven(te, act).pins = Pins(act.actions)
         /\ Driven(te, act).chords = Chords(act.actions)
<1> DEFINE as == act.actions
           n == Len(as)
<1>1. n \in Nat /\ DOMAIN as = 1..n /\ \A i \in 1..n : as[i] \in UbpActions
  OBVIOUS
<1>2. AllOf(as) = {as[i] : i \in 1..n}
  BY DEF AllOf
<1>3. Driven(te, act).chords = Chords(as)
  BY <1>2 DEF Driven, Chords
<1> DEFINE pulsed == {Pin(a) : a \in {b \in {as[i] : i \in 1..n} : ~IsChord(b)}}
<1>4. pulsed = Pins(as)
  BY <1>2 DEF Pins
<1>5. Driven(te, act).pins =
        (IF act.byTap THEN TapPins(as) ELSE {})
           \cup (IF act.pulse /\ ~te.cycles THEN {} ELSE IF act.byTap THEN {} ELSE pulsed)
  BY DEF Driven
<1> HIDE DEF pulsed
<1>6. CASE ~act.byTap
  <2>1. act.pulse => te.cycles
    BY <1>6 DEF Drives
  <2> QED
    BY <2>1, <1>3, <1>4, <1>5, <1>6
<1>7. CASE act.byTap
  <2> DEFINE sent == {i \in 1..n : ~IsChord(as[i]) /\ as[i] \in DOMAIN TapTrigger}
             last == {i \in sent : \A j \in sent : j > i => TapTrigger[as[j]].reg # TapTrigger[as[i]].reg}
  <2>1. \A i \in 1..n : ~IsChord(as[i]) => as[i] \in DOMAIN TapTrigger
    BY <1>1, <1>7 DEF TriggerOk
  <2>2. TapPins(as) = UNION {TapTrigger[as[i]].pins : i \in last}
    BY DEF TapPins
  <2> HIDE DEF as, n
  <2>3. \A i \in 1..n : as[i] \in DOMAIN TapTrigger =>
           /\ TapTrigger[as[i]].pins = {Pin(as[i])}
           /\ \A j \in 1..n : as[j] \in DOMAIN TapTrigger /\ as[j] # as[i] =>
                 TapTrigger[as[j]].reg # TapTrigger[as[i]].reg
    BY <1>2, <1>7 DEF Drives, as
  <2>4. ASSUME NEW p \in TapPins(as) PROVE p \in Pins(as)
    <3>1. PICK i \in last : p \in TapTrigger[as[i]].pins
      BY <2>2
    <3>2. i \in 1..n /\ ~IsChord(as[i]) /\ as[i] \in DOMAIN TapTrigger
      OBVIOUS
    <3>3. p = Pin(as[i]) /\ as[i] \in AllOf(as)
      BY <3>1, <3>2, <2>3, <1>2
    <3> QED
      BY <3>2, <3>3 DEF Pins
  <2>5. ASSUME NEW p \in Pins(as) PROVE p \in TapPins(as)
    <3>1. PICK i \in 1..n : ~IsChord(as[i]) /\ p = Pin(as[i])
      BY <1>2 DEF Pins
    <3> DEFINE S == {j \in 1..n : as[j] = as[i]}
               top == Pr!Top(S)
    <3>2. S \in SUBSET (1..n) /\ S # {}
      OBVIOUS
    <3> HIDE DEF S
    <3>3. top \in S /\ \A j \in S : j <= top
      BY <1>1, <3>2, Pr!TopOf
    <3> HIDE DEF top
    <3>4. as[top] = as[i] /\ top \in 1..n
      BY <3>3 DEF S
    <3>5. top \in sent
      BY <3>1, <3>4, <2>1
    <3>6. ASSUME NEW j \in sent, j > top PROVE TapTrigger[as[j]].reg # TapTrigger[as[top]].reg
      <4>1. j \notin S /\ j \in 1..n
        BY <1>1, <3>3, <3>4, <3>6
      <4>2. as[j] # as[top] /\ as[j] \in DOMAIN TapTrigger /\ as[top] \in DOMAIN TapTrigger
        BY <4>1, <3>4, <3>5 DEF S
      <4> QED
        BY <4>1, <4>2, <3>4, <2>3
    <3>7. top \in last /\ p \in TapTrigger[as[top]].pins
      BY <3>1, <3>4, <3>5, <3>6, <2>3
    <3> HIDE DEF last
    <3> QED
      BY <3>7, <2>2
  <2>6. TapPins(as) = Pins(as)
    BY <2>4, <2>5
  <2> QED
    BY <2>6, <1>3, <1>5, <1>7 DEF as
<1> QED
  BY <1>6, <1>7

\* What becomes of table and machines, one action of a trigger after the other.
Midway(A, act, i, k0, q) ==
    LET done == {act.actions[j] : j \in 1..i}
    IN  /\ DOMAIN q = {"k", "d", "bad"}
        /\ ~q.bad =>
             /\ TriggerOk(te, act) /\ done \subseteq q.k.configured
             /\ q.k.configured = k0.configured
             /\ Armed(A, done, q.k, q.d)
             /\ \A a \in done : /\ a \in q.k.enabled => a \in Rearm
                                /\ \A x \in q.k.enabled \ AllOf(act.actions) : ~Rival(x, a)

LEMMA PreparingArms ==
  ASSUME NEW A, Distinct(A), NEW act, act.actions \in Seq(UbpActions), NEW k0,
         NEW i \in 1..Len(act.actions), NEW q, Midway(A, act, i - 1, k0, q)
  PROVE  Midway(A, act, i, k0, Prepare(FALSE, act, q, act.actions[i]))
<1> DEFINE a == act.actions[i]
           named == AllOf(act.actions)
           before == {act.actions[j] : j \in 1..(i - 1)}
           after == {act.actions[j] : j \in 1..i}
           k == q.k
           d == q.d
           was == k.enabled \ (IF act.force THEN {a} ELSE {})
           off == IF a \in was THEN {} ELSE Rivals([k EXCEPT !.enabled = was], a) \ named
           left == was \ off
           en2 == IF a \in left /\ a \in Rearm THEN left ELSE left \ {a}
           k2 == [k EXCEPT !.enabled = en2]
           d1 == Disable(d, off)
           d2 == IF a \in was THEN d ELSE Enable(d1, {a})
           bad2 == q.bad \/ a \notin k.configured
           r == [k |-> k2, d |-> d2, bad |-> bad2]
<1>1. Prepare(FALSE, act, q, a) = r
  BY DEF Prepare, AllOf
<1>2. after = before \cup {a} /\ a \in named /\ before \subseteq named /\ i \in Nat
  <2>1. Len(act.actions) \in Nat
    OBVIOUS
  <2>2. 1..i = (1..(i - 1)) \cup {i} /\ i \in Nat /\ 1..(i - 1) \subseteq 1..Len(act.actions)
    BY <2>1
  <2> QED
    BY <2>2 DEF AllOf
<1>3. DOMAIN r = {"k", "d", "bad"} /\ r.k = k2 /\ r.d = d2 /\ r.bad = bad2
  OBVIOUS
<1> SUFFICES ASSUME ~bad2
             PROVE  /\ TriggerOk(te, act) /\ after \subseteq k2.configured
                    /\ k2.configured = k0.configured
                    /\ Armed(A, after, k2, d2)
                    /\ \A b \in after : /\ b \in k2.enabled => b \in Rearm
                                        /\ \A x \in k2.enabled \ named : ~Rival(x, b)
  <2> HIDE DEF r, k2, d2, bad2, a
  <2> QED
    BY <1>1, <1>3 DEF Midway, a
<1>4. ~q.bad /\ a \in k.configured
  OBVIOUS
<1>5. /\ TriggerOk(te, act) /\ before \subseteq k.configured
      /\ k.configured = k0.configured
      /\ Armed(A, before, k, d)
      /\ \A b \in before : /\ b \in k.enabled => b \in Rearm
                           /\ \A x \in k.enabled \ named : ~Rival(x, b)
  <2> HIDE DEF named
  <2> QED
    BY <1>4 DEF Midway, named
<1>6. /\ DOMAIN k = {"enabled", "configured"} /\ DOMAIN d = {"ctl", "on", "fired"}
      /\ Programmed(k, d) /\ Alone(k.enabled)
      /\ k.enabled \subseteq k.configured /\ k.configured \subseteq A
      /\ \A x \in k.enabled \cup before : Machines(x) \subseteq d.on
      /\ \A m \in d.on : \E x \in k.enabled \cup (k.configured \cap Rearm) \cup before : m \in Machines(x)
  BY <1>5 DEF Armed, Programmed
<1>7. k2.enabled = en2 /\ k2.configured = k.configured /\ DOMAIN k2 = {"enabled", "configured"}
  BY <1>6
<1>8. off = IF a \in was THEN {} ELSE {x \in was : Rival(x, a)} \ named
  BY <1>6 DEF Rivals, Rival
<1>9. /\ DOMAIN d1 = {"ctl", "on", "fired"} /\ d1.ctl = d.ctl
      /\ \A m : m \in d1.on <=> m \in d.on /\ \A x \in off : m \notin Machines(x)
  <2> HIDE DEF off, d, k
  <2> QED
    BY <1>6, DisablingKeeps, OffAndOn
<1>10. /\ was \subseteq k.enabled /\ en2 \subseteq was \ off /\ (was \ off) \ {a} \subseteq en2
       /\ a \in en2 => a \in Rearm
       /\ k.enabled \ was \subseteq {a}
  OBVIOUS
<1> HIDE DEF d1, off, k2, en2
<1>11. /\ DOMAIN d2 = {"ctl", "on", "fired"} /\ d2.ctl = d.ctl
       /\ \A m : m \in d2.on <=> \/ a \in was /\ m \in d.on
                                 \/ a \notin was /\ (m \in d1.on \/ m \in Machines(a))
  <2>1. CASE a \in was
    BY <2>1, <1>6
  <2>2. CASE a \notin was
    BY <2>2, <1>9, DisablingKeeps, OffAndOn
  <2> QED
    BY <2>1, <2>2
<1> HIDE DEF d2, was, left, before, after, named, a, k, d, bad2, r
<1>12. Programmed(k2, d2)
  BY <1>6, <1>7, <1>11 DEF Programmed
<1>13. Alone(k2.enabled) /\ k2.enabled \subseteq k2.configured /\ k2.configured \subseteq A
  BY <1>6, <1>7, <1>10 DEF Alone
<1>14. \A m \in AllMachines : d2.ctl[m] # Nobody =>
          d2.ctl[m] \in k2.configured /\ m \in Machines(d2.ctl[m])
  BY <1>5, <1>7, <1>11 DEF Armed
<1>15. \A x \in off : x \in k.enabled /\ x \notin named
  BY <1>8, <1>10
<1>16. ASSUME NEW x \in k2.enabled \cup after PROVE Machines(x) \subseteq d2.on
  <2>1. CASE x = a
    BY <2>1, <1>6, <1>10, <1>11
  <2>2. CASE x \in (was \ off) \cup before
    <3>1. Machines(x) \subseteq d.on /\ x \in A
      BY <2>2, <1>5, <1>6, <1>10
    <3>2. ASSUME NEW y \in off PROVE Machines(x) \cap Machines(y) = {}
      <4>1. y \in A /\ y # x
        BY <2>2, <3>2, <1>2, <1>6, <1>15
      <4> QED
        BY <3>1, <4>1 DEF Distinct
    <3> QED
      BY <3>1, <3>2, <1>9, <1>11
  <2> QED
    BY <2>1, <2>2, <1>2, <1>7, <1>10
<1>17. ASSUME NEW m \in d2.on
       PROVE  \E x \in k2.enabled \cup (k2.configured \cap Rearm) \cup after : m \in Machines(x)
  <2>1. CASE m \in Machines(a)
    BY <2>1, <1>2
  <2>2. CASE m \notin Machines(a)
    <3>1. m \in d.on /\ \A x \in off : m \notin Machines(x)
      BY <2>2, <1>8, <1>9, <1>11
    <3>2. PICK x \in k.enabled \cup (k.configured \cap Rearm) \cup before : m \in Machines(x)
      BY <3>1, <1>6
    <3>3. x # a /\ x \notin off
      BY <2>2, <3>1, <3>2
    <3> QED
      BY <3>2, <3>3, <1>2, <1>7, <1>10
  <2> QED
    BY <2>1, <2>2
<1>18. Armed(A, after, k2, d2)
  BY <1>12, <1>13, <1>14, <1>16, <1>17 DEF Armed
<1>19. ASSUME NEW b \in after
       PROVE  /\ b \in k2.enabled => b \in Rearm
              /\ \A x \in k2.enabled \ named : ~Rival(x, b)
  <2>1. CASE b \in before
    BY <2>1, <1>5, <1>7, <1>10
  <2>2. CASE b = a
    <3>1. ASSUME NEW x \in k2.enabled \ named PROVE ~Rival(x, a)
      <4>1. x \in was \ off /\ x # a /\ x \in k.enabled
        BY <1>2, <1>7, <1>10
      <4>2. CASE a \in was
        BY <4>1, <4>2, <1>6, <1>10 DEF Alone, Rival
      <4>3. CASE a \notin was
        BY <4>1, <4>3, <1>8
      <4> QED
        BY <4>2, <4>3
    <3> QED
      BY <2>2, <3>1, <1>7, <1>10
  <2> QED
    BY <2>1, <2>2, <1>2
<1> QED
  BY <1>2, <1>4, <1>5, <1>7, <1>18, <1>19

LEMMA AllFire ==
  ASSUME NEW A, Distinct(A), \A x \in A : OneBit(x),
         NEW act, act.actions \in Seq(UbpActions), Drives(act),
         NEW k0, NEW q, Midway(A, act, Len(act.actions), k0, q), ~q.bad
  PROVE  /\ Fire(q.d, Driven(te, act)).fired = AllOf(act.actions)
         /\ Armed(A, {}, q.k, Fire(q.d, Driven(te, act)))
<1> DEFINE named == AllOf(act.actions)
           driven == Driven(te, act)
           k == q.k
           d == q.d
           hit == {m \in AllMachines : Meant(d, driven, m)}
           e == [d EXCEPT !.fired = {d.ctl[m] : m \in hit},
                          !.on = @ \ {m \in hit : d.ctl[m] \notin Rearm}]
<1>1. Fire(d, driven) = e
  BY DEF Fire
<1>2. /\ TriggerOk(te, act) /\ named \subseteq k.configured
      /\ Armed(A, named, k, d)
      /\ \A a \in named : /\ a \in k.enabled => a \in Rearm
                          /\ \A x \in k.enabled \ named : ~Rival(x, a)
  BY DEF Midway, AllOf
<1>3. driven.pins = Pins(act.actions) /\ driven.chords = Chords(act.actions)
  BY <1>2, PinsDriven
<1>4. /\ DOMAIN d = {"ctl", "on", "fired"} /\ DOMAIN d.ctl = AllMachines
      /\ \A b \in k.configured : \A m \in Machines(b) : d.ctl[m] = b
      /\ DOMAIN k = {"enabled", "configured"} /\ Alone(k.enabled)
      /\ k.enabled \subseteq k.configured /\ k.configured \subseteq A /\ A \subseteq UbpActions
      /\ \A m \in AllMachines : d.ctl[m] # Nobody =>
            d.ctl[m] \in k.configured /\ m \in Machines(d.ctl[m])
      /\ \A x \in k.enabled \cup named : Machines(x) \subseteq d.on
      /\ \A m \in d.on : \E x \in k.enabled \cup (k.configured \cap Rearm) \cup named : m \in Machines(x)
  BY <1>2 DEF Armed, Programmed, Distinct
<1>5. e.ctl = d.ctl /\ e.on = d.on \ {m \in hit : d.ctl[m] \notin Rearm}
      /\ e.fired = {d.ctl[m] : m \in hit} /\ DOMAIN e = {"ctl", "on", "fired"}
  BY <1>4
<1> HIDE DEF e, d, k, driven, named
<1>6. ASSUME NEW a \in named, NEW m \in Machines(a) PROVE m \in hit /\ d.ctl[m] = a
  <2>1. a \in k.configured /\ a \in UbpActions /\ m \in AllMachines /\ a # Nobody
    BY <1>2, <1>4, MachinesKnown, UbpAssumption
  <2>2. d.ctl[m] = a /\ m \in d.on
    BY <1>4, <2>1
  <2>3. CASE IsChord(a)
    <3>1. Reads(16, Trigger[a]) \in driven.chords
      BY <1>3, <2>3 DEF Chords, named
    <3> QED
      BY <2>1, <2>2, <2>3, <3>1 DEF Meant
  <2>4. CASE ~IsChord(a)
    <3>1. Pin(a) \in driven.pins
      BY <1>3, <2>4 DEF Pins, named
    <3>2. BitsOf(Reads(16, Trigger[a])) = {Pin(a)}
      BY <1>2, <1>4, <2>1, <2>4, PinFires
    <3> QED
      BY <2>1, <2>2, <2>4, <3>1, <3>2 DEF Meant
  <2> QED
    BY <2>3, <2>4
<1>7. ASSUME NEW m \in hit PROVE d.ctl[m] \in named /\ m \in Machines(d.ctl[m])
  <2> DEFINE x == d.ctl[m]
  <2>1. m \in AllMachines /\ x # Nobody /\ (m \in d.on \/ m[2] \notin HasEnable)
        /\ (IF IsChord(x) THEN Reads(16, Trigger[x]) \in driven.chords
                          ELSE BitsOf(Reads(16, Trigger[x])) \cap driven.pins # {})
    BY DEF Meant
  <2>2. x \in k.configured /\ x \in A /\ x \in UbpActions /\ m \in Machines(x)
    BY <1>4, <2>1
  <2>3. named \subseteq A
    BY <1>2, <1>4
  <2> HIDE DEF x, hit
  <2>4. CASE IsChord(x)
    <3>1. PICK a \in named : IsChord(a) /\ Reads(16, Trigger[a]) = Reads(16, Trigger[x])
      BY <1>3, <2>1, <2>4 DEF Chords, named
    <3>2. a = x
      BY <2>2, <2>3, <2>4, <3>1 DEF Distinct
    <3> QED
      BY <2>2, <3>2 DEF x
  <2>5. CASE ~IsChord(x)
    <3>1. PICK a \in named : ~IsChord(a) /\ Pin(a) \in BitsOf(Reads(16, Trigger[x]))
      BY <1>3, <2>1, <2>5 DEF Pins, named
    <3>2. a \in A /\ a \in UbpActions
      BY <2>3, <1>4
    <3>3. Trigger[x] = Trigger[a]
      BY <2>2, <2>5, <3>1, <3>2, PinFires
    <3>4. m \in d.on
      BY <2>1, <2>2, <2>5 DEF IsChord, Machines
    <3>5. PICK y \in k.enabled \cup (k.configured \cap Rearm) \cup named : m \in Machines(y)
      BY <1>4, <3>4
    <3>6. y \in A
      BY <1>4, <2>3, <3>5
    <3>7. y = x
      BY <2>2, <3>5, <3>6 DEF Distinct
    <3>8. x \in named
      <4> SUFFICES ASSUME x \notin named PROVE FALSE
        OBVIOUS
      <4>1. x # a
        OBVIOUS
      <4>2. Rival(x, a)
        BY <2>5, <3>1, <3>3 DEF Rival
      <4>3. x \notin k.enabled
        BY <1>2, <4>2
      <4>4. x \in Rearm
        BY <3>5, <3>7, <4>3
      <4> QED
        BY <2>2, <3>2, <3>3, <4>1, <4>4 DEF Distinct
    <3> QED
      BY <2>2, <3>8 DEF x
  <2> QED
    BY <2>4, <2>5
<1> HIDE DEF hit
<1>8. e.fired = named
  <2>1. ASSUME NEW a \in named PROVE a \in e.fired
    <3>1. a \in UbpActions /\ Ip[a] # {}
      BY <1>2, <1>4, UbpAssumption
    <3>2. PICK i : i \in Ip[a]
      BY <3>1
    <3>3. <<i, Ubp[a]>> \in Machines(a)
      BY <3>2 DEF Machines
    <3> QED
      BY <1>5, <1>6, <3>3
  <2> QED
    BY <2>1, <1>5, <1>7
<1>9. ASSUME NEW x \in k.enabled PROVE Machines(x) \subseteq e.on
  <2>1. ASSUME NEW m \in Machines(x), m \in hit PROVE d.ctl[m] \in Rearm
    <3>1. d.ctl[m] = x /\ x \in named
      BY <1>4, <1>7, <2>1
    <3> QED
      BY <3>1, <1>2
  <2> QED
    BY <2>1, <1>4, <1>5
<1>10. ASSUME NEW m \in e.on PROVE \E x \in k.enabled \cup (k.configured \cap Rearm) : m \in Machines(x)
  <2>1. m \in d.on /\ ~(m \in hit /\ d.ctl[m] \notin Rearm)
    BY <1>5
  <2>2. PICK x \in k.enabled \cup (k.configured \cap Rearm) \cup named : m \in Machines(x)
    BY <1>4, <2>1
  <2>3. x \in named => x \in k.configured \cap Rearm
    BY <1>2, <1>6, <2>1, <2>2
  <2> QED
    BY <2>2, <2>3
<1>11. Programmed(k, e)
  BY <1>2, <1>4, <1>5 DEF Armed, Programmed
<1>12. Armed(A, {}, k, e)
  BY <1>4, <1>5, <1>9, <1>10, <1>11 DEF Armed
<1> QED
  BY <1>1, <1>8, <1>12 DEF k, d, driven, named

LEMMA TriggeringArms ==
  ASSUME NEW A, Distinct(A), \A x \in A : OneBit(x),
         NEW act, act.actions \in Seq(UbpActions), Drives(act) , NEW v, v = FALSE,
         NEW k, NEW d, Armed(A, {}, k, d), ~DoTrigger(v, te, k, d, act).bad
  PROVE  /\ DoTrigger(v, te, k, d, act).d.fired = AllOf(act.actions)
         /\ Armed(A, {}, DoTrigger(v, te, k, d, act).k, DoTrigger(v, te, k, d, act).d)
<1> DEFINE n == Len(act.actions)
           b == [k |-> k, d |-> d, bad |-> ~TriggerOk(te, act)]
           r == Pr!Fold(v, act, b, act.actions)
<1>0. DOMAIN act.actions = 1..n /\ n \in Nat
  OBVIOUS
<1>1. DoTrigger(v, te, k, d, act) = [r EXCEPT !.d = Fire(@, Driven(te, act))]
  BY DEF DoTrigger, FoldLeft, MapThenFoldSet, Max, Pr!Fold, Pr!Top
<1>2. PICK g : Pr!Steps(g, v, act, b, act.actions, n) /\ r = g[n]
  BY <1>0, Pr!FoldSteps
<1> HIDE DEF r
<1> DEFINE P == {i \in 0..n : Midway(A, act, i, k, g[i])}
<1>3. 0 \in P
  <2>1. g[0] = b /\ 0 \in 0..n
    BY <1>0, <1>2 DEF Pr!Steps
  <2>2. DOMAIN b = {"k", "d", "bad"} /\ b.k = k /\ b.d = d /\ b.bad = ~TriggerOk(te, act)
    OBVIOUS
  <2>3. {act.actions[j] : j \in 1..0} = {}
    OBVIOUS
  <2> HIDE DEF b, n
  <2>4. Midway(A, act, 0, k, b)
    BY <2>2, <2>3 DEF Midway
  <2> QED
    BY <2>1, <2>4
<1>4. ASSUME NEW i \in 1..n, i - 1 \in P PROVE i \in P
  <2>1. g[i] = Prepare(v, act, g[i - 1], act.actions[i]) /\ i \in 0..n
    BY <1>2 DEF Pr!Steps
  <2>2. Midway(A, act, i - 1, k, g[i - 1])
    BY <1>4
  <2>3. Midway(A, act, i, k, Prepare(FALSE, act, g[i - 1], act.actions[i]))
    BY <2>2, PreparingArms
  <2> HIDE DEF n
  <2> QED
    BY <2>1, <2>3
<1>5. \A i \in 0..n : i \in P
  <2> HIDE DEF P, n
  <2> QED
    BY <1>0, <1>3, <1>4, Pr!BoundedInduction
<1>6. Midway(A, act, n, k, r)
  BY <1>0, <1>2, <1>5
<1>7. DOMAIN r = {"k", "d", "bad"}
  BY <1>6 DEF Midway
<1> DEFINE e == Fire(r.d, Driven(te, act))
<1>8. [r EXCEPT !.d = e].k = r.k /\ [r EXCEPT !.d = e].d = e /\ [r EXCEPT !.d = e].bad = r.bad
  BY <1>7
<1>9. ~r.bad
  BY <1>1, <1>8
<1> HIDE DEF n
<1>10. e.fired = AllOf(act.actions) /\ Armed(A, {}, r.k, e)
  BY <1>6, <1>9, AllFire DEF n
<1> HIDE DEF e
<1> QED
  BY <1>1, <1>8, <1>10 DEF e

-----------------------------------------------------------------------------
\* Table and machines agree between the actions of the run pass.
Orderly == resets /\ Every(Plainly) /\ Separate /\ \A x \in Acted : OneBit(x)
ArmedInv ==
    Running("UBP") /\ Orderly => Armed(Acted \cap UbpActions, {}, know.ubp, dut.ubp)

LEMMA ActedApart ==
  ASSUME WellFormed, Separate, NEW i \in 1..Len(script)
  PROVE  /\ Distinct(Acted \cap UbpActions)
         /\ script[i].op = "trigger" /\ script[i].actions \in Seq(UbpActions) =>
              script[i].actions \in Seq(Acted \cap UbpActions)
         /\ script[i].op = "enable" /\ script[i].action \in UbpActions =>
              script[i].action \in Acted \cap UbpActions
<1> DEFINE of(j) == IF script[j].op = "trigger" THEN AllOf(script[j].actions) ELSE {script[j].action}
<1>1. Acted = (UNION {of(j) : j \in 1..Len(script)}) \ {Nobody}
  BY DEF Acted
<1>2. of(i) \cap UbpActions \subseteq Acted
  <2> DEFINE all == {of(j) : j \in 1..Len(script)}
             mine == of(i)
  <2>1. Nobody \notin UbpActions
    BY UbpAssumption
  <2>2. mine \in all /\ Acted = (UNION all) \ {Nobody}
    BY <1>1
  <2> HIDE DEF all, mine
  <2>3. mine \cap UbpActions \subseteq Acted
    BY <2>1, <2>2
  <2> QED
    BY <2>3 DEF mine
<1>3. ASSUME script[i].op = "trigger", script[i].actions \in Seq(UbpActions)
      PROVE  script[i].actions \in Seq(Acted \cap UbpActions)
  <2> DEFINE as == script[i].actions
  <2>1. /\ Len(as) \in Nat /\ DOMAIN as = 1..Len(as) /\ as = [j \in 1..Len(as) |-> as[j]]
        /\ \A j \in 1..Len(as) : as[j] \in UbpActions
    BY <1>3
  <2>2. \A j \in 1..Len(as) : as[j] \in Acted \cap UbpActions
    BY <2>1, <1>2, <1>3 DEF AllOf
  <2> HIDE DEF as
  <2> QED
    BY <2>1, <2>2 DEF as
<1>4. script[i].op = "enable" => of(i) = {script[i].action}
  OBVIOUS
<1>5. Distinct(Acted \cap UbpActions)
  BY DEF Separate, Distinct
<1> QED
  BY <1>2, <1>3, <1>4, <1>5

\* The effect of an action of such a script.
LEMMA BreakArms ==
  ASSUME WellFormed, family = "UBP", Orderly, phase = "run", NEW i \in 1..Len(script),
         Armed(Acted \cap UbpActions, {}, know.ubp, dut.ubp),
         ~Do(know, dut, script[i]).bad
  PROVE  LET r == Do(know, dut, script[i])
         IN  /\ Armed(Acted \cap UbpActions, {}, r.know.ubp, r.dut.ubp)
             /\ script[i].op = "trigger" => r.dut.ubp.fired = AllOf(script[i].actions)
<1> DEFINE a == script[i]
           A == Acted \cap UbpActions
           k == know.ubp
           d == dut.ubp
<1>1. "ubp" \in DOMAIN know /\ "ubp" \in DOMAIN dut /\ a \in Actions[family]
  BY DEF WellFormed, Shaped, Ignorant, Untouched
<1>2. /\ a.op = "enable" => a.action \in UbpActions /\ ~a.shared
      /\ a.op = "trigger" => a.actions \in Seq(UbpActions) /\ Drives(a)
      /\ a.op \in {"enable", "disable", "trigger"}
  BY <1>1, ArgumentAssumption DEF WellFormed, Orderly, Every, Plainly
<1>3. Distinct(A) /\ (a.op = "enable" => a.action \in A) /\ \A x \in A : OneBit(x)
  BY <1>2, ActedApart DEF Orderly
<1>4. CASE a.op = "trigger"
  <2>1. PICK v : v = FALSE
    OBVIOUS
  <2> DEFINE r == DoTrigger(v, te, k, d, a)
  <2>2. (phase = "verify") = FALSE
    OBVIOUS
  <2>3. Do(know, dut, a) =
          [bad |-> DoTrigger(phase = "verify", te, k, d, a).bad,
           know |-> [know EXCEPT !.ubp = DoTrigger(phase = "verify", te, k, d, a).k],
           dut |-> [dut EXCEPT !.ubp = DoTrigger(phase = "verify", te, k, d, a).d]]
    BY <1>4, TriggerEffect
  <2>4. Do(know, dut, a) =
          [bad |-> r.bad, know |-> [know EXCEPT !.ubp = r.k], dut |-> [dut EXCEPT !.ubp = r.d]]
    BY <2>1, <2>2, <2>3
  <2>5. ~r.bad
    BY <2>4
  <2>6. r.d.fired = AllOf(a.actions) /\ Armed(A, {}, r.k, r.d)
    <3>1. Armed(A, {}, k, d) /\ a.actions \in Seq(UbpActions) /\ Drives(a)
      BY <1>2, <1>4
    <3> HIDE DEF a, A, k, d
    <3> QED
      BY <1>3, <2>1, <2>5, <3>1, TriggeringArms
  <2> HIDE DEF r
  <2> QED
    BY <1>1, <2>4, <2>6
<1>5. CASE a.op # "trigger"
  <2> DEFINE r == DoUbp(k, d, a)
  <2>1. Armed(A, {}, r.k, r.d)
    <3>1. CASE a.op = "enable"
      <4>1. r = Enabled(k, d, a)
        BY <3>1 DEF DoUbp
      <4> HIDE DEF a, A, r
      <4> QED
        BY <4>1, <3>1, <1>2, <1>3, EnablingArms DEF A
    <3>2. CASE a.op = "disable"
      <4>1. r = Disabled(k, d, a)
        BY <3>2 DEF DoUbp
      <4> HIDE DEF a, A, r
      <4> QED
        BY <4>1, <1>3, DisablingArms DEF A
    <3> QED
      BY <1>2, <1>5, <3>1, <3>2
  <2>2. PICK w : w = FALSE
    OBVIOUS
  <2>3. Do(know, dut, a) = [bad |-> w, know |-> [know EXCEPT !.ubp = r.k], dut |-> [dut EXCEPT !.ubp = r.d]]
    BY <1>5, <2>2, BreakEffect
  <2> HIDE DEF r
  <2> QED
    BY <1>1, <1>5, <2>1, <2>3
<1> QED
  BY <1>4, <1>5

LEMMA InitArmed == Init => ArmedInv
BY DEF Init, ArmedInv, Running

LEMMA OrderlyStays ==
  ASSUME UNCHANGED <<te, resets, script>>
  PROVE  Orderly' <=> Orderly
BY DEF Orderly, Every, Plainly, Separate, Acted, OneBit, Drives

LEMMA StepArmed ==
  ASSUME WellFormed, ArmedInv, [Next]_vars
  PROVE  ArmedInv'
<1>1. ASSUME NEW a \in Actions[family], Verify(a) PROVE ArmedInv'
  BY <1>1, VerifyStep DEF ArmedInv, Running
<1>2. CASE BeginRun
  <2>1. resets' => know'.ubp = NoBreakpoints /\ dut'.ubp = ResetMachines
    BY <1>2 DEF BeginRun, InitialHistory, Ignorant, WellFormed, Untouched
  <2>2. Programmed(NoBreakpoints, ResetMachines)
    BY DEF Programmed, NoBreakpoints, ResetMachines
  <2>3. \A A : Armed(A, {}, NoBreakpoints, ResetMachines)
    <3>1. /\ NoBreakpoints.enabled = {} /\ NoBreakpoints.configured = {} /\ ResetMachines.on = {}
          /\ \A m \in AllMachines : ResetMachines.ctl[m] = Nobody
      BY DEF NoBreakpoints, ResetMachines
    <3> QED
      BY <2>2, <3>1 DEF Armed, Alone
  <2> QED
    BY <2>1, <2>3 DEF ArmedInv, Orderly
<1>3. CASE Run
  <2> DEFINE r == Do(know, dut, script[at + 1])
  <2>1. /\ phase = "run" /\ at + 1 \in 1..Len(script)
        /\ UNCHANGED <<te, resets, family, script>>
        /\ r.bad => phase' = "failed"
        /\ ~r.bad => know' = r.know /\ dut' = r.dut
    BY <1>3, RunStep
  <2> SUFFICES ASSUME family = "UBP", Orderly, ~r.bad
               PROVE  Armed(Acted \cap UbpActions, {}, r.know.ubp, r.dut.ubp)
    <3>1. Acted' = Acted
      BY <2>1 DEF Acted
    <3>2. Orderly' <=> Orderly
      BY <2>1, OrderlyStays
    <3> HIDE DEF r
    <3> QED
      BY <2>1, <3>1, <3>2 DEF ArmedInv, Running
  <2>2. Armed(Acted \cap UbpActions, {}, know.ubp, dut.ubp)
    BY <2>1 DEF ArmedInv, Running
  <2> QED
    BY <2>1, <2>2, BreakArms
<1>4. CASE Close
  BY <1>4 DEF Close, ArmedInv, Running
<1>5. CASE UNCHANGED vars
  <2>1. Acted' = Acted /\ (Orderly' <=> Orderly)
    BY <1>5, OrderlyStays DEF vars, Acted
  <2> QED
    BY <1>5, <2>1 DEF vars, ArmedInv, Running
<1> QED
  BY <1>1, <1>2, <1>3, <1>4, <1>5 DEF Next

\* A step that FiresNamed is about.
FiringStep ==
    \A a \in Actions[family] :
        Runs(a) /\ family = "UBP" /\ a.op = "trigger" /\ resets /\ Every(Plainly)
          /\ Separate /\ (\A x \in Acted : OneBit(x)) =>
            dut'.ubp.fired = AllOf(a.actions)

LEMMA StepFires == WellFormed /\ ArmedInv /\ [Next]_vars => [FiringStep]_vars
<1> SUFFICES ASSUME WellFormed, ArmedInv, Next, NEW a \in Actions[family],
                    Runs(a), family = "UBP", a.op = "trigger", Orderly
             PROVE  dut'.ubp.fired = AllOf(a.actions)
  BY DEF FiringStep, Orderly
<1> DEFINE r == Do(know, dut, script[at + 1])
<1>1. Run /\ at' = at + 1 /\ a = script[at + 1] /\ at \in Nat
  BY DEF Next, Runs, Verify, BeginRun, Close, WellFormed
<1>2. phase = "run" /\ at + 1 \in 1..Len(script) /\ ~r.bad /\ dut' = r.dut
  <2>1. r.bad => at' = at
    BY <1>1, RunStep
  <2> QED
    BY <1>1, <2>1, RunStep
<1>3. Armed(Acted \cap UbpActions, {}, know.ubp, dut.ubp)
  BY <1>2 DEF ArmedInv, Running
<1>4. r.dut.ubp.fired = AllOf(script[at + 1].actions)
  BY <1>1, <1>2, <1>3, BreakArms
<1> QED
  BY <1>1, <1>2, <1>4

\* A trigger (UBPTRIGGER) fires the actions that it names and no others: what the
\* table has as disabled is so on the DUT, although the run pass does not look
\* for rivals of what is enabled, and does not record what it enables.
THEOREM TriggersFire == Spec => FiresNamed
<1>1. FiresNamed <=> [][FiringStep]_vars
  BY DEF FiresNamed, FiringStep
<1> QED
  BY <1>1, InitWellFormed, StepWellFormed, InitArmed, StepArmed, StepFires, PTL DEF Spec

-----------------------------------------------------------------------------
(***************************************************************************)
(* What SPF is told of patmods.  Usages, and those related to them, come   *)
(* in lists.                                                               *)
(***************************************************************************)
LEMMA Lists ==
  ASSUME NEW S, NEW s \in Seq(S)
  PROVE  /\ IsList(s) /\ Len(s) \in Nat /\ DOMAIN s = 1..Len(s)
         /\ \A x : IsList(Append(s, x)) /\ Append(s, x) \in Seq(S \cup {x})
         /\ \A i, x : [s EXCEPT ![i] = x] \in Seq(S \cup {x})
<1>1. Len(s) \in Nat /\ DOMAIN s = 1..Len(s)
  OBVIOUS
<1>2. ASSUME NEW T, NEW t \in Seq(T) PROVE IsList(t)
  <2> DEFINE U == {t[i] : i \in DOMAIN t}
  <2>1. DOMAIN t = 1..Len(t) /\ Len(t) \in Nat /\ t = [i \in 1..Len(t) |-> t[i]]
    OBVIOUS
  <2>2. \A i \in 1..Len(t) : t[i] \in U
    BY <2>1
  <2> HIDE DEF U
  <2>3. t \in [1..Len(t) -> U]
    BY <2>1, <2>2
  <2>4. t \in Seq(U)
    BY <2>1, <2>3
  <2> QED
    BY <2>4 DEF IsList, ToSet, U
<1>3. ASSUME NEW x PROVE Append(s, x) \in Seq(S \cup {x})
  OBVIOUS
<1>4. ASSUME NEW i, NEW x PROVE [s EXCEPT ![i] = x] \in Seq(S \cup {x})
  <2> DEFINE t == [s EXCEPT ![i] = x]
  <2>1. t = [j \in 1..Len(s) |-> IF j = i THEN x ELSE s[j]]
    BY <1>1
  <2>2. \A j \in 1..Len(s) : s[j] \in S
    OBVIOUS
  <2>3. t \in [1..Len(s) -> S \cup {x}]
    BY <2>1, <2>2
  <2> HIDE DEF t
  <2>4. t \in Seq(S \cup {x})
    BY <2>3, <1>1
  <2> QED
    BY <2>4 DEF t
<1> QED
  BY <1>1, <1>2, <1>3, <1>4

\* The elements of what is put together come from the parts.
LEMMA Flattened ==
  ASSUME NEW n \in Nat, NEW ss, DOMAIN ss = 1..n, ss = [i \in 1..n |-> ss[i]],
         \A i \in 1..n : IsList(ss[i])
  PROVE  /\ IsList(FlattenSeq(ss))
         /\ \A x \in ToSet(FlattenSeq(ss)) : \E i \in 1..n : x \in ToSet(ss[i])
<1> DEFINE S == UNION {ToSet(ss[i]) : i \in 1..n}
<1>1. ASSUME NEW i \in 1..n PROVE ss[i] \in Seq(S)
  <2>1. ss[i] \in Seq(ToSet(ss[i])) /\ ToSet(ss[i]) \subseteq S
    BY DEF IsList
  <2> HIDE DEF S
  <2> QED
    BY <2>1
<1>2. ss \in [1..n -> Seq(S)]
  BY <1>1
<1>3. FlattenSeq(ss) = L!Flat(ss)
  BY DEF FlattenSeq, L!Flat
<1>4. FlattenSeq(ss) \in Seq(S)
  <2> HIDE DEF S
  <2> QED
    BY <1>2, <1>3, L!FlatType
<1>5. \A x \in ToSet(FlattenSeq(ss)) : x \in S
  <2> HIDE DEF S
  <2> QED
    BY <1>4 DEF ToSet
<1>6. IsList(FlattenSeq(ss))
  BY <1>4, Lists
<1> QED
  BY <1>5, <1>6

\* What is kept of a list is one.
LEMMA Filtered ==
  ASSUME NEW s, IsList(s), NEW ss,
         DOMAIN ss = 1..Len(s), ss = [i \in 1..Len(s) |-> ss[i]],
         \A i \in 1..Len(s) : ss[i] = <<s[i]>> \/ ss[i] = <<>>
  PROVE  IsList(FlattenSeq(ss)) /\ ToSet(FlattenSeq(ss)) \subseteq ToSet(s)
<1>1. Len(s) \in Nat /\ DOMAIN s = 1..Len(s)
  BY DEF IsList
<1>2. ASSUME NEW i \in 1..Len(s)
      PROVE  IsList(ss[i]) /\ ToSet(ss[i]) \subseteq ToSet(s)
  <2>1. ss[i] = <<s[i]>> \/ ss[i] = <<>>
    OBVIOUS
  <2>2. <<s[i]>> \in Seq({s[i]}) /\ <<>> \in Seq({})
    OBVIOUS
  <2>3. ToSet(<<s[i]>>) = {s[i]} /\ ToSet(<<>>) = {}
    BY DEF ToSet
  <2>4. s[i] \in ToSet(s)
    BY <1>1 DEF ToSet
  <2> QED
    BY <2>1, <2>2, <2>3, <2>4, Lists
<1>4. /\ IsList(FlattenSeq(ss))
      /\ \A x \in ToSet(FlattenSeq(ss)) : \E i \in 1..Len(s) : x \in ToSet(ss[i])
  BY <1>1, <1>2, Flattened
<1> QED
  BY <1>2, <1>4

\* A patmod is announced with the field that its usage has.
Entered(e) ==
    /\ DOMAIN e = {"name", "reg", "field", "bits", "type", "label"}
    /\ e.reg = e.field
Plain(es) == IsList(es) /\ \A e \in ToSet(es) : Entered(e)

LEMMA Announced ==
  ASSUME NEW n \in Nat, NEW ps, NEW us, NEW type, NEW action,
         \A i \in 1..n : IsList(us[i])
  PROVE  Plain(FlattenSeq([i \in 1..n |->
                   [k \in 1..Len(us[i]) |-> Entry(ps[i], us[i][k], type, action)]]))
<1> DEFINE part(i) == [k \in 1..Len(us[i]) |-> Entry(ps[i], us[i][k], type, action)]
           ss == [i \in 1..n |-> part(i)]
<1>1. ASSUME NEW i \in 1..n PROVE IsList(part(i)) /\ \A e \in ToSet(part(i)) : Entered(e)
  <2>1. Len(us[i]) \in Nat
    BY DEF IsList
  <2> DEFINE S == {Entry(ps[i], us[i][k], type, action) : k \in 1..Len(us[i])}
  <2>2. part(i) \in [1..Len(us[i]) -> S]
    OBVIOUS
  <2>3. \A e \in S : Entered(e)
    BY DEF Entry, Entered
  <2> HIDE DEF S, part
  <2>4. part(i) \in Seq(S) /\ ToSet(part(i)) \subseteq S
    BY <2>1, <2>2 DEF ToSet
  <2> QED
    BY <2>3, <2>4, Lists
<1> HIDE DEF part
<1>2. DOMAIN ss = 1..n /\ ss = [i \in 1..n |-> ss[i]] /\ \A i \in 1..n : ss[i] = part(i)
  OBVIOUS
<1> HIDE DEF ss
<1>3. IsList(FlattenSeq(ss)) /\ \A x \in ToSet(FlattenSeq(ss)) : \E i \in 1..n : x \in ToSet(ss[i])
  BY <1>1, <1>2, Flattened
<1>4. Plain(FlattenSeq(ss))
  BY <1>1, <1>2, <1>3 DEF Plain
<1> QED
  BY <1>4 DEF ss, part

PatLists(pm) ==
    /\ "patmods" \in DOMAIN pm /\ IsList(pm.patmods)
    /\ \A p \in ToSet(pm.patmods) :
          /\ "usages" \in DOMAIN p /\ IsList(p.usages)
          /\ \A u \in ToSet(p.usages) : "related" \in DOMAIN u /\ IsList(u.related)

\* The patmods that are asked are some of all.
Asked(pm, only) == Those(pm.patmods, LAMBDA p : only = {} \/ p.name \in only)

LEMMA AskedAre ==
  ASSUME NEW pm, PatLists(pm), NEW only
  PROVE  /\ Len(Asked(pm, only)) \in Nat
         /\ \A i \in 1..Len(Asked(pm, only)) :
               LET us == Asked(pm, only)[i].usages
               IN  Len(us) \in Nat /\ \A k \in 1..Len(us) : IsList(us[k].related)
<1> DEFINE s == pm.patmods
           asks(p) == only = {} \/ p.name \in only
           ss == [i \in 1..Len(s) |-> IF asks(s[i]) THEN <<s[i]>> ELSE <<>>]
           asked == Asked(pm, only)
<1>1. asked = FlattenSeq(ss)
  BY DEF Those, Asked
<1>2. IsList(s)
  BY DEF PatLists
<1>3. /\ DOMAIN ss = 1..Len(s) /\ ss = [i \in 1..Len(s) |-> ss[i]]
      /\ \A i \in 1..Len(s) : ss[i] = <<s[i]>> \/ ss[i] = <<>>
  OBVIOUS
<1> HIDE DEF ss, asks
<1>4. IsList(asked) /\ ToSet(asked) \subseteq ToSet(s)
  BY <1>1, <1>2, <1>3, Filtered
<1> HIDE DEF asked
<1>5. Len(asked) \in Nat /\ DOMAIN asked = 1..Len(asked)
  BY <1>4 DEF IsList
<1>6. ASSUME NEW i \in 1..Len(asked)
      PROVE  /\ Len(asked[i].usages) \in Nat
             /\ \A k \in 1..Len(asked[i].usages) : IsList(asked[i].usages[k].related)
  <2>1. asked[i] \in ToSet(s)
    BY <1>4, <1>5 DEF ToSet
  <2>2. /\ IsList(asked[i].usages)
        /\ \A u \in ToSet(asked[i].usages) : IsList(u.related)
    BY <2>1 DEF PatLists
  <2> DEFINE us == asked[i].usages
  <2> HIDE DEF us
  <2>3. IsList(us) => Len(us) \in Nat /\ \A k \in 1..Len(us) : us[k] \in ToSet(us)
    BY DEF IsList, ToSet
  <2> QED
    BY <2>2, <2>3 DEF us
<1> QED
  BY <1>5, <1>6 DEF asked

\* What is found of one usage is a list; so is what is found of all.
LEMMA FoundOfField ==
  ASSUME NEW u, IsList(u.related), NEW here, NEW field, NEW action, NEW range
  PROVE  IsList(OfField(u, here, field, action, range))
<1>1. \A x : IsList(<<x>>)
  <2>1. \A x : <<x>> \in Seq({x})
    OBVIOUS
  <2> QED
    BY <2>1, Lists
<1>2. IsList(<<>>)
  <2>1. <<>> \in Seq({})
    OBVIOUS
  <2> QED
    BY <2>1, Lists
<1> QED
  BY <1>1, <1>2 DEF OfField

LEMMA FoundOfRegister ==
  ASSUME NEW u, IsList(u.related), NEW here, NEW action
  PROVE  IsList(OfRegister(u, here, action))
<1> DEFINE s == u.related
           ok(v) == MatchesRegister(v, here, action)
           ss == [i \in 1..Len(s) |-> IF ok(s[i]) THEN <<s[i]>> ELSE <<>>]
<1>1. OfRegister(u, here, action) = IF ok(u) THEN <<u>> ELSE FlattenSeq(ss)
  BY DEF OfRegister, Those
<1>2. IsList(<<u>>)
  <2>1. <<u>> \in Seq({u})
    OBVIOUS
  <2> QED
    BY <2>1, Lists
<1>3. /\ DOMAIN ss = 1..Len(s) /\ ss = [i \in 1..Len(s) |-> ss[i]]
      /\ \A i \in 1..Len(s) : ss[i] = <<s[i]>> \/ ss[i] = <<>>
  OBVIOUS
<1> HIDE DEF ss, ok
<1>4. IsList(FlattenSeq(ss))
  BY <1>3, Filtered
<1> QED
  BY <1>1, <1>2, <1>4

LEMMA AllFound ==
  ASSUME NEW n \in Nat, NEW ss, DOMAIN ss = 1..n, ss = [i \in 1..n |-> ss[i]],
         \A i \in 1..n : IsList(ss[i])
  PROVE  IsList(FlattenSeq(ss))
BY Flattened

LEMMA FieldsAnnounced ==
  ASSUME NEW pm, PatLists(pm), NEW here, NEW field, NEW action, NEW range, NEW vs, NEW type
  PROVE  Plain(FieldEntries(pm, here, field, action, range, vs, type))
<1> DEFINE asked == Asked(pm, vs \ {Absent})
           Matching(u) == OfField(u, here, field, action, range)
           given(i) == [k \in 1..Len(asked[i].usages) |-> Matching(asked[i].usages[k])]
           us == [i \in 1..Len(asked) |-> FlattenSeq(given(i))]
<1>1. FieldEntries(pm, here, field, action, range, vs, type) =
        FlattenSeq([i \in 1..Len(asked) |->
            [k \in 1..Len(us[i]) |-> Entry(asked[i], us[i][k], type, action)]])
  BY DEF FieldEntries, EntriesOf, Asked
<1>2. Len(asked) \in Nat
  BY AskedAre
<1>3. ASSUME NEW i \in 1..Len(asked) PROVE IsList(FlattenSeq(given(i)))
  <2> DEFINE m == Len(asked[i].usages)
  <2>1. m \in Nat /\ \A k \in 1..m : IsList(asked[i].usages[k].related)
    BY AskedAre
  <2>2. \A k \in 1..m : IsList(Matching(asked[i].usages[k]))
    BY <2>1, FoundOfField
  <2> HIDE DEF Matching, asked
  <2>3. DOMAIN given(i) = 1..m /\ \A k \in 1..m : given(i)[k] = Matching(asked[i].usages[k])
    OBVIOUS
  <2>4. given(i) = [k \in 1..m |-> given(i)[k]]
    OBVIOUS
  <2> HIDE DEF given
  <2> QED
    BY <2>1, <2>2, <2>3, <2>4, AllFound
<1> HIDE DEF asked, given
<1>4. \A i \in 1..Len(asked) : IsList(us[i])
  BY <1>3
<1> HIDE DEF us
<1> QED
  BY <1>1, <1>2, <1>4, Announced

LEMMA RegisterAnnounced ==
  ASSUME NEW pm, PatLists(pm), NEW here, NEW action, NEW vs, NEW type
  PROVE  Plain(RegisterEntries(pm, here, action, vs, type))
<1> DEFINE asked == Asked(pm, vs \ {Absent})
           Matching(u) == OfRegister(u, here, action)
           given(i) == [k \in 1..Len(asked[i].usages) |-> Matching(asked[i].usages[k])]
           us == [i \in 1..Len(asked) |-> FlattenSeq(given(i))]
<1>1. RegisterEntries(pm, here, action, vs, type) =
        FlattenSeq([i \in 1..Len(asked) |->
            [k \in 1..Len(us[i]) |-> Entry(asked[i], us[i][k], type, action)]])
  BY DEF RegisterEntries, EntriesOf, Asked
<1>2. Len(asked) \in Nat
  BY AskedAre
<1>3. ASSUME NEW i \in 1..Len(asked) PROVE IsList(FlattenSeq(given(i)))
  <2> DEFINE m == Len(asked[i].usages)
  <2>1. m \in Nat /\ \A k \in 1..m : IsList(asked[i].usages[k].related)
    BY AskedAre
  <2>2. \A k \in 1..m : IsList(Matching(asked[i].usages[k]))
    BY <2>1, FoundOfRegister
  <2> HIDE DEF Matching, asked
  <2>3. DOMAIN given(i) = 1..m /\ \A k \in 1..m : given(i)[k] = Matching(asked[i].usages[k])
    OBVIOUS
  <2>4. given(i) = [k \in 1..m |-> given(i)[k]]
    OBVIOUS
  <2> HIDE DEF given
  <2> QED
    BY <2>1, <2>2, <2>3, <2>4, AllFound
<1> HIDE DEF asked, given
<1>4. \A i \in 1..Len(asked) : IsList(us[i])
  BY <1>3
<1> HIDE DEF us
<1> QED
  BY <1>1, <1>2, <1>4, Announced

(***************************************************************************)
(* The patmods of a command.                                               *)
(***************************************************************************)
PlainIn(unused, unused2, es) == Plain(es)
FoundIn(unused, unused2, w) == Plain(w.found)
AppendIn(unused, unused2, t, e) == IF e \in ToSet(t) THEN t ELSE Append(t, e)
RangeIn(q, f, w, r) == OfRange(q, f, w, r)
ArgumentIn(q, unused, w, arg) == OfArgument(q, w, arg)
Ap == INSTANCE FoldFacts WITH op <- AppendIn, holds <- PlainIn
Rg == INSTANCE FoldFacts WITH op <- RangeIn, holds <- FoundIn
Ag == INSTANCE FoldFacts WITH op <- ArgumentIn, holds <- FoundIn

LEMMA AppendedPlain ==
  ASSUME NEW es, Plain(es), NEW new, Plain(new)
  PROVE  Plain(AppendNew(es, new))
<1>1. AppendNew(es, new) = Ap!Fold(0, 0, es, new)
  BY DEF AppendNew, AppendIn, FoldLeft, MapThenFoldSet, Max, Ap!Fold, Ap!Top
<1>2. Len(new) \in Nat /\ DOMAIN new = 1..Len(new) /\ \A i \in 1..Len(new) : Entered(new[i])
  BY DEF Plain, IsList, ToSet
<1>3. ASSUME NEW i \in 1..Len(new), NEW x, Plain(x)
      PROVE  Plain(AppendIn(0, 0, x, new[i]))
  <2>1. IsList(Append(x, new[i])) /\ ToSet(Append(x, new[i])) \subseteq ToSet(x) \cup {new[i]}
    <3>1. x \in Seq(ToSet(x)) /\ Append(x, new[i]) \in Seq(ToSet(x) \cup {new[i]})
      BY <1>3, Lists DEF Plain, IsList
    <3> DEFINE y == Append(x, new[i])
    <3> HIDE DEF y
    <3>2. ToSet(y) \subseteq ToSet(x) \cup {new[i]}
      BY <3>1 DEF ToSet, y
    <3> QED
      BY <3>1, <3>2, Lists DEF y
  <2> QED
    BY <2>1, <1>2, <1>3 DEF Plain, AppendIn
<1>4. Plain(Ap!Fold(0, 0, es, new))
  BY <1>2, <1>3, Ap!FoldHolds DEF PlainIn
<1> QED
  BY <1>1, <1>4

LEMMA RangePlain ==
  ASSUME NEW q, PatLists(q.pm), NEW f, NEW w, Plain(w.found), NEW r
  PROVE  Plain(OfRange(q, f, w, r).found)
<1> DEFINE vs == w.vars \cup {r.var}
           more == FieldEntries(q.pm, Here, f, q.action,
                                IF r.lsb < 0 THEN <<>> ELSE <<<<r.msb, r.lsb>>>>, vs, q.type)
<1>1. Plain(more)
  BY FieldsAnnounced
<1>2. OfRange(q, f, w, r).found = IF r.en THEN AppendNew(w.found, more) ELSE w.found
  BY DEF OfRange
<1> HIDE DEF more
<1> QED
  BY <1>1, <1>2, AppendedPlain

LEMMA ArgumentPlain ==
  ASSUME NEW q, PatLists(q.pm), NEW w, Plain(w.found), NEW arg, IsList(arg.ranges)
  PROVE  Plain(OfArgument(q, w, arg).found)
<1> DEFINE rs == arg.ranges
           all == Rg!Fold(q, arg.field, w, rs)
<1>1. OfArgument(q, w, arg) = IF arg.exact THEN all ELSE w
  BY DEF OfArgument, RangeIn, FoldLeft, MapThenFoldSet, Max, Rg!Fold, Rg!Top
<1>2. Len(rs) \in Nat /\ DOMAIN rs = 1..Len(rs)
  BY DEF IsList
<1>3. \A i \in 1..Len(rs) : \A x : FoundIn(q, arg.field, x)
          => FoundIn(q, arg.field, RangeIn(q, arg.field, x, rs[i]))
  BY RangePlain DEF FoundIn, RangeIn
<1>4. FoundIn(q, arg.field, w)
  BY DEF FoundIn
<1> HIDE DEF rs
<1>5. FoundIn(q, arg.field, all)
  BY <1>2, <1>3, <1>4, Rg!FoldHolds
<1> HIDE DEF all
<1> QED
  BY <1>1, <1>5 DEF FoundIn

LEMMA FieldsPlain ==
  ASSUME NEW pm, PatLists(pm), NEW a, IsList(a.args), \A x \in ToSet(a.args) : IsList(x.ranges)
  PROVE  Plain(FieldPatmods(pm, a))
<1> DEFINE q == [pm |-> pm, action |-> ActionName(a), type |-> Direction(a)]
           w == [vars |-> a.vars, found |-> <<>>]
           args == IF a.op = "read" THEN a.args \o a.args ELSE a.args
           all == Ag!Fold(q, q, w, args)
<1>1. FieldPatmods(pm, a) = all.found
  BY DEF FieldPatmods, ArgumentIn, FoldLeft, MapThenFoldSet, Max, Ag!Fold, Ag!Top
<1>2. /\ Len(args) \in Nat /\ DOMAIN args = 1..Len(args)
      /\ \A i \in 1..Len(args) : IsList(args[i].ranges)
  <2>1. a.args \in Seq(ToSet(a.args))
    BY DEF IsList
  <2> DEFINE S == ToSet(a.args)
  <2> HIDE DEF S
  <2>2. a.args \o a.args \in Seq(S)
    BY <2>1 DEF S
  <2>3. args \in Seq(S) /\ \A x \in S : IsList(x.ranges)
    BY <2>1, <2>2 DEF S
  <2> HIDE DEF args
  <2> QED
    BY <2>3
<1>3. Plain(<<>>)
  <2>1. <<>> \in Seq({}) /\ ToSet(<<>>) = {}
    BY DEF ToSet
  <2> QED
    BY <2>1, Lists DEF Plain
<1>4. FoundIn(q, q, w)
  BY <1>3 DEF FoundIn
<1>5. q.pm = pm
  OBVIOUS
<1> HIDE DEF q, w, args
<1>6. \A i \in 1..Len(args) : \A x : FoundIn(q, q, x) => FoundIn(q, q, ArgumentIn(q, q, x, args[i]))
  BY <1>2, <1>5, ArgumentPlain DEF FoundIn, ArgumentIn
<1>7. FoundIn(q, q, all)
  BY <1>2, <1>4, <1>6, Ag!FoldHolds
<1> HIDE DEF all
<1> QED
  BY <1>1, <1>7 DEF FoundIn

\* Where a patmod is announced, labels are taken off.
Covered(e) == StandsOn(Statement(e)) \subseteq BitsUnder(e)

LEMMA PlainCovered ==
  ASSUME NEW e, Entered(e)
  PROVE  Covered(e)
BY DEF Entered, Covered, StandsOn, Statement, BitsUnder

LEMMA RawCovered ==
  ASSUME NEW e, Entered(e)
  PROVE  Covered([e EXCEPT !.field = "DR", !.bits = RegisterBits(e)])
<1> DEFINE b == RegisterBits(e)
           x == [e EXCEPT !.field = "DR", !.bits = b]
<1>1. x.field = "DR" /\ x.bits = b /\ x.reg = e.reg /\ e.reg = e.field
  BY DEF Entered
<1>2. b = IF e.field \in {"DR", Absent} THEN e.bits ELSE <<<<Msb[e.field], Lsb[e.field]>>>>
  BY DEF RegisterBits
<1>3. BitSet(<<<<Msb[e.field], Lsb[e.field]>>>>) = Lsb[e.field] .. Msb[e.field]
  <2> DEFINE c == <<Msb[e.field], Lsb[e.field]>>
             cs == <<c>>
  <2>1. Len(cs) = 1 /\ cs[1] = c /\ c[1] = Msb[e.field] /\ c[2] = Lsb[e.field]
    OBVIOUS
  <2> HIDE DEF cs, c
  <2>2. \A i \in 1..Len(cs) : cs[i] = c
    BY <2>1
  <2>3. BitSet(cs) = c[2] .. c[1]
    <3> DEFINE all == {cs[i][2] .. cs[i][1] : i \in 1..Len(cs)}
    <3>1. \A i \in 1..Len(cs) : cs[i][2] .. cs[i][1] = c[2] .. c[1]
      BY <2>2
    <3>2. 1 \in 1..Len(cs)
      BY <2>1
    <3>3. \A y : y \in all <=> y = c[2] .. c[1]
      BY <3>1, <3>2
    <3>4. all = {c[2] .. c[1]}
      <4> HIDE DEF all
      <4> QED
        BY <3>3
    <3>5. BitSet(cs) = UNION all
      BY DEF BitSet
    <3> HIDE DEF all
    <3> QED
      BY <3>4, <3>5
  <2> QED
    BY <2>1, <2>3 DEF cs, c
<1>4. StandsOn(Statement(x)) = BitSet(b)
  BY <1>1 DEF StandsOn, Statement
<1> HIDE DEF x, b
<1>5. BitsUnder(x) = IF e.field \in {"DR", Absent} THEN BitSet(b) ELSE Lsb[e.field] .. Msb[e.field]
  BY <1>1 DEF BitsUnder
<1> QED
  BY <1>2, <1>3, <1>4, <1>5 DEF Covered, x, b

LEMMA AllCovered ==
  ASSUME NEW pm, PatLists(pm), NEW a, IsList(a.args), \A x \in ToSet(a.args) : IsList(x.ranges)
  PROVE  IsList(PatmodsOf(pm, a)) /\ \A e \in ToSet(PatmodsOf(pm, a)) : Covered(e)
<1>1. IsList(FieldPatmods(pm, a)) /\ \A e \in ToSet(FieldPatmods(pm, a)) : Covered(e)
  BY FieldsPlain, PlainCovered DEF Plain
<1>2. IsList(RegisterPatmods(pm, a)) /\ \A e \in ToSet(RegisterPatmods(pm, a)) : Covered(e)
  <2> DEFINE es == RegisterEntries(pm, Here, ActionName(a), a.vars, Direction(a))
             raw(e) == [e EXCEPT !.field = "DR", !.bits = RegisterBits(e)]
  <2>1. Plain(es)
    BY RegisterAnnounced
  <2>2. RegisterPatmods(pm, a) = [i \in 1..Len(es) |-> raw(es[i])]
    BY DEF RegisterPatmods
  <2> HIDE DEF es
  <2>3. Len(es) \in Nat /\ \A i \in 1..Len(es) : Entered(es[i])
    BY <2>1 DEF Plain, IsList, ToSet
  <2>4. \A i \in 1..Len(es) : Covered(raw(es[i]))
    BY <2>3, RawCovered
  <2> DEFINE S == {raw(es[i]) : i \in 1..Len(es)}
  <2>5. RegisterPatmods(pm, a) \in [1..Len(es) -> S] /\ \A e \in S : Covered(e)
    BY <2>2, <2>4
  <2> HIDE DEF raw, S
  <2>6. RegisterPatmods(pm, a) \in Seq(S)
    BY <2>3, <2>5
  <2> QED
    BY <2>5, <2>6, Lists DEF ToSet
<1>3. IsList(<<>>) /\ ToSet(<<>>) = {}
  <2>1. <<>> \in Seq({}) /\ ToSet(<<>>) = {}
    BY DEF ToSet
  <2> QED
    BY <2>1, Lists
<1> QED
  BY <1>1, <1>2, <1>3 DEF PatmodsOf

\* A command has no label on the bits of its patmods.
ClearOf(cmd) == \A e \in ToSet(cmd.patmods) : cmd.labels \cap StandsOn(Statement(e)) = {}

LEMMA CommandClear ==
  ASSUME NEW conf, NEW pm, NEW es, IsList(es), NEW a,
         \A e \in ToSet(es) : Covered(e)
  PROVE  ClearOf(Command(conf, pm, es, a))
<1> DEFINE labels == LabelsOf(conf, a)
           cmd == Command(conf, pm, es, a)
<1>1. cmd.patmods = es /\ cmd.labels = labels \ UNION {BitsUnder(es[i]) : i \in 1..Len(es)}
  BY DEF Command, Cleared
<1> HIDE DEF labels, cmd
<1>2. ASSUME NEW i \in 1..Len(es) PROVE cmd.labels \cap StandsOn(Statement(es[i])) = {}
  <2>1. StandsOn(Statement(es[i])) \subseteq BitsUnder(es[i])
    BY DEF ToSet, Covered, IsList
  <2> QED
    BY <1>1, <2>1
<1> QED
  <2>1. \A e \in ToSet(es) : \E i \in 1..Len(es) : e = es[i]
    BY DEF IsList, ToSet
  <2> QED
    BY <1>1, <1>2, <2>1 DEF ClearOf, cmd

-----------------------------------------------------------------------------
(***************************************************************************)
(* The patmods stay lists of lists, whatever is read and related.          *)
(***************************************************************************)
AddIn(unused, unused2, us, u) == AddUsage(us, u)
UsagesIn(S, unused, us) == us \in Seq(S)
RelateIn(name, unused, pm, x) == Relate(pm, x, name)
PatIn(unused, unused2, pm) == PatLists(pm)
Us == INSTANCE FoldFacts WITH op <- AddIn, holds <- UsagesIn
Re == INSTANCE FoldFacts WITH op <- RelateIn, holds <- PatIn

LEMMA RelatedLists ==
  ASSUME NEW us, IsList(us), NEW new, NEW bits
  PROVE  IsList(Related(us, new, bits))
<1>1. us \in Seq(ToSet(us))
  BY DEF IsList
<1>2. \A x : IsList(Append(us, x))
  BY <1>1, Lists
<1>3. \A i : IsList([us EXCEPT ![i].bits = bits])
  <2> TAKE i
  <2> DEFINE x == [us[i] EXCEPT !.bits = bits]
             t == [us EXCEPT ![i] = x]
  <2>1. t \in Seq(ToSet(us) \cup {x})
    BY <1>1, Lists
  <2> HIDE DEF t, x
  <2>2. IsList(t)
    BY <2>1, Lists
  <2> QED
    BY <2>2 DEF t, x
<1> QED
  BY <1>2, <1>3 DEF Related

LEMMA RelateLists ==
  ASSUME NEW pm, PatLists(pm), NEW x, NEW action
  PROVE  PatLists(Relate(pm, x, action))
<1> DEFINE ix    == FirstOf(OfXregField(pm, x))
           i     == ix[1]
           k     == ix[2]
           parts == Learned(pm.parts, x)
           new   == [network |-> x.eq.network, agent |-> x.eq.agent, register |-> x.eq.register,
                     field |-> x.eq.field, bits |-> SplitBits(<<x.eq.bits>>), action |-> action,
                     ext |-> Absent]
           bits == PartBits(parts, x)
           ps == pm.patmods
           p == ps[i]
           u == p.usages[k]
           u2 == [u EXCEPT !.related = Related(u.related, new, bits)]
           us2 == [p.usages EXCEPT ![k] = u2]
           p2 == [p EXCEPT !.usages = us2]
           ps2 == [ps EXCEPT ![i] = p2]
           kept == [pm EXCEPT !.parts = parts]
<1>1. Relate(pm, x, action) = kept \/ Relate(pm, x, action) = [kept EXCEPT !.patmods = ps2]
  BY DEF Relate
<1>2. kept.patmods = ps /\ "patmods" \in DOMAIN kept /\ IsList(ps)
  BY DEF PatLists
<1>3. [kept EXCEPT !.patmods = ps2].patmods = ps2 /\ "patmods" \in DOMAIN [kept EXCEPT !.patmods = ps2]
  BY <1>2
<1>4. ps \in Seq(ToSet(ps)) /\ DOMAIN ps = 1..Len(ps) /\ Len(ps) \in Nat
  BY <1>2 DEF IsList
<1>5. IsList(ps2)
  <2> HIDE DEF p2
  <2>1. ps2 \in Seq(ToSet(ps) \cup {p2})
    BY <1>4, Lists
  <2> HIDE DEF ps2
  <2> QED
    BY <2>1, Lists
<1> DEFINE PatOk(q) == /\ "usages" \in DOMAIN q /\ IsList(q.usages)
                       /\ \A v \in ToSet(q.usages) : "related" \in DOMAIN v /\ IsList(v.related)
<1>6. \A q \in ToSet(ps) : PatOk(q)
  BY DEF PatLists
<1>7. ASSUME i \in DOMAIN ps PROVE PatOk(p2)
  <2>1. PatOk(p)
    BY <1>6, <1>7 DEF ToSet
  <2> DEFINE us == p.usages
  <2>2. us \in Seq(ToSet(us)) /\ DOMAIN us = 1..Len(us)
    BY <2>1 DEF IsList
  <2>3. k \in DOMAIN us => "related" \in DOMAIN u /\ IsList(u.related)
    BY <2>1 DEF ToSet
  <2>4. k \in DOMAIN us => "related" \in DOMAIN u2 /\ IsList(u2.related)
    BY <2>3, RelatedLists
  <2>5. p2.usages = us2 /\ "usages" \in DOMAIN p2
    BY <2>1
  <2> HIDE DEF p2, u2, us, u, p
  <2>6. us2 = [us EXCEPT ![k] = u2]
    BY DEF us
  <2>7. us2 \in Seq(ToSet(us) \cup {u2}) /\ DOMAIN us2 = DOMAIN us
    BY <2>2, <2>6, Lists
  <2>8. ASSUME NEW j \in DOMAIN us
        PROVE  "related" \in DOMAIN us2[j] /\ IsList(us2[j].related)
    <3>1. CASE j = k
      BY <3>1, <2>4, <2>6, <2>8
    <3>2. CASE j # k
      <4>1. us2[j] = us[j]
        BY <3>2, <2>6, <2>8
      <4>2. us[j] \in ToSet(us)
        BY DEF ToSet
      <4> QED
        BY <4>1, <4>2, <2>1 DEF us
    <3> QED
      BY <3>1, <3>2
  <2> HIDE DEF us2
  <2>9. IsList(us2)
    BY <2>7, Lists
  <2>10. \A v \in ToSet(us2) : "related" \in DOMAIN v /\ IsList(v.related)
    BY <2>7, <2>8 DEF ToSet
  <2> QED
    BY <2>5, <2>9, <2>10
<1>8. \A q \in ToSet(ps2) : PatOk(q)
  <2> HIDE DEF p2, PatOk, i
  <2>1. DOMAIN ps2 = DOMAIN ps /\ \A j \in DOMAIN ps : ps2[j] = IF j = i THEN p2 ELSE ps[j]
    BY <1>4
  <2> HIDE DEF ps2
  <2>2. \A j \in DOMAIN ps : ps[j] \in ToSet(ps)
    BY DEF ToSet
  <2>3. \A j \in DOMAIN ps2 : PatOk(ps2[j])
    BY <2>1, <2>2, <1>6, <1>7
  <2> QED
    BY <2>3 DEF ToSet
<1> HIDE DEF ps2, kept
<1> QED
  BY <1>1, <1>2, <1>3, <1>5, <1>6, <1>8 DEF PatLists

LEMMA AllRelated ==
  ASSUME NEW pm, PatLists(pm), NEW a, IsList(a.parts)
  PROVE  PatLists(RelateAll(pm, a))
<1> DEFINE name == ActionName(a)
           xs == a.parts
<1>1. RelateAll(pm, a) = Re!Fold(name, name, pm, xs)
  BY DEF RelateAll, RelateIn, FoldLeft, MapThenFoldSet, Max, Re!Fold, Re!Top
<1>2. Len(xs) \in Nat /\ DOMAIN xs = 1..Len(xs)
  BY DEF IsList
<1> HIDE DEF name, xs
<1>3. \A i \in 1..Len(xs) : \A q : PatIn(name, name, q) => PatIn(name, name, RelateIn(name, name, q, xs[i]))
  BY RelateLists DEF PatIn, RelateIn
<1>4. PatIn(name, name, Re!Fold(name, name, pm, xs))
  <2>1. PatIn(name, name, pm)
    BY DEF PatIn
  <2> QED
    BY <2>1, <1>2, <1>3, Re!FoldHolds
<1> QED
  BY <1>1, <1>4 DEF PatIn

\* What is read: a usage that is read has none related to it yet.
LEMMA UsagesRead ==
  ASSUME NEW n, IsList(n.fields)
  PROVE  IsList(UsagesOf(n)) /\ \A u \in ToSet(UsagesOf(n)) : "related" \in DOMAIN u /\ u.related = <<>>
<1> DEFINE m == Len(n.fields)
           S == {UsageOf(n, Absent)} \cup {UsageOf(n, n.fields[i]) : i \in 1..m}
<1>1. m \in Nat
  BY DEF IsList
<1>2. \A u \in S : "related" \in DOMAIN u /\ u.related = <<>>
  BY DEF UsageOf
<1>3. UsagesOf(n) \in Seq(S)
  <2>1. <<UsageOf(n, Absent)>> \in Seq(S)
    OBVIOUS
  <2>2. [i \in 1..m |-> UsageOf(n, n.fields[i])] \in Seq(S)
    <3> DEFINE t == [i \in 1..m |-> UsageOf(n, n.fields[i])]
    <3>1. t \in [1..m -> S]
      OBVIOUS
    <3> HIDE DEF t, S, m
    <3>2. t \in Seq(S)
      BY <1>1, <3>1
    <3> QED
      BY <3>2 DEF t
  <2> HIDE DEF S
  <2> QED
    BY <2>1, <2>2 DEF UsagesOf
<1> HIDE DEF S
<1>4. IsList(UsagesOf(n)) /\ ToSet(UsagesOf(n)) \subseteq S
  BY <1>3, Lists DEF ToSet
<1> QED
  BY <1>2, <1>4

LEMMA PatmodRead ==
  ASSUME NEW v, IsList(v.usages), \A n \in ToSet(v.usages) : IsList(n.fields)
  PROVE  /\ "usages" \in DOMAIN PatmodOf(v) /\ IsList(PatmodOf(v).usages)
         /\ \A u \in ToSet(PatmodOf(v).usages) : "related" \in DOMAIN u /\ IsList(u.related)
<1> DEFINE m == Len(v.usages)
           ss == [i \in 1..m |-> UsagesOf(v.usages[i])]
           all == FlattenSeq(ss)
           us == Us!Fold(ToSet(all), 0, <<>>, all)
<1>1. m \in Nat /\ \A i \in 1..m : v.usages[i] \in ToSet(v.usages)
  BY DEF IsList, ToSet
<1>2. \A i \in 1..m : /\ IsList(ss[i])
                      /\ \A u \in ToSet(ss[i]) : "related" \in DOMAIN u /\ u.related = <<>>
  BY <1>1, UsagesRead
<1>3. DOMAIN ss = 1..m /\ ss = [i \in 1..m |-> ss[i]]
  OBVIOUS
<1>4. PatmodOf(v).usages = us /\ "usages" \in DOMAIN PatmodOf(v)
  BY DEF PatmodOf, AddIn, FoldLeft, MapThenFoldSet, Max, Us!Fold, Us!Top
<1> HIDE DEF ss, m
<1>5. IsList(all) /\ \A u \in ToSet(all) : "related" \in DOMAIN u /\ u.related = <<>>
  <2>1. IsList(all) /\ \A u \in ToSet(all) : \E i \in 1..m : u \in ToSet(ss[i])
    BY <1>1, <1>2, <1>3, Flattened
  <2> HIDE DEF all
  <2> QED
    BY <2>1, <1>2
<1> HIDE DEF all
<1>6. Len(all) \in Nat /\ DOMAIN all = 1..Len(all) /\ \A i \in 1..Len(all) : all[i] \in ToSet(all)
  BY <1>5 DEF IsList, ToSet
<1>7. \A i \in 1..Len(all) : \A x : UsagesIn(ToSet(all), 0, x)
          => UsagesIn(ToSet(all), 0, AddIn(ToSet(all), 0, x, all[i]))
  <2> SUFFICES ASSUME NEW i \in 1..Len(all), NEW x \in Seq(ToSet(all))
               PROVE  AddUsage(x, all[i]) \in Seq(ToSet(all))
    BY DEF UsagesIn, AddIn
  <2>1. all[i] \in ToSet(all)
    BY <1>6
  <2> QED
    BY <2>1 DEF AddUsage
<1>8. UsagesIn(ToSet(all), 0, us)
  <2>1. UsagesIn(ToSet(all), 0, <<>>)
    BY DEF UsagesIn
  <2> QED
    BY <2>1, <1>6, <1>7, Us!FoldHolds
<1> HIDE DEF us
<1>9. IsList(us) /\ ToSet(us) \subseteq ToSet(all)
  <2>1. us \in Seq(ToSet(all))
    BY <1>8 DEF UsagesIn
  <2>2. ToSet(us) \subseteq ToSet(all)
    BY <2>1 DEF ToSet
  <2> QED
    BY <2>1, <2>2, Lists
<1>10. IsList(<<>>)
  <2>1. <<>> \in Seq({})
    OBVIOUS
  <2> QED
    BY <2>1, Lists
<1> QED
  BY <1>4, <1>5, <1>9, <1>10

LEMMA AllRead ==
  ASSUME NEW docs, AreLists(docs)
  PROVE  PatLists(ReadPatmods(docs))
<1> DEFINE n == Len(docs)
           ss == [i \in 1..n |-> docs[i].vars]
           vs == FlattenSeq(ss)
           used == Those(vs, LAMBDA v : v.usages # <<>>)
           read == [i \in 1..Len(used) |-> PatmodOf(used[i])]
           NodesIn(v) == IsList(v.usages) /\ \A x \in ToSet(v.usages) : IsList(x.fields)
<1>1. "patmods" \in DOMAIN ReadPatmods(docs) /\ ReadPatmods(docs).patmods = read
  BY DEF ReadPatmods
<1>2. n \in Nat /\ \A i \in 1..n : IsList(docs[i].vars) /\ \A v \in ToSet(docs[i].vars) : NodesIn(v)
  <2>1. IsList(docs) /\ \A c \in ToSet(docs) : IsList(c.vars) /\ \A v \in ToSet(c.vars) : NodesIn(v)
    BY DEF AreLists
  <2> HIDE DEF NodesIn
  <2>2. n \in Nat /\ \A i \in 1..n : docs[i] \in ToSet(docs)
    BY <2>1 DEF IsList, ToSet
  <2> QED
    BY <2>1, <2>2
<1>3. DOMAIN ss = 1..n /\ ss = [i \in 1..n |-> ss[i]] /\ \A i \in 1..n : ss[i] = docs[i].vars
  OBVIOUS
<1> HIDE DEF ss, n, NodesIn
<1>4. IsList(vs) /\ \A v \in ToSet(vs) : NodesIn(v)
  <2>1. \A i \in 1..n : IsList(ss[i])
    BY <1>2, <1>3
  <2>2. IsList(vs) /\ \A v \in ToSet(vs) : \E i \in 1..n : v \in ToSet(ss[i])
    BY <2>1, <1>2, <1>3, Flattened
  <2> HIDE DEF vs
  <2> QED
    BY <2>2, <1>2, <1>3
<1> HIDE DEF vs
<1>5. IsList(used) /\ ToSet(used) \subseteq ToSet(vs)
  <2> DEFINE tt == [i \in 1..Len(vs) |-> IF vs[i].usages # <<>> THEN <<vs[i]>> ELSE <<>>]
  <2>1. used = FlattenSeq(tt)
    BY DEF Those
  <2>2. /\ DOMAIN tt = 1..Len(vs) /\ tt = [i \in 1..Len(vs) |-> tt[i]]
        /\ \A i \in 1..Len(vs) : tt[i] = <<vs[i]>> \/ tt[i] = <<>>
    OBVIOUS
  <2> HIDE DEF tt
  <2> QED
    BY <2>1, <2>2, <1>4, Filtered
<1> HIDE DEF used
<1>6. Len(used) \in Nat /\ \A i \in 1..Len(used) : NodesIn(used[i])
  <2>1. Len(used) \in Nat /\ DOMAIN used = 1..Len(used)
    BY <1>5 DEF IsList
  <2>2. \A i \in 1..Len(used) : used[i] \in ToSet(used)
    BY <2>1 DEF ToSet
  <2> QED
    BY <2>1, <2>2, <1>4, <1>5
<1> DEFINE S == {PatmodOf(used[i]) : i \in 1..Len(used)}
<1>7. read \in Seq(S)
  <2>1. read \in [1..Len(used) -> S]
    OBVIOUS
  <2> HIDE DEF read, S
  <2> QED
    BY <2>1, <1>6
<1>8. \A p \in S : /\ "usages" \in DOMAIN p /\ IsList(p.usages)
                   /\ \A u \in ToSet(p.usages) : "related" \in DOMAIN u /\ IsList(u.related)
  BY <1>6, PatmodRead DEF NodesIn
<1> HIDE DEF read, S
<1>9. IsList(read) /\ ToSet(read) \subseteq S
  BY <1>7, Lists DEF ToSet
<1> QED
  BY <1>1, <1>8, <1>9 DEF PatLists

(***************************************************************************)
(* The last command, whatever was shifted before.                          *)
(***************************************************************************)
CommandInv ==
    /\ family = "SPF" => PatLists(know.pat)
    /\ ClearOf(dut.spf.last)

LEMMA InitCommand == Init => CommandInv
<1> SUFFICES ASSUME Init PROVE CommandInv
  OBVIOUS
<1>1. dut.spf.last.patmods = <<>> /\ ToSet(<<>>) = {}
  BY DEF Init, Untouched, NoCommand, ToSet
<1>2. ASSUME family = "SPF" PROVE PatLists(know.pat)
  <2>1. AreLists(te.docs)
    <3>1. family \in DOMAIN Actions /\ te \in TeConfs["SPF"]
      BY <1>2, SessionAssumption DEF Init
    <3> QED
      BY <1>2, <3>1, SessionAssumption
  <2>2. know.pat = ReadPatmods(te.docs)
    BY <1>2 DEF Init, Ignorant
  <2> QED
    BY <2>1, <2>2, AllRead
<1> QED
  BY <1>1, <1>2 DEF CommandInv, ClearOf

LEMMA SpfDone ==
  ASSUME family = "SPF", family \in DOMAIN Actions, NEW k, NEW d, Shaped(k, d), PatLists(k.pat),
         ClearOf(d.spf.last), NEW a \in Actions[family]
  PROVE  PatLists(Do(k, d, a).know.pat) /\ ClearOf(Do(k, d, a).dut.spf.last)
<1> DEFINE pm == RelateAll(k.pat, a)
           es == PatmodsOf(pm, a)
           ok == ShiftOk(te, k.pat, es, a)
           cmd == Command(te, pm, es, a)
<1>1. Do(k, d, a) = IF ok THEN [bad |-> FALSE, know |-> [k EXCEPT !.pat = pm], dut |-> WithCommand(d, cmd)]
                    ELSE [bad |-> TRUE, know |-> k, dut |-> d]
  BY SpfEffect
<1>2. IsList(a.args) /\ IsList(a.parts) /\ \A x \in ToSet(a.args) : IsList(x.ranges)
  BY ArgumentAssumption
<1>3. PatLists(pm)
  BY <1>2, AllRelated
<1>4. IsList(es) /\ \A e \in ToSet(es) : Covered(e)
  BY <1>2, <1>3, AllCovered
<1>5. ClearOf(cmd)
  BY <1>4, CommandClear
<1>6. "pat" \in DOMAIN k /\ "spf" \in DOMAIN d /\ "last" \in DOMAIN d.spf
  BY DEF Shaped, Ignorant, Untouched
<1> HIDE DEF ok, cmd, pm, es
<1> QED
  BY <1>1, <1>3, <1>5, <1>6 DEF WithCommand

LEMMA StepCommand == WellFormed /\ CommandInv /\ [Next]_vars => CommandInv'
<1> SUFFICES ASSUME WellFormed, CommandInv, [Next]_vars PROVE CommandInv'
  OBVIOUS
<1>0. Shaped(know, dut) /\ family \in DOMAIN Actions
  BY DEF WellFormed
<1>00. ASSUME NEW a \in Actions[family]
       PROVE  LET r == Do(know, dut, a)
              IN  (family = "SPF" => PatLists(r.know.pat)) /\ ClearOf(r.dut.spf.last)
  <2>1. CASE family = "SPF"
    BY <2>1, <1>0, SpfDone DEF CommandInv
  <2>2. CASE family # "SPF"
    BY <2>2, <1>0, OthersStay DEF CommandInv
  <2> QED
    BY <2>1, <2>2
<1>1. ASSUME NEW a \in Actions[family], Verify(a) PROVE CommandInv'
  <2> DEFINE r == Do(know, dut, a)
  <2>1. UNCHANGED <<family, dut>> /\ (know' = know \/ know' = r.know)
    BY <1>1, VerifyStep
  <2>2. family = "SPF" => PatLists(r.know.pat)
    BY <1>00
  <2> HIDE DEF r
  <2> QED
    BY <2>1, <2>2 DEF CommandInv
<1>2. CASE BeginRun
  <2>1. know'.pat = know.pat /\ UNCHANGED <<family, dut>>
    BY <1>2, <1>0 DEF BeginRun, InitialHistory, Shaped, Ignorant
  <2> QED
    BY <2>1 DEF CommandInv
<1>3. CASE Run
  <2> DEFINE a == script[at + 1]
             r == Do(know, dut, a)
  <2>1. /\ UNCHANGED family /\ a \in Actions[family]
        /\ UNCHANGED <<know, dut>> \/ (know' = r.know /\ dut' = r.dut)
    BY <1>3, RunStep
  <2>2. (family = "SPF" => PatLists(r.know.pat)) /\ ClearOf(r.dut.spf.last)
    BY <2>1, <1>00
  <2> HIDE DEF r, a
  <2> QED
    BY <2>1, <2>2 DEF CommandInv
<1>4. CASE Close
  <2>1. dut'.spf.last = dut.spf.last /\ UNCHANGED <<family, know>>
    BY <1>4, <1>0 DEF Close, Shaped, Untouched
  <2> QED
    BY <2>1 DEF CommandInv
<1>5. CASE UNCHANGED vars
  BY <1>5 DEF vars, CommandInv
<1> QED
  BY <1>1, <1>2, <1>3, <1>4, <1>5 DEF Next

\* SPF complains of a label on a bit that a patmod may modify: whatever fields,
\* ranges and related places an action finds its patmods by, send_cmd has taken
\* the labels off all of their bits.
THEOREM LabelsStayClear == Spec => []LabelsClear
<1>1. CommandInv => LabelsClear
  BY DEF CommandInv, LabelsClear, ClearOf
<1> QED
  BY <1>1, InitWellFormed, StepWellFormed, InitCommand, StepCommand, PTL DEF Spec

-----------------------------------------------------------------------------
(***************************************************************************)
(* An incremental write keeps what it does not name.  Only fields that are *)
(* remembered, apart from each other, and those that nothing documented    *)
(* hides are followed from write to write.                                 *)
(***************************************************************************)
\* The register is as long as its last field.
LEMMA LastOfFields ==
  ASSUME NEW f \in DocField
  PROVE  DrSize \in Nat /\ \A g \in DocField : Msb[g] \in 0..(DrSize - 1)
<1> DEFINE n == Len(DocFields)
           bit(i) == Msb[DocFields[i]]
           P == {k \in 0..n : k = 0 \/ \E i \in 1..k : \A j \in 1..k : bit(j) <= bit(i)}
<1>0. n \in Nat /\ \A i \in 1..n : DocFields[i] \in DocField /\ bit(i) \in Nat
  BY RegisterAssumption DEF DocField
<1>1. PICK x \in 1..n : DocFields[x] = f
  BY DEF DocField
<1>2. 0 \in P
  BY <1>0
<1>3. ASSUME NEW k \in 1..n, k - 1 \in P PROVE k \in P
  <2> HIDE DEF bit
  <2>1. CASE k = 1
    <3>1. \A j \in 1..k : bit(j) <= bit(1)
      BY <2>1, <1>0 DEF bit
    <3> QED
      BY <2>1, <3>1
  <2>2. CASE k # 1
    <3>1. PICK i \in 1..(k - 1) : \A j \in 1..(k - 1) : bit(j) <= bit(i)
      BY <2>2, <1>3
    <3>2. bit(i) \in Nat /\ bit(k) \in Nat /\ \A j \in 1..k : bit(j) \in Nat
      BY <1>0 DEF bit
    <3>3. i \in 1..k /\ k \in 1..k /\ \A j \in 1..k : j = k \/ j \in 1..(k - 1)
      BY <2>2
    <3>4. \E y \in 1..k : \A j \in 1..k : bit(j) <= bit(y)
      <4>1. CASE bit(k) <= bit(i)
        <5>1. \A j \in 1..k : bit(j) <= bit(i)
          BY <3>1, <3>3, <4>1
        <5> QED
          BY <3>3, <5>1
      <4>2. CASE ~(bit(k) <= bit(i))
        <5>1. bit(i) <= bit(k) /\ bit(k) <= bit(k)
          BY <3>2, <4>2
        <5>2. \A j \in 1..k : bit(j) <= bit(k)
          BY <3>1, <3>2, <3>3, <5>1
        <5> QED
          BY <3>3, <5>2
      <4> QED
        BY <4>1, <4>2
    <3>5. k \in 0..n
      BY <1>0
    <3> QED
      BY <3>4, <3>5
  <2> QED
    BY <2>1, <2>2
<1>4. \A k \in 0..n : k \in P
  <2> HIDE DEF P, n
  <2> QED
    BY <1>0, <1>2, <1>3, L!BoundedInduction
<1>5. PICK i \in 1..n : \A j \in 1..n : bit(j) <= bit(i)
  <2>1. n # 0
    BY <1>0, <1>1
  <2>2. n \in P
    <3> HIDE DEF P, n
    <3> QED
      BY <1>4, <1>0
  <2> HIDE DEF bit, n
  <2> QED
    BY <2>1, <2>2
<1> DEFINE S == {Msb[g] : g \in DocField}
           m == CHOOSE m \in S : \A g \in DocField : Msb[g] <= m
<1>6. bit(i) \in S /\ \A g \in DocField : Msb[g] <= bit(i)
  BY <1>0, <1>5 DEF DocField
<1>7. m \in S /\ \A g \in DocField : Msb[g] <= m
  <2> HIDE DEF S
  <2> QED
    BY <1>6
<1>8. m \in Nat /\ \A g \in DocField : Msb[g] \in Nat
  BY <1>7, RegisterAssumption
<1>9. DrSize = 1 + m
  BY DEF DrSize
<1> HIDE DEF m
<1> QED
  BY <1>7, <1>8, <1>9

\* The bits that others place do not reach into a field that they do not overlap.
LEMMA PlacedApart ==
  ASSUME NEW V, DOMAIN V \subseteq DocField, NEW f \in DocField,
         \A g \in DOMAIN V : ~Overlap(f, g) /\ V[g] \subseteq 0..Size(g)
  PROVE  Slice(Placed(V), f) = IF f \in DOMAIN V THEN V[f] ELSE {}
<1>0. /\ Lsb[f] \in Nat /\ Msb[f] \in Nat /\ Lsb[f] <= Msb[f]
      /\ \A g \in DOMAIN V : Lsb[g] \in Nat /\ Msb[g] \in Nat /\ Lsb[g] <= Msb[g]
  BY RegisterAssumption
<1>1. ASSUME NEW x \in Slice(Placed(V), f) PROVE f \in DOMAIN V /\ x \in V[f]
  <2>1. PICK r \in Placed(V) : Lsb[f] <= r /\ r <= Msb[f] /\ x = r - Lsb[f]
    BY <1>1 DEF Slice
  <2>2. PICK g \in DOMAIN V : r \in Place(V[g], g)
    BY <2>1 DEF Placed
  <2>3. PICK v \in V[g] : r = v + Lsb[g] /\ v <= Msb[g] - Lsb[g]
    BY <2>2 DEF Place
  <2>4. v \in Nat
    BY <1>0, <2>3 DEF Size
  <2>5. Lsb[g] <= r /\ r <= Msb[g] /\ r \in Nat
    BY <1>0, <2>3, <2>4
  <2>6. f = g
    BY <1>0, <2>1, <2>5 DEF Overlap
  <2> QED
    BY <1>0, <2>1, <2>3, <2>4, <2>6
<1>2. ASSUME f \in DOMAIN V, NEW x \in V[f] PROVE x \in Slice(Placed(V), f)
  <2>1. x \in Nat /\ x <= Msb[f] - Lsb[f]
    BY <1>0, <1>2 DEF Size
  <2>2. x + Lsb[f] \in Place(V[f], f)
    BY <2>1 DEF Place
  <2>3. x + Lsb[f] \in Placed(V)
    BY <2>2, <1>2 DEF Placed
  <2>4. Lsb[f] <= x + Lsb[f] /\ x + Lsb[f] <= Msb[f] /\ x = (x + Lsb[f]) - Lsb[f]
    BY <1>0, <2>1
  <2> QED
    BY <2>3, <2>4 DEF Slice
<1> QED
  BY <1>1, <1>2

LEMMA SliceUnion ==
  ASSUME NEW A, NEW B, NEW f
  PROVE  Slice(A \cup B, f) = Slice(A, f) \cup Slice(B, f)
BY DEF Slice

\* The fields that get their default: free ones, apart from each other, and all of
\* those that no other overlaps from below.
DefaultsIn(free, unused, s) ==
    s \subseteq free /\ \A f, g \in s : ~Overlap(f, g)
Setting(free, unused, s, b) == SetAt(free, s, b)
St == INSTANCE FoldFacts WITH op <- Setting, holds <- DefaultsIn
Bits == [i \in 1..DrSize |-> i - 1]

LEMMA OverlapBothWays ==
  ASSUME NEW f, NEW g
  PROVE  Overlap(f, g) <=> Overlap(g, f)
BY DEF Overlap

LEMMA SettingApart ==
  ASSUME NEW free \in SUBSET DocField, \A f, g \in free : Lsb[f] = Lsb[g] => f = g,
         NEW b, NEW s, DefaultsIn(free, free, s)
  PROVE  DefaultsIn(free, free, SetAt(free, s, b))
<1>1. SetAt(free, s, b) \subseteq free
  BY DEF SetAt, DefaultsIn
<1>2. ASSUME NEW f \in SetAt(free, s, b), NEW g \in SetAt(free, s, b) PROVE ~Overlap(f, g)
  <2>1. f \in s \/ (f \in free /\ Lsb[f] = b /\ \A x \in s : ~Overlap(f, x))
    BY DEF SetAt
  <2>2. g \in s \/ (g \in free /\ Lsb[g] = b /\ \A x \in s : ~Overlap(g, x))
    BY DEF SetAt
  <2>3. CASE f \in s /\ g \in s
    BY <2>3 DEF DefaultsIn
  <2>4. CASE f \notin s /\ g \notin s
    <3>1. f = g
      BY <2>1, <2>2, <2>4
    <3> QED
      BY <3>1 DEF Overlap
  <2> QED
    BY <2>1, <2>2, <2>3, <2>4, OverlapBothWays
<1> QED
  BY <1>1, <1>2 DEF DefaultsIn

\* The defaults of a write that names fields N.
Free(N) == {f \in DefaultFields \ N : \A g \in N : ~Overlap(f, g)}
DefaultSet(N) == FoldLeft(LAMBDA s, b : SetAt(Free(N), s, b), {}, Bits)

LEMMA FreeApart ==
  ASSUME NEW N
  PROVE  Free(N) \in SUBSET DocField /\ \A f, g \in Free(N) : Lsb[f] = Lsb[g] => f = g
<1>1. Free(N) \subseteq DefaultFields /\ DefaultFields \subseteq DocField
  BY DEF Free, DefaultFields
<1>2. ASSUME NEW f \in DefaultFields, NEW g \in DefaultFields, Lsb[f] = Lsb[g] PROVE f = g
  <2>1. PICK i \in 1..Len(DocFields) : DocFields[i] = f
    BY DEF DefaultFields, DocField
  <2>2. PICK j \in 1..Len(DocFields) : DocFields[j] = g
    BY DEF DefaultFields, DocField
  <2>3. ~(i < j) /\ ~(j < i)
    BY <1>2, <2>1, <2>2 DEF DefaultFields
  <2>4. i = j
    BY <2>3, RegisterAssumption
  <2> QED
    BY <2>1, <2>2, <2>4
<1> QED
  BY <1>1, <1>2

LEMMA SetSteps ==
  ASSUME NEW N, DrSize \in Nat
  PROVE  \E g : /\ g[0] = {} /\ DefaultSet(N) = g[DrSize]
                /\ \A i \in 1..DrSize : g[i] = SetAt(Free(N), g[i - 1], i - 1)
                /\ \A i \in 0..DrSize : DefaultsIn(Free(N), Free(N), g[i])
<1> DEFINE free == Free(N)
           n == DrSize
<1>0. free \in SUBSET DocField /\ \A f, g \in free : Lsb[f] = Lsb[g] => f = g
  BY FreeApart
<1>1. DefaultSet(N) = St!Fold(free, free, {}, Bits)
  BY DEF DefaultSet, Setting, FoldLeft, MapThenFoldSet, Max, St!Fold, St!Top
<1>2. DOMAIN Bits = 1..n /\ n \in Nat /\ \A i \in 1..n : Bits[i] = i - 1
  BY DEF Bits
<1> HIDE DEF free, n
<1>3. PICK g : St!Steps(g, free, free, {}, Bits, n) /\ St!Fold(free, free, {}, Bits) = g[n]
  BY <1>2, St!FoldSteps
<1>4. g[0] = {} /\ \A i \in 1..n : g[i] = SetAt(free, g[i - 1], i - 1)
  <2>1. \A i \in 1..n : g[i] = Setting(free, free, g[i - 1], Bits[i])
    BY <1>3 DEF St!Steps
  <2> QED
    BY <1>2, <1>3, <2>1 DEF St!Steps, Setting
<1> DEFINE P == {i \in 0..n : DefaultsIn(free, free, g[i])}
<1>5. \A i \in 0..n : i \in P
  <2>1. 0 \in P
    BY <1>2, <1>4 DEF DefaultsIn
  <2>2. \A i \in 1..n : i - 1 \in P => i \in P
    BY <1>0, <1>4, SettingApart
  <2> HIDE DEF P
  <2> QED
    BY <1>2, <2>1, <2>2, St!BoundedInduction
<1> QED
  BY <1>1, <1>3, <1>4, <1>5 DEF free, n

LEMMA DefaultsApart ==
  ASSUME NEW N, DrSize \in Nat
  PROVE  DefaultSet(N) \subseteq Free(N) /\ \A f, g \in DefaultSet(N) : ~Overlap(f, g)
<1>1. DefaultsIn(Free(N), Free(N), DefaultSet(N))
  BY SetSteps
<1> QED
  BY <1>1 DEF DefaultsIn

\* Nothing is set before a foremost field that overlaps it.
LEMMA ForemostSet ==
  ASSUME NEW N, NEW f \in DocField, Foremost(f), f \notin N, \A g \in N : ~Overlap(f, g)
  PROVE  f \in DefaultSet(N)
<1> DEFINE n == DrSize
           b == Lsb[f]
<1>0. n \in Nat /\ b \in Nat /\ Msb[f] \in 0..(n - 1) /\ b <= Msb[f]
  BY LastOfFields, RegisterAssumption
<1>1. f \in Free(N)
  <2>1. ASSUME NEW i \in 1..Len(DocFields), NEW j \in 1..Len(DocFields),
               i < j, DocFields[i] = f, Lsb[DocFields[j]] = Lsb[f]
        PROVE  FALSE
    <3> DEFINE g == DocFields[j]
    <3>1. g \in DocField /\ g # f
      <4>1. DocFields \in Seq(DocField)
        BY RegisterAssumption
      <4>2. \A x, y \in DOMAIN DocFields : DocFields[x] = DocFields[y] => x = y
        BY RegisterAssumption DEF IsInjective
      <4>3. DOMAIN DocFields = 1..Len(DocFields) /\ i # j
        BY <2>1, <4>1
      <4> QED
        BY <2>1, <4>1, <4>2, <4>3
    <3>2. Lsb[g] \in Nat /\ Msb[g] \in Nat /\ Lsb[g] <= Msb[g]
      BY <3>1, RegisterAssumption
    <3>3. Overlap(f, g)
      BY <1>0, <2>1, <3>1, <3>2 DEF Overlap
    <3> QED
      BY <1>0, <2>1, <3>1, <3>3 DEF Foremost
  <2> QED
    BY <2>1 DEF Free, DefaultFields
<1>2. PICK g : /\ g[0] = {} /\ DefaultSet(N) = g[n]
               /\ \A i \in 1..n : g[i] = SetAt(Free(N), g[i - 1], i - 1)
               /\ \A i \in 0..n : DefaultsIn(Free(N), Free(N), g[i])
  BY <1>0, SetSteps
<1> HIDE DEF n
<1> DEFINE P == {i \in 0..n : /\ i <= b => \A x \in g[i] : Lsb[x] < i
                              /\ i > b => f \in g[i]}
<1>3. 0 \in P
  BY <1>0, <1>2
<1>4. ASSUME NEW i \in 1..n, i - 1 \in P PROVE i \in P
  <2>0. g[i - 1] \subseteq DocField
    <3>1. i - 1 \in 0..n
      BY <1>0
    <3>2. DefaultsIn(Free(N), Free(N), g[i - 1])
      BY <1>2, <3>1
    <3> QED
      BY <3>2, FreeApart DEF DefaultsIn
  <2>1. g[i] = g[i - 1] \cup {x \in Free(N) : Lsb[x] = i - 1 /\ \A y \in g[i - 1] : ~Overlap(x, y)}
    BY <1>2 DEF SetAt
  <2>2. CASE i <= b
    <3>1. \A x \in g[i - 1] : Lsb[x] < i - 1
      BY <1>0, <1>4, <2>2
    <3>3. \A x \in g[i] : Lsb[x] < i
      BY <2>0, <2>1, <3>1, RegisterAssumption
    <3> QED
      BY <1>0, <2>2, <3>3
  <2>3. CASE i > b + 1
    BY <1>0, <1>4, <2>1, <2>3
  <2>4. CASE i = b + 1
    <3>1. \A x \in g[i - 1] : Lsb[x] < b
      BY <1>0, <1>4, <2>4
    <3>3. \A x \in g[i - 1] : ~Overlap(f, x)
      BY <1>0, <2>0, <3>1, RegisterAssumption DEF Foremost
    <3>4. f \in g[i]
      BY <1>0, <1>1, <2>1, <2>4, <3>3
    <3> QED
      BY <1>0, <2>4, <3>4
  <2> QED
    BY <1>0, <2>2, <2>3, <2>4
<1>5. \A i \in 0..n : i \in P
  <2> HIDE DEF P
  <2> QED
    BY <1>0, <1>3, <1>4, St!BoundedInduction DEF n
<1>6. n \in P /\ n > b
  BY <1>0, <1>5
<1> QED
  BY <1>2, <1>6

\* The members of a set of fields are listed, each of them.
LEMMA ListedAll ==
  ASSUME NEW S \in SUBSET DocField, NEW f \in S
  PROVE  \E i \in 1..Len(Listed(S)) : Listed(S)[i] = f
<1> DEFINE n == Len(DocFields)
<1>1. Listed(S) = L!Fold(S, S, <<>>, DocFields)
  BY DEF Listed, Listing, FoldLeft, MapThenFoldSet, Max, L!Fold, L!Top
<1>2. DOMAIN DocFields = 1..n /\ n \in Nat
  BY RegisterAssumption
<1>3. PICK g : L!Steps(g, S, S, <<>>, DocFields, n) /\ L!Fold(S, S, <<>>, DocFields) = g[n]
  BY <1>2, L!FoldSteps
<1>4. PICK at0 \in 1..n : DocFields[at0] = f
  BY DEF DocField
<1> DEFINE In(s) == \E k \in 1..Len(s) : s[k] = f
           P == {i \in 0..n : g[i] \in Seq(DocField) /\ (i >= at0 => In(g[i]))}
<1>5. 0 \in P
  <2>1. g[0] = <<>> /\ <<>> \in Seq(DocField)
    BY <1>3 DEF L!Steps
  <2>2. 0 \in 0..n /\ ~(0 >= at0)
    BY <1>2, <1>4
  <2> HIDE DEF n, In
  <2> QED
    BY <2>1, <2>2
<1>6. ASSUME NEW i \in 1..n, i - 1 \in P PROVE i \in P
  <2>1. g[i] = IF DocFields[i] \in S THEN Append(g[i - 1], DocFields[i]) ELSE g[i - 1]
    BY <1>3 DEF L!Steps, Listing
  <2>2. DocFields[i] \in DocField /\ g[i - 1] \in Seq(DocField)
    BY <1>6 DEF DocField
  <2>3. g[i] \in Seq(DocField)
    BY <2>1, <2>2
  <2>4. In(g[i - 1]) => In(g[i])
    BY <2>1, <2>2
  <2>5. i = at0 => In(g[i])
    <3> SUFFICES ASSUME i = at0 PROVE In(g[i])
      OBVIOUS
    <3>1. g[i] = Append(g[i - 1], f)
      BY <1>4, <2>1
    <3>2. Len(g[i]) \in 1..Len(g[i]) /\ g[i][Len(g[i])] = f
      BY <2>2, <3>1
    <3> QED
      BY <3>2
  <2>6. i >= at0 => i = at0 \/ i - 1 >= at0
    BY <1>2, <1>4
  <2> HIDE DEF In
  <2> QED
    BY <1>2, <1>6, <2>3, <2>4, <2>5, <2>6
<1>7. \A i \in 0..n : i \in P
  <2> HIDE DEF P
  <2> QED
    BY <1>2, <1>5, <1>6, L!BoundedInduction
<1>8. n \in P /\ n >= at0
  BY <1>7, <1>2, <1>4
<1> QED
  BY <1>1, <1>3, <1>8

\* One whole range is the value.
LEMMA WholeRange ==
  ASSUME NEW b, NEW bits
  PROVE  FoldLeft(OnRange, b, <<Whole(bits)>>) = bits
<1> DEFINE ranges == <<Whole(bits)>>
<1>1. FoldLeft(OnRange, b, ranges) = R!Fold(b, b, b, ranges)
  BY DEF Ranging, FoldLeft, MapThenFoldSet, Max, R!Fold, R!Top
<1>2. DOMAIN ranges = 1..1 /\ ranges[1] = Whole(bits)
  OBVIOUS
<1> HIDE DEF ranges
<1>3. PICK g : R!Steps(g, b, b, b, ranges, 1) /\ R!Fold(b, b, b, ranges) = g[1]
  <2> DEFINE n == 1
  <2>1. n \in Nat /\ DOMAIN ranges = 1..n
    BY <1>2
  <2> HIDE DEF n
  <2>2. \E g : R!Steps(g, b, b, b, ranges, n) /\ R!Fold(b, b, b, ranges) = g[n]
    BY <2>1, R!FoldSteps
  <2> QED
    BY <2>2 DEF n
<1>4. g[1] = OnRange(g[0], Whole(bits))
  BY <1>2, <1>3 DEF R!Steps, Ranging
<1>5. OnRange(g[0], Whole(bits)) = bits
  BY DEF OnRange, Whole
<1> QED
  BY <1>1, <1>3, <1>4, <1>5 DEF ranges

\* An incremental write of whole fields: what it names and what is remembered are
\* set, to values that fit, and what is remembered and not named is set again.
WritesWhole(a) ==
    /\ a.op = "write" /\ a.incremental /\ a.unset /\ a.args \in Seq(Argument)
    /\ \A i \in 1..Len(a.args) :
          a.args[i].exact /\ a.args[i].ranges = <<Whole(a.args[i].ranges[1].bits)>>
Tabled(h) == DOMAIN h \subseteq DocField /\ \A f \in DOMAIN h : h[f] \subseteq Nat

LEMMA WrittenValues ==
  ASSUME NEW h, Tabled(h), NEW a, WritesWhole(a), TapOk(h, a)
  PROVE  LET v == NamedValues(h, a)
         IN  /\ DOMAIN v = Named(Given(h, a))
             /\ Named(Given(h, a)) = Named(a.args) \cup DOMAIN h
             /\ \A f \in DOMAIN v : f \in DocField /\ v[f] \subseteq 0..Size(f)
             /\ \A f \in DOMAIN h \ Named(a.args) : v[f] = h[f]
<1> DEFINE args == Given(h, a)
           v == NamedValues(h, a)
           of(f) == {k \in 1..Len(args) : args[k].field = f}
           last(f) == CHOOSE i \in of(f) : \A j \in of(f) : j <= i
           missing == DOMAIN h \ Exact(a.args)
           seq == Listed(missing)
           more == [i \in 1..Len(seq) |->
                      [field |-> seq[i], exact |-> TRUE, ranges |-> <<Whole(h[seq[i]])>>]]
<1>1. /\ Len(args) \in Nat /\ Len(args) >= Len(a.args) /\ Len(a.args) \in Nat
      /\ \A i \in 1..Len(a.args) : args[i] = a.args[i]
      /\ \A i \in 1..Len(args) : i > Len(a.args) =>
           \E f \in DOMAIN h \cap DocField :
               args[i] = [field |-> f, exact |-> TRUE, ranges |-> <<Whole(h[f])>>]
  BY GivenArguments DEF WritesWhole
<1>2. Exact(a.args) = Named(a.args)
  BY DEF Exact, Named, WritesWhole
<1>3. args = a.args \o more
  BY DEF Given, WritesWhole
<1>4. seq \in Seq(missing \cap DocField)
  BY ListedFields
<1>5. v = [f \in Named(args) |-> IF last(f) <= 0 THEN ResetOf[f]
                                  ELSE FoldLeft(OnRange, ResetOf[f], args[last(f)].ranges)]
  BY DEF NamedValues, WritesWhole
<1>6. \A i \in 1..Len(args) : \A j \in 1..Len(args[i].ranges) : RangeFits(args[i].field, args[i].ranges[j])
  BY DEF TapOk
<1>7. ASSUME NEW f \in DOMAIN h \ Named(a.args) PROVE f \in Named(args)
  <2>1. f \in missing /\ missing \in SUBSET DocField
    BY <1>2 DEF Tabled
  <2>2. PICK i \in 1..Len(seq) : seq[i] = f
    <3> HIDE DEF missing
    <3> QED
      BY <2>1, ListedAll
  <2>00. missing \cap DocField \subseteq DocField /\ missing \cap DocField \subseteq DOMAIN h
    OBVIOUS
  <2> HIDE DEF missing, seq
  <2>0. /\ seq \in Seq(DocField) /\ Len(seq) \in Nat
        /\ \A k \in 1..Len(seq) : seq[k] \in DocField /\ seq[k] \in DOMAIN h
    <3> DEFINE T == missing \cap DocField
    <3>1. seq \in Seq(T) /\ T \subseteq DocField /\ T \subseteq DOMAIN h
      BY <1>4, <2>00
    <3> HIDE DEF T
    <3> QED
      BY <3>1
  <2>3. Len(seq) \in Nat /\ Len(more) = Len(seq) /\ more[i].field = f
    BY <2>0, <2>2
  <2>4. more \in Seq([field : DocField, exact : BOOLEAN, ranges : {<<Whole(h[x])>> : x \in DOMAIN h}])
    BY <2>0
  <2> DEFINE M == [field : DocField, exact : BOOLEAN, ranges : {<<Whole(h[x])>> : x \in DOMAIN h}]
  <2>5. a.args \in Seq(Argument \cup M) /\ more \in Seq(Argument \cup M)
    <3>1. more \in Seq(M) /\ a.args \in Seq(Argument)
      BY <2>4 DEF WritesWhole
    <3> HIDE DEF M, more
    <3> QED
      BY <3>1
  <2> HIDE DEF M, more, args
  <2>6. /\ Len(a.args) + i \in 1..Len(args)
        /\ args[Len(a.args) + i] = more[i]
    BY <1>1, <1>3, <2>2, <2>3, <2>5
  <2> QED
    BY <2>3, <2>6 DEF Named
<1> HIDE DEF args, v, more, missing, seq
<1>8. Named(args) = Named(a.args) \cup DOMAIN h
  <2>1. Named(a.args) \subseteq Named(args)
    BY <1>1 DEF Named
  <2>2. ASSUME NEW i \in 1..Len(args) PROVE args[i].field \in Named(a.args) \cup DOMAIN h
    <3>1. CASE i <= Len(a.args)
      BY <3>1, <1>1 DEF Named
    <3>2. CASE i > Len(a.args)
      <4>1. PICK f \in DOMAIN h \cap DocField :
               args[i] = [field |-> f, exact |-> TRUE, ranges |-> <<Whole(h[f])>>]
        BY <3>2, <1>1
      <4> QED
        BY <4>1
    <3> QED
      BY <3>1, <3>2, <1>1
  <2> QED
    BY <1>7, <2>1, <2>2 DEF Named
<1>9. ASSUME NEW f \in Named(args)
      PROVE  \E i \in of(f) : \E bits :
                /\ v[f] = bits /\ args[i].ranges = <<Whole(bits)>> /\ bits \subseteq 0..Size(f)
                /\ f \in DocField
                /\ i > Len(a.args) => f \in DOMAIN h /\ bits = h[f]
  <2>1. of(f) \in SUBSET (1..Len(args)) /\ of(f) # {}
    BY DEF Named
  <2>2. \E i \in of(f) : \A j \in of(f) : j <= i
    <3> HIDE DEF of
    <3>1. L!Top(of(f)) \in of(f) /\ \A y \in of(f) : y <= L!Top(of(f))
      BY <1>1, <2>1, L!TopOf
    <3> QED
      BY <3>1
  <2>3. last(f) \in of(f)
    <3> HIDE DEF of
    <3> QED
      BY <2>2
  <2> DEFINE i == last(f)
  <2>4. i \in of(f) /\ i \in 1..Len(args) /\ args[i].field = f /\ ~(i <= 0)
    BY <2>3, <1>1
  <2>5. v[f] = FoldLeft(OnRange, ResetOf[f], args[i].ranges)
    BY <1>5, <2>4
  <2> HIDE DEF i, last
  <2>6. PICK bits : /\ args[i].ranges = <<Whole(bits)>> /\ bits \subseteq Nat /\ f \in DocField
                    /\ i > Len(a.args) => f \in DOMAIN h /\ bits = h[f]
    <3>1. CASE i <= Len(a.args)
      <4>1. i \in 1..Len(a.args) /\ args[i] = a.args[i] /\ a.args[i] \in Argument
        BY <3>1, <2>4, <1>1 DEF WritesWhole
      <4>2. a.args[i].ranges = <<Whole(a.args[i].ranges[1].bits)>>
        BY <4>1 DEF WritesWhole
      <4>3. a.args[i].ranges \in Seq(TapRange) /\ Len(a.args[i].ranges) = 1
        BY <4>1, <4>2 DEF Argument
      <4>4. a.args[i].ranges[1] \in TapRange
        BY <4>3
      <4>5. a.args[i].ranges[1].bits \subseteq Nat /\ f \in DocField
        BY <4>1, <4>4, <2>4 DEF TapRange, Argument
      <4> QED
        BY <3>1, <4>1, <4>2, <4>5, <1>1, <2>4
    <3>2. CASE i > Len(a.args)
      <4>1. PICK g \in DOMAIN h \cap DocField :
               args[i] = [field |-> g, exact |-> TRUE, ranges |-> <<Whole(h[g])>>]
        BY <3>2, <2>4, <1>1
      <4>2. g = f /\ args[i].ranges = <<Whole(h[g])>>
        BY <4>1, <2>4
      <4> QED
        BY <4>2 DEF Tabled
    <3> QED
      BY <3>1, <3>2, <2>4, <1>1
  <2>7. RangeFits(f, Whole(bits))
    <3>1. 1 \in 1..Len(args[i].ranges) /\ args[i].ranges[1] = Whole(bits)
      BY <2>6
    <3> QED
      BY <1>6, <2>4, <3>1
  <2>8. bits \subseteq 0..Size(f)
    <3>1. \A b \in bits : b <= Msb[f] - Lsb[f]
      BY <2>7 DEF RangeFits, Whole
    <3>2. Lsb[f] \in Nat /\ Msb[f] \in Nat
      BY <2>6, RegisterAssumption
    <3> QED
      BY <2>6, <3>1, <3>2 DEF Size
  <2>9. v[f] = bits
    BY <2>5, <2>6, WholeRange
  <2> QED
    BY <2>4, <2>6, <2>8, <2>9
<1>10. DOMAIN v = Named(args)
  BY <1>5
<1>11. \A f \in DOMAIN v : f \in DocField /\ v[f] \subseteq 0..Size(f)
  BY <1>9, <1>10
<1>12. ASSUME NEW f \in DOMAIN h \ Named(a.args) PROVE v[f] = h[f]
  <2>1. PICK i \in of(f) : \E bits :
                /\ v[f] = bits
                /\ i > Len(a.args) => f \in DOMAIN h /\ bits = h[f]
    BY <1>7, <1>9
  <2>2. i > Len(a.args)
    <3> SUFFICES ASSUME i <= Len(a.args) PROVE FALSE
      BY <1>1
    <3> QED
      BY <1>1 DEF Named
  <2> QED
    BY <2>1, <2>2
<1> QED
  BY <1>8, <1>10, <1>11, <1>12 DEF args, v

\* A register holds what is remembered, and the reset values of the foremost fields
\* that are not and are not hidden by those that are.
Bare(h) == {f \in DocField \ DOMAIN h : Foremost(f) /\ \A g \in DOMAIN h : ~Overlap(f, g)}
Holding(h, reg) ==
    /\ Tabled(h)
    /\ \A f \in DOMAIN h : Slice(reg, f) = h[f]
    /\ \A f \in Bare(h) : Slice(reg, f) = ResetOf[f]

LEMMA DefaultsOf ==
  ASSUME NEW v, NEW a, a.unset, a.op = "write"
  PROVE  Defaults(v, a) = [f \in DefaultSet(DOMAIN v) |-> ResetOf[f]]
BY DEF Defaults, DefaultSet, Free, Bits

LEMMA ShiftHolds ==
  ASSUME NEW h, Tabled(h), NEW a, WritesWhole(a), TapOk(h, a), ~Clash(h, a)
  PROVE  /\ Holding(Captured(h, a), Sent(h, a))
         /\ DOMAIN Captured(h, a) = Named(a.args) \cup DOMAIN h
         /\ \A f \in DOMAIN h \ Named(a.args) : Captured(h, a)[f] = h[f]
<1> DEFINE v == NamedValues(h, a)
           N == Named(Given(h, a))
           dv == Defaults(v, a)
           reg == Sent(h, a)
<1>1. /\ DOMAIN v = N /\ N = Named(a.args) \cup DOMAIN h
      /\ \A f \in DOMAIN v : f \in DocField /\ v[f] \subseteq 0..Size(f)
      /\ \A f \in DOMAIN h \ Named(a.args) : v[f] = h[f]
  BY WrittenValues
<1>2. reg = Placed(v) \cup Placed(dv)
  BY DEF Sent, Register, Completed, WritesWhole
<1>3. \A f, g \in N : ~Overlap(f, g)
  BY DEF Clash
<1>4. dv = [f \in DefaultSet(N) |-> ResetOf[f]]
  BY <1>1, DefaultsOf DEF WritesWhole
<1>5. Captured(h, a) = Over(v, h)
  BY DEF Captured, WritesWhole
<1> HIDE DEF v, N, dv, reg
<1>6. /\ DOMAIN Over(v, h) = N
      /\ \A f \in N : Over(v, h)[f] = v[f]
  BY <1>1 DEF Over
<1>7. Tabled(Over(v, h))
  <2>1. \A f \in N : v[f] \subseteq Nat
    BY <1>1, RegisterAssumption DEF Size
  <2> QED
    BY <1>1, <1>6, <2>1 DEF Tabled
<1>8. ASSUME NEW f \in N PROVE Slice(reg, f) = v[f]
  <2>1. f \in DocField /\ DrSize \in Nat
    BY <1>1, LastOfFields
  <2>2. DefaultSet(N) \subseteq Free(N)
    BY <2>1, DefaultsApart
  <2>3. Slice(Placed(v), f) = v[f]
    BY <1>1, <1>3, <2>1, PlacedApart
  <2>4. Slice(Placed(dv), f) = {}
    <3>1. DOMAIN dv = DefaultSet(N) /\ DOMAIN dv \subseteq DocField /\ f \notin DOMAIN dv
      BY <1>4, <2>2, FreeApart DEF Free
    <3>2. \A g \in DOMAIN dv : ~Overlap(f, g) /\ dv[g] \subseteq 0..Size(g)
      BY <1>4, <2>2, <3>1, OverlapBothWays, RegisterAssumption DEF Free, Size
    <3> QED
      BY <2>1, <3>1, <3>2, PlacedApart
  <2>5. Slice(reg, f) = Slice(Placed(v), f) \cup Slice(Placed(dv), f)
    BY <1>2, SliceUnion
  <2> QED
    BY <2>3, <2>4, <2>5
<1>9. ASSUME NEW f \in Bare(Over(v, h)) PROVE Slice(reg, f) = ResetOf[f]
  <2>1. f \in DocField /\ f \notin N /\ Foremost(f) /\ \A g \in N : ~Overlap(f, g)
    BY <1>6 DEF Bare
  <2>2. DrSize \in Nat
    BY <2>1, LastOfFields
  <2>3. f \in DefaultSet(N)
    BY <2>1, ForemostSet
  <2>4. DefaultSet(N) \subseteq Free(N) /\ \A x, y \in DefaultSet(N) : ~Overlap(x, y)
    BY <2>2, DefaultsApart
  <2>5. Slice(Placed(v), f) = {}
    BY <1>1, <2>1, PlacedApart
  <2>6. Slice(Placed(dv), f) = ResetOf[f]
    <3>1. DOMAIN dv = DefaultSet(N) /\ DOMAIN dv \subseteq DocField /\ dv[f] = ResetOf[f]
      BY <1>4, <2>3, <2>4, FreeApart
    <3>2. \A g \in DOMAIN dv : ~Overlap(f, g) /\ dv[g] \subseteq 0..Size(g)
      BY <1>4, <2>3, <2>4, <3>1, RegisterAssumption DEF Size
    <3> QED
      BY <2>1, <2>3, <3>1, <3>2, PlacedApart
  <2>7. Slice(reg, f) = Slice(Placed(v), f) \cup Slice(Placed(dv), f)
    BY <1>2, SliceUnion
  <2> QED
    BY <2>5, <2>6, <2>7
<1>10. Holding(Over(v, h), reg)
  BY <1>6, <1>7, <1>8, <1>9 DEF Holding
<1> QED
  BY <1>1, <1>5, <1>6, <1>10 DEF reg

\* The register out of reset.
LEMMA ResetHolds == Holding(NoTap, ResetRegister)
<1> DEFINE V == [f \in DocField |-> ResetOf[f]]
<1>1. ASSUME NEW f \in DocField, Foremost(f) PROVE Slice(ResetRegister, f) = ResetOf[f]
  <2>1. /\ Lsb[f] \in Nat /\ Msb[f] \in Nat /\ Lsb[f] <= Msb[f]
        /\ \A g \in DocField : /\ Lsb[g] \in Nat /\ Msb[g] \in Nat
                               /\ ResetOf[g] \subseteq 0..(Msb[g] - Lsb[g])
    BY RegisterAssumption
  <2>2. ASSUME NEW x \in Slice(ResetRegister, f) PROVE x \in ResetOf[f]
    <3>1. PICK r \in ResetRegister : Lsb[f] <= r /\ r <= Msb[f] /\ x = r - Lsb[f]
      BY <2>2 DEF Slice
    <3>2. PICK g \in DocField : r \in Place(ResetOf[g], g)
      BY <3>1 DEF ResetRegister
    <3>3. PICK y \in ResetOf[g] : r = y + Lsb[g] /\ y <= Msb[g] - Lsb[g]
      BY <3>2 DEF Place
    <3>4. CASE g = f
      BY <2>1, <3>1, <3>3, <3>4
    <3>5. CASE g # f
      <4>1. Lsb[g] <= r /\ r <= Msb[g]
        BY <2>1, <3>3
      <4>2. Overlap(f, g)
        BY <2>1, <3>1, <3>3, <3>5, <4>1 DEF Overlap
      <4>3. x \in Slice(Place(ResetOf[g], g), f)
        BY <3>1, <3>2 DEF Slice
      <4> QED
        BY <1>1, <4>2, <4>3 DEF Foremost
    <3> QED
      BY <3>4, <3>5
  <2>3. ASSUME NEW x \in ResetOf[f] PROVE x \in Slice(ResetRegister, f)
    <3>1. x \in Nat /\ x <= Msb[f] - Lsb[f]
      BY <2>1, <2>3
    <3>2. x + Lsb[f] \in Place(ResetOf[f], f)
      BY <3>1, <2>3 DEF Place
    <3>3. x + Lsb[f] \in ResetRegister
      BY <3>2 DEF ResetRegister
    <3>4. Lsb[f] <= x + Lsb[f] /\ x + Lsb[f] <= Msb[f] /\ x = (x + Lsb[f]) - Lsb[f]
      BY <2>1, <3>1
    <3> QED
      BY <3>3, <3>4 DEF Slice
  <2> QED
    BY <2>2, <2>3
<1>2. DOMAIN NoTap = {}
  BY DEF NoTap
<1> QED
  BY <1>1, <1>2 DEF Holding, Tabled, Bare

\* In the run pass of a script of incremental writes the register holds what is
\* remembered of it.
KeptInv ==
    family = "TAP" /\ resets /\ Every(IncrementalTap) /\ phase \in {"run", "done"} =>
        Holding(know.tap, dut.reg)

\* What a step of such a script keeps: the TAP half of IncrementalKeeps.
TapKept ==
    family = "TAP" /\ resets /\ Every(IncrementalTap) =>
        \A a \in Actions[family] : Runs(a) => KeepsTap(a)

\* An action of the run pass.
LEMMA TapRuns ==
  ASSUME WellFormed, family = "TAP", Every(IncrementalTap), Run, phase' # "failed",
         Holding(know.tap, dut.reg)
  PROVE  /\ Holding(know.tap, dut.reg)'
         /\ LET a == script[at + 1]
            IN  /\ DOMAIN know'.tap = Named(a.args) \cup DOMAIN know.tap
                /\ \A f \in DOMAIN know.tap \ Named(a.args) : know'.tap[f] = know.tap[f]
<1> DEFINE a == script[at + 1]
           h == know.tap
           r == Do(know, dut, a)
<1>1. /\ phase = "run" /\ at + 1 \in 1..Len(script) /\ a \in Actions[family]
      /\ ~r.bad /\ know' = r.know /\ dut' = r.dut
  BY RunStep
<1>2. "tap" \in DOMAIN know /\ "reg" \in DOMAIN dut
  BY DEF WellFormed, Shaped, Ignorant, Untouched
<1>3. know'.tap = Captured(h, a) /\ dut'.reg = Sent(h, a)
  BY <1>1, <1>2, TapEffect
<1>4. TapOk(h, a) /\ ~Clash(h, a)
  BY <1>1, Rejections
<1>5. WritesWhole(a)
  <2>1. a.args \in Seq(Argument)
    BY <1>1, ArgumentAssumption DEF WellFormed, Argument
  <2>2. IncrementalTap(a)
    BY <1>1 DEF Every
  <2> QED
    BY <2>1, <2>2 DEF WritesWhole, IncrementalTap
<1>6. Tabled(h)
  BY DEF Holding
<1> HIDE DEF r, a, h
<1>7. /\ Holding(Captured(h, a), Sent(h, a))
      /\ DOMAIN Captured(h, a) = Named(a.args) \cup DOMAIN h
      /\ \A f \in DOMAIN h \ Named(a.args) : Captured(h, a)[f] = h[f]
  BY <1>4, <1>5, <1>6, ShiftHolds
<1>8. Holding(know.tap, dut.reg)'
  BY <1>3, <1>7 DEF Holding
<1> QED
  BY <1>3, <1>7, <1>8 DEF a, h

LEMMA StepKept ==
  ASSUME WellFormed, KeptInv, [Next]_vars
  PROVE  KeptInv' /\ [TapKept]_vars
<1>00. UNCHANGED <<family, resets, te>>
  BY DEF Next, Verify, BeginRun, Run, Close, vars
<1>1. ASSUME NEW a \in Actions[family], Verify(a) PROVE KeptInv' /\ TapKept
  <2>1. phase' \notin {"run", "done"} /\ phase = "verify"
    BY <1>1, VerifyStep
  <2> QED
    BY <2>1 DEF KeptInv, TapKept, Runs
<1>2. CASE BeginRun
  <2>1. /\ phase = "verify" /\ UNCHANGED <<family, resets, script, at, dut>>
        /\ resets => know'.tap = NoTap
        /\ dut = Untouched
    BY <1>2 DEF BeginRun, InitialHistory, WellFormed, Shaped, Ignorant, NoTap
  <2>2. dut'.reg = ResetRegister
    BY <2>1 DEF Untouched
  <2>3. resets => Holding(know'.tap, dut'.reg)
    BY <2>1, <2>2, ResetHolds
  <2> QED
    BY <2>1, <2>3 DEF KeptInv, TapKept, Runs, Holding
<1>3. CASE Run
  <2>1. UNCHANGED script /\ phase = "run" /\ phase' \in {"run", "done", "failed"}
        /\ (phase' = "failed" => at' = at) /\ at \in Nat
    BY <1>3, RunStep
  <2>2. Every(IncrementalTap)' <=> Every(IncrementalTap)
    BY <2>1 DEF Every, IncrementalTap, Apart, NamedFields
  <2>3. KeptInv'
    BY <1>00, <1>3, <2>1, <2>2, TapRuns DEF KeptInv
  <2>4. ASSUME family = "TAP", resets, Every(IncrementalTap), NEW a \in Actions[family], Runs(a)
        PROVE  KeepsTap(a)
    <3>1. phase' # "failed" /\ a = script[at + 1]
      BY <2>1, <2>4 DEF Runs
    <3>2. Holding(know.tap, dut.reg)
      BY <2>1, <2>4 DEF KeptInv
    <3>3. /\ Holding(know.tap, dut.reg)'
          /\ DOMAIN know'.tap = Named(a.args) \cup DOMAIN know.tap
          /\ \A f \in DOMAIN know.tap \ Named(a.args) : know'.tap[f] = know.tap[f]
      BY <1>3, <2>4, <3>1, <3>2, TapRuns
    <3>4. ASSUME NEW f \in DocField \ Named(a.args),
                 f \in DOMAIN know.tap \/ Foremost(f),
                 \A g \in Named(a.args) \cup DOMAIN know.tap : ~Overlap(f, g)
          PROVE  Slice(dut'.reg, f) = Slice(dut.reg, f)
      <4>1. CASE f \in DOMAIN know.tap
        BY <3>2, <3>3, <3>4, <4>1 DEF Holding
      <4>2. CASE f \notin DOMAIN know.tap
        <5>1. f \in Bare(know.tap) /\ f \in Bare(know'.tap)
          BY <3>3, <3>4, <4>2 DEF Bare
        <5> QED
          BY <3>2, <3>3, <5>1 DEF Holding, Bare
      <4> QED
        BY <4>1, <4>2
    <3> QED
      BY <3>4 DEF KeepsTap
  <2> QED
    BY <2>3, <2>4 DEF TapKept
<1>4. CASE Close
  <2>1. phase = "done" /\ family = "SPF"
    BY <1>4 DEF Close
  <2> QED
    BY <2>1, <1>00 DEF KeptInv, TapKept
<1>5. CASE UNCHANGED vars
  <2>1. UNCHANGED <<phase, script, at, know, dut>>
    BY <1>5 DEF vars
  <2>2. Every(IncrementalTap)' <=> Every(IncrementalTap)
    BY <2>1 DEF Every, IncrementalTap, Apart, NamedFields
  <2> QED
    BY <1>00, <1>5, <2>1, <2>2 DEF KeptInv, Holding, Bare
<1> QED
  BY <1>1, <1>2, <1>3, <1>4, <1>5 DEF Next

LEMMA InitKept == Init => KeptInv
BY DEF Init, KeptInv
-----------------------------------------------------------------------------
(***************************************************************************)
(* A network that SPF programs by itself is told of the groups by the      *)
(* groupings that a selection prints.  The stops of a group are then those *)
(* that the flow tracks; they have to be those of the history, which an    *)
(* action that writes is verified with.                                    *)
(***************************************************************************)
Books == [Stops -> [Banks -> Gids \cup {None}]]
Tracks == [Gids -> [Modes -> [Banks -> SUBSET Stops]]]
Moved(hb, s, b, g) ==
    [hb EXCEPT ![s] = IF g # 0
       THEN [k \in Banks |-> IF k = b THEN g ELSE IF hb[s][k] = None THEN 0 ELSE hb[s][k]]
       ELSE [hb[s] EXCEPT ![b] = 0]]
Noted(s, g, b, mode) == [SelectOp(s, g, b) EXCEPT !.mode = mode]

\* The stop is tracked in the group that the history has it in.
Follows(hb, t) ==
    \A s \in Stops : \A b \in Banks :
        hb[s][b] \notin {0, None} => \E m \in Modes : s \in t[hb[s][b]][m][b]

LEMMA GidFacts ==
  MaxGid \in Nat /\ 0 \in Gids /\ None \notin Gids /\ Gids \subseteq Nat /\ Scratch \in Gids \ {0}
<1>1. MaxGid \in Nat /\ MaxGid > Scratch
  BY NetworkAssumption
<1> QED
  BY <1>1 DEF Gids, None, Scratch

LEMMA MovedBooks ==
  ASSUME NEW hb \in Books, NEW s \in Stops, NEW b \in Banks, NEW g \in Gids
  PROVE  /\ Moved(hb, s, b, g) \in Books
         /\ \A x \in Stops : \A y \in Banks :
              Moved(hb, s, b, g)[x][y] =
                IF x = s /\ y = b THEN g
                ELSE IF x = s /\ g # 0 /\ hb[x][y] = None THEN 0 ELSE hb[x][y]
<1> DEFINE row == IF g # 0
                    THEN [k \in Banks |-> IF k = b THEN g ELSE IF hb[s][k] = None THEN 0 ELSE hb[s][k]]
                    ELSE [hb[s] EXCEPT ![b] = 0]
<1>0. 0 \in Gids
  BY GidFacts
<1>1. hb[s] \in [Banks -> Gids \cup {None}]
  BY DEF Books
<1>2. row \in [Banks -> Gids \cup {None}]
  BY <1>0, <1>1
<1>3. \A y \in Banks : row[y] = IF y = b THEN g
                                ELSE IF g # 0 /\ hb[s][y] = None THEN 0 ELSE hb[s][y]
  BY <1>0, <1>1
<1> HIDE DEF row
<1>4. Moved(hb, s, b, g) = [hb EXCEPT ![s] = row]
  BY DEF Moved, row
<1> QED
  BY <1>2, <1>3, <1>4 DEF Books

LEMMA TrackFollows ==
  ASSUME NEW hb \in Books, NEW t \in Tracks, Follows(hb, t),
         NEW s \in Stops, NEW b \in Banks, NEW g \in Gids, NEW mode \in Modes
  PROVE  /\ Tracked(t, Noted(s, g, b, mode)) \in Tracks
         /\ Follows(Moved(hb, s, b, g), Tracked(t, Noted(s, g, b, mode)))
<1> DEFINE op == Noted(s, g, b, mode)
           t2 == Tracked(t, op)
           hb2 == Moved(hb, s, b, g)
<1>0. op.gid = g /\ op.bank = b /\ op.mode = mode /\ op.stop = s
  BY DEF Noted, SelectOp
<1>1. mode # Reset
  BY DEF Modes, Reset
<1> HIDE DEF op
<1>2. /\ hb2 \in Books
      /\ \A x \in Stops : \A y \in Banks :
           hb2[x][y] = IF x = s /\ y = b THEN g
                       ELSE IF x = s /\ g # 0 /\ hb[x][y] = None THEN 0 ELSE hb[x][y]
  BY MovedBooks
<1> HIDE DEF hb2
<1>3. CASE g = 0
  <2>1. t2 = [k \in Gids |-> IF k = 0 THEN t[k]
                             ELSE [t[k] EXCEPT ![mode][b] = t[k][mode][b] \ {s}]]
    BY <1>0, <1>1, <1>3 DEF Tracked
  <2>2. t2 \in Tracks
    BY <2>1 DEF Tracks
  <2>3. ASSUME NEW k \in Gids, NEW m \in Modes, NEW y \in Banks, NEW x \in t[k][m][y],
               x # s \/ y # b
        PROVE  x \in t2[k][m][y]
    BY <2>1, <2>3 DEF Tracks
  <2>4. Follows(hb2, t2)
    <3> SUFFICES ASSUME NEW x \in Stops, NEW y \in Banks, hb2[x][y] \notin {0, None}
                 PROVE  \E m \in Modes : x \in t2[hb2[x][y]][m][y]
      BY DEF Follows
    <3>1. hb2[x][y] = hb[x][y] /\ (x # s \/ y # b)
      BY <1>2, <1>3
    <3>2. hb[x][y] \in Gids
      BY <3>1 DEF Books
    <3>3. PICK m \in Modes : x \in t[hb[x][y]][m][y]
      BY <3>1 DEF Follows
    <3> QED
      BY <3>1, <3>2, <3>3, <2>3
  <2> QED
    BY <2>2, <2>4 DEF op, hb2
<1>4. CASE g # 0
  <2> DEFINE row == [m \in Modes |->
                [t[g][m] EXCEPT ![b] = IF m = mode THEN t[g][m][b] \cup {s} ELSE t[g][m][b] \ {s}]]
  <2>1. t2 = [t EXCEPT ![g] = row]
    <3> DEFINE row2 == [m \in Modes |-> InMode(t[op.gid][m], op, m)]
    <3>1. op.mode # Reset /\ op.gid # 0
      BY <1>0, <1>1, <1>4
    <3>2. t2 = [t EXCEPT ![op.gid] = row2]
      BY <3>1 DEF Tracked
    <3>3. row2 = row
      BY <1>0 DEF InMode
    <3> HIDE DEF row, row2
    <3> QED
      BY <1>0, <3>2, <3>3
  <2>2. row \in [Modes -> [Banks -> SUBSET Stops]]
    BY DEF Tracks
  <2>3. ASSUME NEW m \in Modes, NEW y \in Banks, NEW x \in t[g][m][y], x # s \/ y # b
        PROVE  x \in row[m][y]
    BY <2>3 DEF Tracks
  <2>4. s \in row[mode][b]
    BY DEF Tracks
  <2> HIDE DEF row
  <2>5. t2 \in Tracks
    BY <2>1, <2>2 DEF Tracks
  <2>6. ASSUME NEW k \in Gids, NEW m \in Modes, NEW y \in Banks, NEW x \in t[k][m][y],
               x # s \/ y # b
        PROVE  x \in t2[k][m][y]
    BY <2>1, <2>3, <2>6 DEF Tracks
  <2>7. s \in t2[g][mode][b]
    BY <2>1, <2>4 DEF Tracks
  <2>8. Follows(hb2, t2)
    <3> SUFFICES ASSUME NEW x \in Stops, NEW y \in Banks, hb2[x][y] \notin {0, None}
                 PROVE  \E m \in Modes : x \in t2[hb2[x][y]][m][y]
      BY DEF Follows
    <3>1. CASE x = s /\ y = b
      BY <3>1, <1>2, <2>7
    <3>2. CASE x # s \/ y # b
      <4>1. hb2[x][y] = hb[x][y]
        BY <3>2, <1>2
      <4>2. hb[x][y] \in Gids
        BY <4>1 DEF Books
      <4>3. PICK m \in Modes : x \in t[hb[x][y]][m][y]
        BY <4>1 DEF Follows
      <4> QED
        BY <4>1, <4>2, <4>3, <3>2, <2>6
    <3> QED
      BY <3>1, <3>2
  <2> QED
    BY <2>5, <2>8 DEF op, hb2
<1> QED
  BY <1>3, <1>4

\* Group 0 is nobody's.
ZeroUnknown(h) == 0 \in DOMAIN h.members /\ ~h.members[0].known

\* What one stop of a selection adds.
WorkParts == {"te", "h", "ops", "bad"}
LEMMA AssignMoves ==
  ASSUME NEW w, DOMAIN w = WorkParts, DOMAIN w.h = BookParts,
         NEW s, NEW b, NEW g, NEW prev, NEW mode
  PROVE  LET v == Assign(w, g, s, b, prev, mode)
         IN  /\ DOMAIN v = WorkParts /\ v.te = w.te
             /\ DOMAIN v.h = BookParts /\ v.h.bank = Moved(w.h.bank, s, b, g)
             /\ v.h.count = w.h.count /\ v.h.value = w.h.value
             /\ ZeroUnknown(w.h) => ZeroUnknown(v.h)
             /\ v.ops = Append(w.ops, Noted(s, g, b, mode))
<1> DEFINE hb == w.h.bank
           h2 == IF g # 0 THEN Join(w.h, g, s, b) ELSE Leave(w.h, s, b, prev)
           bad2 == w.bad \/ (g = 0 /\ prev # 0 /\ hb[s][1 - b] # 0 /\ s \notin w.h.members[prev].of)
           w2 == [w EXCEPT !.h = h2, !.bad = bad2]
           op == Noted(s, g, b, mode)
           ops2 == Append(w.ops, op)
           v == [w EXCEPT !.h = h2, !.bad = bad2, !.ops = ops2]
<1>1. Assign(w, g, s, b, prev, mode) = [w2 EXCEPT !.ops = Append(@, op)]
  BY DEF Assign, Emit, Noted
<1>2. /\ DOMAIN h2 = BookParts /\ h2.bank = Moved(hb, s, b, g)
      /\ h2.count = w.h.count /\ h2.value = w.h.value /\ (ZeroUnknown(w.h) => ZeroUnknown(h2))
  <2>1. CASE g # 0
    <3> DEFINE of == [w.h.members EXCEPT ![g] = [known |-> TRUE, of |-> @.of \cup {s}]]
               bank == [hb EXCEPT ![s] = [k \in Banks |-> IF k = b THEN g
                                            ELSE IF hb[s][k] = None THEN 0 ELSE hb[s][k]]]
    <3>1. Join(w.h, g, s, b) = [w.h EXCEPT !.members = of, !.bank = bank]
      BY DEF Join
    <3>2. bank = Moved(hb, s, b, g)
      BY <2>1 DEF Moved
    <3>4. DOMAIN of = DOMAIN w.h.members /\ (0 \in DOMAIN of => of[0] = w.h.members[0])
      BY <2>1
    <3> HIDE DEF of, bank
    <3>3. /\ DOMAIN Join(w.h, g, s, b) = BookParts /\ Join(w.h, g, s, b).bank = bank
          /\ Join(w.h, g, s, b).count = w.h.count /\ Join(w.h, g, s, b).value = w.h.value
          /\ Join(w.h, g, s, b).members = of
      BY <3>1 DEF BookParts
    <3> QED
      BY <2>1, <3>2, <3>3, <3>4 DEF ZeroUnknown
  <2>2. CASE g = 0
    <3> DEFINE bank == [hb EXCEPT ![s] = [hb[s] EXCEPT ![b] = 0]]
               gone == [w.h EXCEPT !.bank[s][b] = 0]
    <3>0. bank = Moved(hb, s, b, g)
      BY <2>2 DEF Moved
    <3>1. gone = [w.h EXCEPT !.bank = bank]
      OBVIOUS
    <3>2. /\ DOMAIN gone = BookParts /\ gone.bank = bank
          /\ gone.count = w.h.count /\ gone.value = w.h.value /\ gone.members = w.h.members
      BY <3>1 DEF BookParts
    <3> DEFINE of == [gone.members EXCEPT ![prev] = [known |-> TRUE, of |-> @.of \ {s}]]
    <3>5. DOMAIN of = DOMAIN gone.members /\ (prev # 0 /\ 0 \in DOMAIN of => of[0] = gone.members[0])
      OBVIOUS
    <3> HIDE DEF gone, bank, of
    <3>3. Leave(w.h, s, b, prev) =
            IF prev # 0 /\ gone.bank[s][0] # gone.bank[s][1]
              THEN [gone EXCEPT !.members = of] ELSE gone
      BY DEF Leave, gone, of
    <3>4. /\ DOMAIN Leave(w.h, s, b, prev) = BookParts /\ Leave(w.h, s, b, prev).bank = bank
          /\ Leave(w.h, s, b, prev).count = w.h.count /\ Leave(w.h, s, b, prev).value = w.h.value
      BY <3>2, <3>3 DEF BookParts
    <3>6. \/ Leave(w.h, s, b, prev).members = w.h.members
          \/ prev # 0 /\ Leave(w.h, s, b, prev).members = of
      BY <3>2, <3>3 DEF BookParts
    <3> QED
      BY <2>2, <3>0, <3>2, <3>4, <3>5, <3>6 DEF ZeroUnknown
  <2> QED
    BY <2>1, <2>2
<1> HIDE DEF h2, bad2, op
<1>3. w2.ops = w.ops /\ "ops" \in DOMAIN w2
  BY DEF WorkParts
<1>4. [w2 EXCEPT !.ops = Append(@, op)] = v
  BY <1>3
<1> HIDE DEF ops2
<1>5. DOMAIN v = WorkParts /\ v.te = w.te /\ v.h = h2 /\ v.ops = ops2
  BY DEF WorkParts
<1> HIDE DEF v, w2
<1>6. Assign(w, g, s, b, prev, mode) = v
  BY <1>1, <1>4
<1> QED
  BY <1>2, <1>5, <1>6 DEF op, ops2

(***************************************************************************)
(* A selection is one op for each stop, in their order.                    *)
(***************************************************************************)
\* v is the work after i of the stops of a.
MoveOf(a, i) == Noted(a.stops[i], a.gids[i], a.bank, a.mode)
Taken(v, a, conf, i) ==
    /\ DOMAIN v = WorkParts /\ v.te = conf /\ DOMAIN v.h = BookParts /\ v.h.bank \in Books
    /\ v.ops \in Seq({MoveOf(a, j) : j \in 1..Len(a.stops)}) /\ Len(v.ops) = i
    /\ \A j \in 1..i : v.ops[j] = MoveOf(a, j)

\* The histories of the groups, from stop to stop.
Travel(hs, a, n) ==
    \A i \in 1..n : hs[i] = Moved(hs[i - 1], a.stops[i], a.bank, a.gids[i])

ByAssign(f, a, conf, pv) ==
    \A i \in 1..Len(a.stops) : Taken(f[i - 1], a, conf, i - 1) =>
        f[i] = Assign(f[i - 1], a.gids[i], a.stops[i], a.bank, pv[i], a.mode)
AllTaken(f, a, conf) ==
    \A i \in 0..Len(a.stops) :
        /\ Taken(f[i], a, conf, i)
        /\ i # 0 => f[i].h.bank = Moved(f[i - 1].h.bank, a.stops[i], a.bank, a.gids[i])

LEMMA MovesOneByOne ==
  ASSUME NEW conf, NEW a, Typed(a), a.op = "select", NEW f, NEW pv,
         Taken(f[0], a, conf, 0), ByAssign(f, a, conf, pv)
  PROVE  AllTaken(f, a, conf)
<1> DEFINE n == Len(a.stops)
           P == {i \in 0..n : Taken(f[i], a, conf, i)}
<1>1. n \in Nat /\ a.bank \in Banks /\ \A i \in 1..n : a.stops[i] \in Stops /\ a.gids[i] \in Gids
  BY DEF Typed
<1>2. ASSUME NEW i \in 1..n, Taken(f[i - 1], a, conf, i - 1)
      PROVE  /\ Taken(f[i], a, conf, i)
             /\ f[i].h.bank = Moved(f[i - 1].h.bank, a.stops[i], a.bank, a.gids[i])
  <2> DEFINE v == f[i - 1]
             u == f[i]
             op == MoveOf(a, i)
             S == {MoveOf(a, j) : j \in 1..n}
  <2>1. u = Assign(v, a.gids[i], a.stops[i], a.bank, pv[i], a.mode)
    BY <1>2 DEF ByAssign
  <2>2. /\ DOMAIN v = WorkParts /\ v.te = conf /\ DOMAIN v.h = BookParts /\ v.h.bank \in Books
        /\ v.ops \in Seq(S) /\ Len(v.ops) = i - 1
        /\ \A j \in 1..(i - 1) : v.ops[j] = MoveOf(a, j)
    BY <1>2 DEF Taken
  <2> HIDE DEF v, u
  <2>3. /\ DOMAIN u = WorkParts /\ u.te = conf /\ DOMAIN u.h = BookParts
        /\ u.h.bank = Moved(v.h.bank, a.stops[i], a.bank, a.gids[i])
        /\ u.ops = Append(v.ops, op)
    BY <2>1, <2>2, AssignMoves DEF MoveOf
  <2>4. u.h.bank \in Books
    BY <1>1, <2>2, <2>3, MovedBooks
  <2>5. op \in S /\ i \in Nat
    BY <1>1
  <2> HIDE DEF op, S
  <2>6. /\ u.ops \in Seq(S) /\ Len(u.ops) = i /\ u.ops[i] = op
        /\ \A j \in 1..(i - 1) : u.ops[j] = v.ops[j]
    BY <2>2, <2>3, <2>5
  <2>7. \A j \in 1..i : u.ops[j] = MoveOf(a, j)
    <3> TAKE j \in 1..i
    <3>1. j = i \/ j \in 1..(i - 1)
      BY <2>5
    <3> HIDE DEF op
    <3> QED
      BY <2>2, <2>6, <3>1 DEF op
  <2> QED
    BY <2>3, <2>4, <2>6, <2>7 DEF Taken, u, v, S
<1>3. 0 \in P
  BY <1>1
<1>4. ASSUME NEW i \in 1..n, i - 1 \in P PROVE i \in P
  BY <1>1, <1>2, <1>4
<1>5. \A i \in 0..n : i \in P
  <2> HIDE DEF P, n
  <2> QED
    BY <1>1, <1>3, <1>4, Of!BoundedInduction
<1> HIDE DEF P, n
<1>6. ASSUME NEW i \in 0..n, i # 0 PROVE i \in 1..n /\ i - 1 \in 0..n
  <2>1. n \in Nat
    BY <1>1
  <2> QED
    BY <2>1, <1>6
<1>7. \A i \in 0..n : Taken(f[i], a, conf, i)
  BY <1>5 DEF P
<1> QED
  BY <1>2, <1>6, <1>7 DEF n, AllTaken

LEMMA SelectTravels ==
  ASSUME NEW conf, conf.network, NEW h, DOMAIN h = BookParts, h.bank \in Books,
         NEW a, Typed(a), a.op = "select", SelectOk(h, a)
  PROVE  LET w == Select(Begun(conf, h), a)
         IN  \E hs : /\ hs[0] = h.bank /\ Travel(hs, a, Len(a.stops))
                     /\ hs[Len(a.stops)] = w.h.bank
                     /\ \A i \in 0..Len(a.stops) : hs[i] \in Books
                     /\ Taken(w, a, conf, Len(a.stops))
<1> DEFINE n == Len(a.stops)
           is == [i \in 1..n |-> i]
           w0 == Begun(conf, h)
           prevs == [i \in 1..n |-> PrevGid(w0.h, a, i)]
           off == SwitchOff(w0, a, prevs)
           w == SwitchOn(off, a)
           nobody == [i \in 1..n |-> 0]
<1>1. n \in Nat /\ Len(a.gids) = n
  BY DEF Typed
<1>2. w0.te = conf /\ w0.h = h /\ DOMAIN w0 = WorkParts /\ w0.ops = <<>> /\ w0.te.network
  BY DEF Begun, WorkParts
<1> HIDE DEF w0
<1>3. Select(w0, a) = w
  BY <1>2 DEF Select
<1>4. off = Of!Fold(a, prevs, w0, is) /\ w = On!Fold(a, a, off, is)
  BY DEF SwitchOff, OffIn, FoldLeft, MapThenFoldSet, Max, Of!Fold, Of!Top,
         SwitchOn, OnIn, On!Fold, On!Top
<1>5. DOMAIN is = 1..n /\ \A i \in 1..n : is[i] = i
  OBVIOUS
<1> HIDE DEF is, prevs, off, w, n
<1>6. PICK f : Of!Steps(f, a, prevs, w0, is, n) /\ off = f[n]
  BY <1>1, <1>4, <1>5, Of!FoldSteps
<1>7. PICK k : On!Steps(k, a, a, off, is, n) /\ w = k[n]
  BY <1>1, <1>4, <1>5, On!FoldSteps
<1>8. /\ f[0] = w0 /\ k[0] = off
      /\ \A i \in 1..n : f[i] = IF a.gids[i] = 0 THEN OffStop(f[i - 1], a, prevs, i) ELSE f[i - 1]
      /\ \A i \in 1..n : k[i] = IF a.gids[i] = 0 THEN k[i - 1] ELSE OnStop(k[i - 1], a, i)
  BY <1>5, <1>6, <1>7 DEF Of!Steps, On!Steps, OffIn, OnIn
<1>9. Taken(w0, a, conf, 0)
  BY <1>2 DEF Taken
<1>10. \A i, j \in 1..n : a.gids[i] = 0 => a.gids[j] = 0
  BY <1>1 DEF SelectOk, AllOf
  \* Either every stop is deselected, or none is.
<1>11. ASSUME NEW fs, NEW pv, fs[0] = w0, fs[n] = w,
              ByAssign(fs, a, conf, pv)
       PROVE  \E hs : /\ hs[0] = h.bank /\ Travel(hs, a, n) /\ hs[n] = w.h.bank
                      /\ \A i \in 0..n : hs[i] \in Books
                      /\ Taken(w, a, conf, n)
  <2>1. \A i \in 0..n : /\ Taken(fs[i], a, conf, i)
                        /\ i # 0 => fs[i].h.bank = Moved(fs[i - 1].h.bank, a.stops[i], a.bank, a.gids[i])
    <3>1. Taken(fs[0], a, conf, 0)
      BY <1>9, <1>11
    <3>2. AllTaken(fs, a, conf)
      BY <1>11, <3>1, MovesOneByOne
    <3> QED
      BY <3>2 DEF AllTaken, n
  <2> DEFINE hs == [i \in 0..n |-> fs[i].h.bank]
  <2>2. hs[0] = h.bank /\ hs[n] = w.h.bank
    BY <1>1, <1>2, <1>11
  <2>3. \A i \in 1..n : i \in 0..n /\ i - 1 \in 0..n /\ i # 0
    BY <1>1
  <2>4. Travel(hs, a, n)
    BY <2>1, <2>3 DEF Travel
  <2>5. \A i \in 0..n : hs[i] \in Books
    BY <2>1 DEF Taken
  <2>6. Taken(w, a, conf, n)
    BY <1>1, <1>11, <2>1
  <2> HIDE DEF hs
  <2> QED
    BY <2>2, <2>4, <2>5, <2>6
<1>12. CASE \A i \in 1..n : a.gids[i] = 0
  <2>1. off = w
    <3> DEFINE P == {i \in 0..n : k[i] = off}
    <3>1. 0 \in P
      BY <1>1, <1>8
    <3>2. ASSUME NEW i \in 1..n, i - 1 \in P PROVE i \in P
      BY <1>1, <1>8, <1>12, <3>2
    <3>3. \A i \in 0..n : i \in P
      <4> HIDE DEF P
      <4> QED
        BY <1>1, <3>1, <3>2, On!BoundedInduction
    <3> QED
      BY <1>1, <1>7, <3>3
  <2>2. ASSUME NEW i \in 1..n, Taken(f[i - 1], a, conf, i - 1)
        PROVE  f[i] = Assign(f[i - 1], a.gids[i], a.stops[i], a.bank, prevs[i], a.mode)
    BY <1>8, <1>12, <2>2 DEF OffStop, Taken
  <2>3. ByAssign(f, a, conf, prevs)
    BY <2>2 DEF ByAssign, n
  <2> QED
    BY <1>3, <1>6, <1>8, <1>11, <2>1, <2>3 DEF n, w0
<1>13. CASE \A i \in 1..n : a.gids[i] # 0
  <2>1. off = w0
    <3> DEFINE P == {i \in 0..n : f[i] = w0}
    <3>1. 0 \in P
      BY <1>1, <1>8
    <3>2. ASSUME NEW i \in 1..n, i - 1 \in P PROVE i \in P
      BY <1>1, <1>8, <1>13, <3>2
    <3>3. \A i \in 0..n : i \in P
      <4> HIDE DEF P
      <4> QED
        BY <1>1, <3>1, <3>2, Of!BoundedInduction
    <3> QED
      BY <1>1, <1>6, <3>3
  <2>2. ASSUME NEW i \in 1..n, Taken(k[i - 1], a, conf, i - 1)
        PROVE  k[i] = Assign(k[i - 1], a.gids[i], a.stops[i], a.bank, nobody[i], a.mode)
    <3>1. nobody[i] = 0
      OBVIOUS
    <3>2. k[i - 1].te.network
      BY <2>2 DEF Taken
    <3> HIDE DEF nobody
    <3> QED
      BY <1>8, <1>13, <3>1, <3>2 DEF OnStop
  <2>3. ByAssign(k, a, conf, nobody)
    BY <2>2 DEF ByAssign, n
  <2> HIDE DEF nobody
  <2> QED
    BY <1>3, <1>7, <1>8, <1>11, <2>1, <2>3 DEF n, w0
<1> QED
  BY <1>10, <1>12, <1>13
-----------------------------------------------------------------------------
(***************************************************************************)
(* Where the packets go.  C says which hubs carry which groups: in the     *)
(* network, and as the registers of the hubs are remembered.               *)
(***************************************************************************)
Carried(h, net, C) ==
    /\ DOMAIN h.value = Stops /\ DOMAIN net.value = Stops
    /\ \A x \in Hubs : \A g \in Gids \ {0} :
          /\ Member(g) \in DOMAIN h.value[x] /\ Member(g) \in DOMAIN net.value[x]
          /\ Saved(h, x, g) = C[x][g] /\ net.value[x][Member(g)] = C[x][g]

\* The work w has the groups hb and the counters cn in its history; its ops lead
\* the network n0 to the groups bk, and none has missed its stop.
Seen(conf, n0, w, hb, cn, bk, C) ==
    /\ DOMAIN w = WorkParts /\ w.te = conf
    /\ DOMAIN w.h = BookParts /\ w.h.bank = hb /\ w.h.count = cn
    /\ conf.network => \A i \in 1..Len(w.ops) : w.ops[i].op # "select"
    /\ \E net : /\ NetRun(conf, n0, w.ops, net) /\ DOMAIN net = NetParts
                /\ net.bank = bk /\ net.grouping = n0.grouping /\ net.lost = FALSE
                /\ ~conf.network => Carried(w.h, net, C)

HearsIn(conf, gr, bk, C, s, g) ==
    IF conf.network THEN \E m \in Modes : \E b \in Banks : <<g, m, b, s>> \in gr
    ELSE /\ \E b \in Banks : bk[s][b] = g
         /\ \A x \in AllOf(Above[s]) : C[x][g] = 1

LEMMA NetQuiet ==
  ASSUME NEW conf, NEW net, DOMAIN net = NetParts, NEW op, op.op # "write_read"
  PROVE  LET n2 == OnNetwork(conf, net, op)
         IN  n2.value = net.value /\ n2.grouping = net.grouping /\ n2.lost = net.lost
<1>1. CASE op.op = "select"
  BY <1>1 DEF OnNetwork, NetParts
<1>3. CASE op.op = "replace"
  BY <1>3 DEF OnNetwork, NetParts
<1>4. CASE op.op \notin {"select", "write_read", "replace"}
  BY <1>4 DEF OnNetwork
<1> QED
  BY <1>1, <1>3, <1>4

LEMMA OpsGrow ==
  ASSUME NEW S, NEW ops \in Seq(S), NEW op
  PROVE  /\ Len(Append(ops, op)) = Len(ops) + 1 /\ Len(ops) \in Nat
         /\ \A i \in 1..(Len(ops) + 1) :
              Append(ops, op)[i] = IF i = Len(ops) + 1 THEN op ELSE ops[i]
<1>1. ops \in Seq(S \cup {op})
  OBVIOUS
<1> QED
  BY <1>1

LEMMA SeenEmit ==
  ASSUME NEW conf, NEW n0, NEW w, NEW hb, NEW cn, NEW bk, NEW C,
         Seen(conf, n0, w, hb, cn, bk, C), NEW op, op.op # "write_read",
         conf.network => op.op # "select"
  PROVE  Seen(conf, n0, Emit(w, op), hb, cn,
              IF op.op = "select" THEN [bk EXCEPT ![op.stop][op.bank] = op.gid] ELSE bk, C)
<1>1. PICK net : /\ NetRun(conf, n0, w.ops, net) /\ DOMAIN net = NetParts
                 /\ net.bank = bk /\ net.grouping = n0.grouping /\ net.lost = FALSE
                 /\ ~conf.network => Carried(w.h, net, C)
  BY DEF Seen
<1>0. PICK S : w.ops \in Seq(S)
  BY <1>1 DEF NetRun
<1> DEFINE net2 == OnNetwork(conf, net, op)
           ops2 == Append(w.ops, op)
           bk2 == IF op.op = "select" THEN [bk EXCEPT ![op.stop][op.bank] = op.gid] ELSE bk
           w2 == [w EXCEPT !.ops = ops2]
<1>2. DOMAIN net2 = NetParts /\ net2.bank = bk2
  BY <1>1, NetShape
<1>3. NetRun(conf, n0, ops2, net2)
  BY <1>1, RunExtends
<1>4. net2.value = net.value /\ net2.grouping = n0.grouping /\ net2.lost = FALSE
  BY <1>1, NetQuiet
<1>5. ~conf.network => Carried(w.h, net2, C)
  <2> HIDE DEF net2
  <2> QED
    BY <1>1, <1>4 DEF Carried
<1>6. conf.network => \A i \in 1..Len(ops2) : ops2[i].op # "select"
  BY <1>0, OpsGrow DEF Seen
<1>7. Emit(w, op) = w2
  BY DEF Emit
<1> HIDE DEF net2, ops2, bk2
<1>8. DOMAIN w2 = WorkParts /\ w2.te = conf /\ w2.h = w.h /\ w2.ops = ops2
  BY DEF Seen, WorkParts
<1> HIDE DEF w2
<1>9. Seen(conf, n0, w2, hb, cn, bk2, C)
  BY <1>2, <1>3, <1>4, <1>5, <1>6, <1>8 DEF Seen
<1> QED
  BY <1>7, <1>9 DEF bk2

LEMMA SeenMove ==
  ASSUME NEW conf, ~conf.network, NEW n0, NEW w, NEW hb, NEW cn, NEW bk, NEW C,
         Seen(conf, n0, w, hb, cn, bk, C), NEW s, NEW g, NEW b, NEW mode
  PROVE  /\ Seen(conf, n0, Emit(w, SelectOp(s, g, b)), hb, cn, [bk EXCEPT ![s][b] = g], C)
         /\ Seen(conf, n0, Emit(w, Noted(s, g, b, mode)), hb, cn, [bk EXCEPT ![s][b] = g], C)
<1> DEFINE op1 == SelectOp(s, g, b)
           op2 == Noted(s, g, b, mode)
<1>1. /\ op1.op = "select" /\ op1.stop = s /\ op1.gid = g /\ op1.bank = b
      /\ op2.op = "select" /\ op2.stop = s /\ op2.gid = g /\ op2.bank = b
  BY DEF Noted, SelectOp
<1> HIDE DEF op1, op2
<1>2. /\ Seen(conf, n0, Emit(w, op1), hb, cn,
              IF op1.op = "select" THEN [bk EXCEPT ![op1.stop][op1.bank] = op1.gid] ELSE bk, C)
      /\ Seen(conf, n0, Emit(w, op2), hb, cn,
              IF op2.op = "select" THEN [bk EXCEPT ![op2.stop][op2.bank] = op2.gid] ELSE bk, C)
  BY <1>1, SeenEmit
<1>3. /\ Seen(conf, n0, Emit(w, op1), hb, cn, [bk EXCEPT ![s][b] = g], C)
      /\ Seen(conf, n0, Emit(w, op2), hb, cn, [bk EXCEPT ![s][b] = g], C)
  BY <1>1, <1>2
<1> QED
  BY <1>3 DEF op1, op2

\* The history changes, but for the registers.
LEMMA SeenBook ==
  ASSUME NEW conf, NEW n0, NEW w, NEW hb, NEW cn, NEW bk, NEW C,
         Seen(conf, n0, w, hb, cn, bk, C),
         NEW h2, DOMAIN h2 = BookParts, h2.value = w.h.value
  PROVE  Seen(conf, n0, [w EXCEPT !.h = h2], h2.bank, h2.count, bk, C)
<1> DEFINE w2 == [w EXCEPT !.h = h2]
<1>1. DOMAIN w2 = WorkParts /\ w2.te = conf /\ w2.h = h2 /\ w2.ops = w.ops
  BY DEF Seen, WorkParts
<1> HIDE DEF w2
<1>2. \A net : Carried(w.h, net, C) => Carried(w2.h, net, C)
  BY <1>1 DEF Carried, Saved
<1>3. Seen(conf, n0, w2, h2.bank, h2.count, bk, C)
  BY <1>1, <1>2 DEF Seen
<1> QED
  BY <1>3 DEF w2

LEMMA SeenSame ==
  ASSUME NEW conf, NEW n0, NEW w, NEW hb, NEW cn, NEW bk, NEW C,
         Seen(conf, n0, w, hb, cn, bk, C),
         NEW C2, \A x \in Hubs : \A g \in Gids \ {0} : C2[x][g] = C[x][g]
  PROVE  Seen(conf, n0, w, hb, cn, bk, C2)
<1>1. \A net : Carried(w.h, net, C) => Carried(w.h, net, C2)
  BY DEF Carried
<1> QED
  BY <1>1 DEF Seen

(***************************************************************************)
(* A write that every one of its stops hears.                              *)
(***************************************************************************)
Overwritten(C, S, data) ==
    [x \in Hubs |-> [g \in Gids \ {0} |->
        IF x \in S /\ Member(g) \in DOMAIN data THEN data[Member(g)] ELSE C[x][g]]]
Programs(data) == \E g \in Gids \ {0} : Member(g) \in DOMAIN data

LEMMA RegisterWritten ==
  ASSUME NEW old, NEW data, NEW g, Member(g) \in DOMAIN old
  PROVE  LET new == OnRegister(old, data)
             r == Atop(data, old)
         IN  /\ Member(g) \in DOMAIN new
             /\ new[Member(g)] = IF Member(g) \in DOMAIN data THEN data[Member(g)] ELSE old[Member(g)]
             /\ Member(g) \in DOMAIN r
             /\ r[Member(g)] = IF Member(g) \in DOMAIN data THEN data[Member(g)] ELSE old[Member(g)]
<1> DEFINE user == \E f \in Fields : User(f) \in DOMAIN data \/ Part(f) \in DOMAIN data
           field(f) == IF User(f) \in DOMAIN data THEN data[User(f)]
                       ELSE IF Part(f) \in DOMAIN data THEN data[Part(f)] ELSE Default[f]
           all == [k \in {User(f) : f \in Fields} |-> field(k[2])]
           top == IF user THEN all ELSE <<>>
           r == Atop(data, old)
<1>1. OnRegister(old, data) = Atop(top, r)
  BY DEF OnRegister
<1>2. Member(g) \notin DOMAIN top
  <2>1. Member(g) \notin DOMAIN all
    BY DEF Member, User
  <2>2. DOMAIN <<>> = {}
    OBVIOUS
  <2> HIDE DEF all
  <2> QED
    BY <2>1, <2>2
<1> HIDE DEF top
<1>3. /\ Member(g) \in DOMAIN r
      /\ r[Member(g)] = IF Member(g) \in DOMAIN data THEN data[Member(g)] ELSE old[Member(g)]
  BY DEF Atop
<1> HIDE DEF r
<1>4. Member(g) \in DOMAIN Atop(top, r) /\ Atop(top, r)[Member(g)] = r[Member(g)]
  BY <1>2, <1>3 DEF Atop
<1> QED
  BY <1>1, <1>3, <1>4 DEF r

\* Who is named hears it, or is nobody.
AllHear(conf, n0, bk, C, stops, gids, data) ==
    /\ \A i \in 1..Len(stops) :
          IF gids[i] = 0 THEN ~Programs(data)
          ELSE HearsIn(conf, n0.grouping, bk, C, stops[i], gids[i])
    /\ conf.network => ~Programs(data)
    /\ \A g \in Gids \ {0} : Member(g) \in DOMAIN data => data[Member(g)] # None

LEMMA SeenWrite ==
  ASSUME NEW conf, NEW n0, NEW w, NEW hb, NEW cn, NEW bk, NEW C,
         Seen(conf, n0, w, hb, cn, bk, C),
         NEW stops \in Seq(Stops), NEW gids, NEW data, NEW read,
         \A i \in 1..Len(stops) : gids[i] \in Gids,
         AllHear(conf, n0, bk, C, stops, gids, data)
  PROVE  Seen(conf, n0, WriteFields(w, stops, gids, data, read), hb, cn, bk,
              Overwritten(C, AllOf(stops), data))
<1>1. PICK net : /\ NetRun(conf, n0, w.ops, net) /\ DOMAIN net = NetParts
                 /\ net.bank = bk /\ net.grouping = n0.grouping /\ net.lost = FALSE
                 /\ ~conf.network => Carried(w.h, net, C)
  BY DEF Seen
<1>0. PICK S : w.ops \in Seq(S)
  BY <1>1 DEF NetRun
<1> DEFINE value1 == [s \in Stops |-> IF s \in AllOf(stops) THEN Atop(data, w.h.value[s]) ELSE w.h.value[s]]
           h2 == [w.h EXCEPT !.value = value1]
           w1 == [w EXCEPT !.h = h2]
           op == WriteOp(stops, gids, data, read)
           ops2 == Append(w.ops, op)
           w2 == [w1 EXCEPT !.ops = ops2]
           hit == {op.stops[i] : i \in Hit(conf, net, op)}
           value2 == [s \in Stops |-> IF s \in hit THEN OnRegister(net.value[s], op.data) ELSE net.value[s]]
           lost2 == net.lost \/ \E i \in 1..Len(op.stops) : op.gids[i] # 0 /\ i \notin Hit(conf, net, op)
           net2 == OnNetwork(conf, net, op)
           D == Overwritten(C, AllOf(stops), data)
<1>2. op.op = "write_read" /\ op.stops = stops /\ op.gids = gids /\ op.data = data
  BY DEF WriteOp
<1> HIDE DEF op
<1>3. WriteFields(w, stops, gids, data, read) = w2
  <2>1. Remember(w.h, stops, data) = h2
    BY DEF Remember
  <2>2. w1.ops = w.ops
    BY DEF Seen, WorkParts
  <2> HIDE DEF h2, w1
  <2> QED
    BY <2>1, <2>2 DEF WriteFields, Emit, w1, op
<1>4. net2 = [net EXCEPT !.value = value2, !.lost = lost2]
  BY <1>2 DEF OnNetwork
<1>5. \A i \in 1..Len(stops) : gids[i] # 0 => i \in Hit(conf, net, op)
  <2> SUFFICES ASSUME NEW i \in 1..Len(stops), gids[i] # 0
               PROVE  Hears(conf, net, stops[i], gids[i])
    BY <1>2 DEF Hit
  <2>1. HearsIn(conf, n0.grouping, bk, C, stops[i], gids[i])
    BY DEF AllHear
  <2>2. CASE conf.network
    BY <1>1, <2>1, <2>2 DEF Hears, HearsIn
  <2>3. CASE ~conf.network
    <3>1. \E b \in Banks : bk[stops[i]][b] = gids[i]
      BY <2>1, <2>3 DEF HearsIn
    <3>2. ASSUME NEW k \in 1..Len(Above[stops[i]])
          PROVE  net.value[Above[stops[i]][k]][Member(gids[i])] = 1
      <4>1. Above[stops[i]] \in Seq(Hubs)
        <5>1. Above \in [Stops -> Seq(Hubs)]
          BY NetworkAssumption
        <5>2. stops[i] \in Stops
          OBVIOUS
        <5> QED
          BY <5>1, <5>2
      <4>2. Above[stops[i]][k] \in Hubs /\ Above[stops[i]][k] \in AllOf(Above[stops[i]])
        BY <4>1 DEF AllOf
      <4>3. C[Above[stops[i]][k]][gids[i]] = 1
        BY <2>1, <2>3, <4>2 DEF HearsIn
      <4> QED
        BY <1>1, <2>3, <4>2, <4>3 DEF Carried
    <3> QED
      BY <1>1, <2>3, <3>1, <3>2 DEF Hears
  <2> QED
    BY <2>2, <2>3
<1>6. lost2 = FALSE
  BY <1>1, <1>2, <1>5
<1> HIDE DEF lost2
<1>7. DOMAIN value2 = Stops
      /\ \A s \in Stops : value2[s] = IF s \in hit THEN OnRegister(net.value[s], data) ELSE net.value[s]
  BY <1>2
<1> HIDE DEF value2
<1>8. /\ DOMAIN net2 = NetParts /\ net2.bank = bk /\ net2.grouping = n0.grouping
      /\ net2.lost = FALSE /\ net2.value = value2
  BY <1>1, <1>4, <1>6 DEF NetParts
<1>9. NetRun(conf, n0, ops2, net2)
  BY <1>1, RunExtends
<1> HIDE DEF net2
<1>10. DOMAIN value1 = Stops
       /\ \A s \in Stops : value1[s] = IF s \in AllOf(stops) THEN Atop(data, w.h.value[s]) ELSE w.h.value[s]
  OBVIOUS
<1> HIDE DEF value1
<1>11. /\ DOMAIN w2 = WorkParts /\ w2.te = conf /\ w2.h = h2 /\ w2.ops = ops2
       /\ DOMAIN h2 = BookParts /\ h2.bank = hb /\ h2.count = cn /\ h2.value = value1
  <2>1. DOMAIN h2 = BookParts /\ h2.bank = hb /\ h2.count = cn /\ h2.value = value1
    BY DEF Seen, BookParts
  <2> HIDE DEF h2
  <2> QED
    BY <2>1 DEF Seen, WorkParts
<1> HIDE DEF h2, w1, w2
<1>12. conf.network => \A i \in 1..Len(ops2) : ops2[i].op # "select"
  BY <1>0, <1>2, OpsGrow DEF Seen
<1> HIDE DEF ops2
<1>13. ASSUME ~conf.network PROVE Carried(h2, net2, D)
  <2> SUFFICES ASSUME NEW x \in Hubs, NEW g \in Gids \ {0}
               PROVE  /\ Member(g) \in DOMAIN value1[x] /\ Member(g) \in DOMAIN value2[x]
                      /\ (IF value1[x][Member(g)] = None THEN 0 ELSE value1[x][Member(g)]) = D[x][g]
                      /\ value2[x][Member(g)] = D[x][g]
    BY <1>7, <1>8, <1>10, <1>11 DEF Carried, Saved
  <2>0. x \in Stops
    BY NetworkAssumption
  <2>1. /\ Member(g) \in DOMAIN w.h.value[x] /\ Member(g) \in DOMAIN net.value[x]
        /\ (IF w.h.value[x][Member(g)] = None THEN 0 ELSE w.h.value[x][Member(g)]) = C[x][g]
        /\ net.value[x][Member(g)] = C[x][g]
    BY <1>1, <1>13 DEF Carried, Saved
  <2>2. D[x][g] = IF x \in AllOf(stops) /\ Member(g) \in DOMAIN data THEN data[Member(g)] ELSE C[x][g]
    BY DEF Overwritten
  <2> HIDE DEF D
  <2>3. x \in hit => x \in AllOf(stops)
    BY <1>2 DEF AllOf, Hit
  <2>4. x \in AllOf(stops) /\ Member(g) \in DOMAIN data => x \in hit
    <3> SUFFICES ASSUME NEW i \in 1..Len(stops), x = stops[i], Member(g) \in DOMAIN data
                 PROVE  x \in hit
      BY DEF AllOf
    <3>1. gids[i] # 0
      BY DEF AllHear, Programs
    <3> QED
      BY <1>2, <1>5, <3>1
  <2>5. Member(g) \in DOMAIN data => data[Member(g)] # None
    BY DEF AllHear
  <2> HIDE DEF hit
  <2>6. /\ Member(g) \in DOMAIN value1[x]
        /\ value1[x][Member(g)] = IF x \in AllOf(stops) /\ Member(g) \in DOMAIN data
                                    THEN data[Member(g)] ELSE w.h.value[x][Member(g)]
    BY <1>10, <2>0, <2>1 DEF Atop
  <2>7. /\ Member(g) \in DOMAIN OnRegister(net.value[x], data)
        /\ OnRegister(net.value[x], data)[Member(g)] =
             IF Member(g) \in DOMAIN data THEN data[Member(g)] ELSE net.value[x][Member(g)]
    BY <2>1, RegisterWritten
  <2>8. value2[x] = IF x \in hit THEN OnRegister(net.value[x], data) ELSE net.value[x]
    BY <1>7, <2>0
  <2>9. /\ Member(g) \in DOMAIN value2[x]
        /\ value2[x][Member(g)] = IF x \in AllOf(stops) /\ Member(g) \in DOMAIN data
                                    THEN data[Member(g)] ELSE net.value[x][Member(g)]
    BY <2>1, <2>3, <2>4, <2>7, <2>8
  <2> QED
    BY <2>1, <2>2, <2>5, <2>6, <2>9
<1> HIDE DEF D
<1>14. Seen(conf, n0, w2, hb, cn, bk, D)
  BY <1>8, <1>9, <1>11, <1>12, <1>13 DEF Seen
<1> QED
  BY <1>3, <1>14 DEF D

\* A write that programs no hub.
LEMMA SeenPlain ==
  ASSUME NEW conf, NEW n0, NEW w, NEW hb, NEW cn, NEW bk, NEW C,
         Seen(conf, n0, w, hb, cn, bk, C),
         NEW stops \in Seq(Stops), NEW gids, NEW data, NEW read, ~Programs(data),
         \A i \in 1..Len(stops) : gids[i] \in Gids,
         \A i \in 1..Len(stops) :
            gids[i] # 0 => HearsIn(conf, n0.grouping, bk, C, stops[i], gids[i])
  PROVE  Seen(conf, n0, WriteFields(w, stops, gids, data, read), hb, cn, bk, C)
<1>1. AllHear(conf, n0, bk, C, stops, gids, data)
  BY DEF AllHear, Programs
<1>2. Seen(conf, n0, WriteFields(w, stops, gids, data, read), hb, cn, bk, Overwritten(C, AllOf(stops), data))
  BY <1>1, SeenWrite
<1>3. \A x \in Hubs : \A g \in Gids \ {0} : C[x][g] = Overwritten(C, AllOf(stops), data)[x][g]
  BY DEF Overwritten, Programs
<1> QED
  BY <1>2, <1>3, SeenSame
-----------------------------------------------------------------------------
(***************************************************************************)
(* The network is a tree: on the way down to a stop each hub has those     *)
(* before it above itself, and no others.                                  *)
(***************************************************************************)
Down(s) == Above[s] \o (IF s \in Hubs THEN <<s>> ELSE <<>>)
Chained(w) ==
    \A j \in 1..Len(w) : /\ Len(Above[w[j]]) = j - 1
                         /\ \A k \in 1..(j - 1) : Above[w[j]][k] = w[k]

LEMMA AboveFacts ==
  ASSUME NEW s \in Stops
  PROVE  /\ Above[s] \in Seq(Hubs) /\ Len(Above[s]) \in Nat
         /\ \A i \in 1..Len(Above[s]) : /\ Above[s][i] \in Hubs /\ Above[s][i] \in Stops
                                        /\ Len(Above[Above[s][i]]) = i - 1
                                        /\ \A k \in 1..(i - 1) : Above[Above[s][i]][k] = Above[s][k]
<1>1. Above \in [Stops -> Seq(Hubs)] /\ Hubs \subseteq Stops
  BY NetworkAssumption
<1>2. Above[s] \in Seq(Hubs) /\ Len(Above[s]) \in Nat
  BY <1>1
<1> SUFFICES ASSUME NEW i \in 1..Len(Above[s])
             PROVE  /\ Above[s][i] \in Hubs /\ Above[s][i] \in Stops
                    /\ Len(Above[Above[s][i]]) = i - 1
                    /\ \A k \in 1..(i - 1) : Above[Above[s][i]][k] = Above[s][k]
  BY <1>2
<1>3. Above[s][i] \in Hubs /\ Above[s][i] \in Stops
  BY <1>1, <1>2
<1>4. Above[Above[s][i]] = SubSeq(Above[s], 1, i - 1)
  BY NetworkAssumption
<1> HIDE DEF Scratch
<1> QED
  BY <1>2, <1>3, <1>4

LEMMA DownFacts ==
  ASSUME NEW s \in Stops
  PROVE  /\ Down(s) \in Seq(Hubs) /\ Len(Down(s)) \in Nat
         /\ Chained(Down(s)) /\ AllOf(Down(s)) = Path(s)
         /\ \A i, j \in 1..Len(Down(s)) : Down(s)[i] = Down(s)[j] => i = j
<1> DEFINE n == Len(Above[s])
           w == Down(s)
<1>1. /\ Above[s] \in Seq(Hubs) /\ n \in Nat
      /\ \A i \in 1..n : /\ Above[s][i] \in Hubs
                         /\ Len(Above[Above[s][i]]) = i - 1
                         /\ \A k \in 1..(i - 1) : Above[Above[s][i]][k] = Above[s][k]
  BY AboveFacts
<1>2. CASE s \in Hubs
  <2>1. w \in Seq(Hubs) /\ Len(w) = n + 1 /\ w[n + 1] = s /\ \A j \in 1..n : w[j] = Above[s][j]
    BY <1>1, <1>2 DEF Down
  <2> HIDE DEF w
  <2>2. Chained(w)
    <3> SUFFICES ASSUME NEW j \in 1..(n + 1)
                 PROVE  Len(Above[w[j]]) = j - 1 /\ \A k \in 1..(j - 1) : Above[w[j]][k] = w[k]
      BY <2>1 DEF Chained
    <3>1. CASE j = n + 1
      BY <3>1, <1>1, <2>1
    <3>2. CASE j # n + 1
      <4>0. n \in Nat
        BY <1>1
      <4> HIDE DEF n
      <4>1. j \in 1..n /\ \A k \in 1..(j - 1) : k \in 1..n
        BY <3>2, <4>0
      <4>2. Len(Above[Above[s][j]]) = j - 1 /\ \A k \in 1..(j - 1) : Above[Above[s][j]][k] = Above[s][k]
        BY <1>1, <4>1
      <4> QED
        BY <4>1, <4>2, <2>1
    <3> QED
      BY <3>1, <3>2
  <2>3. AllOf(w) = Path(s)
    <3>1. AllOf(w) = {w[i] : i \in 1..(n + 1)} /\ Path(s) = {Above[s][i] : i \in 1..n} \cup {s}
      BY <1>2, <2>1 DEF AllOf, Path
    <3>2. \A i \in 1..(n + 1) : i = n + 1 \/ i \in 1..n
      BY <1>1
    <3>3. n + 1 \in 1..(n + 1) /\ \A i \in 1..n : i \in 1..(n + 1)
      BY <1>1
    <3> HIDE DEF n
    <3> QED
      BY <2>1, <3>1, <3>2, <3>3
  <2>4. \A i, j \in 1..Len(w) : w[i] = w[j] => i = j
    <3> TAKE i, j \in 1..Len(w)
    <3> HAVE w[i] = w[j]
    <3>1. Len(Above[w[i]]) = i - 1 /\ Len(Above[w[j]]) = j - 1
      BY <2>2 DEF Chained
    <3>2. i \in Int /\ j \in Int
      OBVIOUS
    <3> QED
      BY <3>1, <3>2
  <2> QED
    BY <1>1, <2>1, <2>2, <2>3, <2>4 DEF w
<1>3. CASE s \notin Hubs
  <2>1. w = Above[s]
    BY <1>1, <1>3 DEF Down
  <2>2. Chained(w)
    BY <1>1, <2>1 DEF Chained
  <2>3. AllOf(w) = Path(s)
    BY <1>3, <2>1 DEF AllOf, Path
  <2>4. \A i, j \in 1..Len(w) : w[i] = w[j] => i = j
    <3> TAKE i, j \in 1..Len(w)
    <3> HAVE w[i] = w[j]
    <3>1. Len(Above[w[i]]) = i - 1 /\ Len(Above[w[j]]) = j - 1
      BY <2>2 DEF Chained
    <3>2. i \in Int /\ j \in Int
      OBVIOUS
    <3> QED
      BY <3>1, <3>2
  <2> QED
    BY <1>1, <2>1, <2>2, <2>3, <2>4
<1> QED
  BY <1>2, <1>3

\* The way to a stop, from above for a selection and from below for its end.
Ordered(w, g) ==
    /\ \A j \in 1..Len(w) : g # 0 => AllOf(Above[w[j]]) = {w[k] : k \in 1..(j - 1)}
    /\ \A j, k \in 1..Len(w) : g = 0 /\ k < j => w[k] \notin AllOf(Above[w[j]])

LEMMA WayFacts ==
  ASSUME NEW s \in Stops, NEW g
  PROVE  /\ Way(s, g) \in Seq(Hubs) /\ Len(Way(s, g)) \in Nat /\ Ordered(Way(s, g), g)
         /\ AllOf(Way(s, g)) = Path(s)
         /\ \A i, j \in 1..Len(Way(s, g)) : Way(s, g)[i] = Way(s, g)[j] => i = j
<1> DEFINE d == Down(s)
           n == Len(d)
           w == Way(s, g)
<1>1. /\ d \in Seq(Hubs) /\ n \in Nat /\ Chained(d) /\ AllOf(d) = Path(s)
      /\ \A i, j \in 1..n : d[i] = d[j] => i = j
  BY DownFacts
<1>2. w = IF g = 0 THEN Reverse(d) ELSE d
  BY DEF Way, Down
<1>3. ASSUME NEW j \in 1..n PROVE AllOf(Above[d[j]]) = {d[k] : k \in 1..(j - 1)}
  <2>1. Len(Above[d[j]]) = j - 1 /\ \A k \in 1..(j - 1) : Above[d[j]][k] = d[k]
    BY <1>1 DEF Chained
  <2> HIDE DEF d, n
  <2> QED
    BY <2>1 DEF AllOf
<1> HIDE DEF d, w, n
<1>4. CASE g # 0
  <2>1. w = d /\ Len(w) = n
    BY <1>2, <1>4 DEF n
  <2>2. Ordered(w, g)
    BY <1>3, <1>4, <2>1 DEF Ordered
  <2> QED
    BY <1>1, <2>1, <2>2 DEF w
<1>5. CASE g = 0
  <2>1. w \in Seq(Hubs) /\ Len(w) = n /\ \A i \in 1..n : w[i] = d[n - i + 1] /\ n - i + 1 \in 1..n
    <3>1. w = [i \in 1..n |-> d[(n - i) + 1]]
      BY <1>2, <1>5 DEF Reverse, n
    <3>2. \A i \in 1..n : n - i + 1 \in 1..n
      BY <1>1
    <3>3. \A i \in 1..n : d[i] \in Hubs
      BY <1>1 DEF n
    <3> QED
      BY <1>1, <3>1, <3>2, <3>3
  <2>2. AllOf(w) = AllOf(d)
    <3>1. \A i \in 1..n : n - i + 1 \in 1..n /\ d[i] = w[n - i + 1]
      <4> TAKE i \in 1..n
      <4>1. n - i + 1 \in 1..n /\ n - (n - i + 1) + 1 = i
        BY <1>1
      <4> QED
        BY <2>1, <4>1
    <3> QED
      BY <2>1, <3>1 DEF AllOf, n
  <2>3. \A i, j \in 1..n : w[i] = w[j] => i = j
    <3> TAKE i, j \in 1..n
    <3> HAVE w[i] = w[j]
    <3>1. d[n - i + 1] = d[n - j + 1] /\ n - i + 1 \in 1..n /\ n - j + 1 \in 1..n
      BY <2>1
    <3>2. n - i + 1 = n - j + 1
      BY <1>1, <3>1
    <3> QED
      BY <1>1, <3>2
  <2>4. ASSUME NEW j \in 1..n, NEW k \in 1..n, k < j, w[k] \in AllOf(Above[w[j]]) PROVE FALSE
    <3>1. w[j] = d[n - j + 1] /\ n - j + 1 \in 1..n /\ w[k] = d[n - k + 1] /\ n - k + 1 \in 1..n
      BY <2>1
    <3>2. AllOf(Above[d[n - j + 1]]) = {d[m] : m \in 1..((n - j + 1) - 1)}
      BY <1>3, <3>1
    <3>3. PICK m \in 1..((n - j + 1) - 1) : w[k] = d[m]
      BY <2>4, <3>1, <3>2
    <3>4. m \in 1..n /\ m # n - k + 1
      BY <2>4, <1>1
    <3> QED
      BY <1>1, <3>1, <3>3, <3>4
  <2>5. Ordered(w, g)
    BY <1>5, <2>1, <2>4 DEF Ordered
  <2> QED
    BY <1>1, <2>1, <2>2, <2>3, <2>5 DEF w
<1> QED
  BY <1>4, <1>5

\* No hub is above itself, and the hubs above a hub on the way are on it too.
LEMMA PathFacts ==
  ASSUME NEW s \in Stops
  PROVE  /\ Path(s) \subseteq Hubs /\ AllOf(Above[s]) \subseteq Path(s)
         /\ \A x \in Path(s) : AllOf(Above[x]) \subseteq Path(s)
         /\ s \notin AllOf(Above[s])
<1>0. AllOf(Above[s]) \subseteq Path(s)
  BY DEF Path
<1>1. Path(s) \subseteq Hubs
  BY AboveFacts DEF Path, AllOf
<1>2. ASSUME NEW x \in AllOf(Above[s]) PROVE AllOf(Above[x]) \subseteq Path(s)
  <2>1. PICK i \in 1..Len(Above[s]) : x = Above[s][i]
    BY DEF AllOf
  <2>2. Len(Above[x]) = i - 1 /\ \A k \in 1..(i - 1) : Above[x][k] = Above[s][k] /\ k \in 1..Len(Above[s])
    BY <2>1, AboveFacts
  <2> QED
    BY <2>2 DEF AllOf, Path
<1>3. ASSUME s \in AllOf(Above[s]) PROVE FALSE
  <2>1. PICK i \in 1..Len(Above[s]) : s = Above[s][i]
    BY <1>3 DEF AllOf
  <2>2. Len(Above[s]) = i - 1
    BY <2>1, AboveFacts
  <2> QED
    BY <2>2
<1>4. ASSUME NEW x \in Path(s) PROVE AllOf(Above[x]) \subseteq Path(s)
  BY <1>0, <1>2 DEF Path
<1> QED
  BY <1>0, <1>1, <1>3, <1>4
-----------------------------------------------------------------------------
(***************************************************************************)
(* What one write makes of the registers of a test network and of what is  *)
(* remembered of them.  While none is lost, what is written is remembered, *)
(* and a field that was never written is as after reset.                   *)
(***************************************************************************)
Faithful(conf, h, net) ==
    /\ DOMAIN h.value = Stops /\ DOMAIN net.value = Stops
    /\ \A s \in Stops : \A k \in RegFields :
          /\ k \in DOMAIN h.value[s] /\ k \in DOMAIN net.value[s]
          /\ h.value[s][k] # None => net.value[s][k] = h.value[s][k]
    /\ \A s \in Stops : \A f \in Fields :
          h.value[s][User(f)] = None => net.value[s][User(f)] = Default[f]
    \* a bank in no group is switched off, which the packets that no stop
    \* hears, since they are for no group, would have done
    /\ ~conf.network => \A s \in Stops : \A b \in Banks :
          h.bank[s][b] \in {0, None} => net.value[s][Oe(b)] = 0

(***************************************************************************)
(* A write: every stop that it is addressed to hears it.                   *)
(***************************************************************************)
WrittenTo(net, n2, stops, gids, data) ==
    \E hit : /\ hit \subseteq AllOf(stops)
             /\ \A i \in 1..Len(stops) : gids[i] # 0 => stops[i] \in hit
             /\ n2.value = [s \in Stops |-> IF s \in hit THEN OnRegister(net.value[s], data)
                                            ELSE net.value[s]]

LEMMA WriteHeard ==
  ASSUME NEW conf, NEW net, DOMAIN net = NetParts, net.lost \in BOOLEAN,
         NEW stops, NEW gids, NEW data, NEW read
  PROVE  LET n2 == OnNetwork(conf, net, WriteOp(stops, gids, data, read))
         IN  /\ DOMAIN n2 = NetParts /\ n2.lost \in BOOLEAN
             /\ n2.lost = FALSE => net.lost = FALSE /\ WrittenTo(net, n2, stops, gids, data)
<1> DEFINE op == WriteOp(stops, gids, data, read)
           n2 == OnNetwork(conf, net, op)
           hits == Hit(conf, net, op)
           hit == {op.stops[i] : i \in hits}
           value2 == [s \in Stops |-> IF s \in hit THEN OnRegister(net.value[s], op.data) ELSE net.value[s]]
           missed == \E i \in 1..Len(op.stops) : op.gids[i] # 0 /\ i \notin hits
           lost2 == net.lost \/ missed
<1>1. op.op = "write_read" /\ op.stops = stops /\ op.gids = gids /\ op.data = data
  BY DEF WriteOp
<1> HIDE DEF op
<1>2. n2 = [net EXCEPT !.value = value2, !.lost = lost2]
  BY <1>1 DEF OnNetwork
<1>3. hits \subseteq 1..Len(stops)
  BY <1>1 DEF Hit
<1>4. hit \subseteq AllOf(stops)
  BY <1>1, <1>3 DEF AllOf
<1>5. missed \in BOOLEAN /\ lost2 \in BOOLEAN /\ (lost2 = FALSE => net.lost = FALSE /\ ~missed)
  OBVIOUS
<1>6. ~missed => \A i \in 1..Len(stops) : gids[i] # 0 => stops[i] \in hit
  BY <1>1
<1>7. value2 = [s \in Stops |-> IF s \in hit THEN OnRegister(net.value[s], data) ELSE net.value[s]]
  BY <1>1
<1> HIDE DEF value2, lost2, missed, hits
<1>8. DOMAIN n2 = NetParts /\ n2.value = value2 /\ n2.lost = lost2
  BY <1>2 DEF NetParts
<1> HIDE DEF n2
<1>9. lost2 = FALSE => WrittenTo(net, n2, stops, gids, data)
  <2> SUFFICES ASSUME lost2 = FALSE PROVE WrittenTo(net, n2, stops, gids, data)
    OBVIOUS
  <2>1. /\ hit \subseteq AllOf(stops)
        /\ \A i \in 1..Len(stops) : gids[i] # 0 => stops[i] \in hit
        /\ n2.value = [s \in Stops |-> IF s \in hit THEN OnRegister(net.value[s], data)
                                       ELSE net.value[s]]
    BY <1>4, <1>5, <1>6, <1>7, <1>8
  <2> HIDE DEF hit
  <2> QED
    BY <2>1 DEF WrittenTo
<1>10. /\ DOMAIN n2 = NetParts /\ n2.lost \in BOOLEAN
       /\ n2.lost = FALSE => net.lost = FALSE /\ WrittenTo(net, n2, stops, gids, data)
  BY <1>5, <1>8, <1>9
<1> QED
  BY <1>10 DEF n2, op

\* The register of the network and that of the history, field by field.
Users == {User(f) : f \in Fields}
LEMMA OtherFields ==
  ASSUME NEW old, NEW data, \A f \in Fields : User(f) \notin DOMAIN data /\ Part(f) \notin DOMAIN data
  PROVE  LET new == OnRegister(old, data)
         IN  \A k \in DOMAIN old : k \in DOMAIN new /\ new[k] = IF k \in DOMAIN data THEN data[k] ELSE old[k]
<1> DEFINE r == Atop(data, old)
           top == <<>>
<1>1. OnRegister(old, data) = Atop(top, r)
  BY DEF OnRegister
<1>2. DOMAIN top = {}
  OBVIOUS
<1>3. \A k \in DOMAIN old : k \in DOMAIN r /\ r[k] = IF k \in DOMAIN data THEN data[k] ELSE old[k]
  BY DEF Atop
<1> HIDE DEF top, r
<1>4. \A k \in DOMAIN r : k \in DOMAIN Atop(top, r) /\ Atop(top, r)[k] = r[k]
  BY <1>2 DEF Atop
<1> QED
  BY <1>1, <1>3, <1>4

LEMMA UserFields ==
  ASSUME NEW old, NEW data, DOMAIN data \subseteq Users, Fields # {} => DOMAIN data # {}
  PROVE  LET new == OnRegister(old, data)
         IN  /\ \A k \in DOMAIN old \ Users : k \in DOMAIN new /\ new[k] = old[k]
             /\ \A f \in Fields : /\ User(f) \in DOMAIN new
                                  /\ new[User(f)] = IF User(f) \in DOMAIN data THEN data[User(f)]
                                                    ELSE Default[f]
<1> DEFINE user == \E f \in Fields : User(f) \in DOMAIN data \/ Part(f) \in DOMAIN data
           field(f) == IF User(f) \in DOMAIN data THEN data[User(f)]
                       ELSE IF Part(f) \in DOMAIN data THEN data[Part(f)] ELSE Default[f]
           all == [k \in Users |-> field(k[2])]
           top == IF user THEN all ELSE <<>>
           r == Atop(data, old)
<1>1. OnRegister(old, data) = Atop(top, r)
  BY DEF OnRegister, Users
<1>2. \A k \in DOMAIN old \ Users : k \in DOMAIN r /\ r[k] = old[k]
  BY DEF Atop
<1>3. Fields # {} => user
  BY DEF Users
<1>4. \A f \in Fields : Part(f) \notin DOMAIN data
  BY DEF Users, User, Part
<1>5. ASSUME NEW f \in Fields
      PROVE  /\ User(f) \in Users
             /\ all[User(f)] = IF User(f) \in DOMAIN data THEN data[User(f)] ELSE Default[f]
  <2>1. User(f)[2] = f /\ User(f) \in Users
    BY DEF User, Users
  <2>2. all[User(f)] = field(User(f)[2])
    BY <2>1
  <2> QED
    BY <1>4, <2>1, <2>2
<1>6. DOMAIN top \subseteq Users
  BY DEF Users
<1>7. Fields # {} => top = all /\ DOMAIN all = Users
  BY <1>3
<1> HIDE DEF top, r, all, user
<1>8. /\ \A k \in DOMAIN r \ Users : k \in DOMAIN Atop(top, r) /\ Atop(top, r)[k] = r[k]
      /\ \A k \in DOMAIN top : k \in DOMAIN Atop(top, r) /\ Atop(top, r)[k] = top[k]
  BY <1>6 DEF Atop
<1> QED
  BY <1>1, <1>2, <1>5, <1>7, <1>8

(***************************************************************************)
(* What is remembered when fields are written to the stops.                *)
(***************************************************************************)
LEMMA AtopIs ==
  ASSUME NEW new, NEW old
  PROVE  \A k : (k \in DOMAIN Atop(new, old) <=> k \in DOMAIN new \/ k \in DOMAIN old)
             /\ (k \in DOMAIN new => Atop(new, old)[k] = new[k])
             /\ (k \in DOMAIN old /\ k \notin DOMAIN new => Atop(new, old)[k] = old[k])
BY DEF Atop

LEMMA RememberedFields ==
  ASSUME NEW h, DOMAIN h = BookParts, NEW stops, NEW data
  PROVE  LET h2 == Remember(h, stops, data)
         IN  /\ DOMAIN h2 = BookParts /\ h2.bank = h.bank /\ h2.members = h.members
             /\ DOMAIN h2.value = Stops
             /\ \A s \in Stops : h2.value[s] = IF s \in AllOf(stops) THEN Atop(data, h.value[s])
                                               ELSE h.value[s]
<1> DEFINE value2 == [s \in Stops |-> IF s \in AllOf(stops) THEN Atop(data, h.value[s]) ELSE h.value[s]]
           h2 == [h EXCEPT !.value = value2]
<1>1. Remember(h, stops, data) = h2
  BY DEF Remember
<1>2. /\ DOMAIN value2 = Stops
      /\ \A s \in Stops : value2[s] = IF s \in AllOf(stops) THEN Atop(data, h.value[s]) ELSE h.value[s]
  OBVIOUS
<1> HIDE DEF value2
<1>3. DOMAIN h2 = BookParts /\ h2.bank = h.bank /\ h2.members = h.members /\ h2.value = value2
  BY DEF BookParts
<1> HIDE DEF h2
<1> QED
  BY <1>1, <1>2, <1>3

LEMMA FieldFacts ==
  /\ \A b \in Banks : Oe(b) \in RegFields
  /\ \A f \in Fields : User(f) \in RegFields /\ Default[f] # None
<1>1. \A f \in Fields : Default[f] \in 0..FieldMax
  BY NetworkAssumption
<1>2. FieldMax \in Nat
  BY NetworkAssumption
<1> QED
  BY <1>1, <1>2 DEF RegFields, None

\* The fields that are not the user's are written to one stop at a time.  The
\* packet that switches the output of a bank in no group off goes to nobody.
Userless(data) == \A f \in Fields : User(f) \notin DOMAIN data /\ Part(f) \notin DOMAIN data
Fitting(conf, row, g, data) ==
    /\ ~conf.network => \A b \in Banks :
          Oe(b) \in DOMAIN data /\ row[b] \in {0, None} => data[Oe(b)] = 0
    /\ g = 0 => ~conf.network
                /\ \A k \in DOMAIN data : \E b \in Banks : k = Oe(b) /\ row[b] \in {0, None}

LEMMA OthersRecalled ==
  ASSUME NEW conf, NEW h, DOMAIN h = BookParts, NEW net, Faithful(conf, h, net),
         NEW s \in Stops, NEW g, NEW data, Userless(data), Fitting(conf, h.bank[s], g, data),
         NEW n2, WrittenTo(net, n2, <<s>>, <<g>>, data)
  PROVE  Faithful(conf, Remember(h, <<s>>, data), n2)
<1> DEFINE h2 == Remember(h, <<s>>, data)
           NewReg(x) == OnRegister(net.value[x], data)
           T(x) == Atop(data, h.value[x])
<1>1. PICK hit : /\ hit \subseteq AllOf(<<s>>)
                 /\ \A i \in 1..Len(<<s>>) : <<g>>[i] # 0 => <<s>>[i] \in hit
                 /\ n2.value = [x \in Stops |-> IF x \in hit THEN NewReg(x) ELSE net.value[x]]
  BY DEF WrittenTo
<1>2. AllOf(<<s>>) = {s}
  BY DEF AllOf
<1>3. hit \subseteq {s} /\ (g # 0 => s \in hit)
  <2>1. 1 \in 1..Len(<<s>>) /\ <<g>>[1] = g /\ <<s>>[1] = s
    OBVIOUS
  <2> QED
    BY <1>1, <1>2, <2>1
<1>4. DOMAIN n2.value = Stops /\ \A x \in Stops : n2.value[x] = IF x \in hit THEN NewReg(x) ELSE net.value[x]
  BY <1>1
<1>5. /\ h2.bank = h.bank /\ DOMAIN h2.value = Stops
      /\ \A x \in Stops : h2.value[x] = IF x = s THEN T(x) ELSE h.value[x]
  BY <1>2, RememberedFields
<1>6. ASSUME NEW x \in Stops, NEW k \in RegFields
      PROVE  /\ k \in DOMAIN NewReg(x) /\ NewReg(x)[k] = IF k \in DOMAIN data THEN data[k] ELSE net.value[x][k]
             /\ k \in DOMAIN T(x) /\ T(x)[k] = IF k \in DOMAIN data THEN data[k] ELSE h.value[x][k]
  <2> DEFINE old == net.value[x]
  <2>1. k \in DOMAIN old /\ k \in DOMAIN h.value[x]
    BY DEF Faithful
  <2> HIDE DEF old
  <2>2. k \in DOMAIN OnRegister(old, data)
        /\ OnRegister(old, data)[k] = IF k \in DOMAIN data THEN data[k] ELSE old[k]
    BY <2>1, OtherFields DEF Userless
  <2> QED
    BY <2>1, <2>2, AtopIs DEF old
<1> HIDE DEF h2, NewReg, T
<1>7. ASSUME NEW b \in Banks, Oe(b) \in DOMAIN data, ~conf.network, h.bank[s][b] \in {0, None}
      PROVE  data[Oe(b)] = 0
  BY <1>7 DEF Fitting
<1>8. ASSUME s \notin hit, NEW k \in DOMAIN data
      PROVE  /\ ~conf.network /\ \E b \in Banks : k = Oe(b) /\ h.bank[s][b] \in {0, None}
             /\ data[k] = 0 /\ net.value[s][k] = 0
  <2>1. g = 0
    BY <1>3, <1>8
  <2>2. ~conf.network /\ \E b \in Banks : k = Oe(b) /\ h.bank[s][b] \in {0, None}
    BY <1>8, <2>1 DEF Fitting
  <2>3. PICK b \in Banks : k = Oe(b) /\ h.bank[s][b] \in {0, None}
    BY <2>2
  <2>4. net.value[s][Oe(b)] = 0
    BY <2>2, <2>3 DEF Faithful
  <2> QED
    BY <1>7, <1>8, <2>2, <2>3, <2>4
<1>9. ASSUME NEW x \in Stops, NEW k \in RegFields
      PROVE  /\ k \in DOMAIN h2.value[x] /\ k \in DOMAIN n2.value[x]
             /\ h2.value[x][k] # None => n2.value[x][k] = h2.value[x][k]
  <2>1. /\ k \in DOMAIN h.value[x] /\ k \in DOMAIN net.value[x]
        /\ h.value[x][k] # None => net.value[x][k] = h.value[x][k]
    BY DEF Faithful
  <2>2. CASE x # s
    BY <1>3, <1>4, <1>5, <2>1, <2>2
  <2>3. CASE x = s /\ s \in hit
    BY <1>4, <1>5, <1>6, <2>1, <2>3
  <2>4. CASE x = s /\ s \notin hit
    BY <1>4, <1>5, <1>6, <1>8, <2>1, <2>4
  <2> QED
    BY <2>2, <2>3, <2>4
<1>10. ASSUME NEW x \in Stops, NEW f \in Fields, h2.value[x][User(f)] = None
       PROVE  n2.value[x][User(f)] = Default[f]
  <2>1. User(f) \notin DOMAIN data /\ User(f) \in RegFields
    BY FieldFacts DEF Userless
  <2>2. h2.value[x][User(f)] = h.value[x][User(f)] /\ n2.value[x][User(f)] = net.value[x][User(f)]
    BY <1>4, <1>5, <1>6, <2>1
  <2> QED
    BY <1>10, <2>2 DEF Faithful
<1>11. ASSUME ~conf.network, NEW x \in Stops, NEW b \in Banks, h2.bank[x][b] \in {0, None}
       PROVE  n2.value[x][Oe(b)] = 0
  <2>1. net.value[x][Oe(b)] = 0 /\ Oe(b) \in RegFields
    BY <1>5, <1>11, FieldFacts DEF Faithful
  <2>2. x \in hit => n2.value[x][Oe(b)] = IF Oe(b) \in DOMAIN data THEN data[Oe(b)] ELSE net.value[x][Oe(b)]
    BY <1>4, <1>6, <2>1
  <2> QED
    BY <1>3, <1>4, <1>5, <1>7, <1>11, <2>1, <2>2
<1>12. Faithful(conf, h2, n2)
  BY <1>4, <1>5, <1>9, <1>10, <1>11 DEF Faithful
<1> QED
  BY <1>12 DEF h2

\* All fields of the user are v in the stops that are written, and in what is
\* remembered of them.
AllSay(h, h2, stops, gids, data, v) ==
    /\ \A i \in 1..Len(stops) : gids[i] # 0
    /\ DOMAIN data \subseteq Users /\ (Fields # {} => DOMAIN data # {})
    /\ \A f \in Fields :
          /\ v[User(f)] # None
          /\ v[User(f)] = IF User(f) \in DOMAIN data THEN data[User(f)] ELSE Default[f]
    /\ h2.bank = h.bank /\ DOMAIN h2.value = Stops
    /\ \A s \in Stops : \A k \in RegFields :
          /\ k \in DOMAIN h2.value[s]
          /\ h2.value[s][k] = IF s \in AllOf(stops) /\ k \in Users THEN v[k] ELSE h.value[s][k]

LEMMA UsersRecalled ==
  ASSUME NEW conf, NEW h, NEW net, Faithful(conf, h, net), NEW stops, NEW gids, NEW data, NEW v, NEW h2,
         AllSay(h, h2, stops, gids, data, v), NEW n2, WrittenTo(net, n2, stops, gids, data)
  PROVE  Faithful(conf, h2, n2)
<1> USE DEF AllSay
<1> DEFINE NewReg(x) == OnRegister(net.value[x], data)
<1>1. PICK hit : /\ hit \subseteq AllOf(stops)
                 /\ \A i \in 1..Len(stops) : gids[i] # 0 => stops[i] \in hit
                 /\ n2.value = [x \in Stops |-> IF x \in hit THEN NewReg(x) ELSE net.value[x]]
  BY DEF WrittenTo
<1>2. hit = AllOf(stops)
  BY <1>1 DEF AllOf
<1>3. DOMAIN n2.value = Stops
      /\ \A x \in Stops : n2.value[x] = IF x \in AllOf(stops) THEN NewReg(x) ELSE net.value[x]
  BY <1>1, <1>2
<1>4. ASSUME NEW x \in Stops, NEW k \in RegFields
      PROVE  k \in DOMAIN NewReg(x) /\ NewReg(x)[k] = IF k \in Users THEN v[k] ELSE net.value[x][k]
  <2> DEFINE old == net.value[x]
  <2>1. k \in DOMAIN old
    BY DEF Faithful
  <2> HIDE DEF old
  <2>2. CASE k \in Users
    <3>1. PICK f \in Fields : k = User(f)
      BY <2>2 DEF Users
    <3>2. k \in DOMAIN OnRegister(old, data)
          /\ OnRegister(old, data)[k] = IF k \in DOMAIN data THEN data[k] ELSE Default[f]
      BY <3>1, UserFields
    <3> QED
      BY <2>2, <3>1, <3>2 DEF old
  <2>3. CASE k \notin Users
    <3>1. k \in DOMAIN OnRegister(old, data) /\ OnRegister(old, data)[k] = old[k]
      BY <2>1, <2>3, UserFields
    <3> QED
      BY <2>3, <3>1 DEF old
  <2> QED
    BY <2>2, <2>3
<1> HIDE DEF NewReg
<1>5. ASSUME NEW x \in Stops, NEW k \in RegFields
      PROVE  /\ k \in DOMAIN h2.value[x] /\ k \in DOMAIN n2.value[x]
             /\ h2.value[x][k] # None => n2.value[x][k] = h2.value[x][k]
  <2>1. /\ k \in DOMAIN h.value[x] /\ k \in DOMAIN net.value[x]
        /\ h.value[x][k] # None => net.value[x][k] = h.value[x][k]
    BY DEF Faithful
  <2> QED
    BY <1>3, <1>4, <2>1
<1>6. ASSUME NEW x \in Stops, NEW f \in Fields, h2.value[x][User(f)] = None
      PROVE  n2.value[x][User(f)] = Default[f]
  <2>1. User(f) \in Users /\ User(f) \in RegFields
    BY FieldFacts DEF Users
  <2>2. x \notin AllOf(stops) /\ h.value[x][User(f)] = None
    BY <1>6, <2>1
  <2>3. net.value[x][User(f)] = Default[f]
    BY <2>2 DEF Faithful
  <2> QED
    BY <1>3, <2>2, <2>3
<1>7. ASSUME ~conf.network, NEW x \in Stops, NEW b \in Banks, h2.bank[x][b] \in {0, None}
      PROVE  n2.value[x][Oe(b)] = 0
  <2>1. net.value[x][Oe(b)] = 0
    BY <1>7 DEF Faithful
  <2>2. Oe(b) \in RegFields /\ Oe(b) \notin Users
    BY FieldFacts DEF Oe, Users, User
  <2> QED
    BY <1>3, <1>4, <2>1, <2>2
<1> QED
  BY <1>3, <1>5, <1>6, <1>7 DEF Faithful

\* What a write that the history follows is like.
Writable(a) ==
    /\ ~a.read /\ DOMAIN a.data \subseteq Users /\ \A k \in DOMAIN a.data : a.data[k] \in Nat
    /\ a.whole => Users \subseteq DOMAIN a.data
    /\ a.incremental \/ DOMAIN a.data # {}
LEMMA FilledIs ==
  ASSUME NEW h, NEW a, Writable(a)
  PROVE  LET fill == Filled(h, a)
         IN  /\ DOMAIN fill \subseteq Users
             /\ \A f \in Fields :
                  /\ User(f) \in DOMAIN fill <=> User(f) \notin DOMAIN a.data
                  /\ User(f) \in DOMAIN fill =>
                       fill[User(f)] = Current(h, a.stops[1], f, a.incremental)
<1> DEFINE fill == Filled(h, a)
           un == Unnamed(a)
<1>1. \A f, g : User(f) = User(g) => f = g
  BY DEF User
<1>2. \A f \in Fields : f \in un <=> User(f) \notin DOMAIN a.data
  BY DEF Unnamed, Writable, Users
<1>3. un \subseteq Fields
  BY DEF Unnamed
<1>4. \A f : User(f)[2] = f
  BY DEF User
<1> HIDE DEF un
<1>5. /\ DOMAIN fill = {User(f) : f \in un}
      /\ \A k \in DOMAIN fill : fill[k] = Current(h, a.stops[1], k[2], a.incremental)
  BY DEF Filled, un
<1> HIDE DEF fill
<1>6. DOMAIN fill \subseteq Users
  BY <1>3, <1>5 DEF Users
<1>7. \A f \in Fields : User(f) \in DOMAIN fill <=> f \in un
  BY <1>1, <1>5
<1>8. \A f \in Fields : User(f) \in DOMAIN fill => fill[User(f)] = Current(h, a.stops[1], f, a.incremental)
  BY <1>4, <1>5
<1> QED
  BY <1>2, <1>6, <1>7, <1>8 DEF fill

\* The value that a write means for a field of the user: the one that it names,
\* or else the one that is remembered or, if it is not incremental, the default.
MeantFor(h, a, f) == IF User(f) \in DOMAIN a.data THEN a.data[User(f)]
                     ELSE Current(h, a.stops[1], f, a.incremental)
LEMMA MeantIs ==
  ASSUME NEW h, NEW a, Writable(a), NEW f \in Fields
  PROVE  MeantFor(h, a, f) # None
<1>1. \A n \in Nat : n # None
  BY DEF None
<1>2. Default[f] # None
  BY FieldFacts
<1> QED
  BY <1>1, <1>2 DEF MeantFor, Writable, Current
=============================================================================
