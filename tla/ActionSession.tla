---------------------------- MODULE ActionSession ----------------------------
(***************************************************************************)
(* A test seen from its actions: the same script of actions is executed    *)
(* twice, once to verify it with the HPL silent, and once to run it on the *)
(* DUT.  Both times an action verifies its arguments and then runs, and    *)
(* both times it uses, and extends, what the process knows: the history    *)
(* manager, the groups that the flow tracks, the player.  Between the      *)
(* passes the history is initialised again, which forgets it only with     *)
(* reset_history (CheckpointHistory); here there is no checkpoint file.    *)
(*                                                                         *)
(* Composes StfAction, StfPackets, TapAction, TapShift with Patmods,       *)
(* CrAccess, Breakpoints, Signals and PlayerOutput.  Actions of different  *)
(* families keep their knowledge apart, so a script is of one; "SPF" is a  *)
(* TAP action as the SPF interface writes it, and "PKT" are the packets    *)
(* given bit by bit.                                                       *)
(***************************************************************************)
EXTENDS StfAction, StfPackets, TapShift, CrAccess, Breakpoints, Signals, PlayerOutput

CONSTANTS
  Actions,    \* family -> the actions a script of that family may hold
  TeConfs,    \* family -> the TE_cfg settings under test
  MaxScript   \* bound: actions of a script

ASSUME SessionAssumption ==
    /\ MaxScript \in Nat
    /\ DOMAIN Actions \subseteq {"STF", "PKT", "TAP", "SPF", "XREG", "UBP", "SIG", "GEN"}
    /\ "STF" \in DOMAIN TeConfs => TeConfs["STF"] \subseteq TeConf
    /\ "SPF" \in DOMAIN Actions => \A t \in TeConfs["SPF"] : AreLists(t.docs)

\* The arguments have their declared types: an operation, the stops and the
\* groups of a network, a number of cycles, the name of a clock, which an action is
\* rejected without, fields and ranges of bits.
StfOps == {"select", "null", "nop", "replace", "map_usrop", "write_read"}
TapRange == [lsb : Int, msb : Int, bits : SUBSET Nat]
ASSUME ArgumentAssumption ==
    /\ "STF" \in DOMAIN Actions => \A a \in Actions["STF"] :
          /\ a.op \in StfOps
          /\ a.stops \in Seq(Stops) /\ a.gids \in Seq(Gids) /\ a.bank \in Banks
          /\ a.op = "select" => a.mode \in Modes \cup {Reset}
          /\ a.op = "write_read" =>
                /\ DOMAIN a.data \subseteq {User(f) : f \in Fields} \cup {Part(f) : f \in Fields}
                /\ \A k \in DOMAIN a.data : a.data[k] \in Nat
                /\ a.whole => {User(f) : f \in Fields} \subseteq DOMAIN a.data
    /\ "SIG" \in DOMAIN Actions => \A a \in Actions["SIG"] :
          a.cycles \in Nat /\ a.maxtimeout \in Int /\ a.clock \in DOMAIN Period
    /\ "TAP" \in DOMAIN Actions => \A a \in Actions["TAP"] :
          /\ a.args \in Seq([field : DocField, exact : BOOLEAN, ranges : Seq(TapRange)])
          /\ a.bits \subseteq 0..(DrSize - 1)
    /\ "SPF" \in DOMAIN Actions => \A a \in Actions["SPF"] :
          IsList(a.args) /\ IsList(a.parts) /\ \A x \in ToSet(a.args) : IsList(x.ranges)
    /\ "UBP" \in DOMAIN Actions => \A a \in Actions["UBP"] :
          /\ a.op \in {"enable", "disable", "reset", "direct", "trigger"}
          /\ a.op = "enable" => a.action \in UbpActions
          /\ a.op = "trigger" => a.actions \in Seq(UbpActions)

VARIABLES
  phase,   \* "verify", "run", or how it ended: "rejected", "failed", "done",
           \* "closed"
  te,      \* TE_cfg
  resets,  \* was reset_history given?
  family,
  script,  \* the actions that have passed verification, in order
  at,      \* how many of them have run
  know,    \* what the process knows: the stf, tap, UBP and label tables of the
           \* history manager, stf_gid_track, the player, its interface and the
           \* patmods
  dut      \* the network, the data register, the control registers, the
           \* breakpoint machines and the signals of the DUT, and the stimulus
           \* meant for it

vars == <<phase, te, resets, family, script, at, know, dut>>

Ignorant == [stf |-> NoHistory, tap |-> [f \in {} |-> {}], labels |-> NoLabels,
             ubp |-> NoBreakpoints, track |-> NothingTracked, player |-> NewPlayer,
             sig |-> Unsynced,
             pat |-> [enabled |-> TRUE, patmods |-> <<>>, groups |-> <<>>, parts |-> {}]]

ResetRegister == UNION {Place(ResetOf[f], f) : f \in DocField}
Untouched == [net |-> NoNetwork, reg |-> ResetRegister,
              told |-> [s \in Scopes |-> CrReset], awaited |-> NothingAwaited, ubp |-> ResetMachines,
              sig |-> NoSignals, out |-> NoStimulus,
              pkt |-> <<>>,
             spf |-> [last |-> NoCommand, said |-> {}, template |-> {}]]

Init ==
    /\ family \in DOMAIN Actions
    /\ te \in TeConfs[family]
    /\ phase = IF family = "SPF" /\ ~ReadOk(te.docs) THEN "rejected" ELSE "verify"
    /\ resets \in BOOLEAN
    /\ script = <<>>
    /\ at = 0
    /\ know = IF family = "SPF" THEN [Ignorant EXCEPT !.pat = ReadPatmods(te.docs)] ELSE Ignorant
    /\ dut = Untouched

(***************************************************************************)
(* exec_action: what an action makes of knowledge k and DUT d.  An STF     *)
(* action extends the history when it verifies, a TAP action when it runs  *)
(* in the run pass.                                                        *)
(***************************************************************************)
Done(bad, k, d) == [bad |-> bad, know |-> k, dut |-> d]

OnOps(k, d, w, r) ==
    Done(w.bad, [k EXCEPT !.stf = w.h, !.track = r.track], [d EXCEPT !.net = r.net])
OnVerified(k, d, w) ==
    OnOps(k, d, w, RunOps([te |-> te, net |-> d.net, track |-> k.track], w.ops))
DoStf(k, d, a) == OnVerified(k, d, VerifyStf(te, k.stf, a))
DoPkt(k, d, a) == Done(~PacketOk(a), k, IF PacketOk(a) THEN [d EXCEPT !.pkt = PacketsOf(a)] ELSE d)
DoTap(k, d, a) ==
    Done(~TapOk(k.tap, a) \/ Clash(k.tap, a),
         [k EXCEPT !.tap = IF phase = "run" THEN Captured(@, a) ELSE @],
         [d EXCEPT !.reg = Sent(k.tap, a)])
WithCommand(d, cmd) ==
    [d EXCEPT !.spf.last = cmd,
              !.spf.said = @ \cup {Statement(e) : e \in ToSet(cmd.patmods)}]
Shifted(k, d, a, pm, es) ==
    IF ShiftOk(te, k.pat, es, a)
      THEN Done(FALSE, [k EXCEPT !.pat = pm], WithCommand(d, Command(te, pm, es, a)))
      ELSE Done(TRUE, k, d)
OnRelated(k, d, a, pm) == Shifted(k, d, a, pm, PatmodsOf(pm, a))
DoSpf(k, d, a) == OnRelated(k, d, a, RelateAll(k.pat, a))
DoCr(k, d, a) ==
    Done(~CrOk(te, a), k, [d EXCEPT !.told = RunCr(@, a), !.awaited = Waits(te, a)])
Broken(k, d, bad, r) == Done(bad, [k EXCEPT !.ubp = r.k], [d EXCEPT !.ubp = r.d])
Triggered(k, d, r) == Broken(k, d, r.bad, r)
DoBreak(k, d, a) ==
    IF a.op = "trigger" THEN Triggered(k, d, DoTrigger(phase = "verify", te, k.ubp, d.ubp, a))
                        ELSE Broken(k, d, FALSE, DoUbp(k.ubp, d.ubp, a))
Signalled(k, d, a, r) == Done(~SignalOk(a), [k EXCEPT !.sig = r.k], [d EXCEPT !.sig = r.d])
DoSig(k, d, a) ==
    Signalled(k, d, a, DoSignals(phase = "verify" \/ a.silent, te, k.sig, d.sig, a))
DoGen(k, d, a) ==
    Done(~GenOk(k.player, a),
         IF a.op = "label" THEN [k EXCEPT !.labels = Counted(@, a.name)]
                           ELSE [k EXCEPT !.player = Ratioed(@, a)],
         IF a.silent THEN d ELSE [d EXCEPT !.out = Played(@, k.player, k.labels, a)])

Do(k, d, a) ==
    CASE family = "STF" -> DoStf(k, d, a)
      [] family = "PKT" -> DoPkt(k, d, a)
      [] family = "TAP" -> DoTap(k, d, a)
      [] family = "SPF" -> DoSpf(k, d, a)
      [] family = "XREG" -> DoCr(k, d, a)
      [] family = "UBP" -> DoBreak(k, d, a)
      [] family = "SIG" -> DoSig(k, d, a)
      [] family = "GEN" -> DoGen(k, d, a)

\* Verification: the HPL is silent, so the DUT sees nothing of it.
AfterVerify(a, r) ==
    IF r.bad
      THEN /\ phase' = "rejected"
           /\ UNCHANGED <<script, know>>
      ELSE /\ script' = Append(script, a)
           /\ know' = r.know
           /\ UNCHANGED phase
Verify(a) ==
    /\ phase = "verify"
    /\ Len(script) < MaxScript
    /\ AfterVerify(a, Do(know, dut, a))
    /\ UNCHANGED <<te, resets, family, at, dut>>

\* __history_init.  Every flow begins a pass with init_stf_gid_track; the
\* player, its interface and the patmods are those that verified.
InitialHistory ==
    IF resets THEN [Ignorant EXCEPT !.player = know.player, !.sig = know.sig, !.pat = know.pat]
              ELSE [know EXCEPT !.track = NothingTracked]

BeginRun ==
    /\ phase = "verify"
    /\ script # <<>>
    /\ phase' = "run"
    /\ know' = InitialHistory
    /\ UNCHANGED <<te, resets, family, script, at, dut>>

AfterRun(r) ==
    IF r.bad
      THEN /\ phase' = "failed"
           /\ UNCHANGED <<at, know, dut>>
      ELSE /\ at' = at + 1
           /\ phase' = IF at' = Len(script) THEN "done" ELSE "run"
           /\ know' = r.know
           /\ dut' = r.dut
Run ==
    /\ phase = "run"
    /\ at < Len(script)
    /\ AfterRun(Do(know, dut, script[at + 1]))
    /\ UNCHANGED <<te, resets, family, script>>

\* At the end the SPF interface closes its file, and declares the patmods.
Close ==
    /\ phase = "done"
    /\ family = "SPF"
    /\ phase' = "closed"
    /\ dut' = IF GloballyEnabled(know.pat) /\ Printable(know.pat)
                 THEN [dut EXCEPT !.spf.template = Template(know.pat)] ELSE dut
    /\ UNCHANGED <<te, resets, family, script, at, know>>

Next ==
    \/ \E a \in Actions[family] : Verify(a)
    \/ BeginRun
    \/ Run
    \/ Close

Spec == Init /\ [][Next]_vars

-----------------------------------------------------------------------------
Running(f) == phase \in {"run", "done"} /\ family = f
Every(P(_)) == \A i \in 1..Len(script) : P(script[i])

\* What a script must not do for the promises below to hold: each condition
\* keeps clear of a divergence that the README describes.
\* A stop that is deselected is named once, and together with others only with
\* those above it, or in another part of the network: else a hub that they have in
\* common is programmed before those below it.  SPF is told of
\* the groups, unless the selection waits; of the groups that one action selects
\* a hub gets the last, and of the scratch group, which a list may name, a hub
\* leaves whenever it carries no other; a read remembers defaults, and so does a write of a range of
\* bits, whatever it writes, or one that names no field and writes nothing.
Path(s) == AllOf(Above[s]) \cup ({s} \cap Hubs)
BottomUp(a) ==
    0 \in AllOf(a.gids) => \A i, k \in 1..Len(a.stops) :
        i < k => /\ a.stops[i] # a.stops[k]
                 /\ Path(a.stops[k]) \subseteq Path(a.stops[i])
                      \/ Path(a.stops[k]) \cap Path(a.stops[i]) = {}
Tells(a) == te.network /\ a.op = "select" => a.wait = 0 /\ a.mode # Reset
OneGroup(a) == a.op = "select" =>
    /\ \A i \in 1..Len(a.gids) : a.gids[i] # Scratch
    /\ \A i, k \in 1..Len(a.gids) : a.gids[i] = a.gids[k]
SoundStf(a) == BottomUp(a) /\ Tells(a) /\ OneGroup(a)
WritingStf(a) ==
    /\ SoundStf(a) /\ ~a.read
    /\ a.op = "write_read" => /\ \A f \in Fields : Part(f) \notin DOMAIN a.data
                              /\ a.incremental \/ DOMAIN a.data # {}
\* A field has one name, of its own bits, and is written whole; and every
\* write is incremental, as others do not correct the history.
Fits(a) == \A i \in 1..Len(a.args) : \A j \in 1..Len(a.args[i].ranges) :
    a.args[i].ranges[j].msb <= Msb[a.args[i].field] - Lsb[a.args[i].field]
NamedFields == UNION {Named(script[i].args) : i \in 1..Len(script)}
Apart(a) == \A f, g \in NamedFields : ~Overlap(f, g)
IncrementalTap(a) ==
    /\ a.op = "write" /\ a.incremental /\ a.unset /\ Apart(a)
    /\ \A i \in 1..Len(a.args) :
          a.args[i].exact /\ a.args[i].ranges = <<Whole(a.args[i].ranges[1].bits)>>

\* The knowledge and the DUT stay well formed; no hub counts below zero, of a script
\* of sound selections.
TypeOK ==
    /\ phase \in {"verify", "run", "rejected", "failed", "done", "closed"}
    /\ family \in DOMAIN Actions /\ te \in TeConfs[family] /\ resets \in BOOLEAN
    /\ script \in Seq(Actions[family]) /\ at \in 0..Len(script)
    /\ know.stf.bank \in [Stops -> [Banks -> Gids \cup {None}]]
    /\ know.stf.count \in [Hubs -> [Gids -> Int]]
    /\ family = "STF" /\ Every(SoundStf) =>
          \A s \in Hubs : \A g \in Gids : know.stf.count[s][g] >= 0
    /\ \A f \in DOMAIN know.tap : know.tap[f] \subseteq Nat
    /\ know.ubp \in [enabled : SUBSET UbpActions, configured : SUBSET UbpActions]
    /\ dut.net.bank \in [Stops -> [Banks -> Gids]]
    /\ dut.reg \subseteq 0..(DrSize - 1)

\* What was verified runs: no action is rejected in the run pass, if the
\* history is reset, or a TAP action fits its fields and none has two names;
\* no breakpoint action shares the trigger of another on purpose, whose
\* triggers the passes treat differently; and no internal action, which would
\* find what later ones have related, is written for SPF as a raw shift.
SoundTap(a) == Fits(a) /\ Apart(a)
SoundBreak(a) == a.op = "enable" => ~a.shared
SoundShift(a) == a.op = "raw" => a.parts = <<>>
VerifiedRuns ==
    resets /\ (family = "TAP" => Every(SoundTap)) /\ (family = "UBP" => Every(SoundBreak))
           /\ (family = "SPF" => Every(SoundShift))
      => phase # "failed"

\* A write reaches the stops that it names: their groups are selected, and
\* every hub above them carries the group when the packet is sent.
WritesReach ==
    Running("STF") /\ resets /\ Every(SoundStf) => ~dut.net.lost

\* What the process remembers of the DUT is so: the group of every stop and the
\* fields of every register, hubs included; how the breakpoint machines are
\* programmed whose register nothing writes directly, if two actions share one
\* only when their agents are named alike; and, after a script that restores
\* it at last and is never silent about it, the ratio of the test clock.
Shareable == \A a, b \in UbpActions : Machines(a) \cap Machines(b) # {} => Ip[a] = Ip[b]
Loud(a) == a.op # "label" => ~a.silent
GroupsTrue ==
    \A s \in Stops : \A b \in Banks :
        know.stf.bank[s][b] # None => dut.net.bank[s][b] = know.stf.bank[s][b]
RegistersTrue ==
    \A s \in Stops : \A f \in RegFields :
        know.stf.value[s][f] # None => dut.net.value[s][f] = know.stf.value[s][f]
BreakpointsTrue ==
    \A a \in know.ubp.configured : \A m \in Machines(a) : dut.ubp.ctl[m] = a
HistoryTrue ==
    /\ resets =>
        /\ Running("STF") /\ ~te.network => GroupsTrue
        /\ Running("STF") /\ Every(WritingStf) => RegistersTrue
        /\ Running("UBP") /\ Shareable /\ (\A i \in 1..Len(script) : script[i].op # "direct")
             => BreakpointsTrue
    /\ Running("GEN") /\ Every(Loud) /\ Last(script).op = "restore" =>
        dut.out.ratio = know.player.ratio

\* A step of the run pass that runs action a.
Runs(a) == phase = "run" /\ at < Len(script) /\ script[at + 1] = a /\ at' = at + 1

\* An incremental write leaves the fields that it does not name as they are.
\* Where documented fields overlap, that is so of those that were written before,
\* and of those that no field overlaps from below, with a reset value to agree.
Foremost(f) ==
    \A g \in DocField : Overlap(f, g) =>
        Lsb[f] < Lsb[g] /\ Slice(Place(ResetOf[g], g), f) \subseteq ResetOf[f]
KeepsStf(a) ==
    \A f \in Fields : User(f) \notin DOMAIN a.data =>
        dut'.net.value[a.stops[1]][User(f)] = dut.net.value[a.stops[1]][User(f)]
KeepsTap(a) ==
    \A f \in DocField \ Named(a.args) :
        /\ f \in DOMAIN know.tap \/ Foremost(f)
        /\ \A g \in Named(a.args) \cup DOMAIN know.tap : ~Overlap(f, g)
        => Slice(dut'.reg, f) = Slice(dut.reg, f)
IncrementalKeeps ==
    [][resets => \A a \in Actions[family] : Runs(a) =>
        /\ family = "STF" /\ a.op = "write_read" /\ a.incremental /\ Every(WritingStf)
             => KeepsStf(a)
        /\ family = "TAP" /\ Every(IncrementalTap) => KeepsTap(a)]_vars

\* What an action names reaches the DUT.  A replace expects the bits that it
\* names, if they fit apart from each other, and no others.  A direct packet has
\* the values of its fields where these lie, if they lie apart; and the packets
\* of stf2mci hold the MCI packets, each three of them from a word boundary on,
\* which hold the data and the address of a data register whose top bit is set.
\* A TAP write puts the bits that it
\* names into the register, if the name is spelled as documented or the history
\* is not used.  A write of whole control register fields that is broadcast
\* tells every scope the values of the fields that it names, and the reset
\* values of the others; and a check waits for no other values than the scope
\* was told, or a read expects, and for no field whose check is switched off.
\* A signal that is set has the value, unless an earlier action holds it.
FitsOutput(r) == 0 <= r.lsb /\ r.lsb <= r.msb /\ r.msb < 32 /\ Len(r.bits) <= r.msb - r.lsb + 1
ReplaceReaches(a) ==
    (\A i, k \in 1..Len(a.output) :
        /\ FitsOutput(a.output[i])
        /\ i < k => (a.output[i].lsb .. a.output[i].msb) \cap (a.output[k].lsb .. a.output[k].msb) = {})
      => \A bit \in 0..31 :
            LET of == {i \in 1..Len(a.output) : bit \in a.output[i].lsb .. a.output[i].msb}
                got == dut'.net.answer[2][bit + 1]
            IN  IF of = {} THEN got = "X"
                ELSE \A i \in of : LET n == bit + 1 - a.output[i].lsb
                                   IN  got = IF n <= Len(a.output[i].bits) THEN a.output[i].bits[n] ELSE 0
FieldBits(p, f) == SubSeq(p.in, FirstBit(f) + 1, LastBit(f) + 1)
FieldsApart ==
    \A f, g \in PacketField : f # g => (FirstBit(f) .. LastBit(f)) \cap (FirstBit(g) .. LastBit(g)) = {}
DirectReaches(a) ==
    "OPCODE" \in DOMAIN a.args /\ ~a.read /\ FieldsApart =>
        \A f \in PacketField : Number(FieldBits(dut'.pkt[1], f)) = ValueIn(a.args, f)
Triples(packets) == 1..((Len(packets) + 2) \div 3)
TripleOf(packets, n) == FlattenSeq(UpTo(packets, 3 * n - 2, 3 * n))
McReaches(a) ==
    LET packets == McPackets(a)
        sent == FlattenSeq([i \in 1..(Len(dut'.pkt) - 1) |-> FieldBits(dut'.pkt[i + 1], "DATA")])
        start[n \in Triples(packets)] ==
            IF n = 1 THEN 0
            ELSE start[n - 1] + WordWidth * (Len(TripleOf(packets, n - 1)) \div WordWidth + 1)
    IN  \A n \in Triples(packets) :
            SubSeq(sent, start[n] + 1, start[n] + Len(TripleOf(packets, n))) = TripleOf(packets, n)
DrReaches(a) ==
    a.ctl = "dat" /\ Len(a.dr) = 47 /\ a.dr[47] = 1 =>
        LET packets == McPackets(a)
            half(i) == SubSeq(packets[i], 1, 16)
        IN  /\ half(4) \o half(5) = SubSeq(a.dr, 5, 36)
            /\ SubSeq(half(1) \o half(2), 3, 13) = SubSeq(a.dr, 37, 47)
TapReaches(a) ==
    a.op = "write" /\ Fits(a) =>
        \A i \in 1..Len(a.args) :
            (a.args[i].exact \/ ~a.incremental) =>
                LET f == a.args[i].field
                    r == Last(a.args[i].ranges)
                    got == Slice(dut'.reg, f)
                IN  IF r.lsb < 0 THEN got = r.bits
                    ELSE got \cap (r.lsb .. r.msb) = {k + r.lsb : k \in r.bits}
BroadcastReaches(a) ==
    a.op = "fields" /\ ~a.inject /\ ~a.read =>
        \A i \in 1..Len(a.scopes) : \A f \in CrFields :
            LET told == dut'.told[a.scopes[i]][f]
            IN  IF f \notin DOMAIN a.args THEN told = CrReset[f]
                ELSE a.args[f][1].lsb < 0 => told = Last(a.args[f]).bits
CheckAwaits(a) ==
    a.check => \A s \in Scopes : \A f \in DOMAIN dut'.awaited[s] :
        /\ f \notin a.unchecked
        /\ IF a.read THEN a.args[f][1].lsb < 0 => dut'.awaited[s][f] = Last(a.args[f]).bits
           ELSE dut'.awaited[s][f] = dut'.told[s][f]
Touches(a, p) == ~a.silent /\ \E n \in NamesOf(a) : p \in FullPaths(n, a.sel)
Held(p) ==
    \E i \in 1..at : /\ script[i].op \in {"force", "pulse"} /\ Touches(script[i], p)
                     /\ \A k \in i+1..at : ~(script[k].op = "unforce" /\ Touches(script[k], p))
SetReaches(a) ==
    a.op = "set" /\ ~a.silent =>
        \A i \in 1..Len(a.sigs) :
            LET n == a.sigs[i].name
                v == a.sigs[i].value
            IN  IF n \in PinNames THEN dut'.sig.value[n] = v
                ELSE \A p \in FullPaths(n, a.sel) : Held(p) \/ dut'.sig.value[p] = v
NamedReaches ==
    [][\A a \in Actions[family] : Runs(a) =>
        /\ family = "STF" /\ a.op = "replace" /\ a.inout => ReplaceReaches(a)
        /\ family = "PKT" =>
             /\ a.op = "direct_packet" => DirectReaches(a)
             /\ a.op = "stf2mci" => McReaches(a) /\ (a.nops <= 0 => DrReaches(a))
        /\ family = "TAP" => TapReaches(a)
        /\ family = "XREG" => BroadcastReaches(a) /\ CheckAwaits(a)
        /\ family = "SIG" => SetReaches(a)]_vars

\* A delay and the pulse of a pin last as long as their clock says, to the next
\* cycle of the vectors, and nothing is polled for a negative time.
TimeKept ==
    [][\A a \in Actions[family] : Runs(a) /\ family = "SIG" /\ ~a.silent =>
        LET asked == a.cycles * Period[a.clock]
            cycle == Period[PatVecClock]
        IN  /\ a.op = "delay" \/ (a.op = "pulse" /\ External(a)) =>
                 dut'.sig.took * cycle >= asked /\ (dut'.sig.took - 1) * cycle < asked
            /\ dut'.sig.poll >= 0]_vars

\* The stimulus starts the synchronisation once, before it aligns to it.
SyncStartsFirst ==
    dut.sig.sync # <<>> =>
        \A i \in 1..Len(dut.sig.sync) : dut.sig.sync[i] = "start_sync" <=> i = 1

\* A trigger fires the actions that it names and no others, if no machine has
\* two actions, the history is not forgotten, no trigger is shared on
\* purpose, nor with an action that stays armed or between chords, which are not
\* disabled on the DUT, and all triggers of the script are driven: what one that
\* is not leaves armed is forgotten.
Acted ==
    (UNION {IF script[i].op = "trigger" THEN AllOf(script[i].actions) ELSE {script[i].action} :
               i \in 1..Len(script)}) \ {Nobody}
Separate ==
    \A a, b \in Acted : a # b =>
        /\ Machines(a) \cap Machines(b) = {}
        /\ a \in Rearm => Trigger[a] # Trigger[b]
        /\ IsChord(a) /\ IsChord(b) => Reads(16, Trigger[a]) # Reads(16, Trigger[b])
OneBit(a) == ~IsChord(a) => Len(Trigger[a]) = 1 /\ Cardinality(BitsOf(Trigger[a][1])) = 1
Drives(a) ==
    IF a.byTap THEN \A x \in AllOf(a.actions) \cap DOMAIN TapTrigger :
                      /\ TapTrigger[x].pins = {Pin(x)}
                      /\ \A y \in AllOf(a.actions) \ {x} : y \in DOMAIN TapTrigger =>
                            TapTrigger[y].reg # TapTrigger[x].reg
    ELSE a.pulse => te.cycles
Plainly(a) ==
    /\ a.op \in {"enable", "disable", "trigger"}
    /\ a.op = "enable" => ~a.shared
    /\ a.op = "trigger" => Drives(a)
FiresNamed ==
    [][\A a \in Actions[family] :
        Runs(a) /\ family = "UBP" /\ a.op = "trigger" /\ resets /\ Every(Plainly)
          /\ Separate /\ (\A x \in Acted : OneBit(x)) =>
            dut'.ubp.fired = AllOf(a.actions)]_vars

\* No label that was asked for stands on a bit of the register on which the
\* same command announces a patmod.  Bits past the end of a field are nowhere.
StandsOn(s) ==
    IF s.field \in {"DR", Absent} THEN BitSet(s.bits)
    ELSE {b \in Lsb[s.field] .. Msb[s.field] : s.bits = <<>> \/ b - Lsb[s.field] \in BitSet(s.bits)}
LabelsClear ==
    \A e \in ToSet(dut.spf.last.patmods) :
        dut.spf.last.labels \cap StandsOn(Statement(e)) = {}

\* Every patmod that the stimulus announces, of its own usages or of those that
\* actions related, is declared in the template with the place where it was
\* announced; a raw shift announces all of a field.
DeclaredIn(t, s) ==
    /\ t.name = s.name /\ t.agent = Here.agent /\ t.register = Here.register
    /\ t.field = s.reg
    /\ (s.field = "DR" /\ s.reg # Absent) \/ BitSet(s.bits) \subseteq BitSet(t.bits)
TemplateDeclares ==
    phase = "closed" /\ Printable(know.pat) =>
        \A s \in dut.spf.said : \E t \in dut.spf.template : DeclaredIn(t, s)
=============================================================================
