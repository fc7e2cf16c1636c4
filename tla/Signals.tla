-------------------------------- MODULE Signals --------------------------------
(***************************************************************************)
(* SIGNAL actions and the delays and alignment of every action             *)
(* (htd_signal_action.py, htd_gen_action.py, htd_hpl_signal_manager.py and *)
(* the SPF interface).  A name without a hierarchy is a pin, driven by     *)
(* vector lines; any other stands for full paths in the RTL, which a       *)
(* selector narrows and DisableSigs thins out.  Waiting times of any clock *)
(* are turned into cycles of the vector clock.                             *)
(* Values are those of a whole signal; ranges of bits are left out.        *)
(***************************************************************************)
EXTENDS Integers, Sequences, FiniteSets, SequencesExt

CONSTANTS
  PinNames,   \* names of external pins
  PinWidth,   \* pin -> its bits in dut_pin_map, 0 if it is not there
  PathsOf,    \* name -> its full paths; no entry if its module is unknown
  Chosen,     \* selector -> the paths that it matches
  DisableSigs,\* paths that TE_cfg disables
  Period,     \* clock -> its period in ticks
  PatVecClock \* the clock of the vectors

ASSUME SignalAssumption ==
    /\ PinWidth \in [PinNames -> Nat]
    /\ PatVecClock \in DOMAIN Period /\ \A c \in DOMAIN Period : Period[c] \in Nat \ {0}

Unknown == -1     \* the value x or z

Paths == UNION {PathsOf[n] : n \in DOMAIN PathsOf}
Unsynced == [started |-> FALSE]
NoSignals == [value |-> [s \in PinNames \cup Paths |-> 0], forced |-> {},
              took |-> 0, poll |-> 0, sync |-> <<>>]

\* get_full_path.
Selected(name, sel) ==
    IF Cardinality(PathsOf[name]) > 1 THEN PathsOf[name] \cap Chosen[sel] ELSE PathsOf[name]
FullPaths(name, sel) == Selected(name, sel) \ DisableSigs

NamesOf(a) == {a.sigs[i].name : i \in 1..Len(a.sigs)}
External(a) == NamesOf(a) \cap PinNames # {}

\* A value other than 0 and 1 needs a pin of the pin map, and fits its width.
PinTakes(s) ==
    s.value \in {0, 1} \/ (PinWidth[s.name] > 0 /\ s.value < 2 ^ PinWidth[s.name])

\* verify_arguments, and the errors of run, which verification meets too.
SignalOk(a) ==
    /\ \A n \in NamesOf(a) : n \in DOMAIN PathsOf /\ Selected(n, a.sel) # {}
    /\ a.op \in {"set", "force", "unforce", "pulse"} /\ External(a) =>
        /\ NamesOf(a) \subseteq PinNames
        /\ \A i \in 1..Len(a.sigs) : PinTakes(a.sigs[i])
    /\ a.op = "set" /\ ~External(a) => \A i \in 1..Len(a.sigs) : a.sigs[i].value # Unknown

\* wait_clock_num: so many cycles of the vector clock, rounded up.
VecCyclesDown(n, clock) == (n * Period[clock]) \div Period[PatVecClock]   \* mutant
VecCycles(n, clock) ==
    (n * Period[clock] + Period[PatVecClock] - 1) \div Period[PatVecClock]

\* signalset_wait: the time that a poll gets, after waitcycles in silicon
\* mode, and the waitcycles alone in simulation.
PollTime(a) ==
    LET waited == a.cycles * Period[a.clock]
    IN  IF a.maxtimeout > waited THEN a.maxtimeout * Period[a.clock] - waited ELSE waited

Inverse01(v) == IF v % 2 = 0 THEN v + 1 ELSE v - 1    \* 1 ^ v

\* The RTL, of which value and forced are what can be read of its signals: a
\* signal that is forced keeps its value until it is released.
Rtl(d) == [value |-> d.value, forced |-> d.forced]
Deposited(d, s, v) == IF s \in d.forced THEN d ELSE [d EXCEPT !.value[s] = v]
Forced(d, s, v) == [d EXCEPT !.value[s] = v, !.forced = @ \cup {s}]
Released(d, s) == [d EXCEPT !.forced = @ \ {s}]

\* The last value driven on signal s by operation op with value v.
OnSignal(d, op, s, v) ==
    CASE op = "set" -> Deposited(d, s, v)
      [] op = "force" -> Forced(d, s, v)
      [] op = "unforce" -> Released(d, s)
      [] op = "pulse" -> Forced(d, s, Inverse01(v))

\* signalset_modular_set and signalset_pulse: pins by vectors, whatever the
\* operation; paths one by one.
OnPins(d, a) ==
    FoldLeft(LAMBDA e, s : [e EXCEPT !.value[s.name] =
                              IF a.op = "pulse" THEN Inverse01(s.value) ELSE s.value],
             d, a.sigs)
OnPaths(d, a) ==
    FoldLeft(LAMBDA e, s : FoldLeft(LAMBDA g, p : OnSignal(g, a.op, p, s.value),
                                    e, SetToSeq(FullPaths(s.name, a.sel))),
             d, a.sigs)

\* The vector cycles that the action holds or waits.
Takes(silicon, a) ==
    CASE a.op = "pulse" -> IF External(a) THEN VecCycles(a.cycles, a.clock) ELSE a.cycles
      [] a.op = "delay" -> VecCycles(a.cycles, a.clock)
      [] a.op = "wait" -> IF silicon THEN VecCycles(a.cycles, a.clock) ELSE 0
      [] OTHER -> IF External(a) THEN 1 ELSE 0

Driving(d, silicon, a) ==
    LET e == [d EXCEPT !.took = Takes(silicon, a),
                       !.poll = IF a.op # "wait" THEN 0
                                ELSE IF silicon THEN PollTime(a)
                                ELSE a.cycles * Period[a.clock]]
        rtl == IF External(a) THEN OnPins(Rtl(d), a) ELSE OnPaths(Rtl(d), a)
    IN  IF a.op \notin {"set", "force", "unforce", "pulse"} THEN e
        ELSE [e EXCEPT !.value = rtl.value, !.forced = rtl.forced]

\* wait_clock_modulo, for the alignment after the action: the stimulus starts
\* the synchronisation once.  quiet: nothing is written, in verification or
\* by a silent action.
StartsEarly(k, quiet) == ~k.started       \* mutant
Starts(k, quiet) == ~k.started /\ ~quiet
Aligned(d, k, quiet) ==
    [d EXCEPT !.sync = @ \o (IF Starts(k, quiet) THEN <<"start_sync">> ELSE <<>>)
                         \o <<"align_sync">>]

\* run and post_run: what is known and the DUT afterwards.  quiet: the HPL
\* writes to a file of its own.
DoSignals(quiet, conf, k, d, a) ==
    LET aligns == a.align /\ conf.sync
        e == Driving(d, conf.silicon, a)
    IN  [k |-> [k EXCEPT !.started = @ \/ (aligns /\ Starts(k, quiet))],
         d |-> IF quiet THEN d ELSE IF aligns THEN Aligned(e, k, quiet) ELSE e]
=============================================================================
