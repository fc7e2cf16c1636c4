----------------------------- MODULE Breakpoints ------------------------------
(***************************************************************************)
(* The breakpoint actions: UBP (actions_lib/htd_ubp_action.py) configures, *)
(* enables and disables the actions that TE_cfg describes, on the          *)
(* breakpoint machines of some agents; UBPTRIGGER                          *)
(* (actions_lib/htd_ubptrigger_action.py) lets some of them fire, by       *)
(* pulsing MBP pins or by TAP.  Which are configured and enabled is        *)
(* remembered in a table of the history manager, "UBP_history".            *)
(*                                                                         *)
(* A machine is a register pair of an agent, found by its name; the name   *)
(* of one is taken not to occur in that of another.                        *)
(***************************************************************************)
EXTENDS Integers, Sequences, FiniteSets, SequencesExt

CONSTANTS
  UbpActions,    \* CFG["UBP_actions"]
  Ip,            \* action -> its agents
  Ubp,           \* action -> the machine of each agent that it uses
  HasEnable,     \* the machines with "BRK" in their name
  Trigger,       \* action -> the digits of its trigger, MBP:0x.. or CHORD:0x..
  Rearm,         \* the actions that are armed again when they have fired
  TapTrigger     \* TAP_TRIGGER_CMD: action -> [reg, pins], where it has one

\* The other machines have "CHORD" in their name.
IsChord(a) == Ubp[a] \notin HasEnable

Nobody == "nobody"

ASSUME UbpAssumption ==
    /\ Nobody \notin UbpActions
    /\ \A a \in UbpActions : Ip[a] # {} /\ Trigger[a] \in Seq(0..9)
    /\ Rearm \subseteq UbpActions /\ DOMAIN TapTrigger \subseteq UbpActions

Machines(a) == Ip[a] \X {Ubp[a]}
AllMachines == UNION {Machines(a) : a \in UbpActions}
NoBreakpoints == [enabled |-> {}, configured |-> {}]
\* Which action a machine is programmed for, which machines are enabled, and
\* the actions that fired last.
ResetMachines == [ctl |-> [m \in AllMachines |-> Nobody], on |-> {}, fired |-> {}]

-----------------------------------------------------------------------------
(***************************************************************************)
(* UBP.  k is the table, d the machines; TAP is written in order.          *)
(***************************************************************************)
Enable(d, as) == [d EXCEPT !.on = @ \cup UNION {Machines(a) : a \in as}]
Disable(d, as) ==   \* action_enable: only BRK machines have a register for it
    [d EXCEPT !.on = @ \ UNION {Machines(a) : a \in as}]
Program(d, a) ==    \* action_config
    [d EXCEPT !.ctl = [m \in AllMachines |-> IF m \in Machines(a) THEN a ELSE @[m]]]

\* Enabled actions that the trigger of a would fire as well.
RivalsNone(k, a) == {}   \* mutant: they stay enabled
Rivals(k, a) == {b \in k.enabled : Trigger[b] = Trigger[a] /\ (IsChord(b) <=> IsChord(a))}
\* Actions that a takes the machine from.  The agents are compared as a text.
DisplacedNone(a) == {}   \* mutant
Displaced(a) == {b \in UbpActions \ {a} : Ubp[b] = Ubp[a] /\ Ip[b] = Ip[a]}

Enabled(k, d, act) ==
    LET a    == act.action
        off  == IF act.shared THEN {} ELSE Rivals(k, a)
        conf == k.configured \ Displaced(a)
        d1   == Disable(d, off)
        d2   == IF a \in conf THEN d1 ELSE Program(d1, a)
    IN  IF a \in k.enabled THEN [k |-> k, d |-> d]
        ELSE [k |-> [enabled |-> (k.enabled \ off) \cup {a}, configured |-> conf \cup {a}],
              d |-> Enable(d2, {a})]

Disabled(k, d, act) ==   \* of no action: of all
    LET off == IF act.action = Nobody THEN k.enabled ELSE k.enabled \cap {act.action}
    IN  [k |-> [k EXCEPT !.enabled = @ \ off], d |-> Disable(d, off)]

\* reset=1 starts from an empty table and tells the DUT nothing; a register
\* that is written directly is not in the table.
DoUbp(k, d, act) ==
    CASE act.op = "enable"  -> Enabled(k, d, act)
      [] act.op = "disable" -> Disabled(k, d, act)
      [] act.op = "reset"   -> [k |-> NoBreakpoints, d |-> d]
      [] act.op = "direct"  -> [k |-> k, d |-> [d EXCEPT !.on = @ \ {act.machine}]]

-----------------------------------------------------------------------------
(***************************************************************************)
(* UBPTRIGGER.  mbp_to_trigger: the pin is the lowest bit that is set in   *)
(* the number that the digits make in decimal, though they are written in  *)
(* hexadecimal, and read as such by the machine.                           *)
(***************************************************************************)
Reads(base, digits) == FoldLeft(LAMBDA n, x : base * n + x, 0, digits)
BitsOf(n) == {i \in 0..15 : (n \div 2^i) % 2 = 1}
Pin(a) == CHOOSE i \in BitsOf(Reads(10, Trigger[a])) :
            \A j \in BitsOf(Reads(10, Trigger[a])) : i <= j

\* Of the actions with the same TAP register the last one is sent.
TapPins(as) ==
    LET sent == {i \in 1..Len(as) : ~IsChord(as[i]) /\ as[i] \in DOMAIN TapTrigger}
        last == {i \in sent : \A j \in sent :
                    j > i => TapTrigger[as[j]].reg # TapTrigger[as[i]].reg}
    IN  UNION {TapTrigger[as[i]].pins : i \in last}

\* What is driven: pins, each pulsed once, and chords.  A pin that shall
\* pulse, rather than be forced, does so only with the cycles in MBP_setting.
Driven(te, act) ==
    LET as     == act.actions
        chords == {a \in {as[i] : i \in 1..Len(as)} : IsChord(a)}
        pins   == {a \in {as[i] : i \in 1..Len(as)} : ~IsChord(a)}
        pulsed == IF act.byTap THEN {} ELSE {Pin(a) : a \in pins}
        tapped == IF act.byTap THEN TapPins(as) ELSE {}
    IN  [pins   |-> tapped \cup (IF act.pulse /\ ~te.cycles THEN {} ELSE pulsed),
         chords |-> {Reads(16, Trigger[a]) : a \in chords}]

\* verify_ubp_action; and the chord of a cluster model, whose name is put
\* together from a text and a number.
TriggerOk(te, act) ==
    /\ act.byTap => {a \in UbpActions : ~IsChord(a)} \subseteq DOMAIN TapTrigger
    /\ te.cluster => \A i \in 1..Len(act.actions) : ~IsChord(act.actions[i])

\* One action of the list.  In the run pass an enabled action has no rivals
\* switched off; one that is not is enabled, which is not recorded.  In
\* verification the rivals of an enabled action are marked, and not told.
Prepare(verifying, act, r, a) ==
    LET was  == r.k.enabled \ (IF act.force THEN {a} ELSE {})
        off  == IF a \in was /\ ~verifying THEN {}
                ELSE Rivals([r.k EXCEPT !.enabled = was], a)
                        \ {act.actions[i] : i \in 1..Len(act.actions)}
        left == was \ off
    IN  [k   |-> [r.k EXCEPT !.enabled = IF a \in left /\ a \in Rearm THEN left ELSE left \ {a}],
         d   |-> IF a \in was THEN r.d ELSE Enable(Disable(r.d, off), {a}),
         bad |-> r.bad \/ a \notin r.k.configured]

(***************************************************************************)
(* The machines, external to this program: an enabled machine fires when   *)
(* one of its pins, or its chord, is driven, and is armed again if it was  *)
(* programmed so.                                                          *)
(***************************************************************************)
Meant(d, driven, m) ==
    LET a == d.ctl[m]
    IN  /\ a # Nobody
        /\ m \in d.on \/ m[2] \notin HasEnable
        /\ IF IsChord(a) THEN Reads(16, Trigger[a]) \in driven.chords
                         ELSE BitsOf(Reads(16, Trigger[a])) \cap driven.pins # {}
Fire(d, driven) ==
    LET hit == {m \in AllMachines : Meant(d, driven, m)}
    IN  [d EXCEPT !.fired = {d.ctl[m] : m \in hit},
                  !.on = @ \ {m \in hit : d.ctl[m] \notin Rearm}]

DoTrigger(verifying, te, k, d, act) ==
    LET r == FoldLeft(LAMBDA q, a : Prepare(verifying, act, q, a),
                      [k |-> k, d |-> d, bad |-> ~TriggerOk(te, act)], act.actions)
    IN  [r EXCEPT !.d = Fire(@, Driven(te, act))]
=============================================================================
