-------------------------------- MODULE TapShift -------------------------------
(***************************************************************************)
(* A TAP action as the SPF interface writes it: send_cmd gathers the labels*)
(* of the bits and the patmods that stand in the register, takes the labels*)
(* off the bits of a patmod, and gives both to                             *)
(* high_level_tap_bfm_transactor, which writes the statements              *)
(* (htd_tap_action.py, htd_hpl_spf_interface.py).  The handler of a        *)
(* register in another network writes it through an internal TAP action,   *)
(* before which it relates the parts of the register to the bits they are  *)
(* shifted through.                                                        *)
(*                                                                         *)
(* An action is one of TapAction with a name; ranges that have, besides    *)
(* their bits, a label, a variable var and en, which may turn their patmods*)
(* off; en and vars of the whole action; the fields whose labels it asks   *)
(* for: each, or the manual ones; and parts, the parts of a register of    *)
(* another network, if it is internal.                                     *)
(***************************************************************************)
EXTENDS TapAction, Patmods

CONSTANT Here   \* [network, agent, register]: the register that is shifted

ASSUME HereAssumption == Here.network = "tap"

ActionName(a) == IF a.parts = <<>> THEN a.name ELSE "internal_" \o a.name
Direction(a) == IF a.op = "read" THEN "out" ELSE "in"

(***************************************************************************)
(* The patmods of the action.                                              *)
(***************************************************************************)
AppendNew(s, es) == FoldLeft(LAMBDA t, e : IF e \in ToSet(t) THEN t ELSE Append(t, e), s, es)

\* get_patmods_for_register_field, for one argument.  The variable that a range
\* names is added to those that the action asks for, and stays.
OfRange(q, f, w, r) ==
    LET vars == w.vars \cup {r.var}
    IN  [vars  |-> vars,
         found |-> IF r.en THEN AppendNew(w.found, FieldEntries(q.pm, Here, f, q.action,
                                   IF r.lsb < 0 THEN <<>> ELSE <<<<r.msb, r.lsb>>>>,
                                   vars, q.type))
                   ELSE w.found]
OfArgument(q, w, arg) ==
    IF arg.exact THEN FoldLeft(LAMBDA v, r : OfRange(q, arg.field, v, r), w, arg.ranges) ELSE w

\* A read goes through its fields twice, as those that it writes and as those
\* that it expects.
FieldPatmods(pm, a) ==
    LET q == [pm |-> pm, action |-> ActionName(a), type |-> Direction(a)]
    IN  FoldLeft(LAMBDA w, arg : OfArgument(q, w, arg), [vars |-> a.vars, found |-> <<>>],
                 IF a.op = "read" THEN a.args \o a.args ELSE a.args).found

\* get_patmods_for_register.  Of a usage with a field all of the field counts.
RegisterBits(u) == IF u.field \in {"DR", Absent} THEN u.bits ELSE <<<<Msb[u.field], Lsb[u.field]>>>>
RegisterPatmods(pm, a) ==
    LET es == RegisterEntries(pm, Here, ActionName(a), a.vars, Direction(a))
    IN  [i \in 1..Len(es) |-> [es[i] EXCEPT !.field = "DR", !.bits = RegisterBits(es[i])]]
ChunksOf(es) == FlattenSeq([i \in 1..Len(es) |-> es[i].bits])
Disjoint(chunks) ==
    \A i, k \in 1..Len(chunks) : i # k =>
        BitSet(<<chunks[i]>>) \cap BitSet(<<chunks[k]>>) = {}

PatmodsOf(pm, a) ==
    IF ~a.en \/ ~GloballyEnabled(pm) THEN <<>>
    ELSE IF a.op = "raw" THEN RegisterPatmods(pm, a) ELSE FieldPatmods(pm, a)
\* Every one has bits or a field, and in a raw shift no bit is in two.
PatmodsOk(es, a) ==
    /\ \A i \in 1..Len(es) : es[i].reg \notin {"DR", Absent} \/ es[i].bits # <<>>
    /\ a.op = "raw" => Disjoint(ChunksOf(es))

TiedGroups(pm, es) ==
    {i \in 1..Len(pm.groups) : \E k \in 1..Len(es) : es[k].name \in ToSet(pm.groups[i].members)}

(***************************************************************************)
(* The labels: bits of the register.  The setting te.labels is "auto"      *)
(* (automatic_labels_ena), "new" (NEW_LABEL_SPEC) or "plain".              *)
(***************************************************************************)
RangesOf(a) == UNION {{<<a.args[i].field, r>> : r \in ToSet(a.args[i].ranges)} : i \in 1..Len(a.args)}
GivenLabels(a) ==
    {Lsb[x[1]] + (IF x[2].lsb < 0 THEN 0 ELSE x[2].lsb) : x \in {y \in RangesOf(a) : y[2].labelled}}
LabelsOf(te, a) ==
    GivenLabels(a)
      \cup (IF a.each \/ te.labels = "auto" THEN {Lsb[f] : f \in DocField}
            ELSE {Lsb[f] : f \in a.manual})
      \cup (IF te.labels = "new" /\ a.op = "read" /\ a.parts = <<>> THEN {Lsb[f] : f \in Named(a.args)} ELSE {})
LabelsOk(te, a) == a.each \/ te.labels = "auto" \/ a.manual \subseteq DocField

\* SPF complains of a label on a field, or on bits, with a patmod: it goes.
BitsUnder(e) ==
    IF e.reg \in {"DR", Absent} THEN BitSet(e.bits) ELSE Lsb[e.reg] .. Msb[e.reg]
UnderField(labels, es) ==   \* mutant: only patmods of a field are looked at
    labels \ UNION {IF es[i].reg = Absent THEN {} ELSE BitsUnder(es[i]) : i \in 1..Len(es)}
Cleared(labels, es) == labels \ UNION {BitsUnder(es[i]) : i \in 1..Len(es)}

\* The interface adds labels of its own to the first and the last bit.
Ends(te, a, labels) ==
    IF te.labels = "new" \/ (a.op = "raw" /\ labels = {}) THEN {}
    ELSE (IF a.op # "raw" /\ (te.labels = "auto" \/ a.each) THEN {0} ELSE {})
           \cup (IF DrSize > 1 /\ (a.op = "raw" \/ te.labels = "auto" \/ a.each) THEN {DrSize - 1} ELSE {})

(***************************************************************************)
(* high_level_tap_bfm_transactor: the statements of one command.           *)
(***************************************************************************)
Statement(e) == [name |-> e.name, reg |-> e.reg, field |-> e.field, bits |-> e.bits]
NoCommand == [patmods |-> <<>>, groups |-> {}, labels |-> {}, ends |-> {},
              set |-> [f \in {} |-> {}], expect |-> {}, tdi |-> <<>>]

\* Nothing is set with tap_set_during_strobe_mode off; a read compares the
\* fields that it names; and a raw shift of 0b11 is written without its data.
AndDefaults(named, a) == named @@ Defaults(named, a)
Settings(te, a) ==
    IF a.op = "raw" \/ ~te.sets THEN [f \in {} |-> {}]
    ELSE AndDefaults(NamedValues([f \in {} |-> {}], a), a)
Compared(a) == IF a.op = "read" THEN Named(a.args) ELSE {}
RawData(a) == IF a.op = "raw" /\ a.bits # {0, 1} THEN <<a.bits>> ELSE <<>>

Command(te, pm, es, a) ==
    LET labels == Cleared(LabelsOf(te, a), es)
    IN  [patmods |-> es,
         groups  |-> TiedGroups(pm, es),
         labels  |-> labels,
         ends    |-> Ends(te, a, labels),
         set     |-> Settings(te, a),
         expect  |-> Compared(a),
         tdi     |-> RawData(a)]

(***************************************************************************)
(* One action, which first relates its parts; es are the patmods that it   *)
(* finds then.                                                             *)
(***************************************************************************)
RelateAll(pm, a) == FoldLeft(LAMBDA p, x : Relate(p, x, ActionName(a)), pm, a.parts)
RelatesOk(pm, a) ==
    \A i \in 1..Len(a.parts) :
        RelateOk(FoldLeft(LAMBDA p, x : Relate(p, x, ActionName(a)), pm, SubSeq(a.parts, 1, i - 1)),
                 a.parts[i])
ShiftOk(te, pm, es, a) ==
    /\ TapOk([f \in {} |-> {}], a) /\ ~Clash([f \in {} |-> {}], a)
    /\ RelatesOk(pm, a)
    /\ PatmodsOk(es, a)
    /\ LabelsOk(te, a)
=============================================================================
