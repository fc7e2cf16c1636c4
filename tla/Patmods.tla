-------------------------------- MODULE Patmods --------------------------------
(***************************************************************************)
(* Patmods: variables of a test's stimulus, declared in TE_cfg, whose bits *)
(* may be modified in the pattern afterwards.  A patmod has values and     *)
(* usages, the places in registers and fuses that it stands in; groups tie *)
(* patmods together.  The collaterals parser reads them (read_patmod_info),*)
(* the patmod manager (htd_patmod_manager.py) finds those of a register,   *)
(* and a register access handler relates a usage of a register to the place*)
(* in another network through which that register is written.              *)
(*                                                                         *)
(* Bits are a sequence of chunks <<msb, lsb>>.  An absent name is Absent, and*)
(* absent bits are <<>>.                                                   *)
(***************************************************************************)
EXTENDS Integers, Sequences, FiniteSets, SequencesExt

Absent == ""
XValue == -1      \* the value "X"
WordValue == -2   \* a value that is not a number

(***************************************************************************)
(* HtdPatmodUsage                                                          *)
(***************************************************************************)
\* split_bits: a chunk may be given from either end, and is joined to the one
\* before it if it continues that.  Chunks do not overlap.
SplitBits(bits) ==
    LET up(c) == IF c[2] > c[1] THEN <<c[2], c[1]>> ELSE c
        add(s, c) == IF s # <<>> /\ up(c)[1] = Last(s)[2] - 1
                       THEN [s EXCEPT ![Len(s)][2] = up(c)[2]] ELSE Append(s, up(c))
    IN  FoldLeft(add, <<>>, bits)
BitSet(bits) == UNION {bits[i][2] .. bits[i][1] : i \in 1..Len(bits)}

\* __eq__; for a usage of a whole register the bits do not count.
SameUsage(u, v) ==
    /\ \A k \in {"network", "agent", "register", "field", "action"} : u[k] = v[k]
    /\ u.field = Absent \/ u.bits = v.bits
Knows(us, u) == \E i \in 1..Len(us) : SameUsage(us[i], u)
AddUsage(us, u) == IF Knows(us, u) THEN us ELSE Append(us, u)

\* check_usage_matching_register_field.  A range, <<>> or one chunk, has to
\* lie in a chunk of the usage: one without bits matches no range.
Agree(x, y) == x = Absent \/ y = Absent \/ x = y
MatchesField(u, at, field, action, range) ==
    /\ Agree(u.action, action) /\ Agree(u.agent, at.agent) /\ Agree(u.field, field)
    /\ u.network = at.network /\ u.register = at.register
    /\ range # <<>> => \E i \in 1..Len(u.bits) :
                          u.bits[i][1] >= range[1][1] /\ u.bits[i][2] <= range[1][2]
\* check_usage_matching_register
MatchesRegister(u, at, action) ==
    /\ u.action = Absent \/ u.action = action
    /\ u.network = at.network /\ u.agent = at.agent /\ u.register = at.register

\* The elements of s that are ok, in their order.
Those(s, ok(_)) == FlattenSeq([i \in 1..Len(s) |-> IF ok(s[i]) THEN <<s[i]>> ELSE <<>>])

\* The usage itself, or else those related to it: for a field the first only.
OfField(u, at, field, action, range) ==
    IF MatchesField(u, at, field, action, range) THEN <<u>>
    ELSE LET rel == Those(u.related, LAMBDA v : MatchesField(v, at, field, action, range))
         IN  IF rel = <<>> THEN <<>> ELSE <<Head(rel)>>
OfRegister(u, at, action) ==
    IF MatchesRegister(u, at, action) THEN <<u>>
    ELSE Those(u.related, LAMBDA v : MatchesRegister(v, at, action))

(***************************************************************************)
(* read_patmod_info, on the list of the PATMOD sections of TE_cfg.  A      *)
(* section is [enabled, vars, groups], with enabled -1 if it is not given.  *)
(***************************************************************************)
\* Variables, usages and fields are lists.
IsList(s) == s \in Seq(ToSet(s))
AreLists(docs) ==
    /\ IsList(docs)
    /\ \A c \in ToSet(docs) : IsList(c.vars) /\ \A v \in ToSet(c.vars) :
          IsList(v.usages) /\ \A n \in ToSet(v.usages) : IsList(n.fields)

\* A usage node names one or more fields, or none.
NodeOk(n) ==
    /\ n.network # Absent
    /\ n.network # "xreg" => n.agent # Absent
    /\ n.network # "fuse" => n.register # Absent
UsageOf(n, f) ==
    [network |-> n.network, agent |-> n.agent, register |-> n.register, field |-> f,
     bits |-> SplitBits(n.bits), action |-> Absent, ext |-> n.ext, related |-> <<>>]
UsagesOf(n) ==
    IF n.fields = <<>> THEN <<UsageOf(n, Absent)>>
    ELSE [i \in 1..Len(n.fields) |-> UsageOf(n, n.fields[i])]

\* A value node is one value, with step 0, or a range of numbers given from
\* either end; the values of a range are named by their number too.
ValuesOf(v) ==
    IF v.step = 0 THEN <<[name |-> <<v.name>>, value |-> v.from]>>
    ELSE LET lo == IF v.from > v.upto THEN v.upto ELSE v.from
             hi == IF v.from > v.upto THEN v.from ELSE v.upto
         IN  [i \in 1..((hi - lo) \div v.step + 1) |->
                 [name |-> <<v.name, lo + (i - 1) * v.step>>, value |-> lo + (i - 1) * v.step]]

\* A variable without a usage is forgotten, and one without a value cannot be
\* printed (print_patmod_info), which ends the program.
PatmodOf(v) ==
    [name   |-> v.name,
     values |-> FlattenSeq([i \in 1..Len(v.values) |-> ValuesOf(v.values[i])]),
     usages |-> FoldLeft(AddUsage, <<>>,
                         FlattenSeq([i \in 1..Len(v.usages) |-> UsagesOf(v.usages[i])]))]
KeysOf(p) == [i \in 1..Len(p.values) |-> p.values[i].name]
VarOk(v) ==
    /\ v.name # Absent
    /\ \A i \in 1..Len(v.usages) : NodeOk(v.usages[i])
    /\ KeysOf(PatmodOf(v)) # <<>> /\ IsInjective(KeysOf(PatmodOf(v)))
GroupOk(g) == g.name # Absent /\ IsInjective(g.members)

Ranked(cfgs) == Those(cfgs, LAMBDA c : c.enabled # -1)
ReadPatmods(cfgs) ==
    LET vars == FlattenSeq([i \in 1..Len(cfgs) |-> cfgs[i].vars])
        used == Those(vars, LAMBDA v : v.usages # <<>>)
        told == Ranked(cfgs)
    IN  [enabled |-> told = <<>> \/ Last(told).enabled = 1,
         patmods |-> [i \in 1..Len(used) |-> PatmodOf(used[i])],
         groups  |-> FlattenSeq([i \in 1..Len(cfgs) |-> cfgs[i].groups]),
         parts   |-> {}]

\* The sections agree on enabled, and the members of a group on their values.
ReadOk(cfgs) ==
    LET pm == ReadPatmods(cfgs)
        in(g) == {pm.patmods[i] : i \in {k \in 1..Len(pm.patmods) : pm.patmods[k].name \in ToSet(g.members)}}
    IN  /\ \A i, k \in 1..Len(Ranked(cfgs)) : Ranked(cfgs)[i].enabled = Ranked(cfgs)[k].enabled
        /\ \A i \in 1..Len(cfgs) :
              /\ \A k \in 1..Len(cfgs[i].vars) : VarOk(cfgs[i].vars[k])
              /\ \A k \in 1..Len(cfgs[i].groups) : GroupOk(cfgs[i].groups[k])
        /\ \A i \in 1..Len(pm.groups) : \A p, q \in in(pm.groups[i]) : KeysOf(p) = KeysOf(q)

(***************************************************************************)
(* HtdPatmodManager                                                        *)
(***************************************************************************)
GloballyEnabled(pm) == pm.patmods # <<>> /\ pm.enabled

\* What an action is told of a patmod that stands in what it writes.  The
\* field is kept twice, as the action may write "DR" over one of them.
Entry(p, u, type, action) ==
    [name |-> p.name, reg |-> u.field, field |-> u.field, bits |-> u.bits, type |-> type,
     label |-> <<action, type, p.name, u.ext>>]
EntriesOf(pm, vars, type, action, Of(_)) ==
    LET asked == Those(pm.patmods, LAMBDA p : vars = {} \/ p.name \in vars)
        of(p, us) == [k \in 1..Len(us) |-> Entry(p, us[k], type, action)]
    IN  FlattenSeq([i \in 1..Len(asked) |->
            LET p == asked[i]
            IN  of(p, FlattenSeq([k \in 1..Len(p.usages) |-> Of(p.usages[k])]))])

\* get_patmods_for_register_field and get_patmods_for_register; a set of no
\* variables asks for all.
FieldEntries(pm, at, field, action, range, vars, type) ==
    EntriesOf(pm, vars \ {Absent}, type, action, LAMBDA u : OfField(u, at, field, action, range))
RegisterEntries(pm, at, action, vars, type) ==
    EntriesOf(pm, vars \ {Absent}, type, action, LAMBDA u : OfRegister(u, at, action))

(***************************************************************************)
(* add_equiv_patmod_for_field: bits lsb..msb of a field of a register of   *)
(* the xreg network are the bits eq.bits of a place in another network.    *)
(* The first usage of that field gets the place as a related usage, for one*)
(* action only.                                                            *)
(***************************************************************************)
\* The usages of the register, which come in the order of the patmods.  From
\* the first usage on that has no agent, no agent is compared; and a usage
\* without a field cannot be compared at all.
UsageAt(pm, ix) == pm.patmods[ix[1]].usages[ix[2]]
Before(ix, k) == ix[1] < k[1] \/ (ix[1] = k[1] /\ ix[2] <= k[2])
FirstOf(S) == CHOOSE ix \in S : \A k \in S : Before(ix, k)
UsagesOfXreg(pm, x) ==
    LET all == UNION {{i} \X (1..Len(pm.patmods[i].usages)) : i \in 1..Len(pm.patmods)}
        anyAgent(ix) == x.agent = Absent \/ \E k \in all : Before(k, ix) /\ UsageAt(pm, k).agent = Absent
    IN  {ix \in all :
            LET u == UsageAt(pm, ix)
            IN  /\ u.network = "xreg" /\ u.register = x.register
                /\ anyAgent(ix) \/ u.agent = x.agent}
OfXregField(pm, x) == {ix \in UsagesOfXreg(pm, x) : UsageAt(pm, ix).field \in {x.field, Absent}}
RelateOk(pm, x) ==
    OfXregField(pm, x) # {} => UsageAt(pm, FirstOf(OfXregField(pm, x))).field # Absent

\* The parts of a register field that were ever related, highest first, give
\* the bits of the usage that was found, new or, of a whole register, again.
PartsOf(parts, x) == {p \in parts : p.key = <<x.agent, x.register, x.field>>}
Learned(parts, x) ==
    {p \in parts : p \notin PartsOf(parts, x) \/ p.lsb # x.lsb}
        \cup {[key |-> <<x.agent, x.register, x.field>>, lsb |-> x.lsb, bits |-> x.eq.bits]}
PartBits(parts, x) ==
    LET seq == SetToSortSeq(PartsOf(parts, x), LAMBDA p, q : p.lsb > q.lsb)
    IN  SplitBits([i \in 1..Len(seq) |-> seq[i].bits])
Related(us, new, bits) ==
    LET old == {i \in 1..Len(us) : SameUsage(us[i], new)}
    IN  IF old = {} THEN Append(us, [new EXCEPT !.bits = bits])
        ELSE IF new.field = Absent
               THEN LET i == CHOOSE i \in old : \A k \in old : i <= k
                    IN  [us EXCEPT ![i].bits = bits]
        ELSE us
Relate(pm, x, action) ==
    LET ix    == FirstOf(OfXregField(pm, x))
        parts == Learned(pm.parts, x)
        new   == [network |-> x.eq.network, agent |-> x.eq.agent, register |-> x.eq.register,
                  field |-> x.eq.field, bits |-> SplitBits(<<x.eq.bits>>), action |-> action,
                  ext |-> Absent]
    IN  IF OfXregField(pm, x) = {} THEN [pm EXCEPT !.parts = parts]
        ELSE [pm EXCEPT !.parts = parts,
                        !.patmods[ix[1]].usages[ix[2]].related =
                            Related(@, new, PartBits(parts, x))]

(***************************************************************************)
(* print_spf_template_patmods: the declarations for SPF of every variable, *)
(* with its usages on the TAP, its own and related ones.  A value that is  *)
(* not a number leaves the file torn.                                      *)
(***************************************************************************)
OwnUsagesDeclared(u) == <<u>>   \* mutant
Declared(u) == <<u>> \o u.related
Printable(pm) ==
    \A i \in 1..Len(pm.patmods) : \A k \in 1..Len(pm.patmods[i].values) :
        pm.patmods[i].values[k].value # WordValue
Template(pm) ==
    UNION {UNION {{[name |-> p.name, agent |-> u.agent, register |-> u.register, field |-> u.field,
                    bits |-> u.bits] :
                      u \in {v \in UNION {ToSet(Declared(p.usages[i])) : i \in 1..Len(p.usages)} :
                                v.network = "tap"}}}
            : p \in ToSet(pm.patmods)}
=============================================================================
