------------------------------- MODULE TapAction -------------------------------
(***************************************************************************)
(* The TAP action (actions_lib/htd_tap_action.py) on one data register:    *)
(* it names fields, or ranges of bits of fields, and shifts the whole      *)
(* register.  What the action does not name is shifted as its reset value, *)
(* or, in incremental mode, as what was written last: the history manager  *)
(* remembers the fields that an action has named, in the run pass only.    *)
(*                                                                         *)
(* A value is the set of its bits.  As in StfAction these are functions,   *)
(* of which ActionSession makes the steps.                                 *)
(***************************************************************************)
EXTENDS Integers, Sequences, FiniteSets, SequencesExt

CONSTANTS
  DocFields,  \* get_ir_fields: the documented fields, in their order
  Lsb, Msb,   \* field -> its first and last bit of the register
  ResetOf     \* field -> the bits that are set in its reset value

DocField == {DocFields[i] : i \in 1..Len(DocFields)}

ASSUME RegisterAssumption ==
    /\ DocFields \in Seq(DocField) /\ IsInjective(DocFields)
    /\ Lsb \in [DocField -> Nat] /\ Msb \in [DocField -> Nat]
    /\ \A f \in DocField : Lsb[f] <= Msb[f] /\ ResetOf[f] \subseteq 0..(Msb[f] - Lsb[f])

\* get_dr_total_length
DrSize == 1 + (CHOOSE m \in {Msb[f] : f \in DocField} : \A f \in DocField : Msb[f] <= m)

(***************************************************************************)
(* An action has an op, which is "write", "read" or, when it gives the     *)
(* whole register, "raw"; its bits; and a list of arguments                *)
(* [field, exact, ranges]: exact says that the name is spelled as          *)
(* documented, and a range [lsb, msb, bits] with lsb -1 is the whole field.*)
(***************************************************************************)
Whole(bits) == [lsb |-> -1, msb |-> -1, bits |-> bits]
Named(args) == {args[i].field : i \in 1..Len(args)}
Exact(args) == {args[i].field : i \in {j \in 1..Len(args) : args[j].exact}}

Overlap(f, g) == f # g /\ Lsb[f] <= Msb[g] /\ Lsb[g] <= Msb[f]

\* The bits of a field in a register, and the other way round.  A value that
\* is too long loses its upper bits.
Slice(reg, f) == {b - Lsb[f] : b \in {r \in reg : Lsb[f] <= r /\ r <= Msb[f]}}
PlaceAll(bits, f) == {b + Lsb[f] : b \in bits}   \* mutant
Place(bits, f) == {b + Lsb[f] : b \in {v \in bits : v <= Msb[f] - Lsb[f]}}

(***************************************************************************)
(* Incremental mode adds what the history has of fields that the action    *)
(* does not name; names are compared as they are spelled.  A read gets all *)
(* of it, to shift it back.                                                *)
(***************************************************************************)
Listed(S) == FoldLeft(LAMBDA seq, f : IF f \in S THEN Append(seq, f) ELSE seq, <<>>, DocFields)
GivenReset(h, a) == a.args    \* mutant: incremental mode has no effect
Given(h, a) ==
    LET missing == IF a.op = "read" THEN DOMAIN h ELSE DOMAIN h \ Exact(a.args)
        seq     == Listed(missing)
    IN  IF a.incremental
          THEN a.args \o [i \in 1..Len(seq) |->
                 [field |-> seq[i], exact |-> TRUE, ranges |-> <<Whole(h[seq[i]])>>]]
          ELSE a.args

\* The bits of a range are counted from the field's first, but its end is
\* compared with the field's last bit in the register.
RangeFits(f, r) ==
    IF r.lsb < 0 THEN \A b \in r.bits : b <= Msb[f] - Lsb[f]
    ELSE r.msb <= Msb[f] /\ \A b \in r.bits : b <= r.msb - r.lsb

TapOk(h, a) ==   \* verify_arguments
    /\ a.op = "raw" => a.args = <<>>
    /\ LET args == Given(h, a)
       IN  \A i \in 1..Len(args) : \A j \in 1..Len(args[i].ranges) :
               RangeFits(args[i].field, args[i].ranges[j])

(***************************************************************************)
(* get_final_tap_data_register                                             *)
(***************************************************************************)
OnRangeUnshifted(value, r) ==   \* mutant
    IF r.lsb < 0 THEN r.bits ELSE (value \ (r.lsb .. r.msb)) \cup r.bits
OnRange(value, r) ==
    IF r.lsb < 0 THEN r.bits
    ELSE (value \ (r.lsb .. r.msb)) \cup {b + r.lsb : b \in r.bits}

\* The values of the named fields.  The same field under another spelling
\* starts again from reset.  What a read names is expected, not written.
NamedValues(h, a) ==
    LET args == Given(h, a)
        old  == IF a.op = "read" THEN Len(a.args) ELSE 0   \* those only compared
        of(f) == {i \in 1..Len(args) : args[i].field = f}
        last(f) == CHOOSE i \in of(f) : \A j \in of(f) : j <= i
    IN  [f \in Named(args) |->
            IF last(f) <= old THEN ResetOf[f]
            ELSE FoldLeft(OnRange, ResetOf[f], args[last(f)].ranges)]

\* Of fields with the same first bit only the last gets its default.
DefaultFields ==
    {f \in DocField : ~\E i, j \in 1..Len(DocFields) :
        i < j /\ DocFields[i] = f /\ Lsb[DocFields[j]] = Lsb[f]}

\* The other fields, from the low bits up, unless they overlap one that is set.
SetAt(free, s, b) == s \cup {f \in free : Lsb[f] = b /\ \A g \in s : ~Overlap(f, g)}
Defaults(named, a) ==
    LET free == {f \in DefaultFields \ DOMAIN named : \A g \in DOMAIN named : ~Overlap(f, g)}
        set  == FoldLeft(LAMBDA s, b : SetAt(free, s, b), {}, [i \in 1..DrSize |-> i - 1])
    IN  IF a.unset /\ a.op # "read" THEN [f \in set |-> ResetOf[f]] ELSE [f \in {} |-> {}]

Placed(values) == UNION {Place(values[f], f) : f \in DOMAIN values}
Completed(named, a) == Placed(named) \cup Placed(Defaults(named, a))
Register(h, a) == Completed(NamedValues(h, a), a)

(***************************************************************************)
(* send_cmd, on the low level: bits of no field are shifted as 0, in a     *)
(* read too.  Two named fields that overlap are found here only.           *)
(***************************************************************************)
Clash(h, a) == \E f, g \in Named(Given(h, a)) : Overlap(f, g)
Sent(h, a) == IF a.op = "raw" THEN a.bits ELSE Register(h, a)

CapturedAll(h, a) ==   \* mutant: every field of the register is remembered
    [f \in DocField |-> Slice(Sent(h, a), f)]
Over(new, old) ==
    [f \in DOMAIN new \cup DOMAIN old |-> IF f \in DOMAIN new THEN new[f] ELSE old[f]]
Captured(h, a) == IF a.op = "read" THEN h ELSE Over(NamedValues(h, a), h)
=============================================================================
