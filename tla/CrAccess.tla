------------------------------- MODULE CrAccess --------------------------------
(***************************************************************************)
(* The control register action (actions_lib/htd_cr_access_action.py).  It  *)
(* collects the values of the fields of a register, once for every scope   *)
(* it is broadcast to, and hands them to the access handler of the         *)
(* register, or injects them into the RTL.  Verification looks at every    *)
(* scope in turn and keeps what it found for the last.                     *)
(*                                                                         *)
(* The handlers are projects' own and external: the state is what each     *)
(* scope was told last.  A value is the set of its bits.                   *)
(***************************************************************************)
EXTENDS Integers, Sequences, FiniteSets, SequencesExt

CONSTANTS
  Scopes,
  CrFields,
  CrLsb, CrMsb,   \* field -> its first and last bit
  CrReset         \* field -> the bits set in its reset value

ASSUME CrAssumption ==
    /\ CrLsb \in [CrFields -> Nat] /\ CrMsb \in [CrFields -> Nat]
    /\ \A f \in CrFields : CrLsb[f] <= CrMsb[f] /\ CrReset[f] \subseteq 0..(CrMsb[f] - CrLsb[f])

CrSize == 1 + (CHOOSE m \in {CrMsb[f] : f \in CrFields} : \A f \in CrFields : CrMsb[f] <= m)

\* get_final_list_of_scopes, with the scopes that "broadcast" stands for.
ScopeList(a) == a.scopes

(***************************************************************************)
(* An action has op "fields" or "raw"; args, a function from the named     *)
(* fields to ranges [lsb, msb, bits]; raw = [lsb, msb, bits], lsb and msb  *)
(* -1 without a range; inject for bfm_mode "injection"; read for a read;   *)
(* check, and the named fields that it does not check.  A read without     *)
(* values only strobes.  read_modify_write is not modelled.                *)
(*                                                                         *)
(* te.rtl are the fields that have an RTL node, te.locked the read-only    *)
(* ones.                                                                   *)
(***************************************************************************)
\* Only a range that follows another is put on top of it: the first one
\* clears the rest of the field.
OnField(value, r) ==
    IF r.lsb < 0 THEN r.bits
    ELSE (value \ (r.lsb .. r.msb)) \cup {b + r.lsb : b \in r.bits}
Assigned(ranges) == FoldLeft(OnField, {}, ranges)

\* With dri every field gets its low bits, as many as it has in common with
\* the number (util_calculate_range_mask counts from the field's first bit).
Chunk(raw, f) ==
    {b \in raw.bits : b < Cardinality({i \in CrLsb[f]..CrMsb[f] : \E k \in raw.bits : i <= k})}

\* What is handed to the handler.  The history that incremental mode asks for
\* is never filled.
DataByField(a) ==
    [f \in CrFields |-> IF a.op = "raw" THEN Chunk(a.raw, f)
                        ELSE IF f \in DOMAIN a.args THEN Assigned(a.args[f])
                        ELSE CrReset[f]]

\* What a check waits for at the RTL nodes: of a write every field that can be
\* written, of a read the named ones.
Awaited(te, a) ==
    [f \in (IF a.read THEN DOMAIN a.args ELSE CrFields \ te.locked) \ a.unchecked |->
        DataByField(a)[f]]

(***************************************************************************)
(* verify_single_scope, and what can go wrong in run_single_scope.         *)
(***************************************************************************)
\* The range is within the field, but its end is compared with the field's
\* last bit in the register.
RangeOk(f, r) ==
    IF r.lsb < 0 THEN r.bits \subseteq 0..(CrMsb[f] - CrLsb[f])
    ELSE r.lsb <= CrMsb[f] /\ r.msb <= CrMsb[f] /\ r.bits \subseteq 0..(r.msb - r.lsb)

\* run looks up fields that were never assigned if dri touches them all, and
\* has a name that is not defined if dri is injected.
RawOutside(a) ==   \* fields that dri[msb:lsb] does not touch
    {f \in CrFields : CrLsb[f] > a.raw.msb \/ CrMsb[f] < a.raw.lsb}
RawOk(a) ==
    /\ a.args = <<>> /\ a.raw.msb >= 0 /\ a.raw.bits \subseteq 0..(CrSize - 1)
    /\ a.read \/ (RawOutside(a) # {} /\ ~a.inject)

\* A checked or injected write needs the nodes of all fields, a checked read
\* those of the fields that it waits for.
RtlOk(te, a) ==
    /\ (a.check \/ a.inject) /\ ~a.read => te.rtl = CrFields
    /\ a.check /\ a.read => DOMAIN Awaited(te, a) \subseteq te.rtl

CrOk(te, a) ==
    /\ Len(ScopeList(a)) > 1 => a.broadcast
    /\ IF a.op = "raw" THEN RawOk(a)
       ELSE \A f \in DOMAIN a.args : \A i \in 1..Len(a.args[f]) : RangeOk(f, a.args[f][i])
    /\ RtlOk(te, a)

(***************************************************************************)
(* run_single_scope, for every scope.  Injection sets, and a check looks   *)
(* at, the nodes of the scope that was verified last.                      *)
(***************************************************************************)
Injected(told, a) ==
    [told EXCEPT ![Last(ScopeList(a))] =
        [f \in CrFields |-> IF f \in DOMAIN a.args THEN Last(a.args[f]).bits ELSE @[f]]]
Written(told, a, scope) == [told EXCEPT ![scope] = DataByField(a)]

NothingAwaited == [s \in Scopes |-> [f \in {} |-> {}]]
Waits(te, a) ==
    IF a.check /\ (a.read \/ ~a.inject)
      THEN [NothingAwaited EXCEPT ![Last(ScopeList(a))] = Awaited(te, a)]
      ELSE NothingAwaited

RunCr(told, a) ==
    FoldLeft(LAMBDA t, scope : IF a.read THEN t
                               ELSE IF a.inject THEN Injected(t, a) ELSE Written(t, a, scope),
             told, ScopeList(a))
=============================================================================
