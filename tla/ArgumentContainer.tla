-------------------------- MODULE ArgumentContainer --------------------------
(***************************************************************************)
(* htd_argument_containter (tools/htd_te/bin/htd_arguments_container.py):  *)
(* the arguments of an action, segment, flow or of the manager.  Declared  *)
(* arguments have a type and one value; an argument that nobody declared   *)
(* is a register field, and holds a list of values for ranges of its bits, *)
(* to read or to write.  Names may carry an index, F[msb:lsb], and say     *)
(* which of the two they mean, "declared:F" or "not_declared:F".           *)
(*                                                                         *)
(* An error is collected while the executer verifies, and the method goes  *)
(* on; an exception of Python ends everything (crashed).                   *)
(***************************************************************************)
EXTENDS Integers, SequencesExt

CONSTANTS
  Names,         \* names of arguments
  Types,         \* name -> the type its owner declares it with, see KnownTypes
  Obligatory,    \* the names declared obligatory
  Width,         \* bits of a register
  Inputs,        \* the assignments that callers make, see Input
  DeclaredOnly,  \* a container of declared arguments only?
  MaxCalls       \* bound: calls of the container

KnownTypes == {"enum", "dict", "string", "bool", "int", "string_or_int",
               "string_or_list", "int_or_list", "string_or_int_or_list"}

\* A Python value: its kind, and its number if it stands for one.  "digits"
\* is a string that reads as a number, "word" any other string.
Kinds == {"int", "bool", "digits", "word", "list", "dict"}
Value == [kind : Kinds, n : Nat]
Numeric == {"int", "bool", "digits"}

BitRange(lsb, msb) == [lsb |-> lsb, msb |-> msb]
Whole == BitRange(-1, -1)
Ranges == [lsb : -1..Width-1, msb : -1..Width-1]
None == -1

\* An assignment: name with prefix and range, value, and whether to read.
Input == [name : Names, ref : {"", "declared", "not_declared"}, range : Ranges,
          val : Value, reads : BOOLEAN]

ASSUME ContainerAssumption ==
    /\ Types \in [Names -> KnownTypes]
    /\ Obligatory \subseteq Names
    /\ Width \in Nat \ {0}
    /\ Inputs \subseteq Input
    /\ \A in \in Inputs : \/ in.range = Whole
                         \/ (0 <= in.range.lsb /\ in.range.lsb <= in.range.msb)
    /\ DeclaredOnly \in BOOLEAN
    /\ MaxCalls \in Nat

VARIABLES
  args,     \* name -> its entry in arg_l, or Absent
  status,   \* "ok", "verified" once the obligatory arguments were, "crashed"
  errors,   \* has an error been collected?
  calls,    \* calls made (bounded)
  given     \* history: name -> the assignments made since it appeared

vars == <<args, status, errors, calls, given>>

(***************************************************************************)
(* An entry of arg_l.  "type" is the one that declare_arg gave it, if any. *)
(* A declared value is kept in val, with its range in lsb and msb, the     *)
(* values of a register field in list.                                     *)
(***************************************************************************)
NoValue == [kind |-> "none", n |-> 0]
Fresh == [present |-> TRUE, type |-> "", declared |-> FALSE, obligatory |-> FALSE,
          assigned |-> FALSE, val |-> NoValue, lsb |-> None, msb |-> None, list |-> <<>>]
Absent == [Fresh EXCEPT !.present = FALSE]

Present(n) == args[n] # Absent
Collect(bad) == errors' = (errors \/ bad)
Put(n, entry) == args' = [args EXCEPT ![n] = entry]
Crash ==
    /\ status' = "crashed"
    /\ UNCHANGED <<args, errors, given>>

-----------------------------------------------------------------------------
(***************************************************************************)
(* Register fields.  An entry of the list: a range, and what to write and  *)
(* what to expect in it (None if nothing).                                 *)
(***************************************************************************)
\* parse_not_declared_argument_tokens: only numbers, and strings that read
\* as numbers, have a value; anything else leaves an entry without one.
ParsedAsWritten(r, v, reads) ==   \* mutant: F[0:1] keeps its order
    [lsb |-> r.msb, msb |-> r.lsb,
     value |-> IF reads THEN None ELSE v.n, read |-> IF reads THEN v.n ELSE None]
Parsed(r, v, reads) ==
    LET n == IF v.kind \in {"int", "digits"} THEN v.n ELSE None
    IN  [lsb |-> r.lsb, msb |-> r.msb,
         value |-> IF reads THEN None ELSE n, read |-> IF reads THEN n ELSE None]

\* merge: what the new entry does not say is taken from the old one.
Merged(new, old) ==
    [new EXCEPT !.value = IF new.value < 0 THEN old.value ELSE @,
                !.read  = IF new.read < 0 THEN old.read ELSE @]

\* util_get_int_sub_range(lsb, msb, orig_val).
SubRange(lsb, msb, n) ==
    IF msb < lsb THEN 0 ELSE (n \div 2^lsb) % 2^(msb - lsb + 1)
\* The container passes the value first, the range behind it.
Piece(n, lsb, msb) == IF n < 0 THEN None ELSE SubRange(n, lsb, msb)

Below(new, cur) == new.msb < cur.lsb
Above(new, cur) == new.lsb > cur.msb
Covers(new, cur) == new.lsb <= cur.lsb /\ new.msb >= cur.msb
OverlapsLow(new, cur) == new.lsb <= cur.lsb /\ new.msb <= cur.msb
OverlapsHigh(new, cur) == new.lsb > cur.lsb /\ new.msb >= cur.msb
Inside(new, cur) == new.lsb > cur.lsb /\ new.msb < cur.msb

\* A range that reaches into the current one from below is split in three.
LowPieces(new, cur) ==
    LET low  == [new EXCEPT !.value = Piece(@, new.lsb, cur.lsb),
                            !.read  = Piece(@, new.lsb, cur.lsb)]
        both == [Merged(new, cur) EXCEPT !.value = Piece(new.value, cur.lsb + 1, new.msb),
                                         !.read  = Piece(new.read, cur.lsb + 1, new.msb)]
        high == [cur EXCEPT !.value = Piece(@, new.msb + 1, cur.msb),
                            !.read  = Piece(@, new.msb + 1, cur.msb)]
    IN  <<low, both, high>>

(***************************************************************************)
(* insert_not_declared_argument_value.  The loop over the list passes the  *)
(* entries that the new range lies inside of, where it meets no branch and *)
(* no break; the first other entry decides.  It leaves the list if the new *)
(* range reaches into it, and what is new goes to the end.  A range inside *)
(* all the entries is dropped.                                             *)
(***************************************************************************)
DecidingFirst(list, new) ==   \* mutant: a break behind the first entry
    {i \in 1..Len(list) : i = 1 /\ ~Inside(new, list[i])}
Deciding(list, new) == {i \in 1..Len(list) : ~Inside(new, list[i])}

Inserted(list, new) ==
    IF list = <<>> THEN <<new>>
    ELSE IF Deciding(list, new) = {} THEN list
    ELSE LET first == Min(Deciding(list, new))
             cur   == list[first]
         IN  IF Below(new, cur) \/ Above(new, cur) THEN Append(list, new)
             ELSE IF Covers(new, cur) THEN Append(RemoveAt(list, first), Merged(new, cur))
             ELSE RemoveAt(list, first) \o LowPieces(new, cur)   \* or InsertCrashes

\* A range that reaches out of the deciding entry upwards uses the result of
\* merge(), which is None; and a declared value is no list of entries.
InsertCrashes(entry, new) ==
    \/ entry.val # NoValue
    \/ LET deciding == Deciding(entry.list, new)
           cur == entry.list[Min(deciding)]
       IN  deciding # {} /\ OverlapsHigh(new, cur) /\ ~Above(new, cur)

IsField(n, ref) ==
    /\ ~Present(n) \/ ~args[n].declared \/ ref = "not_declared"
    /\ ref # "declared"

SetField(n, ref, r, v, reads) ==
    LET entry == IF Present(n) THEN args[n] ELSE Fresh
        new   == Parsed(r, v, reads)
    IN  /\ IsField(n, ref)
        /\ IF InsertCrashes(entry, new) THEN Crash
           ELSE /\ Collect(DeclaredOnly \/ v.kind \notin {"int", "digits", "dict"})
                /\ Put(n, [entry EXCEPT !.list = Inserted(@, new),
                                        !.declared = FALSE, !.assigned = TRUE])
                /\ given' = [given EXCEPT ![n] =
                               Append(IF entry.declared THEN <<>> ELSE @, new)]
                /\ UNCHANGED status

-----------------------------------------------------------------------------
(***************************************************************************)
(* Declared arguments: which kinds of values each type takes, and as what. *)
(***************************************************************************)
Takes(type, v) ==
    CASE type = "enum" -> v.kind = "word"   \* one of the enumerated words
      [] type = "bool" -> v.kind \in {"int", "bool"} \/ (v.kind = "digits" /\ v.n <= 1)
      [] type = "dict" -> v.kind = "dict"
      [] type = "string" -> v.kind \in {"digits", "word"}
      [] type = "int" -> v.kind # "word"
      [] type = "string_or_int" -> v.kind \in {"digits", "word", "int", "bool"}
      [] type = "string_or_list" -> v.kind \in {"digits", "word", "list"}
      [] type = "int_or_list" -> v.kind \in {"int", "bool", "list"}
      [] type = "string_or_int_or_list" -> v.kind \in {"digits", "word", "int", "list"}

Kept(type, v) ==
    CASE type = "bool" -> [kind |-> "int", n |-> IF v.n > 0 THEN 1 ELSE 0]
      [] type \in {"int", "string_or_int"} /\ v.kind = "digits" -> [v EXCEPT !.kind = "int"]
      [] type \in {"string_or_int", "int_or_list"} /\ v.kind = "bool" ->
            [v EXCEPT !.kind = "int"]
      [] OTHER -> v

\* Bits that either number has; ranges of an integer are only ever added to it.
BitOr(x, y) ==
    LET bit(n, i) == (n \div 2^i) % 2
        sum[i \in -1..2*Width] ==
            IF i < 0 THEN 0
            ELSE sum[i - 1] + (IF bit(x, i) + bit(y, i) > 0 THEN 2^i ELSE 0)
    IN  sum[2*Width]

Shifted(r, n) == IF r.lsb >= 0 THEN n * 2^(r.lsb) ELSE n

IntVal(entry, r, v) ==
    LET n == Shifted(r, v.n)
    IN  IF entry.assigned /\ r # Whole
          THEN [entry EXCEPT !.val = [kind |-> "int", n |-> BitOr(@.n, n)],
                             !.msb = IF r.msb > @ THEN r.msb ELSE @]
          ELSE [entry EXCEPT !.val = IF r = Whole THEN Kept("int", v)
                                     ELSE [kind |-> "int", n |-> n],
                             !.lsb = r.lsb, !.msb = r.msb]

\* A value that is rejected is not stored, except for an enumeration and for
\* an integer without an index.
TypedVal(entry, type, r, v) ==
    IF type = "int" THEN IntVal(entry, r, v)
    ELSE IF Takes(type, v) \/ type = "enum" THEN [entry EXCEPT !.val = Kept(type, v)]
    ELSE entry

\* A name that nobody declared has no type; values that are no numbers have
\* no shift; a list of entries cannot be combined with a number.
SetCrashes(n, r, v) ==
    \/ ~Present(n) \/ args[n].type = ""
    \/ /\ args[n].type = "int" /\ r # Whole
       /\ \/ v.kind \notin Numeric
          \/ (args[n].assigned /\ args[n].val.kind \notin Numeric)

SetDeclared(n, ref, r, v) ==
    /\ ~IsField(n, ref)
    /\ IF SetCrashes(n, r, v) THEN Crash
       ELSE /\ Collect(~Takes(args[n].type, v) \/ (args[n].type # "int" /\ r.msb > 0))
            /\ Put(n, [TypedVal(args[n], args[n].type, r, v) EXCEPT
                         !.declared = TRUE, !.assigned = TRUE, !.list = <<>>])
            /\ given' = [given EXCEPT ![n] =
                           Append(IF args[n].declared THEN @ ELSE <<>>, Parsed(r, v, FALSE))]
            /\ UNCHANGED status

\* set_argument, and overrideSingleArgument, which calls it.
Set(in) ==
    \/ SetField(in.name, in.ref, in.range, in.val, in.reads)
    \/ ~in.reads /\ SetDeclared(in.name, in.ref, in.range, in.val)

Override(in) ==
    /\ in.ref = "" /\ ~in.reads
    /\ IF Present(in.name) THEN Set(in) ELSE Crash

-----------------------------------------------------------------------------
\* declare_arg replaces whatever the name held.
Declare(n) ==
    /\ Put(n, [Fresh EXCEPT !.type = Types[n], !.declared = TRUE,
                            !.obligatory = n \in Obligatory])
    /\ given' = [given EXCEPT ![n] = <<>>]
    /\ UNCHANGED <<status, errors>>

SetObligatory(n) ==
    IF Present(n)
      THEN /\ Put(n, [args[n] EXCEPT !.obligatory = TRUE])
           /\ UNCHANGED <<status, errors, given>>
      ELSE Crash

Delete(n, r) ==
    /\ Present(n)
    /\ IF r = Whole
         THEN /\ Put(n, Absent)
              /\ given' = [given EXCEPT ![n] = <<>>]
              /\ UNCHANGED <<status, errors>>
         ELSE Crash   \* its message lacks an argument

Rename(n, new) ==
    /\ n # new
    /\ IF Present(n)
         THEN /\ args' = [args EXCEPT ![new] = args[n], ![n] = Absent]
              /\ given' = [given EXCEPT ![new] = given[n], ![n] = <<>>]
              /\ UNCHANGED <<status, errors>>
         ELSE /\ Collect(TRUE)
              /\ UNCHANGED <<args, status, given>>

\* verify_obligatory_arguments goes over the declared names.
MissingAny == {n \in Names : Present(n) /\ args[n].declared /\ args[n].obligatory
                               /\ args[n].type = ""}   \* mutant
Missing == {n \in Names : Present(n) /\ args[n].declared /\ args[n].obligatory
                            /\ ~args[n].assigned}
VerifyObligatory ==
    /\ Collect(Missing # {})
    /\ status' = "verified"
    /\ UNCHANGED <<args, given>>

Init ==
    /\ args = [n \in Names |-> Absent]
    /\ status = "ok"
    /\ errors = FALSE
    /\ calls = 0
    /\ given = [n \in Names |-> <<>>]

Next ==
    /\ status = "ok"
    /\ calls < MaxCalls
    /\ calls' = calls + 1
    /\ \/ \E in \in Inputs : Set(in)
       \/ \E in \in Inputs : Override(in)
       \/ \E n \in Names : Declare(n)
       \/ \E n \in Names : SetObligatory(n)
       \/ \E in \in Inputs : Delete(in.name, in.range)
       \/ \E n, new \in Names : Rename(n, new)
       \/ VerifyObligatory

Spec == Init /\ [][Next]_vars

-----------------------------------------------------------------------------
Entry == [lsb : -1..Width-1, msb : -1..Width-1, value : Int, read : Int]

TypeOK ==
    /\ status \in {"ok", "verified", "crashed"}
    /\ errors \in BOOLEAN
    /\ calls \in 0..MaxCalls
    /\ \A n \in Names : Present(n) =>
          /\ args[n].declared => args[n].type # "" /\ args[n].list = <<>>
          /\ \A i \in 1..Len(args[n].list) :
                args[n].list[i] \in Entry /\ args[n].list[i].lsb <= args[n].list[i].msb

\* The bit that a sequence of entries writes, as the register is assembled
\* from it entry by entry: the last one that covers the bit counts.
CoversBit(e, b) == e.value >= 0 /\ (e.lsb < 0 \/ (e.lsb <= b /\ b <= e.msb))
Written(list, b) ==
    LET by == {i \in 1..Len(list) : CoversBit(list[i], b)}
    IN  IF by = {} THEN None
        ELSE LET e == list[CHOOSE i \in by : \A j \in by : j <= i]
                 from == IF e.lsb < 0 THEN 0 ELSE e.lsb
             IN  (e.value \div 2^(b - from)) % 2

Disjoint(e, f) == e.msb < f.lsb \/ f.msb < e.lsb

\* The j-th range given is not dropped: among the earlier ones is one that it
\* is not inside of, and that no range between the two covered (and removed).
Lands(g, j) ==
    \/ j = 1
    \/ \E i \in 1..j-1 : ~Inside(g[j], g[i]) /\ \A k \in i+1..j-1 : ~Covers(g[k], g[i])

\* A field that is only written, by ranges of which none cuts an earlier one,
\* and each lands, holds in every bit what was written to it last, whichever
\* entries the loop of insert_not_declared_argument_value passed, replaced or
\* went behind.
LastWriteWins ==
    \A n \in Names :
        /\ Present(n) /\ ~args[n].declared
        /\ \A i \in 1..Len(given[n]) : given[n][i].value >= 0
        /\ \A j \in 1..Len(given[n]) :
              /\ Lands(given[n], j)
              /\ \A i \in 1..j-1 :
                    \/ Disjoint(given[n][i], given[n][j])   \* also a whole and a range
                    \/ Covers(given[n][j], given[n][i])
                    \/ Inside(given[n][j], given[n][i])
        => \A b \in 0..Width-1 : Written(args[n].list, b) = Written(given[n], b)

\* After verify_obligatory_arguments found nothing missing, every obligatory
\* argument has a value, whatever was declared, renamed or deleted since: also
\* one that was rejected or came as "not_declared:".
ObligatoryHasValue ==
    status = "verified" /\ ~errors =>
        \A n \in Names : Present(n) /\ args[n].obligatory =>
            IF args[n].declared THEN args[n].val # NoValue ELSE
                args[n].list # <<>> \/ args[n].type = ""
=============================================================================
