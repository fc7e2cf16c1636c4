------------------------ MODULE MCArgumentContainer ------------------------
(* A small instance of ArgumentContainer: an integer and a boolean, which  *)
(* may also be used as register fields before they are declared.           *)
EXTENDS ArgumentContainer

MCTypes == [n \in Names |-> IF n = "number" THEN "int" ELSE "bool"]

Num(n) == [kind |-> "int", n |-> n]
Word == [kind |-> "word", n |-> 0]
Assign(n, ref, r, v, reads) ==
    [name |-> n, ref |-> ref, range |-> r, val |-> v, reads |-> reads]

\* Two parts of a register, both together, one that is inside of these and
\* cuts either part, and a bit apart from them.
MCRanges == {Whole, BitRange(0, 1), BitRange(2, 3), BitRange(0, 3), BitRange(1, 2)}

MCInputs ==
    {Assign("number", "", r, Num(v), FALSE) : r \in MCRanges, v \in 1..2}
    \cup {Assign("number", "", BitRange(4, 4), Num(1), FALSE),
          Assign("number", "", BitRange(0, 1), Num(2), TRUE),
          Assign("number", "declared", Whole, Num(1), FALSE),
          Assign("number", "not_declared", BitRange(0, 1), Num(1), FALSE),
          Assign("number", "", Whole, Word, FALSE),
          Assign("flag", "", Whole, Num(1), FALSE),
          Assign("flag", "not_declared", BitRange(2, 2), Num(1), FALSE),
          Assign("flag", "", Whole, Word, FALSE)}
=============================================================================
