------------------------------ MODULE StfPackets ------------------------------
(***************************************************************************)
(* STF packets that are given bit by bit: the direct packets of the STF    *)
(* action (op="direct_packet"), the MCI packets that it wraps into them    *)
(* (op="stf2mci"), and those of the MCI action (htd_mci_action.py).  The   *)
(* layout of a direct packet is CFG["STF_packet"].                         *)
(*                                                                         *)
(* A packet is the sequence of its bits, the lowest first.                 *)
(***************************************************************************)
EXTENDS Integers, Sequences, FiniteSets, SequencesExt

CONSTANTS
  PacketSize,     \* "size"
  PacketFields,   \* the fields of "packet", in their order
  FieldEnds,      \* field -> the two bits between which it lies, in any order
  PacketDefault,  \* "packet_default_values" of the fields that have one
  Strobed         \* the fields with a "packet_default_strobe"

PacketField == ToSet(PacketFields)

ASSUME PacketAssumption ==
    /\ PacketSize \in Nat /\ PacketSize > 10
    /\ {"OPCODE", "GID", "DATA"} \subseteq PacketField
    /\ DOMAIN FieldEnds = PacketField /\ \A f \in PacketField : FieldEnds[f] \in Nat \X Nat
    /\ DOMAIN PacketDefault \subseteq PacketField /\ Strobed \subseteq PacketField

Zeros(n) == [i \in 1..n |-> 0]
BitOf(n, i) == (n \div 2^i) % 2
Number(bits) == FoldRight(LAMBDA b, n : 2 * n + b, bits, 0)
HighestOf(S) == IF S = {} THEN -1 ELSE CHOOSE b \in S : \A c \in S : c <= b

-----------------------------------------------------------------------------
(***************************************************************************)
(* Direct packets.  An action without an opcode is accepted and sends      *)
(* nothing.                                                                *)
(***************************************************************************)
FirstBit(f) == IF FieldEnds[f][1] <= FieldEnds[f][2] THEN FieldEnds[f][1] ELSE FieldEnds[f][2]
LastBit(f) == FieldEnds[f][1] + FieldEnds[f][2] - FirstBit(f)
FieldWidth(f) == LastBit(f) - FirstBit(f) + 1

ValueIn(args, f) == IF f \in DOMAIN args THEN args[f] ELSE PacketDefault[f]
FieldOk(args, f) ==
    /\ LastBit(f) < PacketSize
    /\ f \in DOMAIN args \cup DOMAIN PacketDefault
    /\ ValueIn(args, f) < 2^FieldWidth(f)
DirectOk(args) == "OPCODE" \in DOMAIN args => \A f \in PacketField : FieldOk(args, f)

\* The bits that the fields up to the n-th set, which are or-ed together.
SetIn(args, f) ==
    {FirstBit(f) + i : i \in {j \in 0..FieldWidth(f) - 1 : BitOf(ValueIn(args, f), j) = 1}}
SetBits(args, n) == UNION {SetIn(args, PacketFields[k]) : k \in 1..n}

\* A read strobes a field with the text, highest bit first, of all that has been
\* put together so far, from the lowest bit of the field on.
StrobeAt(args, n, bit) ==
    LET set  == SetBits(args, n)
        size == HighestOf({HighestOf(set) + 1, FieldWidth(PacketFields[n])})
    IN  IF size - 1 - (bit - FirstBit(PacketFields[n])) \in set THEN "H" ELSE "L"
StrobedAt(bit) == {n \in DOMAIN PacketFields :
    PacketFields[n] \in Strobed /\ bit \in FirstBit(PacketFields[n])..LastBit(PacketFields[n])}
Strobes(args) ==
    [i \in 1..PacketSize |->
        IF StrobedAt(i - 1) = {} THEN "X" ELSE StrobeAt(args, HighestOf(StrobedAt(i - 1)), i - 1)]

\* StfITPPPacket: what is shifted in, and what is expected to come out.
Ones(set) == [i \in 1..PacketSize |-> IF i - 1 \in set THEN 1 ELSE 0]
Unchecked == [i \in 1..PacketSize |-> "X"]
Direct(args, read) ==
    IF "OPCODE" \notin DOMAIN args THEN <<>>
    ELSE IF read THEN <<[in |-> Zeros(PacketSize), out |-> Strobes(args)]>>
    ELSE <<[in |-> Ones(SetBits(args, Len(PacketFields))), out |-> Unchecked]>>

-----------------------------------------------------------------------------
(***************************************************************************)
(* stf2mci.  The data register is an integer whose decimal digits are its  *)
(* bits, so its leading zeros are lost.  Of the ways to give packets, the  *)
(* register one takes an argument nobody declares ("scope"), the TAP one   *)
(* another ("AgentID"), and ddr_vector calls insert without a place: they  *)
(* end in errors.                                                          *)
(***************************************************************************)
McNop == Zeros(20) \o <<1>>
AsNumber(bits) ==
    LET ones == {i \in DOMAIN bits : bits[i] = 1}
    IN  IF ones = {} THEN <<0>> ELSE SubSeq(bits, 1, HighestOf(ones))

\* The lower part of a word, and the 16 bits above it.
LowHalf(word) == SubSeq(word, 1, Len(word) - 16)
HighHalf(word) == IF Len(word) <= 16 THEN word ELSE SubSeq(word, Len(word) - 15, Len(word))
McData(half, opcode) == half \o opcode \o <<1>>
UpTo(seq, m, n) == SubSeq(seq, m, IF n < Len(seq) THEN n ELSE Len(seq))

DrData(dr) == UpTo(AsNumber(dr), 5, 36)
DrAddress(dr) ==
    LET found == UpTo(AsNumber(dr), 37, 47)
    IN  <<0, 0>> \o found \o Zeros(30 - Len(found))
DrPackets(dr) ==
    <<McData(LowHalf(DrAddress(dr)), <<1, 0, 0, 0>>), McData(HighHalf(DrAddress(dr)), <<0, 1, 0, 0>>),
      McNop,
      McData(LowHalf(DrData(dr)), <<0, 0, 0, 1>>), McData(HighHalf(DrData(dr)), <<0, 0, 0, 0>>),
      McNop>>

McOk(a) ==
    IF a.nops > 0 THEN a.known
    ELSE IF a.ctl = "dat" THEN a.dr # <<>>
    ELSE a.dr = <<>> /\ a.packet # <<>>
McPackets(a) ==
    IF a.nops > 0 THEN [i \in 1..(3 * ((a.nops + 2) \div 3)) |-> McNop]
    ELSE IF a.ctl = "dat" THEN DrPackets(a.dr)
    ELSE <<AsNumber(a.packet)>>

\* The bits of the packets fill words of the width of the data; after three
\* packets, or the last, the word is filled up with zeros, even an empty one.
WordWidth == PacketSize - 10
FilledUp(word) == word \o Zeros(WordWidth - Len(word))
Cut(out, bits) ==
    LET full == Len(bits) \div WordWidth
    IN  [out  |-> out \o [i \in 1..full |-> SubSeq(bits, (i - 1) * WordWidth + 1, i * WordWidth)],
         word |-> SubSeq(bits, full * WordWidth + 1, Len(bits))]
AfterPacket(acc, n) ==
    IF n % 3 = 0 THEN [word |-> <<>>, out |-> Append(acc.out, FilledUp(acc.word))] ELSE acc
Rest(acc) == IF acc.word = <<>> THEN acc.out ELSE Append(acc.out, FilledUp(acc.word))
Words(packets) ==
    Rest(FoldLeft(LAMBDA acc, n : AfterPacket(Cut(acc.out, acc.word \o packets[n]), n),
                  [word |-> <<>>, out |-> <<>>], [n \in DOMAIN packets |-> n]))

\* The inner actions that send them, after one that turns to the controller.
Sending(a, opcode, data) ==
    [f \in {"OPCODE", "DATA"} |-> IF f = "DATA" THEN data ELSE opcode]
      @@ [f \in {"GID"} \cap DOMAIN a.args |-> a.args[f]]
Inner(a) ==
    LET words == Words(McPackets(a))
    IN  <<Sending(a, 10, 16)>> \o [i \in DOMAIN words |-> Sending(a, 11, Number(words[i]))]
SentBy(inner) == FlattenSeq([i \in DOMAIN inner |-> Direct(inner[i], FALSE)])
AllOk(inner) == \A i \in DOMAIN inner : DirectOk(inner[i])

-----------------------------------------------------------------------------
\* The action on MCI packets: what goes in and what is to come out.
MciOk(a) == a.mode \in {"io", "serial"} => Len(a.in) = Len(a.out)
MciPackets(a) == [i \in DOMAIN a.in |-> [in |-> a.in[i], out |-> <<>>]]
                   \o IF a.mode = "ii" THEN <<>>
                      ELSE [i \in DOMAIN a.out |-> [in |-> <<>>, out |-> a.out[i]]]

PacketOk(a) ==
    CASE a.op = "direct_packet" -> DirectOk(a.args)
      [] a.op = "stf2mci" -> McOk(a) /\ AllOk(Inner(a))
      [] a.op = "mci" -> MciOk(a)
\* What the action puts into the stimulus.
PacketsOf(a) ==
    CASE a.op = "direct_packet" -> Direct(a.args, a.read)
      [] a.op = "stf2mci" -> SentBy(Inner(a))
      [] a.op = "mci" -> MciPackets(a)
=============================================================================
