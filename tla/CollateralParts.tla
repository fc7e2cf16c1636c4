---------------------------- MODULE CollateralParts ----------------------------
(***************************************************************************)
(* What one dictionary makes of one collateral: the reading of csv, tab,     *)
(* user and xml texts, the application of a dictionary entry to a row or to  *)
(* a block, the division of large texts into parts and the merge of what     *)
(* the parts gave (htd_info/htd_collaterals_parser.py).                      *)
(*                                                                         *)
(* A line of a text is [kind, words], with kind "row", "comment", "dash"     *)
(* (or #), "title" (CSV_FORMAT) or "blank", and starts without a space.  An  *)
(* XML text is a sequence of blocks [node, vals, subs], vals a function of   *)
(* names and subs a sequence of [node, vals].                                *)
(*                                                                         *)
(* An entry of a dictionary is [key, node, fields, subs, list, kvf,          *)
(* optional]: fields is a function of names to columns (in a text) or to     *)
(* names (in a block), subs a function of names to entries without subs,     *)
(* optional the names with "?", kvf key_value_format.  An entry with kvf has *)
(* one field; a name is a list in all entries of a dictionary or in none.    *)
(*                                                                         *)
(* A dictionary is a function of paths, sequences of values, to leaves.      *)
(***************************************************************************)
EXTENDS Integers, Sequences, FiniteSets, SequencesExt, FiniteSetsExt, Functions

CONSTANTS
    DigitWords,     \* words that are numbers
    LinesPerPart,   \* lines of a part of a large text
    SecondLevel,    \* size from which a block is divided further
    Heavy           \* size from which a part is worth a process

ASSUME PartLimits ==
    /\ LinesPerPart \in Nat \ {0}
    /\ SecondLevel \in Nat \ {0}
    /\ Heavy \in Nat

\* A value is a word, a number or a word that kept the end of its line.
Text(w) == [v |-> w, number |-> FALSE, eol |-> FALSE]
Normal(x) == [x EXCEPT !.number = x.v \in DigitWords,
                       !.eol = x.eol /\ x.v \notin DigitWords]

One(x) == [kind |-> "one", vals |-> {x}]
List(X) == [kind |-> "list", vals |-> X]
Empty == [kind |-> "dict", vals |-> {}]
Nothing == [p \in {} |-> Empty]

Below(p, q) == Len(p) > Len(q) /\ SubSeq(p, 1, Len(q)) = q

(***************************************************************************)
(* util_merge_dictionaries: dictionaries are merged, lists united, and of    *)
(* anything else the second wins.                                           *)
(***************************************************************************)
Merge(a, b) ==
    LET lost == {q \in DOMAIN a : \E p \in DOMAIN b :
                    Below(p, q) \/ (Below(q, p) /\ b[p] # Empty)}
        idle == {p \in DOMAIN b : b[p] = Empty /\ \E q \in DOMAIN a : Below(q, p)}
        both(p) == p \in DOMAIN a /\ a[p].kind = "list" /\ b[p].kind = "list"
    IN  [p \in (DOMAIN a \ lost) \cup (DOMAIN b \ idle) |->
           IF p \notin DOMAIN b THEN a[p]
           ELSE IF both(p) THEN List(a[p].vals \cup b[p].vals) ELSE b[p]]

Without(a, top) == [p \in {q \in DOMAIN a : q # top /\ ~Below(q, top)} |-> a[p]]
Under(top, a) == [p \in {top \o q : q \in DOMAIN a} |-> a[SubSeq(p, Len(top) + 1, Len(p))]]

\* A result with its error.
Good(res) == [ok |-> TRUE, res |-> res]
Wrong == [ok |-> FALSE, res |-> Nothing]

-----------------------------------------------------------------------------
(***************************************************************************)
(* Rows of csv and tab texts.                                               *)
(***************************************************************************)
Column(words, c) == words[c + 1]
HasColumns(entry, words) ==
    /\ entry.key < Len(words)
    /\ \A f \in DOMAIN entry.fields : entry.fields[f] < Len(words)

Leaf(entry, x) == IF entry.list THEN List({Normal(x)}) ELSE One(Normal(x))

\* Fields of a row under its key; Merge with what there is adds to a list
\* and replaces a value.
RowLeaves(entry, words) ==
    LET key == Column(words, entry.key)
    IN  IF entry.kvf
          THEN [p \in {<<key>>} |->
                 Leaf(entry, Column(words, entry.fields[CHOOSE f \in DOMAIN entry.fields : TRUE]))]
        ELSE [p \in {<<key, Text(f)>> : f \in DOMAIN entry.fields} |->
                 Leaf(entry, Column(words, entry.fields[p[2].v]))]

\* With key_value_format and no list the key must be there: KeyError.
KeyKnown(entry, words, res) ==
    entry.kvf /\ ~entry.list => <<Column(words, entry.key)>> \in DOMAIN res

\* A dictionary of the second level goes under the key, without its name.
TabSub(words, acc, sub) ==
    LET top == <<Column(words, acc.key)>>
    IN  IF ~HasColumns(sub, words) \/ (sub.kvf /\ ~sub.list) THEN [acc EXCEPT !.ok = FALSE]
        ELSE [acc EXCEPT !.res = Merge(@, Under(top, RowLeaves(sub, words)))]

TabRow(entry, acc, words) ==
    IF ~acc.ok THEN acc
    ELSE IF ~HasColumns(entry, words) \/ ~KeyKnown(entry, words, acc.res) THEN Wrong
    ELSE LET own == Merge(acc.res, RowLeaves(entry, words))
             all == FoldLeft(LAMBDA a, s : TabSub(words, a, s),
                             [ok |-> TRUE, res |-> own, key |-> entry.key],
                             SetToSeq({entry.subs[n] : n \in DOMAIN entry.subs}))
         IN  [ok |-> all.ok, res |-> all.res]

TabRows(entry, res, rows) == FoldLeft(LAMBDA a, w : TabRow(entry, a, w), Good(res), rows)

-----------------------------------------------------------------------------
(***************************************************************************)
(* Reading of lines.  In a small csv text the line after a title is skipped  *)
(* too and a blank line is a row of one empty word; the handler of a part    *)
(* skips titles and blank lines only.  In a large tab text the last word     *)
(* keeps the end of its line (re.split(" +")), in a small one it does not.   *)
(***************************************************************************)
Words(line) == [i \in DOMAIN line.words |-> Text(line.words[i])]

CsvSmallLine(acc, line) ==
    CASE line.kind \in {"comment", "dash"} -> acc
      [] line.kind = "title" -> [acc EXCEPT !.skip = TRUE]
      [] acc.skip -> [acc EXCEPT !.skip = FALSE]
      [] OTHER -> [acc EXCEPT !.rows =
                     Append(@, IF line.kind = "blank" THEN <<Text("")>> ELSE Words(line))]
CsvSmall(text) ==
    FoldLeft(LAMBDA a, l : CsvSmallLine(a, l), [skip |-> FALSE, rows |-> <<>>], text).rows

RowsOf(text, kinds, Read(_)) ==
    LET lines == SelectSeq(text, LAMBDA l : l.kind \in kinds)
    IN  [i \in DOMAIN lines |-> Read(lines[i])]

CsvPart(text) == RowsOf(text, {"row"}, Words)

Unstripped(words) == [words EXCEPT ![Len(words)].eol = TRUE]
TabLine(line) == Unstripped(IF line.words = <<>> THEN <<Text("")>> ELSE Words(line))
NotComment == {"row", "dash", "title", "blank"}
TabSmall(text) == RowsOf(text, NotComment, Words)
TabPart(text) == RowsOf(text, NotComment, TabLine)

-----------------------------------------------------------------------------
(***************************************************************************)
(* User texts: a window of as many lines as the regular expression has, one  *)
(* line further each time.  The window is filled with the first lines,       *)
(* comments included, and matched when one more line was read, so that the   *)
(* last window is not matched - unless by the next entry of the dictionary,  *)
(* which goes on with the lines the one before it left.  A collateral has a  *)
(* comment mark, and at least as many lines as the expression.  A pattern is *)
(* the first word of its line; the groups of a match are the other words.    *)
(***************************************************************************)
Groups(window, patterns) ==
    FlattenSeq([i \in DOMAIN patterns |-> Tail(Words(window[i]))])

Fits(window, patterns) == \A i \in DOMAIN patterns :
    window[i].words # <<>> /\ window[i].words[1] = patterns[i]

Lines(queue, text, n) ==
    LET first == IF queue = <<>> THEN SubSeq(text, 1, n) ELSE queue
        rest == IF queue = <<>> THEN SubSeq(text, n + 1, Len(text)) ELSE text
    IN  first \o SelectSeq(rest, LAMBDA l : l.kind \notin {"comment", "blank"})

UserRows(lines, patterns) ==
    LET n == Len(patterns)
        windows == [i \in 1..Len(lines) - n |-> SubSeq(lines, i, i + n - 1)]
        matched == SelectSeq(windows, LAMBDA w : Fits(w, patterns))
    IN  [i \in DOMAIN matched |-> Groups(matched[i], patterns)]

\* Each row empties the list of a field; a second level has its name in the path.
UserLeaves(entry, words) ==
    Merge(RowLeaves(entry, words),
          [p \in UNION {{<<Column(words, entry.key), Text(n)>> \o q :
                           q \in DOMAIN RowLeaves(entry.subs[n], words)} :
                        n \in DOMAIN entry.subs} |->
             RowLeaves(entry.subs[p[2].v], words)[SubSeq(p, 3, Len(p))]])

UserRow(entry, acc, words) ==
    LET emptied(res) == [p \in {q \in DOMAIN res : entry.kvf \/ ~entry.list
                                   \/ q \notin DOMAIN RowLeaves(entry, words)} |-> res[p]]
    IN  IF \/ ~acc.ok
           \/ ~HasColumns(entry, words)
           \/ \E n \in DOMAIN entry.subs : ~HasColumns(entry.subs[n], words)
          THEN Wrong
        ELSE Good(Merge(emptied(acc.res), UserLeaves(entry, words)))

UserEntry(entry, acc, text, patterns) ==
    LET lines == Lines(acc.queue, text, Len(patterns))
        rows == FoldLeft(LAMBDA a, w : UserRow(entry, a, w),
                         [ok |-> acc.ok, res |-> acc.res], UserRows(lines, patterns))
    IN  [ok |-> rows.ok, res |-> rows.res,
         queue |-> SubSeq(lines, Len(lines) - Len(patterns) + 1, Len(lines))]

UserText(entries, text, patterns) ==
    LET all == FoldLeft(LAMBDA a, e : UserEntry(e, a, text, patterns),
                        [ok |-> TRUE, res |-> Nothing, queue |-> <<>>], entries)
    IN  [ok |-> all.ok, res |-> all.res]

-----------------------------------------------------------------------------
(***************************************************************************)
(* XML blocks.  A block replaces what its key had (res[keyValue] = {}).      *)
(* A list without key_value_format uses a name that is not set: NameError.   *)
(***************************************************************************)
Keyed(entry, b) == entry.key \in DOMAIN b.vals
Complete(entry, b) ==
    \A f \in DOMAIN entry.fields :
        f \in entry.optional \/ entry.fields[f] \in DOMAIN b.vals
Found(entry, b) == {f \in DOMAIN entry.fields : entry.fields[f] \in DOMAIN b.vals}

XmlValue(w) == Normal(Text(w))

XmlLeaves(entry, b) ==
    LET key == XmlValue(b.vals[entry.key])
        there == Found(entry, b)
        val(f) == XmlValue(b.vals[entry.fields[f]])
    IN  CASE entry.list -> <<key>> :> List({val(f) : f \in there})
          [] entry.kvf /\ there # {} -> <<key>> :> One(val(CHOOSE f \in there : TRUE))
          [] there = {} -> <<key>> :> Empty
          [] OTHER -> [p \in {<<key, Text(f)>> : f \in there} |-> One(val(p[2].v))]

XmlOk(entry, b) ==
    IF Keyed(entry, b) THEN (entry.list => entry.kvf) /\ Complete(entry, b)
    ELSE entry.key \in entry.optional

XmlNode(entry, acc, b) ==
    IF ~acc.ok \/ ~XmlOk(entry, b) THEN Wrong
    ELSE IF ~Keyed(entry, b) THEN acc
    ELSE Good(Merge(Without(acc.res, <<XmlValue(b.vals[entry.key])>>), XmlLeaves(entry, b)))

XmlNodes(entry, res, blocks) ==
    FoldLeft(LAMBDA a, b : XmlNode(entry, a, b), Good(res),
             SelectSeq(blocks, LAMBDA b : b.node = entry.node))

\* res[key][name] = {}, then the nodes of the second level.
XmlSub(entry, acc, b, n) ==
    LET inner == XmlNodes(entry.subs[n], Nothing, b.subs)
        top == <<XmlValue(b.vals[entry.key]), Text(n)>>
    IN  IF ~acc.ok \/ ~inner.ok THEN Wrong
        ELSE Good(Merge(acc.res, IF DOMAIN inner.res = {} THEN top :> Empty
                                 ELSE Under(top, inner.res)))

XmlBlock(entry, acc, b) ==
    LET own == XmlNode(entry, acc, b)
    IN  IF ~own.ok \/ ~Keyed(entry, b) THEN own
        ELSE FoldLeft(LAMBDA a, n : XmlSub(entry, a, b, n), own, SetToSeq(DOMAIN entry.subs))

XmlText(entry, res, blocks) ==
    FoldLeft(LAMBDA a, b : XmlBlock(entry, a, b), Good(res),
             SelectSeq(blocks, LAMBDA b : b.node = entry.node))

-----------------------------------------------------------------------------
(***************************************************************************)
(* The division of a large text: a csv or tab text by lines, an XML text by  *)
(* blocks, and a block above SecondLevel by its nodes of the second level.   *)
(***************************************************************************)
LinePartsShort(text) ==    \* mutant: the last line of a part is lost
    [i \in 1..((Len(text) + LinesPerPart - 1) \div LinesPerPart) |->
        SubSeq(text, (i - 1) * LinesPerPart + 1, Min({i * LinesPerPart, Len(text)}) - 1)]
LineParts(text) ==
    [i \in 1..((Len(text) + LinesPerPart - 1) \div LinesPerPart) |->
        SubSeq(text, (i - 1) * LinesPerPart + 1, Min({i * LinesPerPart, Len(text)}))]

Size(b) == 1 + Cardinality(DOMAIN b.vals)
           + FoldLeft(LAMBDA n, s : n + 1 + Cardinality(DOMAIN s.vals), 0, b.subs)

\* second_level_split_xml_large_file: a group is closed when it holds more
\* elements than nodes fall to a part; nodes after the last group closed are
\* in no part.
Elements(entry, s) ==
    1 + Cardinality({f \in DOMAIN entry.subs[s.node].fields :
                        entry.subs[s.node].fields[f] \in DOMAIN s.vals})

Grouped(entry, acc, s, most) ==
    LET group == Append(acc.group, s)
        count == acc.count + Elements(entry, s)
    IN  IF count > most THEN [count |-> 1, group |-> <<>>, closed |-> Append(acc.closed, group)]
        ELSE [acc EXCEPT !.count = count, !.group = group]

Groupings(entry, b) ==
    LET isNode(s) == s.node \in DOMAIN entry.subs
        most == Cardinality({i \in DOMAIN b.subs : isNode(b.subs[i])}) \div (Size(b) \div SecondLevel)
    IN  FoldLeft(LAMBDA a, s : IF isNode(s) THEN Grouped(entry, a, s, most) ELSE a,
                 [count |-> 1, group |-> <<>>, closed |-> <<>>], b.subs).closed

BlockParts(entry, b) ==
    IF Size(b) > SecondLevel /\ DOMAIN entry.subs # {}
      THEN LET groups == Groupings(entry, b)
           IN  [i \in DOMAIN groups |-> [b EXCEPT !.subs = groups[i]]]
    ELSE <<b>>

XmlParts(entry, text) ==
    LET blocks == FlattenSeq([i \in DOMAIN text |->
                     IF text[i].node = entry.node THEN BlockParts(entry, text[i]) ELSE <<>>])
    IN  [i \in DOMAIN blocks |-> <<blocks[i]>>]

Parts(type, entry, text) == IF type = "xml" THEN XmlParts(entry, text) ELSE LineParts(text)

\* XML parts are submitted from the largest to the smallest and merged from
\* the smallest to the largest; the others in the order of the text.
Smaller(parts, i, j) == \/ Size(parts[i][1]) < Size(parts[j][1])
                        \/ Size(parts[i][1]) = Size(parts[j][1]) /\ i < j
Larger(parts, i, j) == \/ Size(parts[i][1]) > Size(parts[j][1])
                       \/ Size(parts[i][1]) = Size(parts[j][1]) /\ i < j

\* The k-th of the parts.
MergeOrder(type, parts, k) ==
    IF type # "xml" THEN k
    ELSE CHOOSE i \in DOMAIN parts : Cardinality({j \in DOMAIN parts : Smaller(parts, j, i)}) = k - 1
SubmitOrder(type, parts, k) ==
    IF type # "xml" THEN k
    ELSE CHOOSE i \in DOMAIN parts : Cardinality({j \in DOMAIN parts : Larger(parts, j, i)}) = k - 1

(***************************************************************************)
(* What the handler of a part leaves in its file.  As JSON, keys that are    *)
(* numbers come back as texts; pickle cannot write to a file of text.        *)
(***************************************************************************)
Handled(type, entry, part) ==
    CASE type = "csv" -> TabRows(entry, Nothing, CsvPart(part))
      [] type = "tab" -> TabRows(entry, Nothing, TabPart(part))
      [] type = "xml" -> XmlText(entry, Nothing, part)

AsKeys(p) == [i \in DOMAIN p |-> [p[i] EXCEPT !.number = FALSE]]
Filed(res) == [p \in {AsKeys(q) : q \in DOMAIN res} |->
                 res[CHOOSE q \in DOMAIN res : AsKeys(q) = p]]

InFile(type, entry, part, compressor) ==
    LET done == Handled(type, entry, part)
    IN  IF done.ok /\ compressor = "json" THEN Good(Filed(done.res)) ELSE Wrong

\* A collateral in one piece, all entries of its dictionary; res is what the
\* dictionary has before it.
Entries(Apply(_, _), entries, res) ==
    FoldLeft(LAMBDA a, e : IF a.ok THEN Apply(e, a.res) ELSE a, Good(res), entries)

MergedInto(res, one) == IF one.ok THEN Good(Merge(res, one.res)) ELSE one

Whole(type, entries, res, text, patterns) ==
    CASE type = "xml" -> Entries(LAMBDA e, r : XmlText(e, r, text), entries, res)
      [] type = "csv" ->
           MergedInto(res, Entries(LAMBDA e, r : TabRows(e, r, CsvSmall(text)), entries, Nothing))
      [] type = "tab" ->
           MergedInto(res, Entries(LAMBDA e, r : TabRows(e, r, TabSmall(text)), entries, Nothing))
      [] type = "user" ->
           MergedInto(res, UserText(entries, text, patterns))
      [] OTHER -> Wrong
=============================================================================
