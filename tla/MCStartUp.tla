------------------------------- MODULE MCStartUp -------------------------------
(***************************************************************************)
(* Instances of StartUp in three families: command lines before a small      *)
(* configuration, configurations behind a few command lines, and             *)
(* dictionaries of all types of collaterals, small and large.                *)
(***************************************************************************)
EXTENDS StartUp

T(w) == [kind |-> "text", s |-> w]
E(n) == [kind |-> "env", s |-> n]
F(n) == [kind |-> "fun", s |-> n]
Filt(n, exp) == [NoFilter EXCEPT !.env = {n}, !.exp = exp]

Image == "HTD_COLLATERALS_SAVED_IMAGE" :> <<"dir">>

-----------------------------------------------------------------------------
\* Command lines.
MCEnvArgs == "ENV:A" :> "A" @@ "ENV:B" :> "B"
MCCfgArgs == "CFG:C:k" :> <<"C", "k">> @@ "CFG:C:n" :> <<"C", "n">> @@ "CFG:D:k" :> <<"D", "k">>
             @@ "CFG:INFO:collateral_compressor" :> Compressor
MCDeclared == {"check", "collateral_exclude", "collateral_compile", "silent_mode", "load_cfg"}

Arg(k, v) == [kind |-> "arg", name |-> k, value |-> v]
Begin(n) == [kind |-> "flow", n |-> n]
End(n) == [kind |-> "end", n |-> n]
Single(k) == [kind |-> "single", name |-> k]
Help(k) == [kind |-> "help", name |-> k]
Name(v) == Arg("flow_name", v)

Loose == {Arg("check", <<"0">>), Arg("ENV:A", <<"u">>), Arg("CFG:C:k", <<"1">>),
          Arg("CFG:C:k", <<"v">>), Arg("CFG:C:n", <<"v">>), Arg("CFG:D:k", <<"1">>),
          Arg("CFG:INFO:collateral_compressor", <<"zip">>),
          Arg("load_cfg", <<"load">>), Arg("load_cfg", <<"again">>), Arg("load_cfg", <<"gone">>),
          Arg("p", <<"1">>), Begin(2), End(1), End(2), Arg("check", None),
          Single("collateral_compile"), Single("te_cfg_env"), Help("help"), Help("cmd_help")}
Inner == {Arg("p", <<"1">>), Arg("p", <<"0">>), Arg("ENV:A", <<"u">>), Arg("check", <<"0">>),
          Begin(2), End(2)}

Flow(n, name, inside) == <<Begin(n), Name(name)>> \o inside \o <<End(n)>>
CmdLines ==
    {<<v, w>> : v, w \in Loose}
    \cup {Flow(1, "F1", i) \o o : i \in BoundedSeq(Inner, 2), o \in BoundedSeq(Loose, 1)}
    \cup {Flow(1, "F1", <<Arg("p", <<"1">>)>>) \o <<v, w>> : v, w \in Loose}
    \cup {Flow(1, a, <<Arg("p", <<"1">>)>>) \o Flow(2, b, i) :
            a, b \in {"F1", "F2", "F3"}, i \in BoundedSeq(Inner, 1)}

\* A flow that runs a test file.
Spf(local) == [base |-> "t", type |-> "spf", local |-> local]
Py(local) == [base |-> "t", type |-> "py", local |-> local]
Obj == [base |-> "t", type |-> "obj", local |-> FALSE]
TestLine(src) == Flow(1, "EXTERNAL_TEST", <<Arg("src", src), Arg("p", <<"1">>)>>)
TestEnvs == {NoMap, "TEST_FULL_NAME" :> Obj, "TEST_FULL_NAME" :> Spf(FALSE),
             "PACMAN_NAME" :> "T1" @@ "PACMAN_ARGS" :> ("p" :> <<"0">>),
             "HTD_FILE_TYPE_PY" :> <<"disable">>}
TestStarts ==
    {[line |-> TestLine(src), env |-> e @@ Image, main |-> <<"cmd">>, files |-> files,
      exclude |-> {}] :
        src \in {Cmdline, Spf(FALSE), Py(FALSE), Obj}, e \in TestEnvs,
        files \in SUBSET {Spf(FALSE), Py(TRUE), Py(FALSE), Obj}}

-----------------------------------------------------------------------------
\* Dictionaries and collaterals.
Collateral(name, type, path) ==
    [name |-> name, type |-> type, path |-> path, filter |-> NoFilter]
Dict(type, large, entries) ==
    [name |-> "d", filter |-> NoFilter, refs |-> <<>>, attr |-> "c", entries |-> entries,
     large |-> large, patterns |-> <<"reg", "end">>]

EntryOf(fields) == [key |-> 0, node |-> "R", fields |-> fields, subs |-> NoMap, list |-> FALSE,
                    kvf |-> FALSE, optional |-> {}]
Plain == <<EntryOf("a" :> 1)>>
Entry2 == EntryOf("b" :> 2)
TextEntries ==
    "plain" :> Plain @@ "two" :> <<EntryOf("a" :> 1), Entry2>> @@
    "list" :> <<[EntryOf("a" :> 1) EXCEPT !.list = TRUE]>> @@
    "kvlist" :> <<[EntryOf("a" :> 1) EXCEPT !.list = TRUE, !.kvf = TRUE]>> @@
    "kv" :> <<[EntryOf("a" :> 1) EXCEPT !.kvf = TRUE]>> @@
    "sub" :> <<[EntryOf("a" :> 1) EXCEPT !.subs = "s" :> [Entry2 EXCEPT !.key = 1]]>>

XEntry == [EntryOf("a" :> "va") EXCEPT !.key = "name"]
XSub == [EntryOf("a" :> "va") EXCEPT !.key = "name", !.node = "S"]
XmlEntries ==
    "plain" :> <<XEntry>> @@
    "optional" :> <<[XEntry EXCEPT !.optional = {"a", "name"}]>> @@
    "list" :> <<[XEntry EXCEPT !.list = TRUE]>> @@
    "kvlist" :> <<[XEntry EXCEPT !.list = TRUE, !.kvf = TRUE]>> @@
    "sub" :> <<[XEntry EXCEPT !.subs = "S" :> XSub, !.optional = {"a"}]>>

Row(words) == [kind |-> "row", words |-> words]
LineOf(kind) == [kind |-> kind, words |-> <<"reg", kind>>]
Blank == [kind |-> "blank", words |-> <<>>]
TextOf ==
    "rows" :> <<Row(<<"k", "1", "u">>), Row(<<"l", "x", "2">>), Row(<<"k", "y", "v">>)>> @@
    "heads" :> <<LineOf("title"), Row(<<"h", "h", "h">>), Row(<<"k", "1", "u">>), LineOf("comment"),
                 Row(<<"k", "2", "u">>)>> @@
    "short" :> <<Row(<<"k", "1">>), Row(<<"l", "x">>), Row(<<"k", "x">>)>> @@
    "odd" :> <<Row(<<"k", "1", "u">>), Blank, Row(<<"l">>)>> @@
    "user" :> <<Row(<<"reg", "k", "1">>), Row(<<"end", "u">>), LineOf("comment"),
                Row(<<"reg", "k", "2">>), Row(<<"end", "v">>), Row(<<"reg", "l", "2">>), Row(<<"end", "v">>)>>

Block(name, a, subs) == [node |-> "R", vals |-> "name" :> name @@ "va" :> a, subs |-> subs]
Node(name, a) == [node |-> "S", vals |-> "name" :> name @@ "va" :> a]
XmlTextOf ==
    "rows" :> <<Block("k", "1", <<>>), Block("l", "x", <<>>), Block("m", "y", <<Node("s", "1")>>)>> @@
    "heads" :> <<Block("k", "1", <<Node("s", "1")>>), Block("k", "2", <<Node("t", "2")>>),
                 [Block("j", "1", <<>>) EXCEPT !.vals = "va" :> "1"]>> @@
    "short" :> <<Block("1", "x", <<>>), [Block("l", "1", <<>>) EXCEPT !.vals = "name" :> "l"]>> @@
    "odd" :> <<Block("k", "1", <<Node("s", "1"), Node("t", "2"), Node("u", "3")>>),
               Block("l", "1", <<Node("s", "1"), Node("t", "2"), Node("u", "x"), Node("v", "3")>>)>> @@
    "user" :> <<[Block("k", "1", <<>>) EXCEPT !.node = "Q"]>>


-----------------------------------------------------------------------------
\* Configurations.
MCFunctors == "fn" :> <<"1">>
MCFlowClasses == {<<"F1">>, <<"F2">>, <<"F3", <<"R">>>>, <<"EXTERNAL_TEST">>}

SetOf(name, expr) == [filter |-> NoFilter, noSourceme |-> FALSE,
                      sets |-> <<[name |-> name, value |-> expr]>>]
Setenvs ==
    "none" :> SetOf("Z", <<T("z")>>) @@
    "A=x" :> SetOf("A", <<T("x")>>) @@
    "A=B" :> SetOf("A", <<E("B")>>) @@
    "A=Ax" :> SetOf("A", <<E("A"), T("x")>>) @@
    "A=f" :> SetOf("A", <<F("f")>>) @@
    "A=x?B~y" :> [SetOf("A", <<T("x")>>) EXCEPT !.filter = Filt("B", "y")] @@
    "A=x,C=x?noC" :> [SetOf("A", <<T("x")>>) EXCEPT !.filter.noEnv = {"C"}, !.sets =
                        Append(@, [name |-> "C", value |-> <<T("x")>>])] @@
    "A=x?f" :> [SetOf("A", <<T("x")>>) EXCEPT !.filter.functor = "f"] @@
    "B=y" :> SetOf("B", <<T("y")>>) @@
    "B=A" :> SetOf("B", <<E("A")>>) @@
    "A=x,C=A" :> [SetOf("A", <<T("x")>>) EXCEPT !.sets =
                    Append(@, [name |-> "C", value |-> <<E("A")>>])]
Options == DOMAIN Setenvs

Import(name, optional) == [file |-> name, optional |-> optional]
Imports3 == "no" :> <<>> @@ "yes" :> <<Import(<<T("imp")>>, None)>>
            @@ "opt" :> <<Import(<<E("B")>>, "1")>> @@ "bad" :> <<Import(<<T("gone")>>, None)>>

Var(key, expr, f) == [key |-> key, attr |-> None, value |-> expr, filter |-> f]
CfgC == [cat |-> "C", dynamic |-> TRUE, other |-> NoMap, filter |-> NoFilter,
         vars |-> <<Var("k", <<T("1")>>, NoFilter), Var("m", <<T("1")>>, Filt("A", "x")),
                    Var("m", <<E("A")>>, [NoFilter EXCEPT !.noEnv = {"B"}])>>]
CfgInfo == [cat |-> "INFO", dynamic |-> FALSE, filter |-> NoFilter, vars |-> <<>>,
            other |-> <<"ui", "class">> :> <<T("U")>>]
Rev(type, rev) == [cat |-> "FLOWREV_TABLE", dynamic |-> FALSE, filter |-> NoFilter,
                   other |-> NoMap,
                   vars |-> <<[Var(type, <<T(rev)>>, NoFilter) EXCEPT !.attr = "rev"]>>]
NoDict == [cat |-> "tap", dictionary |-> <<T("NONE")>>, filter |-> NoFilter]

CfgDoc(a, b, i) ==
    [NoDocument EXCEPT !.functors = IF i = "yes" THEN <<>> ELSE <<[name |-> "f", path |-> "fn"]>>,
                       !.setenvs = <<Setenvs[a], Setenvs[b]>>, !.imports = Imports3[i],
                       !.cfgs = <<CfgInfo, CfgC>>, !.accesses = <<NoDict>>]
ImpDoc == [NoDocument EXCEPT !.setenvs = <<SetOf("B", <<E("A")>>)>>,
                             !.functors = <<[name |-> "f", path |-> "fn"]>>,
                             !.cfgs = <<[CfgC EXCEPT !.vars = <<Var("k", <<E("A")>>, NoFilter)>>]>>]
SplitDoc == [NoDocument EXCEPT !.setenvs = <<SetOf("A", <<T("w")>>)>>]
CmdDoc == [NoDocument EXCEPT !.setenvs = <<SetOf("A", <<T("x")>>)>>,
                             !.cfgs = <<CfgInfo, CfgC, Rev("F3", "R")>>, !.accesses = <<NoDict>>,
                             !.collaterals = <<Collateral("c", "tab", <<T("rows")>>)>>,
                             !.dictionaries = <<Dict("tab", "no", Plain)>>]

\* Documents of -load_cfg: one replaces a key and adds an access, the other one
\* repeats an access.
LoadDoc == [NoDocument EXCEPT
    !.setenvs = <<SetOf("A", <<T("w")>>)>>,
    !.cfgs = <<[CfgC EXCEPT !.vars = <<Var("k", <<E("A")>>, NoFilter)>>]>>,
    !.accesses = <<[NoDict EXCEPT !.cat = "stf", !.dictionary = <<T("d")>>]>>]
AgainDoc == [NoDocument EXCEPT !.accesses = <<NoDict>>]

MCSignals == <<"sigs">> :> <<<<"k", "top">>, <<"n", "top">>, <<"k", "other">>>>


Types == {"csv", "tab", "user", "xml"}
DictDoc(type, large, entries, text, compressor) ==
    [NoDocument EXCEPT
        !.cfgs = <<[CfgInfo EXCEPT !.vars = <<Var("collateral_compressor", <<T(compressor)>>, NoFilter)>>,
                                   !.other = NoMap]>>,
        !.collaterals = <<Collateral("c", type, IF type = "xml" THEN <<T("xml"), T(text)>>
                                                ELSE <<T(text)>>)>>,
        !.dictionaries = <<Dict(type, large, IF type = "xml" THEN XmlEntries[entries]
                                             ELSE TextEntries[entries])>>,
        !.accesses = <<[NoDict EXCEPT !.dictionary = <<T("d")>>]>>]
DictNames ==
    {<<"dict", type, large, entries, text, "json">> :
        type \in Types \ {"xml"}, large \in {"yes", "no"},
        entries \in DOMAIN TextEntries, text \in DOMAIN TextOf}
    \cup {<<"dict", "xml", large, entries, text, compressor>> :
        large \in {"yes", "no"}, entries \in DOMAIN XmlEntries, text \in DOMAIN XmlTextOf,
        compressor \in {"json", "pickle"}}
    \cup {<<"dict", "tab", "yes", "plain", "gone", "json">>}

-----------------------------------------------------------------------------
CfgNames == {<<"cfg", a, b, i, "whole">> : a, b \in Options, i \in DOMAIN Imports3}
            \cup {<<"cfg", a, b, "no", "split">> : a, b \in Options}
DocumentOf(n) ==
    CASE n[1] = "cfg" -> [CfgDoc(n[2], n[3], n[4]) EXCEPT
                            !.splits = IF n[5] = "split" THEN <<<<T("split")>>>> ELSE <<>>]
      [] n[1] = "cmd" -> CmdDoc
      [] n[1] = "imp" -> ImpDoc
      [] n[1] = "split" -> SplitDoc
      [] n[1] = "load" -> LoadDoc
      [] n[1] = "again" -> AgainDoc
      [] n[1] = "dict" -> DictDoc(n[2], n[3], n[4], n[5], n[6])
MCDocuments == [n \in CfgNames \cup DictNames \cup {<<"cmd">>, <<"imp">>, <<"split">>, <<"load">>, <<"again">>} |->
                 DocumentOf(n)]
MCTexts == [n \in {<<k>> : k \in DOMAIN TextOf} \cup {<<"xml", k>> : k \in DOMAIN XmlTextOf} |->
              IF Len(n) = 1 THEN TextOf[n[1]] ELSE XmlTextOf[n[2]]]

Begun(l, e, main, files, exclude) ==
    [line |-> l, env |-> e @@ Image, main |-> main, files |-> files, exclude |-> exclude]
CmdStarts ==
    {Begun(l, NoMap, <<"cmd">>, {}, x) : l \in CmdLines, x \in {{}}}
    \cup {Begun(<<Single("collateral_compile"), Arg("collateral_exclude", <<"d">>)>>, NoMap, <<"cmd">>, {}, x) :
            x \in {{"d"}, {"e"}}}
    \cup {Begun(<<>>, "HTD_SIGNALS_MAP" :> <<"gone">>, <<"cmd">>, {}, {})}
SetFirst == "A" :> <<"split">> @@ "B" :> <<"imp">>
CfgStarts ==
    {Begun(s[1], s[2], main, {}, {}) : main \in CfgNames,
        s \in {<<<<>>, NoMap>>, <<<<>>, SetFirst>>,
               <<<<>>, "C" :> <<"c">> @@ "HTD_SIGNALS_MAP" :> <<"sigs">>>>,
               <<<<Arg("ENV:A", <<"u">>)>>, SetFirst>>, <<<<Single("te_cfg_env")>>, NoMap>>}}
DictStarts == {Begun(<<>>, NoMap, main, {}, {}) : main \in DictNames}
MCStarts == CmdStarts \cup TestStarts \cup CfgStarts \cup DictStarts
=============================================================================
